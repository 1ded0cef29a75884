--------------------------- MODULE WebClientProofs ---------------------------
(***************************************************************************)
(* For any number of logins: one socket is live, a chat shows messages of  *)
(* its own session only, however late the callbacks of older sockets come, *)
(* and of a user who waits for them it lasts as long as the session does,  *)
(* the form says why it ended, and data are shown under their own name.    *)
(***************************************************************************)
EXTENDS WebClientProps, TLAPS

States == {"none", "connecting", "aborted", "open", "closing", "closed"}
Live == {"connecting", "open"}

(***************************************************************************)
(* Sockets are made one after the other, and only the last one is live:    *)
(* connect closes the one before (useChat.js:199-202).                     *)
(***************************************************************************)
Sequel ==
  /\ current \in 0..MaxSockets
  /\ readyState \in [Sockets -> States]
  /\ \A s \in Sockets : readyState[s] \in Live => s = current

\* No socket comes to life.
Calm(s) == readyState'[s] \in States /\ (readyState'[s] \in Live => readyState[s] \in Live)

LEMMA CalmKeeps ==
  ASSUME Sequel, current' = current, readyState' \in [Sockets -> States],
         \A s \in Sockets : Calm(s)
  PROVE  Sequel'
PROOF
  BY DEF Sequel, Calm

LEMMA ClosedStates ==
  ASSUME Sequel, NEW s
  PROVE  /\ Closed(s) \in [Sockets -> States]
         /\ \A t \in Sockets : Closed(s)[t] \in Live => readyState[t] \in Live /\ t # s
PROOF
  BY DEF Closed, Sequel, States, Live

LEMMA BrowserSequel ==
  ASSUME Sequel, NEW s \in Sockets, Browser(s)
  PROVE  Sequel'
PROOF
<1>1. CASE OnOpen(s)
  <2>1. readyState' = [readyState EXCEPT ![s] = "open"] /\ current' = current
        /\ readyState[s] = "connecting"
    BY <1>1 DEF OnOpen, view, refs
  <2> QED
    BY <2>1 DEF Sequel, States, Live
<1>2. CASE OnMessage(s)
  <2>1. current' = current /\ (readyState' = readyState \/ readyState' = Closed(current))
    BY <1>2 DEF OnMessage, Close, refs
  <2> QED
    BY <2>1, ClosedStates, CalmKeeps DEF Sequel, Calm
<1>3. CASE OnClose(s) \/ OnError(s)
  <2>1. \E e : Ended(s, e)
    BY <1>3 DEF OnClose, OnError
  <2>2. readyState' = [readyState EXCEPT ![s] = "closed"] /\ current' = current
    BY <2>1 DEF Ended, refs
  <2> QED
    BY <2>2 DEF Sequel, States, Live
<1> QED
  BY <1>1, <1>2, <1>3 DEF Browser

LEMMA UserSequel ==
  ASSUME Sequel, User
  PROVE  Sequel'
PROOF
<1>1. CASE Connect
  <2>1. /\ current < MaxSockets /\ current' = current + 1
        /\ readyState' = [Closed(current) EXCEPT ![current + 1] = "connecting"]
    BY <1>1, Zenon DEF Connect, NewSocket
  <2>2. MaxSockets \in Nat /\ current \in Nat
    BY WebClientAssumption DEF Sequel
  <2>3. current + 1 \in Sockets /\ current + 1 \in 0..MaxSockets
    BY <2>1, <2>2 DEF Sockets
  <2> DEFINE n == current + 1
  <2> HIDE DEF n
  <2>4. /\ Closed(current) \in [Sockets -> States]
        /\ \A t \in Sockets : Closed(current)[t] \notin Live
    BY ClosedStates DEF Sequel
  <2>5. readyState' \in [Sockets -> States]
        /\ \A t \in Sockets : readyState'[t] \in Live => t = n
    BY <2>1, <2>3, <2>4 DEF n, States
  <2> QED
    BY <2>1, <2>3, <2>5 DEF Sequel, n
<1>2. CASE Logout
  <2>1. current' = current /\ readyState' = Closed(current)
    BY <1>2, Zenon DEF Logout, EndSession, Close
  <2> QED
    BY <2>1, ClosedStates, CalmKeeps DEF Sequel, Calm
<1>3. CASE ~Connect /\ ~Logout
  <2>1. UNCHANGED <<current, readyState>>
    BY <1>3, Zenon
       DEF User, SendText, ChangeStatus, ListUsers, GetInfo, CloseInfo, Ask, refs, sockets
  <2> QED
    BY <2>1 DEF Sequel
<1> QED
  BY <1>1, <1>2, <1>3

\* What neither the browser nor the user does leaves the page alone.
LEMMA ElseSame ==
  ASSUME [Next]_vars, ~User, \A s \in Sockets : ~Browser(s)
  PROVE  UNCHANGED <<current, readyState, phase, messages>>
PROOF
<1>1. CASE \E s \in Sockets : Server(s)
  BY <1>1, Zenon
     DEF Server, Drop, Dial, FirstPacket, Serve, Reply, HangUp, page, session, view, refs
<1>2. CASE Greet \/ Poll \/ Announce
  BY <1>2, Zenon DEF Greet, Poll, Announce, page, session, view, refs
<1>3. CASE World
  BY <1>3, Zenon DEF World, Fail, page, session, view, refs
<1>4. CASE UNCHANGED vars
  BY <1>4 DEF vars, page, session, view, refs, sockets
<1> QED
  BY <1>1, <1>2, <1>3, <1>4 DEF Next

LEMMA SequelStep ==
  ASSUME Sequel, [Next]_vars
  PROVE  Sequel'
PROOF
<1>1. CASE \E s \in Sockets : Browser(s)
  BY <1>1, BrowserSequel
<1>2. CASE User
  BY <1>2, UserSequel
<1>3. CASE ~User /\ \A s \in Sockets : ~Browser(s)
  BY <1>3, ElseSame DEF Sequel
<1> QED
  BY <1>1, <1>2, <1>3

LEMMA SequelHolds == Spec => []Sequel
PROOF
<1>1. Init => Sequel
  <2> SUFFICES ASSUME Init PROVE Sequel
    OBVIOUS
  <2>1. current = 0 /\ readyState = [s \in Sockets |-> "none"]
    BY Zenon DEF Init
  <2>2. 0 \in 0..MaxSockets
    BY WebClientAssumption
  <2> QED
    BY <2>1, <2>2 DEF Sequel, States, Live
<1>2. Sequel /\ [Next]_vars => Sequel'
  BY SequelStep
<1> QED
  BY <1>1, <1>2, PTL DEF Spec

(***************************************************************************)
(* Only the socket of the last login opens or is open, however many logins *)
(* there were: no second session is kept beside the one shown.             *)
(***************************************************************************)
THEOREM LastSocketLives == Spec => []OneLiveSocket
PROOF
<1>1. Sequel => OneLiveSocket
  BY DEF Sequel, OneLiveSocket, Live
<1> QED
  BY <1>1, SequelHolds, PTL

-----------------------------------------------------------------------------
\* Messages

\* What a step does to the messages shown.
Shows ==
  \/ phase' = "chat" /\ messages' = {}
  \/ phase' # "chat"
  \/ phase' = phase /\ current' = current /\ messages' = messages
  \/ phase' = phase /\ current' = current /\ addMessage(current)

LEMMA BrowserShows ==
  ASSUME Sequel, NEW s \in Sockets, Browser(s)
  PROVE  Shows
PROOF
<1>1. CASE OnOpen(s)
  BY <1>1, Zenon DEF OnOpen, Shows, session, view, refs
<1>2. CASE OnMessage(s)
  <2> DEFINE p == Head(down[s])
  <2>1. handlePacket(s, p) /\ current' = current /\ s = current
    BY <1>2 DEF OnMessage, refs, Sequel, Live
  <2> HIDE DEF p
  <2>2. CASE Welcome(s, p)
    BY <2>2, Zenon DEF Welcome, NewChat, Shows
  <2>3. CASE TcpOk(p)
    BY <2>1, <2>3, Zenon DEF TcpOk, Shows, session, view
  <2>4. CASE StatusTold(s, p)
    BY <2>1, <2>4, Zenon DEF StatusTold, Shows, session
  <2>5. CASE ErrorTold(s, p)
    BY <2>1, <2>5, Zenon DEF ErrorTold, Shows, session
  <2>6. CASE Text(s, p) \/ Disconnected(s, p)
    BY <2>1, <2>6, Zenon DEF Text, Disconnected, Shows, session
  <2>7. CASE UserList(s, p)
    BY <2>1, <2>7, Zenon DEF UserList, Shows, session
  <2>8. CASE UserInfo(p)
    BY <2>1, <2>8, Zenon DEF UserInfo, Shows, session
  <2> QED
    BY <2>1, <2>2, <2>3, <2>4, <2>5, <2>6, <2>7, <2>8 DEF handlePacket
<1>3. CASE OnClose(s) \/ OnError(s)
  <2>1. \E e : Ended(s, e)
    BY <1>3 DEF OnClose, OnError
  <2>2. LeaveChat \/ UNCHANGED <<phase, messages>>
    BY <2>1, Zenon DEF Ended
  <2>3. current' = current
    BY <2>1, Zenon DEF Ended, refs
  <2> QED
    BY <2>2, <2>3 DEF LeaveChat, Shows
<1> QED
  BY <1>1, <1>2, <1>3 DEF Browser

LEMMA UserShows ==
  ASSUME User
  PROVE  Shows
PROOF
<1>1. CASE Connect
  <2>1. phase = "login" /\ phase' = phase
    BY <1>1, Zenon DEF Connect
  <2> QED
    BY <2>1 DEF Shows
<1>2. CASE SendText
  BY <1>2, Zenon DEF SendText, Ask, Shows, session
<1>3. CASE ChangeStatus \/ ListUsers \/ GetInfo
  BY <1>3, Zenon DEF ChangeStatus, ListUsers, GetInfo, Ask, Shows, session, view
<1>4. CASE CloseInfo
  BY <1>4, Zenon DEF CloseInfo, Shows, session, refs
<1>5. CASE Logout
  <2>1. phase' = "login"
    BY <1>5, Zenon DEF Logout, LeaveChat
  <2> QED
    BY <2>1 DEF Shows
<1> QED
  BY <1>1, <1>2, <1>3, <1>4, <1>5 DEF User

(***************************************************************************)
(* A chat shows nothing of an older session: a socket that was closed      *)
(* gives the page no more, a login begins at the form, and a welcome       *)
(* clears what was shown before it (useChat.js:79-90).                     *)
(***************************************************************************)
THEOREM ChatsStartEmpty == Spec => []MessagesOfSession
PROOF
<1>1. Init => MessagesOfSession
  BY Zenon DEF Init, MessagesOfSession
<1>2. Sequel /\ MessagesOfSession /\ [Next]_vars => MessagesOfSession'
  <2> SUFFICES ASSUME Sequel, MessagesOfSession, [Next]_vars PROVE MessagesOfSession'
    OBVIOUS
  <2>1. Shows
    <3>1. CASE User \/ \E s \in Sockets : Browser(s)
      BY <3>1, BrowserShows, UserShows
    <3>2. CASE ~User /\ \A s \in Sockets : ~Browser(s)
      BY <3>2, ElseSame DEF Shows
    <3> QED
      BY <3>1, <3>2
  <2> QED
    BY <2>1 DEF Shows, addMessage, MessagesOfSession
<1> QED
  BY <1>1, <1>2, SequelHolds, PTL DEF Spec

-----------------------------------------------------------------------------
\* Types

Replies == {"tcp_ok", "OK", "NOTICE", "ERROR", "MSG", "USER_LIST", "USER_INFO",
            "DISCONNECTED", "close", None}
Names == {"me", "bob"}
Texts == Statuses \union Names \union {None}

\* What a page sends, and what it is sent.
Wishes ==
  {p \in [cmd : Commands, val : Texts, list : {{}}] :
     /\ p.cmd = "STATUS" => p.val \in Statuses
     /\ p.cmd = "INFO" => p.val \in Names}

Letters ==
  {p \in [cmd : Replies, val : Texts \union {"welcome"}, list : SUBSET Entries] :
     /\ p.cmd = "USER_INFO" => p.val \in Names
     /\ p.val = "welcome" => p.cmd = "OK"}

Mail ==
  /\ up \in [Sockets -> Seq(Wishes)] /\ down \in [Sockets -> Seq(Letters)]
  /\ answer \in Letters
  /\ srv \in [Sockets -> {"none", "dialling", "tcp", "member", "gone"}]
  /\ status \in Statuses /\ bob \in BOOLEAN /\ notice \in BOOLEAN
  /\ reason \in Errors \union {"silent"}
  /\ hurried \in BOOLEAN /\ events \in 0..MaxEvents
  /\ \A s \in Sockets : readyState[s] # "open" => down[s] = <<>>

Page ==
  /\ phase \in {"login", "chat"} /\ myStatus \in Statuses
  /\ messages \subseteq Sockets /\ users \subseteq Entries
  /\ wsStatus \in {"connecting", "connected", "disconnected"} /\ loginError \in Errors
  /\ userInfo \in {<<>>} \union (Names \X Names)
  /\ pendingInfoTarget \in {None} \union Names
  /\ usernameRef \in BOOLEAN /\ voluntaryLogout \in BOOLEAN /\ polling \in BOOLEAN
  /\ greet \subseteq Sockets
  /\ phase = "chat" => current \in Sockets

(***************************************************************************)
(* One session at a time is in the table, and only a session that is or    *)
(* was there has been welcomed; of a user who is not in a hurry, older     *)
(* sockets are closed.                                                     *)
(***************************************************************************)
Sessions ==
  /\ \A s, t \in Members : s = t
  /\ \A s \in Sockets : Awaited(s) => srv[s] \in {"member", "gone"}
  /\ ~hurried =>
       /\ \A s \in Sockets \ {current} : readyState[s] \in {"none", "closed"}
       /\ \A s \in Sockets : readyState[s] \in Live => ~voluntaryLogout
  /\ SessionAgreement

LEMMA TextFacts ==
  /\ None \notin Statuses \union Names \union {"welcome"}
  /\ None \notin Commands
PROOF
  BY Zenon DEF None, Statuses, Names, Commands

LEMMA LetterTypes ==
  /\ \A cmd \in Replies \ {"USER_INFO"}, val \in Texts :
       Packet(cmd, val) \in Letters /\ Packet(cmd, val).val # "welcome"
  /\ Packet("OK", "welcome") \in Letters
  /\ \A val \in Names : Packet("USER_INFO", val) \in Letters
                        /\ Packet("USER_INFO", val).val # "welcome"
  /\ \A e \in SUBSET Entries : List(e) \in Letters /\ List(e).val # "welcome"
  /\ NoPacket \in Letters /\ NoPacket.val # "welcome"
PROOF
<1>1. ASSUME NEW cmd \in Replies \ {"USER_INFO"}, NEW val \in Texts
      PROVE  Packet(cmd, val) \in Letters /\ Packet(cmd, val).val # "welcome"
  <2>1. val # "welcome"
    BY TextFacts DEF Texts, Statuses, Names
  <2> QED
    BY <2>1 DEF Letters, Packet
<1>2. Packet("OK", "welcome") \in Letters
  BY DEF Letters, Packet, Replies
<1>3. ASSUME NEW val \in Names
      PROVE  Packet("USER_INFO", val) \in Letters /\ Packet("USER_INFO", val).val # "welcome"
  BY DEF Letters, Packet, Replies, Texts, Names
<1>4. ASSUME NEW e \in SUBSET Entries
      PROVE  List(e) \in Letters /\ List(e).val # "welcome"
  BY TextFacts DEF Letters, List, Replies, Texts
<1>5. None \in Replies \ {"USER_INFO"} /\ None \in Texts
  <2>1. None # "USER_INFO"
    BY Zenon DEF None
  <2> QED
    BY <2>1 DEF Replies, Texts
<1>6. NoPacket \in Letters /\ NoPacket.val # "welcome"
  BY <1>1, <1>5 DEF NoPacket
<1> QED
  BY <1>1, <1>2, <1>3, <1>4, <1>6

LEMMA WishTypes ==
  /\ \A cmd \in Commands \ {"STATUS", "INFO"} : Packet(cmd, None) \in Wishes
  /\ \A val \in Statuses : Packet("STATUS", val) \in Wishes
  /\ \A val \in Names : Packet("INFO", val) \in Wishes
PROOF
  BY DEF Wishes, Packet, Commands, Texts

-----------------------------------------------------------------------------
\* What reaches the page

Shut == \A s \in Sockets : readyState[s] # "open" => down[s] = <<>>

\* Sequences of letters, joined.
LEMMA Joined ==
  ASSUME NEW s \in Seq(Letters), NEW t \in Seq(Letters)
  PROVE  /\ s \o t \in Seq(Letters)
         /\ \A i \in DOMAIN s : i \in DOMAIN (s \o t) /\ (s \o t)[i] = s[i]
         /\ \A i \in DOMAIN (s \o t) :
              \/ i \in DOMAIN s /\ (s \o t)[i] = s[i]
              \/ \E k \in DOMAIN t : (s \o t)[i] = t[k]
PROOF
<1>1. s \o t \in Seq(Letters)
  OBVIOUS
<1>2. \A i \in DOMAIN s : i \in DOMAIN (s \o t) /\ (s \o t)[i] = s[i]
  OBVIOUS
<1>3. ASSUME NEW i \in DOMAIN (s \o t), i \notin DOMAIN s
      PROVE  \E k \in DOMAIN t : (s \o t)[i] = t[k]
  <2>1. i - Len(s) \in DOMAIN t /\ (s \o t)[i] = t[i - Len(s)]
    BY <1>3
  <2> QED
    BY <2>1
<1> QED
  BY <1>1, <1>2, <1>3

LEMMA Delivered ==
  ASSUME down \in [Sockets -> Seq(Letters)], Shut, readyState' = readyState,
         NEW to, NEW packets \in Seq(Letters), Deliver(to, packets)
  PROVE  /\ down' \in [Sockets -> Seq(Letters)] /\ Shut'
         /\ \A s \in Sockets : Awaited(s) => Awaited(s)'
         /\ \A s \in Sockets : Awaited(s)' =>
              Awaited(s) \/ (s \in to /\ \E k \in DOMAIN packets : packets[k].val = "welcome")
PROOF
<1>1. \A s \in Sockets : down'[s] = IF s \in to /\ readyState[s] = "open"
                                    THEN down[s] \o packets ELSE down[s]
  BY DEF Deliver
<1>2. \A s \in Sockets :
        /\ down[s] \o packets \in Seq(Letters)
        /\ \A i \in DOMAIN down[s] : /\ i \in DOMAIN (down[s] \o packets)
                                     /\ (down[s] \o packets)[i] = down[s][i]
        /\ \A i \in DOMAIN (down[s] \o packets) :
             \/ i \in DOMAIN down[s] /\ (down[s] \o packets)[i] = down[s][i]
             \/ \E k \in DOMAIN packets : (down[s] \o packets)[i] = packets[k]
  BY Joined
<1>3. down' \in [Sockets -> Seq(Letters)]
  BY <1>2 DEF Deliver
<1>4. Shut'
  BY <1>1 DEF Shut
<1>5. ASSUME NEW s \in Sockets
      PROVE  /\ Awaited(s) => Awaited(s)'
             /\ Awaited(s)' =>
                  \/ Awaited(s)
                  \/ s \in to /\ \E k \in DOMAIN packets : packets[k].val = "welcome"
  <2>1. CASE down'[s] = down[s]
    BY <2>1 DEF Awaited
  <2>2. CASE s \in to /\ down'[s] = down[s] \o packets
    <3> DEFINE new == down[s] \o packets
    <3>1. /\ \A i \in DOMAIN down[s] : i \in DOMAIN new /\ new[i] = down[s][i]
          /\ \A i \in DOMAIN new : \/ i \in DOMAIN down[s] /\ new[i] = down[s][i]
                                   \/ \E k \in DOMAIN packets : new[i] = packets[k]
      BY <1>2
    <3>2. down'[s] = new
      BY <2>2
    <3> HIDE DEF new
    <3>3. Awaited(s) => Awaited(s)'
      BY <3>1, <3>2 DEF Awaited
    <3>4. ASSUME Awaited(s)', ~Awaited(s)
          PROVE  \E k \in DOMAIN packets : packets[k].val = "welcome"
      BY <3>1, <3>2, <3>4 DEF Awaited
    <3> QED
      BY <2>2, <3>3, <3>4
  <2> QED
    BY <1>1, <2>1, <2>2
<1> QED
  BY <1>3, <1>4, <1>5

\* One or two letters.
LEMMA OneLetter ==
  ASSUME NEW p \in Letters
  PROVE  <<p>> \in Seq(Letters) /\ \A k \in DOMAIN <<p>> : <<p>>[k] = p
PROOF
  OBVIOUS

LEMMA TwoLetters ==
  ASSUME NEW p \in Letters, NEW q \in Letters
  PROVE  <<p, q>> \in Seq(Letters) /\ \A k \in DOMAIN <<p, q>> : <<p, q>>[k] \in {p, q}
PROOF
  OBVIOUS

\* The page's first message is taken, or another is added.
LEMMA WishTaken ==
  ASSUME NEW q \in Seq(Wishes), q # <<>>
  PROVE  Tail(q) \in Seq(Wishes) /\ Head(q) \in Wishes
PROOF
  OBVIOUS

LEMMA WishSent ==
  ASSUME up \in [Sockets -> Seq(Wishes)], NEW p \in Wishes
  PROVE  /\ send(p) \in [Sockets -> Seq(Wishes)]
         /\ [up EXCEPT ![current] = Append(@, p)] \in [Sockets -> Seq(Wishes)]
PROOF
<1>1. [up EXCEPT ![current] = Append(@, p)] \in [Sockets -> Seq(Wishes)]
  <2>1. CASE current \in Sockets
    <3>1. Append(up[current], p) \in Seq(Wishes)
      BY <2>1
    <3> QED
      BY <2>1, <3>1
  <2>2. CASE current \notin Sockets
    BY <2>2
  <2> QED
    BY <2>1, <2>2
<1> QED
  BY <1>1 DEF send

\* A socket that is closed gets nothing more.
LEMMA ClosedShut ==
  ASSUME down \in [Sockets -> Seq(Letters)], Shut, Sequel, Close(current)
  PROVE  /\ down' \in [Sockets -> Seq(Letters)] /\ Shut'
         /\ \A s \in Sockets : Awaited(s)' => Awaited(s)
         /\ \A s \in Sockets : readyState'[s] \notin Live
PROOF
<1>1. /\ readyState' = Closed(current)
      /\ \A s \in Sockets : down'[s] = IF s = current THEN <<>> ELSE down[s]
      /\ down' \in [Sockets -> Seq(Letters)]
  BY DEF Close, Unread
<1>2. \A s \in Sockets : s # current => readyState'[s] = readyState[s]
  BY <1>1 DEF Closed
<1>3. Shut'
  BY <1>1, <1>2 DEF Shut
<1>4. \A s \in Sockets : readyState'[s] \notin Live
  BY <1>1, ClosedStates DEF Sequel
<1>5. DOMAIN <<>> = {}
  OBVIOUS
<1>6. \A s \in Sockets : Awaited(s)' => Awaited(s)
  BY <1>1, <1>5 DEF Awaited
<1> QED
  BY <1>1, <1>3, <1>4, <1>6

-----------------------------------------------------------------------------
\* Steps of the bridge and the server

\* They leave the page alone, and make no member but by a REGISTER.
LEMMA SessionsKept ==
  ASSUME Sessions,
         UNCHANGED <<current, readyState, phase, usernameRef, polling, voluntaryLogout,
                     hurried>>,
         \A s \in Sockets : srv'[s] = "member" => srv[s] = "member",
         \A s \in Sockets : srv[s] \in {"member", "gone"} => srv'[s] \in {"member", "gone"},
         \A s \in Sockets : Awaited(s)' => Awaited(s) \/ srv[s] \in {"member", "gone"},
         current \in Sockets /\ Open /\ srv'[current] = "member"
           /\ answer'.val # "welcome" /\ ~Awaited(current)'
           => answer.val # "welcome" /\ ~Awaited(current),
         current \in 0..MaxSockets
  PROVE  Sessions'
PROOF
<1>1. \A s, t \in Members' : s = t
  BY DEF Sessions, Members
<1>2. \A s \in Sockets : Awaited(s)' => srv'[s] \in {"member", "gone"}
  BY DEF Sessions
<1>3. Open' <=> Open
  BY DEF Open
<1>4. Open => current \in Sockets
  BY WebClientAssumption DEF Open, Sockets
<1>5. SessionAgreement'
  BY <1>3, <1>4 DEF Sessions, SessionAgreement
<1> QED
  BY <1>1, <1>2, <1>5 DEF Sessions

\* The page's packet is taken from the way.
LEMMA UpTail ==
  ASSUME Mail, NEW s \in Sockets, up[s] # <<>>, up' = [up EXCEPT ![s] = Tail(@)]
  PROVE  up' \in [Sockets -> Seq(Wishes)] /\ Head(up[s]) \in Wishes
PROOF
  BY WishTaken DEF Mail

LEMMA UpEmptied ==
  ASSUME Mail, NEW s \in Sockets, up' = [up EXCEPT ![s] = <<>>]
  PROVE  up' \in [Sockets -> Seq(Wishes)]
PROOF
<1>1. <<>> \in Seq(Wishes)
  OBVIOUS
<1> QED
  BY <1>1 DEF Mail

\* An ERROR and the end, or another letter that is no welcome.
LEMMA RefuseKeeps ==
  ASSUME Mail, NEW s \in Sockets, Refuse(s), readyState' = readyState
  PROVE  /\ down' \in [Sockets -> Seq(Letters)] /\ Shut'
         /\ \A t \in Sockets : Awaited(t)' <=> Awaited(t)
         /\ srv' \in [Sockets -> {"none", "dialling", "tcp", "member", "gone"}]
         /\ reason' \in Errors \union {"silent"}
PROOF
<1> DEFINE e == Packet("ERROR", None)
           c == Packet("close", None)
<1>1. /\ e \in Letters /\ e.val # "welcome" /\ c \in Letters /\ c.val # "welcome"
  BY LetterTypes DEF Replies, Texts
<1>2. Deliver({s}, <<e, c>>)
  BY DEF Refuse
<1> HIDE DEF e, c
<1> DEFINE two == <<e, c>>
<1>3. two \in Seq(Letters) /\ \A k \in DOMAIN two : two[k].val # "welcome"
  BY <1>1, TwoLetters
<1>4. Deliver({s}, two)
  BY <1>2
<1> HIDE DEF two
<1>5. down \in [Sockets -> Seq(Letters)] /\ Shut
  BY DEF Mail, Shut
<1>6. /\ down' \in [Sockets -> Seq(Letters)] /\ Shut'
      /\ \A t \in Sockets : Awaited(t)' <=> Awaited(t)
  BY <1>3, <1>4, <1>5, Delivered
<1> QED
  BY <1>6 DEF Refuse, Mail, Errors

LEMMA LetterKeeps ==
  ASSUME Mail, NEW to, NEW p \in Letters, Deliver(to, <<p>>), readyState' = readyState
  PROVE  /\ down' \in [Sockets -> Seq(Letters)] /\ Shut'
         /\ \A t \in Sockets : Awaited(t) => Awaited(t)'
         /\ \A t \in Sockets : Awaited(t)' => Awaited(t) \/ (t \in to /\ p.val = "welcome")
PROOF
<1> DEFINE one == <<p>>
<1>1. one \in Seq(Letters) /\ \A k \in DOMAIN one : one[k] = p
  BY OneLetter
<1>2. Deliver(to, one)
  OBVIOUS
<1> HIDE DEF one
<1>3. down \in [Sockets -> Seq(Letters)] /\ Shut
  BY DEF Mail, Shut
<1> QED
  BY <1>1, <1>2, <1>3, Delivered

LEMMA NothingKeeps ==
  ASSUME Mail, NEW to, Deliver(to, <<>>), readyState' = readyState
  PROVE  /\ down' \in [Sockets -> Seq(Letters)] /\ Shut'
         /\ \A t \in Sockets : Awaited(t)' <=> Awaited(t)
PROOF
<1>1. <<>> \in Seq(Letters) /\ DOMAIN <<>> = {}
  OBVIOUS
<1>2. down \in [Sockets -> Seq(Letters)] /\ Shut
  BY DEF Mail, Shut
<1> QED
  BY <1>1, <1>2, Delivered

LEMMA FirstPackets ==
  ASSUME Sequel, Mail, Sessions, NEW s \in Sockets, Drop(s) \/ Dial(s) \/ FirstPacket(s)
  PROVE  Mail' /\ Sessions'
PROOF
<1>0. /\ UNCHANGED <<current, readyState, phase, usernameRef, polling, voluntaryLogout,
                     hurried, bob, notice, events>>
      /\ current \in 0..MaxSockets
  BY DEF Drop, Dial, FirstPacket, page, session, refs, server, Sequel
<1>1. CASE Drop(s)
  <2>1. up' \in [Sockets -> Seq(Wishes)]
    BY <1>1, UpTail DEF Drop
  <2>2. UNCHANGED <<down, srv, status, answer, reason>>
    BY <1>1 DEF Drop, server
  <2>3. Mail'
    BY <1>0, <2>1, <2>2 DEF Mail
  <2>4. \A t \in Sockets : Awaited(t)' <=> Awaited(t)
    BY <2>2 DEF Awaited
  <2> QED
    BY <1>0, <2>2, <2>3, <2>4, SessionsKept
<1>2. CASE Dial(s)
  <2>1. srv[s] = "dialling" /\ UNCHANGED <<up, status, answer>>
    BY <1>2 DEF Dial, Refuse
  <2>2. CASE srv' = [srv EXCEPT ![s] = "tcp"] /\ Deliver({s}, <<Packet("tcp_ok", None)>>)
             /\ reason' = reason
    <3> DEFINE p == Packet("tcp_ok", None)
    <3>1. p \in Letters /\ p.val # "welcome"
      BY LetterTypes DEF Replies, Texts
    <3>2. Deliver({s}, <<p>>)
      BY <2>2
    <3> HIDE DEF p
    <3>3. /\ down' \in [Sockets -> Seq(Letters)] /\ Shut'
          /\ \A t \in Sockets : Awaited(t)' <=> Awaited(t)
      BY <1>0, <3>1, <3>2, LetterKeeps
    <3>4. srv' \in [Sockets -> {"none", "dialling", "tcp", "member", "gone"}]
      BY <2>2 DEF Mail
    <3>5. Mail'
      BY <1>0, <2>1, <2>2, <3>3, <3>4 DEF Mail, Shut
    <3>6. \A t \in Sockets : /\ srv'[t] = "member" => srv[t] = "member"
                             /\ srv[t] \in {"member", "gone"} => srv'[t] \in {"member", "gone"}
      BY <2>1, <2>2 DEF Mail
    <3> QED
      BY <1>0, <2>1, <3>3, <3>5, <3>6, SessionsKept
  <2>3. CASE Refuse(s)
    <3>1. /\ down' \in [Sockets -> Seq(Letters)] /\ Shut'
          /\ \A t \in Sockets : Awaited(t)' <=> Awaited(t)
          /\ srv' \in [Sockets -> {"none", "dialling", "tcp", "member", "gone"}]
          /\ reason' \in Errors \union {"silent"}
      BY <1>0, <2>3, RefuseKeeps
    <3>2. Mail'
      BY <1>0, <2>1, <3>1 DEF Mail, Shut
    <3>3. \A t \in Sockets : /\ srv'[t] = "member" => srv[t] = "member"
                             /\ srv[t] \in {"member", "gone"} => srv'[t] \in {"member", "gone"}
      BY <2>3 DEF Refuse, Mail
    <3> QED
      BY <1>0, <2>1, <3>1, <3>2, <3>3, SessionsKept
  <2> QED
    BY <1>2, <2>2, <2>3 DEF Dial
<1>3. CASE FirstPacket(s)
  <2>1. up' \in [Sockets -> Seq(Wishes)] /\ srv[s] = "tcp"
    BY <1>3, UpTail DEF FirstPacket
  <2>2. CASE Refuse(s)
    <3>1. /\ down' \in [Sockets -> Seq(Letters)] /\ Shut'
          /\ \A t \in Sockets : Awaited(t)' <=> Awaited(t)
          /\ srv' \in [Sockets -> {"none", "dialling", "tcp", "member", "gone"}]
          /\ reason' \in Errors \union {"silent"}
      BY <1>0, <2>2, RefuseKeeps
    <3>2. UNCHANGED <<status, answer>>
      BY <2>2 DEF Refuse
    <3>3. Mail'
      BY <1>0, <2>1, <3>1, <3>2 DEF Mail, Shut
    <3>4. \A t \in Sockets : /\ srv'[t] = "member" => srv[t] = "member"
                             /\ srv[t] \in {"member", "gone"} => srv'[t] \in {"member", "gone"}
      BY <2>2 DEF Refuse, Mail
    <3> QED
      BY <1>0, <3>1, <3>2, <3>3, <3>4, SessionsKept
  <2>3. CASE /\ Members = {} /\ srv' = [srv EXCEPT ![s] = "member"] /\ status' = "ACTIVE"
             /\ answer' = Packet("OK", "welcome") /\ UNCHANGED <<down, reason>>
    <3>1. answer' \in Letters /\ answer'.val = "welcome"
      BY <2>3, LetterTypes DEF Packet
    <3>2. srv' \in [Sockets -> {"none", "dialling", "tcp", "member", "gone"}]
      BY <2>3 DEF Mail
    <3>3. Mail'
      BY <1>0, <2>1, <2>3, <3>1, <3>2 DEF Mail, Statuses
    <3>4. \A t \in Sockets : /\ srv'[t] = "member" => t = s
                             /\ srv[t] \in {"member", "gone"} => srv'[t] \in {"member", "gone"}
      BY <2>1, <2>3 DEF Members, Mail
    <3>5. \A t, u \in Members' : t = u
      BY <3>4 DEF Members
    <3>6. \A t \in Sockets : Awaited(t)' => srv'[t] \in {"member", "gone"}
      BY <2>3, <3>4 DEF Awaited, Sessions
    <3>7. SessionAgreement'
      <4>1. (Open' <=> Open) /\ (Open => current \in Sockets)
        BY <1>0 DEF Open, Sockets
      <4> QED
        BY <1>0, <3>1, <3>4, <4>1 DEF Sessions, SessionAgreement
    <3> QED
      BY <1>0, <3>3, <3>5, <3>6, <3>7 DEF Sessions
  <2> QED
    BY <1>3, <2>2, <2>3 DEF FirstPacket
<1> QED
  BY <1>1, <1>2, <1>3

LEMMA ServeKeeps ==
  ASSUME Sequel, Mail, Sessions, NEW s \in Sockets, Serve(s)
  PROVE  Mail' /\ Sessions'
PROOF
<1> DEFINE p     == Head(up[s])
           moves == p.cmd \in {"BROADCAST", "DIRECT", "STATUS"} /\ status = "INACTIVE"
<1>0. /\ UNCHANGED <<current, readyState, phase, usernameRef, polling, voluntaryLogout,
                     hurried, bob, notice, reason, events>>
      /\ current \in 0..MaxSockets /\ srv[s] = "member" /\ answer = NoPacket
  BY DEF Serve, page, session, refs, Sequel
<1>1. up' \in [Sockets -> Seq(Wishes)] /\ p \in Wishes
  BY UpTail DEF Serve
<1>2. status' \in Statuses
  <2>1. status' = IF p.cmd = "STATUS" THEN p.val ELSE IF moves THEN "ACTIVE" ELSE status
    BY DEF Serve
  <2> QED
    BY <1>1, <2>1 DEF Wishes, Mail, Statuses
<1>3. answer' \in Letters /\ answer'.val # "welcome"
  <2>1. Roster \in SUBSET Entries
    BY DEF Roster, Entries, Mail, Statuses
  <2>2. /\ List(Roster) \in Letters /\ List(Roster).val # "welcome"
        /\ Packet("MSG", "me") \in Letters /\ Packet("MSG", "me").val # "welcome"
        /\ NoPacket \in Letters /\ NoPacket.val # "welcome"
        /\ Packet("ERROR", None) \in Letters /\ Packet("ERROR", None).val # "welcome"
    BY <2>1, LetterTypes DEF Replies, Texts, Names
  <2>3. p.cmd = "STATUS" => Packet("OK", p.val) \in Letters
                            /\ Packet("OK", p.val).val # "welcome"
    BY <1>1, LetterTypes DEF Wishes, Replies, Texts
  <2>4. p.cmd = "INFO" => Packet("USER_INFO", p.val) \in Letters
                          /\ Packet("USER_INFO", p.val).val # "welcome"
    BY <1>1, LetterTypes DEF Wishes
  <2>5. answer' =
          CASE p.cmd = "LIST" -> List(Roster)
            [] p.cmd = "BROADCAST" -> Packet("MSG", "me")
            [] p.cmd = "STATUS" -> Packet("OK", p.val)
            [] p.cmd = "INFO" /\ (p.val = "bob" => bob) -> Packet("USER_INFO", p.val)
            [] p.cmd \in {"DIRECT", "INFO"} /\ ~bob -> Packet("ERROR", None)
            [] OTHER -> NoPacket
    BY DEF Serve
  <2> HIDE DEF p
  <2>6. \/ answer' = List(Roster) \/ answer' = Packet("ERROR", None) \/ answer' = NoPacket
        \/ p.cmd = "BROADCAST" /\ answer' = Packet("MSG", "me")
        \/ p.cmd = "STATUS" /\ answer' = Packet("OK", p.val)
        \/ p.cmd = "INFO" /\ answer' = Packet("USER_INFO", p.val)
    BY <2>5
  <2> QED
    BY <2>2, <2>3, <2>4, <2>6
<1>4. /\ down' \in [Sockets -> Seq(Letters)] /\ Shut'
      /\ \A t \in Sockets : Awaited(t)' <=> Awaited(t)
  <2>1. CASE moves
    <3> DEFINE q == Packet("NOTICE", "ACTIVE")
    <3>1. q \in Letters /\ q.val # "welcome"
      BY LetterTypes DEF Replies, Texts, Statuses
    <3>2. Deliver({s}, <<q>>)
      BY <2>1 DEF Serve
    <3> HIDE DEF q
    <3> QED
      BY <1>0, <3>1, <3>2, LetterKeeps
  <2>2. CASE ~moves
    <3>1. Deliver({s}, <<>>)
      BY <2>2 DEF Serve
    <3> QED
      BY <1>0, <3>1, NothingKeeps
  <2> QED
    BY <2>1, <2>2
<1>5. /\ srv' \in [Sockets -> {"none", "dialling", "tcp", "member", "gone"}]
      /\ \A t \in Sockets : /\ srv'[t] = "member" => srv[t] = "member"
                            /\ srv[t] \in {"member", "gone"} => srv'[t] \in {"member", "gone"}
  <2>1. srv' = srv \/ srv' = [srv EXCEPT ![s] = "gone"]
    BY DEF Serve
  <2> QED
    BY <2>1 DEF Mail
<1>6. Mail'
  BY <1>0, <1>1, <1>2, <1>3, <1>4, <1>5 DEF Mail, Shut
<1>7. answer.val # "welcome"
  BY <1>0, LetterTypes
<1> QED
  BY <1>0, <1>4, <1>5, <1>6, <1>7, SessionsKept

LEMMA ReplyKeeps ==
  ASSUME Sequel, Mail, Sessions, NEW s \in Sockets, Reply(s)
  PROVE  Mail' /\ Sessions'
PROOF
<1>0. /\ UNCHANGED <<current, readyState, phase, usernameRef, polling, voluntaryLogout,
                     hurried, srv, status, bob, notice, reason, events, up>>
      /\ current \in 0..MaxSockets /\ srv[s] = "member"
      /\ answer' = NoPacket /\ Deliver({s}, <<answer>>)
  BY DEF Reply, page, session, refs, Sequel
<1>1. answer \in Letters
  BY DEF Mail
<1>2. /\ down' \in [Sockets -> Seq(Letters)] /\ Shut'
      /\ \A t \in Sockets : Awaited(t) => Awaited(t)'
      /\ \A t \in Sockets : Awaited(t)' => Awaited(t) \/ t = s
  BY <1>0, <1>1, LetterKeeps
<1>3. Mail'
  BY <1>0, <1>2, LetterTypes DEF Mail, Shut
<1>4. ASSUME current \in Sockets, Open, srv[current] = "member", ~Awaited(current)'
      PROVE  answer.val # "welcome" /\ ~Awaited(current)
  <2>1. current = s
    BY <1>0, <1>4 DEF Sessions, Members
  <2>2. down'[s] = down[s] \o <<answer>>
    BY <1>0, <1>4, <2>1 DEF Deliver, Open
  <2>3. answer.val # "welcome"
    <3> DEFINE new == down[s] \o <<answer>>
               n   == Len(down[s]) + 1
    <3>1. down[s] \in Seq(Letters)
      BY DEF Mail
    <3>2. n \in DOMAIN new /\ new[n] = answer
      BY <1>1, <3>1
    <3>3. down'[s] = new
      BY <2>2
    <3> HIDE DEF new, n
    <3>4. SUFFICES ASSUME answer.val = "welcome" PROVE Awaited(s)'
      BY <1>0, <1>4, <2>1
    <3> QED
      BY <3>2, <3>3, <3>4 DEF Awaited
  <2>4. ~Awaited(current)
    BY <1>0, <1>2, <1>4, <2>1
  <2> QED
    BY <2>3, <2>4
<1> QED
  BY <1>0, <1>2, <1>3, <1>4, SessionsKept

\* The session of s ends, and nothing is left of it.
LEMMA EndKeeps ==
  ASSUME Sequel, Mail, Sessions, NEW s \in Sockets,
         srv' = [srv EXCEPT ![s] = "gone"], up' = [up EXCEPT ![s] = <<>>],
         answer' = (IF srv[s] = "member" THEN NoPacket ELSE answer),
         UNCHANGED <<current, readyState, phase, usernameRef, polling, voluntaryLogout,
                     hurried, status, bob, notice>>,
         reason' \in Errors \union {"silent"}, events' \in 0..MaxEvents,
         down' \in [Sockets -> Seq(Letters)], Shut',
         \A t \in Sockets : Awaited(t)' => Awaited(t),
         \A t \in Sockets \ {s} : Awaited(t) => Awaited(t)'
  PROVE  Mail' /\ Sessions'
PROOF
<1>1. up' \in [Sockets -> Seq(Wishes)]
  BY UpEmptied
<1>2. /\ srv' \in [Sockets -> {"none", "dialling", "tcp", "member", "gone"}]
      /\ \A t \in Sockets : /\ srv'[t] = "member" => srv[t] = "member" /\ t # s
                            /\ srv[t] \in {"member", "gone"} => srv'[t] \in {"member", "gone"}
  BY DEF Mail
<1>3. Mail'
  BY <1>1, <1>2, LetterTypes DEF Mail, Shut
<1>4. ASSUME current \in Sockets, srv'[current] = "member" PROVE srv[s] # "member"
  BY <1>2, <1>4 DEF Sessions, Members
<1>5. current \in 0..MaxSockets
  BY DEF Sequel
<1> QED
  BY <1>2, <1>3, <1>4, <1>5, SessionsKept

LEMMA HangUpKeeps ==
  ASSUME Sequel, Mail, Sessions, NEW s \in Sockets, HangUp(s)
  PROVE  Mail' /\ Sessions'
PROOF
<1>1. /\ srv' = [srv EXCEPT ![s] = "gone"] /\ up' = [up EXCEPT ![s] = <<>>]
      /\ answer' = (IF srv[s] = "member" THEN NoPacket ELSE answer)
      /\ UNCHANGED <<current, readyState, phase, usernameRef, polling, voluntaryLogout,
                     hurried, status, bob, notice, down, reason, events>>
  BY DEF HangUp, page, session, refs
<1>2. /\ reason' \in Errors \union {"silent"} /\ events' \in 0..MaxEvents
      /\ down' \in [Sockets -> Seq(Letters)] /\ Shut'
  BY <1>1 DEF Mail, Shut
<1>3. \A t \in Sockets : Awaited(t)' <=> Awaited(t)
  BY <1>1 DEF Awaited
<1> QED
  BY <1>1, <1>2, <1>3, EndKeeps

LEMMA FailKeeps ==
  ASSUME Sequel, Mail, Sessions, NEW s \in Sockets, Fail(s), events' \in 0..MaxEvents
  PROVE  Mail' /\ Sessions'
PROOF
<1>1. /\ srv' = [srv EXCEPT ![s] = "gone"] /\ up' = [up EXCEPT ![s] = <<>>]
      /\ answer' = (IF srv[s] = "member" THEN NoPacket ELSE answer)
      /\ UNCHANGED <<current, readyState, phase, usernameRef, polling, voluntaryLogout,
                     hurried, status, bob, notice>>
      /\ readyState[s] = "open" /\ reason' \in {"lost", "refused", "silent"}
  BY DEF Fail, page, session, refs
<1> DEFINE e == Packet("ERROR", None)
           c == Packet("close", None)
<1>2. /\ e \in Letters /\ e.val # "welcome" /\ c \in Letters /\ c.val # "welcome"
  BY LetterTypes DEF Replies, Texts
<1>3. \/ down' = [down EXCEPT ![s] = @ \o <<e, c>>]
      \/ down' = [down EXCEPT ![s] = Append(@, c)]
      \/ down' = [down EXCEPT ![s] = <<c>>]
  BY DEF Fail
<1> HIDE DEF e, c
<1>4. PICK old \in Seq(Letters), more \in Seq(Letters) :
        /\ \A k \in DOMAIN more : more[k].val # "welcome"
        /\ old \in {down[s], <<>>} /\ down' = [down EXCEPT ![s] = old \o more]
  <2>1. down[s] \in Seq(Letters) /\ <<>> \in Seq(Letters)
    BY DEF Mail
  <2>2. CASE down' = [down EXCEPT ![s] = @ \o <<e, c>>]
    <3> DEFINE two == <<e, c>>
    <3>1. two \in Seq(Letters) /\ \A k \in DOMAIN two : two[k].val # "welcome"
      BY <1>2, TwoLetters
    <3> HIDE DEF two
    <3>2. down' = [down EXCEPT ![s] = down[s] \o two]
      BY <2>2 DEF two
    <3> QED
      BY <2>1, <3>1, <3>2
  <2> DEFINE one == <<c>>
  <2>3. one \in Seq(Letters) /\ \A k \in DOMAIN one : one[k].val # "welcome"
    BY <1>2, OneLetter
  <2>4. Append(down[s], c) = down[s] \o one /\ one = <<>> \o one
    BY <1>2, <2>1
  <2>5. CASE down' = [down EXCEPT ![s] = Append(@, c)]
    <3>1. down' = [down EXCEPT ![s] = down[s] \o one]
      BY <2>4, <2>5
    <3> HIDE DEF one
    <3> QED
      BY <2>1, <2>3, <3>1
  <2>6. CASE down' = [down EXCEPT ![s] = one]
    <3>1. down' = [down EXCEPT ![s] = <<>> \o one]
      BY <2>4, <2>6
    <3> HIDE DEF one
    <3> QED
      BY <2>1, <2>3, <3>1
  <2> QED
    BY <1>3, <2>2, <2>5, <2>6
<1>5. /\ old \o more \in Seq(Letters)
      /\ \A i \in DOMAIN (old \o more) :
           \/ i \in DOMAIN old /\ (old \o more)[i] = old[i]
           \/ \E k \in DOMAIN more : (old \o more)[i] = more[k]
  BY Joined
<1> DEFINE new == old \o more
<1>6. new \in Seq(Letters) /\ down' = [down EXCEPT ![s] = new]
  BY <1>4, <1>5
<1>7. \A i \in DOMAIN new :
        new[i].val = "welcome" => old = down[s] /\ i \in DOMAIN old /\ new[i] = old[i]
  <2>1. DOMAIN <<>> = {}
    OBVIOUS
  <2> QED
    BY <1>4, <1>5, <2>1
<1> HIDE DEF new
<1>8. down' \in [Sockets -> Seq(Letters)] /\ Shut'
  BY <1>1, <1>6 DEF Mail, Shut
<1>9. \A t \in Sockets : down'[t] = IF t = s THEN new ELSE down[t]
  BY <1>6 DEF Mail
<1>10. /\ \A t \in Sockets : Awaited(t)' => Awaited(t)
       /\ \A t \in Sockets \ {s} : Awaited(t) => Awaited(t)'
  BY <1>7, <1>9 DEF Awaited
<1>11. reason' \in Errors \union {"silent"}
  BY <1>1 DEF Errors
<1> QED
  BY <1>1, <1>8, <1>10, <1>11, EndKeeps

\* Members, and nobody else, are told; nobody's session changes.
LEMMA ToldKeeps ==
  ASSUME Sequel, Mail, Sessions, NEW p \in Letters, p.val # "welcome",
         down' = down \/ Deliver(Members, <<p>>),
         UNCHANGED <<current, readyState, phase, usernameRef, polling, voluntaryLogout,
                     hurried, up, srv, answer, reason>>,
         status' \in Statuses, bob' \in BOOLEAN, notice' \in BOOLEAN,
         events' \in 0..MaxEvents
  PROVE  Mail' /\ Sessions'
PROOF
<1>1. /\ down' \in [Sockets -> Seq(Letters)] /\ Shut'
      /\ \A t \in Sockets : Awaited(t)' <=> Awaited(t)
  <2>1. CASE down' = down
    BY <2>1 DEF Mail, Shut, Awaited
  <2>2. CASE Deliver(Members, <<p>>)
    BY <2>2, LetterKeeps
  <2> QED
    BY <2>1, <2>2
<1>2. Mail'
  BY <1>1 DEF Mail, Shut
<1>3. current \in 0..MaxSockets
  BY DEF Sequel
<1> QED
  BY <1>1, <1>2, <1>3, SessionsKept

LEMMA WorldKeeps ==
  ASSUME Sequel, Mail, Sessions, Announce \/ World
  PROVE  Mail' /\ Sessions'
PROOF
<1> DEFINE Told(p) == down' = down \/ Deliver(Members, <<p>>)
<1>1. /\ Packet("DISCONNECTED", "bob") \in Letters
      /\ Packet("DISCONNECTED", "bob").val # "welcome"
      /\ Packet("MSG", "bob") \in Letters /\ Packet("MSG", "bob").val # "welcome"
      /\ Packet("NOTICE", "INACTIVE") \in Letters
      /\ Packet("NOTICE", "INACTIVE").val # "welcome"
  BY LetterTypes DEF Replies, Texts, Names, Statuses
<1>2. CASE Announce
  <2>1. /\ UNCHANGED <<current, readyState, phase, usernameRef, polling, voluntaryLogout,
                       hurried, up, srv, answer, reason, status, bob, events>>
        /\ notice' = FALSE
    BY <1>2 DEF Announce, page, session, refs
  <2>2. Told(Packet("DISCONNECTED", "bob"))
    BY <1>2 DEF Announce
  <2>3. status' \in Statuses /\ bob' \in BOOLEAN /\ notice' \in BOOLEAN
        /\ events' \in 0..MaxEvents
    BY <2>1 DEF Mail
  <2> QED
    BY <1>1, <2>1, <2>2, <2>3, ToldKeeps
<1>3. CASE World
  <2>1. events' \in 0..MaxEvents
    BY <1>3, WebClientAssumption DEF World, Mail
  <2>2. CASE \E s \in Sockets : Fail(s)
    BY <2>1, <2>2, FailKeeps
  <2>3. CASE /\ ComeAndGo \/ Say \/ MonitorMarks
             /\ UNCHANGED <<page, readyState, up, srv, answer, reason, hurried>>
    <3>1. UNCHANGED <<current, readyState, phase, usernameRef, polling, voluntaryLogout,
                      hurried, up, srv, answer, reason>>
      BY <2>3 DEF page, session, refs
    <3>2. status' \in Statuses /\ bob' \in BOOLEAN /\ notice' \in BOOLEAN
      BY <2>3 DEF ComeAndGo, Say, MonitorMarks, Mail, Statuses
    <3>3. Told(Packet("MSG", "bob")) \/ Told(Packet("NOTICE", "INACTIVE"))
      BY <2>3 DEF ComeAndGo, Say, MonitorMarks
    <3> QED
      BY <1>1, <2>1, <3>1, <3>2, <3>3, ToldKeeps
  <2> QED
    BY <1>3, <2>2, <2>3 DEF World
<1> QED
  BY <1>2, <1>3

\* The server's side, and the rest of the world.
LEMMA OutsideKeeps ==
  ASSUME Sequel, Mail, Sessions, Announce \/ World \/ \E s \in Sockets : Server(s)
  PROVE  Mail' /\ Sessions'
PROOF
  BY FirstPackets, ServeKeeps, ReplyKeeps, HangUpKeeps, WorldKeeps DEF Server

-----------------------------------------------------------------------------
\* Steps of the page

\* What only adds to the page's messages keeps what is known of the session.
LEMMA AskKeeps ==
  ASSUME Sequel, Mail, Sessions, up' \in [Sockets -> Seq(Wishes)],
         hurried' \in BOOLEAN, hurried => hurried', events' \in 0..MaxEvents,
         UNCHANGED <<current, readyState, down, phase, usernameRef, polling,
                     voluntaryLogout, server>>
  PROVE  Mail' /\ Sessions'
PROOF
<1>1. Mail'
  BY DEF Mail, server
<1>2. \A s \in Sockets : Awaited(s)' <=> Awaited(s)
  BY DEF Awaited
<1>3. Open' <=> Open
  BY DEF Open
<1>4. Members' = Members
  BY DEF Members, server
<1>5. Open => current \in Sockets
  BY DEF Open, Sockets, Sequel
<1>6. SessionAgreement'
  BY <1>2, <1>3, <1>5 DEF Sessions, SessionAgreement, server
<1> QED
  BY <1>1, <1>2, <1>4, <1>6 DEF Sessions, server

LEMMA AsksKeep ==
  ASSUME Sequel, Mail, Sessions,
         Greet \/ Poll \/ SendText \/ ChangeStatus \/ ListUsers \/ GetInfo \/ CloseInfo
  PROVE  Mail' /\ Sessions'
PROOF
<1>1. /\ UNCHANGED <<current, readyState, down, phase, usernameRef, polling,
                     voluntaryLogout, server>>
      /\ hurried' \in BOOLEAN /\ (hurried => hurried')
  BY Zenon DEF Greet, Poll, SendText, ChangeStatus, ListUsers, GetInfo, CloseInfo, Ask, page,
     session, refs, sockets, Mail
<1>2. events' \in 0..MaxEvents
  <2>1. events' = events \/ (events < MaxEvents /\ events' = events + 1)
    BY Zenon DEF Greet, Poll, SendText, ChangeStatus, ListUsers, GetInfo, CloseInfo, Ask
  <2> QED
    BY <2>1, WebClientAssumption DEF Mail
<1>3. up' = up \/ \E p \in Wishes : up' = send(p)
  <2>1. /\ Packet("BROADCAST", None) \in Wishes /\ Packet("DIRECT", None) \in Wishes
        /\ Packet("LIST", None) \in Wishes
        /\ \A v \in Statuses : Packet("STATUS", v) \in Wishes
        /\ \A who \in {"me", "bob"} : Packet("INFO", who) \in Wishes
    BY WishTypes DEF Commands, Names
  <2>2. CASE Greet \/ Poll
    BY <2>1, <2>2, Zenon DEF Greet, Poll
  <2>3. CASE SendText
    BY <2>1, <2>3, Zenon DEF SendText, Ask
  <2>4. CASE ChangeStatus \/ ListUsers
    BY <2>1, <2>4, Zenon DEF ChangeStatus, ListUsers, Ask
  <2>5. CASE GetInfo
    BY <2>1, <2>5, Zenon DEF GetInfo, Ask
  <2>6. CASE CloseInfo
    BY <2>6, Zenon DEF CloseInfo, sockets
  <2> QED
    BY <2>2, <2>3, <2>4, <2>5, <2>6
<1>4. up' \in [Sockets -> Seq(Wishes)]
  BY <1>3, WishSent DEF Mail
<1> QED
  BY <1>1, <1>2, <1>4, AskKeeps

LEMMA ConnectKeeps ==
  ASSUME Sequel, Mail, Sessions, Connect
  PROVE  Mail' /\ Sessions'
PROOF
<1>1. /\ phase = "login" /\ current < MaxSockets /\ current' = current + 1
      /\ readyState' = [Closed(current) EXCEPT ![current + 1] = "connecting"]
      /\ down' = Unread(current)
      /\ usernameRef' = FALSE /\ voluntaryLogout' = FALSE /\ reason' = None
      /\ hurried' = (hurried \/ greet # {}
                     \/ \E t \in Sockets : readyState[t] \notin {"none", "closed"})
      /\ UNCHANGED <<phase, polling, up, srv, status, bob, notice, answer, events>>
  BY Zenon DEF Connect, NewSocket
<1> DEFINE n == current + 1
<1>2. n \in Sockets /\ n # current
  BY <1>1, WebClientAssumption DEF Sequel, Sockets
<1>3. current' = n /\ readyState' = [Closed(current) EXCEPT ![n] = "connecting"]
  BY <1>1
<1> HIDE DEF n
<1>4. \A s \in Sockets :
        /\ readyState'[s] = IF s = n THEN "connecting" ELSE Closed(current)[s]
        /\ s \notin {n, current} => readyState'[s] = readyState[s]
        /\ down'[s] = IF s = current THEN <<>> ELSE down[s]
  BY <1>1, <1>3 DEF Closed, Unread
<1>5. down' \in [Sockets -> Seq(Letters)]
  BY <1>1 DEF Unread, Mail
<1>6. \A s \in Sockets : readyState'[s] # "open" => down'[s] = <<>>
  BY <1>2, <1>4 DEF Mail, Sequel, Live
<1>7. Mail'
  BY <1>1, <1>5, <1>6 DEF Mail, Errors
<1>8. Members' = Members
  BY <1>1 DEF Members
<1>9. \A s \in Sockets : Awaited(s)' => srv'[s] \in {"member", "gone"}
  <2>1. DOMAIN <<>> = {}
    OBVIOUS
  <2>2. \A s \in Sockets : Awaited(s)' => Awaited(s)
    BY <1>4, <2>1 DEF Awaited
  <2> QED
    BY <1>1, <2>2 DEF Sessions
<1>10. ASSUME ~hurried'
       PROVE  /\ \A s \in Sockets \ {n} : readyState'[s] \in {"none", "closed"}
              /\ ~usernameRef' /\ ~polling' /\ ~Open' /\ phase' # "chat"
  <2>1. ~hurried /\ \A s \in Sockets : readyState[s] \in {"none", "closed"}
    BY <1>1, <1>10
  <2>2. \A s \in Sockets \ {n} : readyState'[s] = readyState[s]
    BY <1>4, <2>1 DEF Closed
  <2>3. readyState'[n] = "connecting"
    BY <1>2, <1>4
  <2> QED
    BY <1>1, <1>3, <2>1, <2>2, <2>3 DEF Sessions, SessionAgreement, Open
<1> QED
  BY <1>1, <1>3, <1>7, <1>8, <1>9, <1>10 DEF Sessions, SessionAgreement

LEMMA LogoutKeeps ==
  ASSUME Sequel, Mail, Sessions, Logout
  PROVE  Mail' /\ Sessions'
PROOF
<1>1. /\ voluntaryLogout' = TRUE /\ polling' = FALSE /\ usernameRef' = FALSE
      /\ phase' = "login" /\ up' = send(Packet("LOGOUT", None)) /\ Close(current)
      /\ UNCHANGED <<current, server, hurried, events>>
  BY Zenon DEF Logout, EndSession, LeaveChat
<1>2. up' \in [Sockets -> Seq(Wishes)]
  BY <1>1, WishTypes, WishSent DEF Mail, Commands
<1>3. /\ down' \in [Sockets -> Seq(Letters)] /\ Shut'
      /\ \A s \in Sockets : Awaited(s)' => Awaited(s)
      /\ \A s \in Sockets : readyState'[s] \notin Live
  BY <1>1, ClosedShut DEF Mail, Shut
<1>4. Mail'
  BY <1>1, <1>2, <1>3 DEF Mail, Shut, server
<1>5. Members' = Members
  BY <1>1 DEF Members, server
<1>6. \A s \in Sockets : s # current => readyState'[s] = readyState[s]
  BY <1>1 DEF Close, Closed
<1>7. ~Open'
  BY <1>1, <1>3 DEF Open, Live, Sequel, Sockets
<1> QED
  BY <1>1, <1>3, <1>4, <1>5, <1>6, <1>7 DEF Sessions, SessionAgreement, server

LEMMA OpenKeeps ==
  ASSUME Sequel, Mail, Sessions, NEW s \in Sockets, OnOpen(s)
  PROVE  Mail' /\ Sessions'
PROOF
<1>1. /\ readyState[s] = "connecting" /\ readyState' = [readyState EXCEPT ![s] = "open"]
      /\ srv' = [srv EXCEPT ![s] = "dialling"]
      /\ UNCHANGED <<current, phase, usernameRef, polling, voluntaryLogout, up, down,
                     status, bob, notice, answer, reason, hurried, events>>
  BY Zenon DEF OnOpen, session, refs
<1>2. s = current /\ down[s] = <<>>
  BY <1>1 DEF Sequel, Live, Mail
<1>3. Mail'
  BY <1>1 DEF Mail, Sequel
<1>4. \A t \in Members' : t \in Members
  BY <1>1 DEF Members, Mail
<1>5. ~Awaited(s) /\ \A t \in Sockets : Awaited(t)' <=> Awaited(t)
  <2>1. DOMAIN <<>> = {}
    OBVIOUS
  <2> QED
    BY <1>1, <1>2, <2>1 DEF Awaited
<1>6. \A t \in Sockets : Awaited(t)' => srv'[t] \in {"member", "gone"}
  BY <1>1, <1>5 DEF Sessions, Mail
<1>7. \A t \in Sockets : readyState'[t] = IF t = s THEN "open" ELSE readyState[t]
  BY <1>1 DEF Sequel
<1>8. ~Open /\ srv'[s] = "dialling"
  BY <1>1, <1>2 DEF Open, Mail
<1>9. SessionAgreement'
  BY <1>1, <1>2, <1>8 DEF Sessions, SessionAgreement
<1> QED
  BY <1>1, <1>2, <1>3, <1>4, <1>6, <1>7, <1>9 DEF Sessions, Live

LEMMA EndedKeeps ==
  ASSUME Sequel, Mail, Sessions, NEW s \in Sockets, OnClose(s) \/ OnError(s)
  PROVE  Mail' /\ Sessions'
PROOF
<1>1. PICK e : Ended(s, e)
  BY DEF OnClose, OnError
<1>2. /\ readyState' = [readyState EXCEPT ![s] = "closed"]
      /\ down' = [down EXCEPT ![s] = <<>>] /\ polling' = FALSE
      /\ UNCHANGED <<current, voluntaryLogout, up, hurried, events>>
  BY <1>1 DEF Ended, refs
<1>3. \/ usernameRef' = FALSE /\ phase' = "login"
      \/ UNCHANGED <<usernameRef, phase>> /\ ~WasLost
  BY <1>1, Zenon DEF Ended, LeaveChat
<1>4. /\ readyState[s] \in {"connecting", "aborted", "open", "closing"}
      /\ UNCHANGED <<srv, status, bob, notice, answer>>
      /\ reason' \in {reason, "unreachable"}
  BY DEF OnClose, OnError, server
<1>5. <<>> \in Seq(Letters) /\ DOMAIN <<>> = {}
  OBVIOUS
<1>6. Mail'
  BY <1>2, <1>4, <1>5 DEF Mail, Errors, Sequel
<1>7. \A t \in Sockets : Awaited(t)' => Awaited(t)
  BY <1>2, <1>5 DEF Awaited, Mail
<1>8. Members' = Members
  BY <1>4 DEF Members
<1>9. \A t \in Sockets : readyState'[t] = IF t = s THEN "closed" ELSE readyState[t]
  BY <1>2 DEF Sequel
<1>10. SessionAgreement'
  <2> SUFFICES ASSUME ~hurried PROVE SessionAgreement'
    BY <1>2 DEF SessionAgreement
  <2>1. s = current
    BY <1>4 DEF Sessions
  <2>2. ~Open'
    BY <1>2, <1>9, <2>1 DEF Open
  <2>3. usernameRef => WasLost
    BY <1>4, <2>1 DEF Sessions, SessionAgreement, Open, Live, WasLost
  <2> QED
    BY <1>2, <1>3, <2>2, <2>3 DEF Sessions, SessionAgreement
<1> QED
  BY <1>2, <1>4, <1>6, <1>7, <1>8, <1>9, <1>10 DEF Sessions, Live

\* Only the answer to REGISTER is a welcome, and only a welcome changes the session.
LEMMA PacketHandled ==
  ASSUME NEW s, NEW p \in Letters, handlePacket(s, p)
  PROVE  /\ up' \in {up, [up EXCEPT ![current] = Append(@, Packet("REGISTER", None))]}
         /\ \/ /\ Welcome(s, p) /\ p.cmd = "OK"
               /\ phase' = "chat" /\ usernameRef' = TRUE /\ polling' = TRUE
            \/ p.val # "welcome" /\ UNCHANGED <<phase, usernameRef, polling>>
PROOF
<1>1. p.val = "welcome" => p.cmd = "OK"
  BY DEF Letters
<1>2. "welcome" \notin Statuses
  BY DEF Statuses
<1>3. CASE Welcome(s, p)
  BY <1>3, Zenon DEF Welcome, NewChat, startPolling
<1>4. CASE TcpOk(p)
  BY <1>1, <1>4, Zenon DEF TcpOk, Register, session
<1>5. CASE StatusTold(s, p)
  BY <1>2, <1>5, Zenon DEF StatusTold, session
<1>6. CASE ErrorTold(s, p) \/ Text(s, p) \/ Disconnected(s, p)
  BY <1>1, <1>6, Zenon DEF ErrorTold, Text, Disconnected, session
<1>7. CASE UserList(s, p) \/ UserInfo(p)
  BY <1>1, <1>7, Zenon DEF UserList, UserInfo, session
<1> QED
  BY <1>3, <1>4, <1>5, <1>6, <1>7 DEF handlePacket

LEMMA MessageKeeps ==
  ASSUME Sequel, Mail, Sessions, NEW s \in Sockets, OnMessage(s)
  PROVE  Mail' /\ Sessions'
PROOF
<1> DEFINE p == Head(down[s])
<1>1. /\ readyState[s] = "open" /\ down[s] # <<>> /\ handlePacket(s, p)
      /\ \/ p.cmd = "ERROR" /\ ~usernameRef /\ Close(current)
         \/ readyState' = readyState /\ down' = [down EXCEPT ![s] = Tail(@)]
      /\ UNCHANGED <<current, voluntaryLogout, server, hurried, events>>
  BY Zenon DEF OnMessage, refs
<1>2. s = current /\ Open
  BY <1>1 DEF Sequel, Live, Open, Sockets
<1>3. /\ down[s] \in Seq(Letters) /\ p \in Letters /\ Tail(down[s]) \in Seq(Letters)
      /\ \A i \in DOMAIN Tail(down[s]) :
           i + 1 \in DOMAIN down[s] /\ Tail(down[s])[i] = down[s][i + 1]
      /\ \A i \in DOMAIN down[s] :
           \/ down[s][i] = p
           \/ i - 1 \in DOMAIN Tail(down[s]) /\ Tail(down[s])[i - 1] = down[s][i]
      /\ 1 \in DOMAIN down[s] /\ down[s][1] = p
  <2>1. down[s] \in Seq(Letters)
    BY DEF Mail
  <2> HIDE DEF p
  <2> DEFINE q == down[s]
  <2>2. q \in Seq(Letters) /\ q # <<>> /\ p = Head(q)
    BY <1>1, <2>1 DEF p
  <2> HIDE DEF q
  <2>3. /\ p \in Letters /\ Tail(q) \in Seq(Letters) /\ 1 \in DOMAIN q /\ q[1] = p
        /\ \A i \in DOMAIN Tail(q) : i + 1 \in DOMAIN q /\ Tail(q)[i] = q[i + 1]
    BY <2>2
  <2>4. ASSUME NEW i \in DOMAIN q, i # 1
        PROVE  i - 1 \in DOMAIN Tail(q) /\ Tail(q)[i - 1] = q[i]
    BY <2>2, <2>4
  <2> QED
    BY <2>1, <2>3, <2>4 DEF q
<1> HIDE DEF p
<1>4. /\ up' \in [Sockets -> Seq(Wishes)]
      /\ \/ /\ p.val = "welcome" /\ p.cmd = "OK"
            /\ phase' = "chat" /\ usernameRef' = TRUE /\ polling' = TRUE
         \/ p.val # "welcome" /\ UNCHANGED <<phase, usernameRef, polling>>
  <2>1. Packet("REGISTER", None) \in Wishes
    BY WishTypes DEF Commands
  <2> QED
    BY <1>1, <1>3, <2>1, PacketHandled, WishSent DEF Mail, Welcome
<1>5. Members' = Members
  BY <1>1 DEF Members, server
<1>6. CASE p.cmd = "ERROR" /\ ~usernameRef /\ Close(current)
  <2>1. /\ down' \in [Sockets -> Seq(Letters)] /\ Shut'
        /\ \A t \in Sockets : Awaited(t)' => Awaited(t)
        /\ \A t \in Sockets : readyState'[t] \notin Live
    BY <1>6, ClosedShut DEF Mail, Shut
  <2>2. Mail'
    BY <1>1, <1>4, <2>1 DEF Mail, Shut, server
  <2>3. \A t \in Sockets : t # current => readyState'[t] = readyState[t]
    BY <1>6 DEF Close, Closed
  <2>4. ~Open' /\ UNCHANGED <<phase, usernameRef, polling>>
    BY <1>1, <1>2, <1>4, <1>6, <2>1 DEF Open, Live
  <2> QED
    BY <1>1, <1>5, <1>6, <2>1, <2>2, <2>3, <2>4 DEF Sessions, SessionAgreement, server
<1>7. CASE readyState' = readyState /\ down' = [down EXCEPT ![s] = Tail(@)]
  <2>1. Mail'
    BY <1>1, <1>3, <1>4, <1>7 DEF Mail, server
  <2>2. \A t \in Sockets : down'[t] = IF t = s THEN Tail(down[s]) ELSE down[t]
    BY <1>7 DEF Mail
  <2> DEFINE q == down[s]
             r == Tail(down[s])
  <2>3. /\ \A i \in DOMAIN r : i + 1 \in DOMAIN q /\ r[i] = q[i + 1]
        /\ \A i \in DOMAIN q : q[i] = p \/ (i - 1 \in DOMAIN r /\ r[i - 1] = q[i])
        /\ down[s] = q /\ down'[s] = r
    BY <1>3, <2>2
  <2> HIDE DEF q, r
  <2>4. Awaited(s)' => Awaited(s)
    BY <2>3 DEF Awaited
  <2>5. \A t \in Sockets : Awaited(t)' => Awaited(t)
    BY <2>2, <2>4 DEF Awaited
  <2>6. ASSUME p.val # "welcome", Awaited(s) PROVE Awaited(s)'
    <3>1. PICK i \in DOMAIN q : q[i].val = "welcome"
      BY <2>3, <2>6 DEF Awaited
    <3>2. i - 1 \in DOMAIN r /\ r[i - 1] = q[i]
      BY <2>6, <2>3, <3>1
    <3> QED
      BY <2>3, <3>1, <3>2 DEF Awaited
  <2>7. p.val = "welcome" => Awaited(s)
    BY <1>3 DEF Awaited
  <2>8. Open'
    BY <1>1, <1>2, <1>7 DEF Open
  <2>9. SessionAgreement'
    BY <1>1, <1>2, <1>4, <2>6, <2>7, <2>8 DEF Sessions, SessionAgreement, server
  <2> QED
    BY <1>1, <1>5, <1>7, <2>1, <2>5, <2>9 DEF Sessions, server
<1> QED
  BY <1>1, <1>6, <1>7

LEMMA SessionsStep ==
  ASSUME Sequel, Mail, Sessions, [Next]_vars
  PROVE  Mail' /\ Sessions'
PROOF
<1>1. CASE \E s \in Sockets : Browser(s)
  BY <1>1, OpenKeeps, MessageKeeps, EndedKeeps DEF Browser
<1>2. CASE User \/ Greet \/ Poll
  BY <1>2, ConnectKeeps, LogoutKeeps, AsksKeep DEF User
<1>3. CASE Announce \/ World \/ \E s \in Sockets : Server(s)
  BY <1>3, OutsideKeeps
<1>4. CASE UNCHANGED vars
  <2>1. UNCHANGED <<current, readyState, up, down, phase, usernameRef, polling,
                    voluntaryLogout, server, hurried, events>>
    BY <1>4 DEF vars, page, session, refs, sockets
  <2>2. hurried' \in BOOLEAN /\ events' \in 0..MaxEvents
        /\ up' \in [Sockets -> Seq(Wishes)]
    BY <2>1 DEF Mail
  <2> QED
    BY <2>1, <2>2, AskKeeps
<1> QED
  BY <1>1, <1>2, <1>3, <1>4 DEF Next

-----------------------------------------------------------------------------
\* What the page shows and keeps

LEMMA MessagePage ==
  ASSUME Sequel, Mail, Page, NEW s \in Sockets, OnMessage(s)
  PROVE  Page'
PROOF
<1> DEFINE p == Head(down[s])
<1>1. /\ readyState[s] = "open" /\ down[s] # <<>> /\ handlePacket(s, p)
      /\ UNCHANGED <<current, voluntaryLogout, pendingInfoTarget>>
  BY Zenon DEF OnMessage, refs
<1>2. p \in Letters
  BY <1>1 DEF Mail
<1> HIDE DEF p
<1>3. current \in Sockets
  BY <1>1 DEF Sequel, Live
<1>4. CASE TcpOk(p)
  BY <1>1, <1>4 DEF TcpOk, Page, session, form, view
<1>5. CASE Welcome(s, p)
  BY <1>1, <1>3, <1>5 DEF Welcome, NewChat, startPolling, Page, form, Statuses
<1>6. CASE StatusTold(s, p)
  BY <1>1, <1>3, <1>6 DEF StatusTold, addMessage, Page, session, form
<1>7. CASE ErrorTold(s, p)
  BY <1>1, <1>3, <1>7 DEF ErrorTold, addMessage, Page, session, form, Errors
<1>8. CASE Text(s, p)
  BY <1>1, <1>3, <1>8 DEF Text, addMessage, Page, session, form
<1>9. CASE UserList(s, p)
  <2>1. p.list \subseteq Entries
    BY <1>2 DEF Letters
  <2>2. /\ users' = p.list /\ UNCHANGED <<session, form, userInfo>>
        /\ myStatus' = myStatus \/ \E e \in p.list : myStatus' = e.status
        /\ messages' = messages \/ addMessage(s)
    BY <1>9 DEF UserList
  <2>3. myStatus' \in Statuses
    BY <2>1, <2>2 DEF Page, Entries
  <2> QED
    BY <1>1, <1>3, <2>1, <2>2, <2>3 DEF Page, addMessage, session, form
<1>10. CASE UserInfo(p)
  <2>1. /\ userInfo' = <<p.val, IF pendingInfoTarget # None THEN pendingInfoTarget ELSE "me">>
        /\ UNCHANGED <<session, form, myStatus, messages, users>>
        /\ p.val \in Names
    BY <1>2, <1>10 DEF UserInfo, Letters
  <2>2. userInfo' \in Names \X Names
    BY <2>1 DEF Page, Names
  <2> QED
    BY <1>1, <2>1, <2>2 DEF Page, session, form
<1>11. CASE Disconnected(s, p)
  BY <1>1, <1>3, <1>11 DEF Disconnected, addMessage, Page, session, form
<1> QED
  BY <1>1, <1>4, <1>5, <1>6, <1>7, <1>8, <1>9, <1>10, <1>11 DEF handlePacket

LEMMA BrowserPage ==
  ASSUME Sequel, Mail, Page, NEW s \in Sockets, Browser(s)
  PROVE  Page'
PROOF
<1>1. CASE OnOpen(s)
  BY <1>1 DEF OnOpen, Page, session, view, refs
<1>2. CASE OnMessage(s)
  BY <1>2, MessagePage
<1>3. CASE OnClose(s) \/ OnError(s)
  <2>1. PICK e \in Errors : Ended(s, e)
    BY <1>3 DEF OnClose, OnError, Page, Errors
  <2>2. /\ UNCHANGED <<greet, refs, userInfo>>
        /\ wsStatus' = "disconnected" /\ polling' = FALSE
        /\ \/ LeaveChat /\ loginError' = "lost"
           \/ loginError' = e /\ UNCHANGED <<usernameRef, phase, messages, users, myStatus>>
    BY <2>1, Zenon DEF Ended
  <2> QED
    BY <2>2 DEF Page, LeaveChat, refs, Errors, Statuses
<1> QED
  BY <1>1, <1>2, <1>3 DEF Browser

LEMMA UserPage ==
  ASSUME Sequel, Page, User
  PROVE  Page'
PROOF
<1>1. CASE Connect
  <2>1. /\ phase = "login" /\ current < MaxSockets /\ current' = current + 1
        /\ usernameRef' = FALSE /\ voluntaryLogout' = FALSE
        /\ loginError' = None /\ wsStatus' = "connecting"
        /\ UNCHANGED <<phase, polling, greet, view, pendingInfoTarget>>
    BY <1>1, Zenon DEF Connect, NewSocket
  <2> QED
    BY <2>1 DEF Page, view, Errors
<1>2. CASE SendText
  <2>1. /\ phase = "chat" /\ addMessage(current)
        /\ UNCHANGED <<session, form, refs, myStatus, users, userInfo>>
    BY <1>2, Zenon DEF SendText, Ask, refs
  <2> QED
    BY <2>1 DEF addMessage, Page, session, form, refs
<1>3. CASE ChangeStatus
  <2>1. /\ myStatus' \in Statuses
        /\ UNCHANGED <<session, form, refs, messages, users, userInfo>>
    BY <1>3, Zenon DEF ChangeStatus, Ask, refs
  <2> QED
    BY <2>1 DEF Page, session, form, refs
<1>4. CASE ListUsers
  <2>1. UNCHANGED <<session, form, refs, view>>
    BY <1>4, Zenon DEF ListUsers, Ask, refs
  <2> QED
    BY <2>1 DEF Page, session, form, refs, view
<1>5. CASE GetInfo
  <2>1. /\ pendingInfoTarget' \in Names
        /\ UNCHANGED <<session, form, current, voluntaryLogout, view>>
    BY <1>5, Zenon DEF GetInfo, Ask, Label, Names
  <2> QED
    BY <2>1 DEF Page, session, form, view
<1>6. CASE CloseInfo
  BY <1>6 DEF CloseInfo, Page, session, form, refs
<1>7. CASE Logout
  <2>1. /\ LeaveChat /\ loginError' = None /\ voluntaryLogout' = TRUE /\ polling' = FALSE
        /\ UNCHANGED <<greet, wsStatus, userInfo, current, pendingInfoTarget>>
    BY <1>7, Zenon DEF Logout
  <2> QED
    BY <2>1 DEF LeaveChat, Page, Errors, Statuses
<1> QED
  BY <1>1, <1>2, <1>3, <1>4, <1>5, <1>6, <1>7 DEF User

LEMMA PageStep ==
  ASSUME Sequel, Mail, Page, [Next]_vars
  PROVE  Page'
PROOF
<1>1. CASE \E s \in Sockets : Browser(s)
  BY <1>1, BrowserPage
<1>2. CASE User
  BY <1>2, UserPage
<1>3. CASE Greet
  <2>1. greet' \subseteq greet /\ UNCHANGED <<phase, usernameRef, polling, form, view, refs>>
    BY <1>3 DEF Greet
  <2> QED
    BY <2>1 DEF Page, form, view, refs
<1>4. CASE ~Greet /\ ~User /\ \A s \in Sockets : ~Browser(s)
  <2>1. UNCHANGED page
    BY <1>4, Zenon
       DEF Next, Server, Drop, Dial, FirstPacket, Serve, Reply, HangUp, Poll, Announce, World,
           Fail, vars
  <2> QED
    BY <2>1 DEF Page, page, session, form, view, refs
<1> QED
  BY <1>1, <1>2, <1>3, <1>4

-----------------------------------------------------------------------------
\* The chat and its session

LEMMA InitSessions == Init => Sequel /\ Mail /\ Sessions /\ Page
PROOF
<1> SUFFICES ASSUME Init PROVE Sequel /\ Mail /\ Sessions /\ Page
  OBVIOUS
<1>1. /\ phase = "login" /\ myStatus = "ACTIVE" /\ messages = {} /\ users = {}
      /\ wsStatus = "disconnected" /\ loginError = None /\ userInfo = <<>>
      /\ current = 0 /\ usernameRef = FALSE /\ voluntaryLogout = FALSE
      /\ pendingInfoTarget = None /\ polling = FALSE /\ greet = {}
      /\ readyState = [s \in Sockets |-> "none"]
      /\ up = [s \in Sockets |-> <<>>] /\ down = [s \in Sockets |-> <<>>]
      /\ srv = [s \in Sockets |-> "none"] /\ status = "ACTIVE"
      /\ bob = TRUE /\ notice = FALSE /\ answer = NoPacket /\ reason = None
      /\ hurried = FALSE /\ events = 0
  BY Zenon DEF Init
<1>2. Sequel
  BY <1>1, WebClientAssumption DEF Sequel, States, Live
<1>3. <<>> \in Seq(Wishes) /\ <<>> \in Seq(Letters) /\ DOMAIN <<>> = {}
  OBVIOUS
<1>4. NoPacket \in Letters
  BY LetterTypes
<1>5. Mail
  <2>1. /\ up \in [Sockets -> Seq(Wishes)] /\ down \in [Sockets -> Seq(Letters)]
        /\ srv \in [Sockets -> {"none", "dialling", "tcp", "member", "gone"}]
        /\ \A s \in Sockets : down[s] = <<>>
    BY <1>1, <1>3
  <2>2. 0 \in 0..MaxEvents
    BY WebClientAssumption
  <2>3. reason \in Errors
    BY <1>1 DEF Errors
  <2> QED
    BY <1>1, <1>4, <2>1, <2>2, <2>3 DEF Mail, Statuses
<1>6. Sessions
  <2>1. \A s \in Sockets : ~Awaited(s)
    BY <1>1, <1>3 DEF Awaited
  <2>2. ~Open /\ Members = {}
    BY <1>1 DEF Open, Members
  <2> QED
    BY <1>1, <2>1, <2>2 DEF Sessions, SessionAgreement, Live
<1>7. Page
  BY <1>1 DEF Page, Statuses, Errors
<1> QED
  BY <1>2, <1>5, <1>6, <1>7

(***************************************************************************)
(* Of a user who waits for the last socket to close, the page is in the    *)
(* chat, and polls, exactly while its session lasts: no late callback of   *)
(* another socket can take it out of a session, and no welcome is missed.  *)
(***************************************************************************)
THEOREM ChatsFollowSessions == Spec => []SessionAgreement
PROOF
<1>1. Init => Sequel /\ Mail /\ Sessions
  BY InitSessions
<1>2. Sequel /\ Mail /\ Sessions /\ [Next]_vars => (Sequel /\ Mail /\ Sessions)'
  BY SequelStep, SessionsStep
<1>3. Sessions => SessionAgreement
  BY DEF Sessions
<1> QED
  BY <1>1, <1>2, <1>3, PTL DEF Spec

(***************************************************************************)
(* The page's state keeps its types, and a socket that is not open has     *)
(* nothing for it.                                                         *)
(***************************************************************************)
THEOREM PageTypes == Spec => []TypeOK
PROOF
<1>1. Init => Sequel /\ Mail /\ Sessions /\ Page
  BY InitSessions
<1>2. Sequel /\ Mail /\ Sessions /\ Page /\ [Next]_vars
        => (Sequel /\ Mail /\ Sessions /\ Page)'
  BY SequelStep, SessionsStep, PageStep
<1>3. Sequel /\ Mail /\ Page => TypeOK
  <2> SUFFICES ASSUME Sequel, Mail, Page PROVE TypeOK
    OBVIOUS
  <2>1. \A s \in Sockets :
          /\ readyState[s] \in States
          /\ srv[s] \in {"none", "dialling", "tcp", "member", "gone"}
          /\ \A i \in DOMAIN up[s] : up[s][i].cmd \in Commands
          /\ readyState[s] # "open" => down[s] = <<>>
    <3> SUFFICES ASSUME NEW s \in Sockets, NEW i \in DOMAIN up[s]
                 PROVE  up[s][i].cmd \in Commands
      BY DEF Sequel, Mail
    <3>1. up[s][i] \in Wishes
      BY DEF Mail
    <3> QED
      BY <3>1 DEF Wishes
  <2>2. current \in 0..MaxSockets
    BY DEF Sequel
  <2> QED
    BY <2>1, <2>2 DEF Mail, Page, TypeOK, States, Names
<1> QED
  BY <1>1, <1>2, <1>3, PTL DEF Spec

-----------------------------------------------------------------------------
(***************************************************************************)
(* What the form says and what the modal shows                             *)
(*                                                                         *)
(* Of a user who is not in a hurry, the current socket tells it all: what  *)
(* is under way on it (Course), what has happened to its session and what  *)
(* the form says of it (Account), and whom the data under way are about    *)
(* (Labels).                                                               *)
(***************************************************************************)
Greeted(q) == \E i \in DOMAIN q : q[i].val = "welcome"
Refused(q) ==
  \E i \in DOMAIN q : q[i].cmd = "ERROR" /\ \A j \in DOMAIN q : j < i => q[j].val # "welcome"
Closes(q) == \E i \in DOMAIN q : q[i].cmd = "close"
Ends(q) == \A i \in DOMAIN q : q[i].cmd = "close" => i = Len(q)
Asks(q, cmds) == \E i \in DOMAIN q : q[i].cmd \in cmds
About(q, who) == \A i \in DOMAIN q : q[i].cmd \in {"INFO", "USER_INFO"} => q[i].val = who

Course(c) ==
  /\ readyState[c] \in {"connecting", "open", "closing", "closed"}
  /\ readyState[c] = "connecting" => srv[c] = "none"
  /\ readyState[c] \in Live => ~Asks(up[c], {"LOGOUT"})
  /\ readyState[c] \in Live /\ ~usernameRef => ~Asks(up[c], {"DIRECT", "INFO"})
  /\ Ends(down[c])
  /\ srv[c] = "member" /\ answer.val = "welcome" => ~usernameRef /\ ~Awaited(c)
  /\ srv[c] = "member" /\ answer.cmd = "ERROR" /\ readyState[c] = "open"
       => usernameRef \/ Awaited(c)

Account(c) ==
  /\ srv[c] = "none" =>
       \/ readyState[c] = "connecting" /\ reason = None /\ loginError = None
       \/ readyState[c] = "closed" /\ reason = "unreachable" /\ loginError = "unreachable"
  /\ srv[c] \in {"dialling", "tcp"} => readyState[c] = "open"
  /\ srv[c] \in {"dialling", "tcp", "member"} =>
       /\ reason = None /\ loginError = None /\ ~Closes(down[c])
       /\ ~usernameRef => ~Refused(down[c])
  /\ srv[c] = "gone" /\ readyState[c] = "open" =>
       /\ loginError = None /\ reason \in {"refused", "silent", "lost"}
       /\ usernameRef \/ Awaited(c) => reason = "lost"
       /\ ~usernameRef => (Refused(down[c]) <=> reason = "refused")
  /\ srv[c] = "gone" /\ readyState[c] # "open" =>
       /\ reason # "unreachable" /\ loginError \in {None, reason}
       /\ reason = "refused" => loginError = reason

Labels(c) ==
  /\ About(up[c], pendingInfoTarget) /\ About(down[c], pendingInfoTarget)
  /\ srv[c] = "member" /\ answer.cmd = "USER_INFO" => answer.val = pendingInfoTarget

Fresh == \A s \in Sockets : s > current => srv[s] = "none" /\ up[s] = <<>>

Told ==
  /\ answer.cmd # "close"
  /\ ~hurried =>
       /\ current = 0 => reason = None /\ loginError = None
       /\ current \in Sockets => Course(current) /\ Account(current) /\ Labels(current)
       /\ InfoLabelled

\* A sequence that goes on.
LEMMA GoesOn ==
  ASSUME NEW S, NEW q \in Seq(S), NEW r \in Seq(S), NEW who
  PROVE  /\ Greeted(q \o r) <=> Greeted(q) \/ Greeted(r)
         /\ Refused(q \o r) <=> Refused(q) \/ (~Greeted(q) /\ Refused(r))
         /\ Closes(q \o r) <=> Closes(q) \/ Closes(r)
         /\ ~Closes(q) /\ Ends(r) => Ends(q \o r)
         /\ About(q, who) /\ About(r, who) => About(q \o r, who)
PROOF
<1> DEFINE t == q \o r
           n == Len(q)
<1>1. n \in Nat /\ DOMAIN q = 1..n
  OBVIOUS
<1>2. /\ DOMAIN r = 1..Len(r) /\ Len(r) \in Nat
      /\ Len(t) = n + Len(r) /\ DOMAIN t = 1..(n + Len(r))
  OBVIOUS
<1>3. /\ \A i \in DOMAIN q : i \in DOMAIN t /\ t[i] = q[i]
      /\ \A i \in DOMAIN r : n + i \in DOMAIN t /\ t[n + i] = r[i]
  OBVIOUS
<1>4. \A i \in DOMAIN t : \/ i \in DOMAIN q
                          \/ i - n \in DOMAIN r /\ t[i] = r[i - n]
  OBVIOUS
<1> HIDE DEF t, n
<1>5. Greeted(t) <=> Greeted(q) \/ Greeted(r)
  BY <1>3, <1>4 DEF Greeted
<1>6. Closes(t) <=> Closes(q) \/ Closes(r)
  BY <1>3, <1>4 DEF Closes
<1>7. ASSUME ~Closes(q), Ends(r) PROVE Ends(t)
  <2> SUFFICES ASSUME NEW i \in DOMAIN t, t[i].cmd = "close" PROVE i = Len(t)
    BY DEF Ends
  <2>1. i \notin DOMAIN q
    BY <1>3, <1>7 DEF Closes
  <2>2. i - n \in DOMAIN r /\ r[i - n].cmd = "close"
    BY <1>4, <2>1
  <2>3. i - n = Len(r)
    BY <1>7, <2>2 DEF Ends
  <2> QED
    BY <1>1, <1>2, <2>3
<1>8. About(q, who) /\ About(r, who) => About(t, who)
  BY <1>3, <1>4 DEF About
<1>9. Refused(q) => Refused(t)
  BY <1>1, <1>2, <1>3 DEF Refused
<1>10. ~Greeted(q) /\ Refused(r) => Refused(t)
  <2> SUFFICES ASSUME ~Greeted(q), Refused(r) PROVE Refused(t)
    OBVIOUS
  <2>1. PICK i \in DOMAIN r :
          r[i].cmd = "ERROR" /\ \A j \in DOMAIN r : j < i => r[j].val # "welcome"
    BY DEF Refused
  <2>2. \A j \in DOMAIN t : j < n + i => t[j].val # "welcome"
    BY <1>1, <1>2, <1>3, <1>4, <2>1 DEF Greeted
  <2> QED
    BY <1>3, <2>1, <2>2 DEF Refused
<1>11. ASSUME Refused(t), ~Refused(q) PROVE ~Greeted(q) /\ Refused(r)
  <2>1. PICK i \in DOMAIN t :
          t[i].cmd = "ERROR" /\ \A j \in DOMAIN t : j < i => t[j].val # "welcome"
    BY <1>11 DEF Refused
  <2>2. i \notin DOMAIN q
    BY <1>1, <1>3, <1>11, <2>1 DEF Refused
  <2>3. i - n \in DOMAIN r /\ r[i - n].cmd = "ERROR"
    BY <1>4, <2>1, <2>2
  <2>4. ~Greeted(q)
    BY <1>1, <1>2, <1>3, <2>1, <2>2 DEF Greeted
  <2>5. \A j \in DOMAIN r : j < i - n => r[j].val # "welcome"
    BY <1>1, <1>2, <1>3, <2>1
  <2> QED
    BY <2>3, <2>4, <2>5 DEF Refused
<1> QED
  BY <1>5, <1>6, <1>7, <1>8, <1>9, <1>10, <1>11 DEF t

\* One whose first element is taken.
LEMMA LosesFirst ==
  ASSUME NEW S, NEW q \in Seq(S), q # <<>>, NEW who, NEW cmds
  PROVE  /\ Greeted(Tail(q)) => Greeted(q)
         /\ Head(q).val = "welcome" => Greeted(q)
         /\ Head(q).val # "welcome" => (Greeted(q) <=> Greeted(Tail(q)))
         /\ Head(q).cmd = "ERROR" => Refused(q)
         /\ Head(q).cmd # "ERROR" /\ Head(q).val # "welcome"
              => (Refused(q) <=> Refused(Tail(q)))
         /\ Closes(Tail(q)) => Closes(q)
         /\ Head(q).cmd = "close" => Closes(q)
         /\ Ends(q) => Ends(Tail(q))
         /\ Head(q).cmd = "close" /\ Ends(q) => ~Refused(q)
         /\ Asks(Tail(q), cmds) => Asks(q, cmds)
         /\ Head(q).cmd \in cmds => Asks(q, cmds)
         /\ About(q, who) => About(Tail(q), who)
         /\ About(q, who) /\ Head(q).cmd \in {"INFO", "USER_INFO"} => Head(q).val = who
PROOF
<1> DEFINE t == Tail(q)
           p == Head(q)
           n == Len(q)
<1>1. n \in Nat /\ DOMAIN q = 1..n /\ p = q[1] /\ 1 \in DOMAIN q
  OBVIOUS
<1>2. Len(t) = n - 1 /\ DOMAIN t = 1..(n - 1)
  OBVIOUS
<1>3. \A i \in DOMAIN t : i + 1 \in DOMAIN q /\ t[i] = q[i + 1]
  OBVIOUS
<1>4. \A i \in DOMAIN q : i = 1 \/ (i - 1 \in DOMAIN t /\ t[i - 1] = q[i])
  OBVIOUS
<1>5. /\ Greeted(t) => Greeted(q)
      /\ p.val = "welcome" => Greeted(q)
      /\ p.val # "welcome" => (Greeted(q) <=> Greeted(t))
  <2> HIDE DEF t, p, n
  <2> QED
    BY <1>1, <1>3, <1>4 DEF Greeted
<1>6. /\ Closes(t) => Closes(q)
      /\ p.cmd = "close" => Closes(q)
      /\ Asks(t, cmds) => Asks(q, cmds)
      /\ p.cmd \in cmds => Asks(q, cmds)
      /\ About(q, who) => About(t, who)
      /\ About(q, who) /\ p.cmd \in {"INFO", "USER_INFO"} => p.val = who
  <2> HIDE DEF t, p, n
  <2> QED
    BY <1>1, <1>3 DEF Closes, Asks, About
<1>7. /\ Ends(q) => Ends(t)
      /\ p.cmd = "close" /\ Ends(q) => ~Refused(q)
  <2> HIDE DEF t, p
  <2>1. Ends(q) => Ends(t)
    BY <1>1, <1>2, <1>3 DEF Ends
  <2>2. p.cmd = "close" /\ Ends(q) => ~Refused(q)
    BY <1>1 DEF Ends, Refused
  <2> QED
    BY <2>1, <2>2
<1> HIDE DEF t, p, n
<1>8. p.cmd = "ERROR" => Refused(q)
  BY <1>1 DEF Refused
<1>9. ASSUME p.cmd # "ERROR", p.val # "welcome", Refused(q) PROVE Refused(t)
  <2>1. PICK i \in DOMAIN q :
          q[i].cmd = "ERROR" /\ \A j \in DOMAIN q : j < i => q[j].val # "welcome"
    BY <1>9 DEF Refused
  <2>2. i - 1 \in DOMAIN t /\ t[i - 1].cmd = "ERROR"
    BY <1>1, <1>4, <1>9, <2>1
  <2>3. \A j \in DOMAIN t : j < i - 1 => t[j].val # "welcome"
    BY <1>1, <1>2, <1>3, <2>1
  <2> QED
    BY <2>2, <2>3 DEF Refused
<1>10. ASSUME p.cmd # "ERROR", p.val # "welcome", Refused(t) PROVE Refused(q)
  <2>1. PICK i \in DOMAIN t :
          t[i].cmd = "ERROR" /\ \A j \in DOMAIN t : j < i => t[j].val # "welcome"
    BY <1>10 DEF Refused
  <2>2. i + 1 \in DOMAIN q /\ q[i + 1].cmd = "ERROR"
    BY <1>3, <2>1
  <2>3. \A j \in DOMAIN q : j < i + 1 => q[j].val # "welcome"
    BY <1>1, <1>2, <1>4, <1>10, <2>1
  <2> QED
    BY <2>2, <2>3 DEF Refused
<1> QED
  BY <1>5, <1>6, <1>7, <1>8, <1>9, <1>10 DEF t, p

LEMMA WishAdded ==
  ASSUME NEW S, NEW q \in Seq(S), NEW p \in S, NEW who, NEW cmds
  PROVE  /\ Asks(Append(q, p), cmds) <=> Asks(q, cmds) \/ p.cmd \in cmds
         /\ About(q, who) /\ (p.cmd \in {"INFO", "USER_INFO"} => p.val = who)
              => About(Append(q, p), who)
PROOF
<1> DEFINE t == Append(q, p)
           n == Len(q)
<1>1. /\ \A i \in DOMAIN q : i \in DOMAIN t /\ t[i] = q[i]
      /\ \A i \in DOMAIN t : i \in DOMAIN q \/ t[i] = p
      /\ n + 1 \in DOMAIN t /\ t[n + 1] = p
  OBVIOUS
<1> HIDE DEF t, n
<1>2. /\ Asks(t, cmds) <=> Asks(q, cmds) \/ p.cmd \in cmds
      /\ About(q, who) /\ (p.cmd \in {"INFO", "USER_INFO"} => p.val = who) => About(t, who)
  BY <1>1 DEF Asks, About
<1> QED
  BY <1>2 DEF t

LEMMA SaysNothing ==
  /\ ~Greeted(<<>>) /\ ~Refused(<<>>) /\ ~Closes(<<>>) /\ Ends(<<>>)
  /\ \A cmds : ~Asks(<<>>, cmds)
  /\ \A who : About(<<>>, who)
PROOF
<1>1. DOMAIN <<>> = {}
  OBVIOUS
<1> QED
  BY <1>1 DEF Greeted, Refused, Closes, Ends, Asks, About

LEMMA SaysOne ==
  ASSUME NEW p \in Letters, NEW who
  PROVE  /\ Greeted(<<p>>) <=> p.val = "welcome"
         /\ Refused(<<p>>) <=> p.cmd = "ERROR"
         /\ Closes(<<p>>) <=> p.cmd = "close"
         /\ Ends(<<p>>)
         /\ (p.cmd = "USER_INFO" => p.val = who) => About(<<p>>, who)
PROOF
<1> DEFINE q == <<p>>
<1>1. DOMAIN q = {1} /\ q[1] = p /\ Len(q) = 1
  OBVIOUS
<1>2. p.cmd # "INFO"
  BY DEF Letters, Replies, None
<1> HIDE DEF q
<1>3. /\ Greeted(q) <=> p.val = "welcome"
      /\ Refused(q) <=> p.cmd = "ERROR"
      /\ Closes(q) <=> p.cmd = "close"
      /\ Ends(q)
      /\ (p.cmd = "USER_INFO" => p.val = who) => About(q, who)
  BY <1>1, <1>2 DEF Greeted, Refused, Closes, Ends, About
<1> QED
  BY <1>3 DEF q

\* An ERROR and the end.
LEMMA SaysNo ==
  ASSUME NEW e \in Letters, e.cmd = "ERROR", e.val # "welcome",
         NEW c \in Letters, c.cmd = "close", c.val # "welcome", NEW who
  PROVE  /\ ~Greeted(<<e, c>>) /\ Refused(<<e, c>>) /\ Closes(<<e, c>>) /\ Ends(<<e, c>>)
         /\ About(<<e, c>>, who)
PROOF
<1> DEFINE q == <<e, c>>
<1>1. DOMAIN q = {1, 2} /\ q[1] = e /\ q[2] = c /\ Len(q) = 2
  OBVIOUS
<1> HIDE DEF q
<1>2. ~Greeted(q) /\ Refused(q) /\ Closes(q) /\ Ends(q) /\ About(q, who)
  BY <1>1 DEF Greeted, Refused, Closes, Ends, About
<1> QED
  BY <1>2 DEF q

\* What a delivery changes for one socket.
LEMMA Reaches ==
  ASSUME Mail, NEW c \in Sockets, NEW to, NEW packets \in Seq(Letters), NEW who,
         Deliver(to, packets)
  PROVE  /\ c \notin to \/ readyState[c] # "open" => down'[c] = down[c]
         /\ c \in to /\ readyState[c] = "open" =>
              /\ Greeted(down'[c]) <=> Greeted(down[c]) \/ Greeted(packets)
              /\ Refused(down'[c]) <=>
                   Refused(down[c]) \/ (~Greeted(down[c]) /\ Refused(packets))
              /\ Closes(down'[c]) <=> Closes(down[c]) \/ Closes(packets)
              /\ ~Closes(down[c]) /\ Ends(packets) => Ends(down'[c])
              /\ About(down[c], who) /\ About(packets, who) => About(down'[c], who)
PROOF
<1>1. down'[c] = IF c \in to /\ readyState[c] = "open" THEN down[c] \o packets ELSE down[c]
  BY DEF Deliver
<1>2. down[c] \in Seq(Letters)
  BY DEF Mail
<1>3. CASE c \in to /\ readyState[c] = "open"
  <2> DEFINE new == down[c] \o packets
  <2>1. /\ Greeted(new) <=> Greeted(down[c]) \/ Greeted(packets)
        /\ Refused(new) <=> Refused(down[c]) \/ (~Greeted(down[c]) /\ Refused(packets))
        /\ Closes(new) <=> Closes(down[c]) \/ Closes(packets)
        /\ ~Closes(down[c]) /\ Ends(packets) => Ends(new)
        /\ About(down[c], who) /\ About(packets, who) => About(new, who)
    BY <1>2, GoesOn, Zenon
  <2>2. down'[c] = new
    BY <1>1, <1>3
  <2> HIDE DEF new
  <2> QED
    BY <1>3, <2>1, <2>2
<1> QED
  BY <1>1, <1>3

LEMMA ReachesOne ==
  ASSUME Mail, NEW c \in Sockets, NEW to, NEW p \in Letters, NEW who, Deliver(to, <<p>>),
         p.cmd # "close"
  PROVE  /\ c \notin to => down'[c] = down[c]
         /\ Greeted(down'[c]) <=>
              Greeted(down[c]) \/ (c \in to /\ readyState[c] = "open" /\ p.val = "welcome")
         /\ Refused(down[c]) => Refused(down'[c])
         /\ Refused(down'[c]) => \/ Refused(down[c])
                                 \/ c \in to /\ p.cmd = "ERROR" /\ ~Greeted(down[c])
                                    /\ readyState[c] = "open"
         /\ Closes(down'[c]) <=> Closes(down[c])
         /\ ~Closes(down[c]) /\ Ends(down[c]) => Ends(down'[c])
         /\ About(down[c], who) /\ (c \in to /\ p.cmd = "USER_INFO" => p.val = who)
              => About(down'[c], who)
PROOF
<1> DEFINE one == <<p>>
<1>1. one \in Seq(Letters) /\ Deliver(to, one)
  BY OneLetter
<1>2. /\ Greeted(one) <=> p.val = "welcome"
      /\ Refused(one) <=> p.cmd = "ERROR"
      /\ ~Closes(one) /\ Ends(one)
      /\ (p.cmd = "USER_INFO" => p.val = who) => About(one, who)
  BY SaysOne
<1> HIDE DEF one
<1> QED
  BY <1>1, <1>2, Reaches

\* What a step of the server's side leaves to the page.
StillPage ==
  UNCHANGED <<current, readyState, usernameRef, loginError, userInfo, pendingInfoTarget,
              hurried>>

\* Nothing new for the page but what changes none of its accounts.
Same(c) ==
  /\ Greeted(down'[c]) <=> Greeted(down[c])
  /\ Refused(down'[c]) <=> Refused(down[c])
  /\ Closes(down'[c]) <=> Closes(down[c])
  /\ Ends(down[c]) => Ends(down'[c])
  /\ \A who : About(down[c], who) => About(down'[c], who)

\* Nothing new from it.
Shorter(c) ==
  /\ \A cmds : Asks(up'[c], cmds) => Asks(up[c], cmds)
  /\ \A who : About(up[c], who) => About(up'[c], who)

LEMMA TakenUp ==
  ASSUME Mail, NEW s \in Sockets, NEW c \in Sockets,
         \/ up' = up
         \/ up[s] # <<>> /\ up' = [up EXCEPT ![s] = Tail(@)]
         \/ up' = [up EXCEPT ![s] = <<>>]
  PROVE  Shorter(c) /\ (c # s => up'[c] = up[c])
PROOF
<1>1. CASE up'[c] = up[c]
  BY <1>1 DEF Shorter
<1>2. CASE c = s /\ up[s] # <<>> /\ up'[c] = Tail(up[c])
  <2>1. up[c] \in Seq(Wishes)
    BY DEF Mail
  <2> QED
    BY <1>2, <2>1, LosesFirst, Zenon DEF Shorter
<1>3. CASE c = s /\ up'[c] = <<>>
  BY <1>3, SaysNothing, Zenon DEF Shorter
<1> QED
  BY <1>1, <1>2, <1>3 DEF Mail

LEMMA SameLetter ==
  ASSUME Mail, NEW c \in Sockets, NEW to, NEW p \in Letters, Deliver(to, <<p>>),
         p.cmd \notin {"close", "ERROR", "USER_INFO"}, p.val # "welcome",
         c \in to => ~Closes(down[c])
  PROVE  Same(c)
PROOF
<1>1. CASE c \in to
  BY <1>1, ReachesOne DEF Same
<1>2. CASE c \notin to
  <2>1. down'[c] = down[c]
    BY <1>2, ReachesOne
  <2> QED
    BY <2>1 DEF Same
<1> QED
  BY <1>1, <1>2

LEMMA AwaitedIs ==
  \A c : (Awaited(c) <=> Greeted(down[c])) /\ (Awaited(c)' <=> Greeted(down'[c]))
PROOF
  BY DEF Awaited, Greeted

LEMMA ToldAt ==
  ASSUME Told, StillPage, current = 0 => reason' = reason, answer'.cmd # "close",
         (/\ ~hurried /\ current \in Sockets
          /\ Course(current) /\ Account(current) /\ Labels(current))
           => (Course(current) /\ Account(current) /\ Labels(current))'
  PROVE  Told'
PROOF
  BY DEF Told, StillPage, InfoLabelled

\* The session shown goes on as it was.
LEMMA GoesOnTold ==
  ASSUME Told, StillPage, UNCHANGED reason,
         ~hurried /\ current \in Sockets =>
           /\ srv'[current] = srv[current] /\ Shorter(current)
           /\ Account(current) => Same(current)
           /\ srv[current] = "member" => answer' = answer,
         answer'.cmd # "close"
  PROVE  Told'
PROOF
<1>1. ASSUME ~hurried, current \in Sockets,
             Course(current), Account(current), Labels(current)
      PROVE  (Course(current) /\ Account(current) /\ Labels(current))'
  <2>1. /\ srv'[current] = srv[current] /\ Shorter(current) /\ Same(current)
        /\ srv[current] = "member" => answer' = answer
    BY <1>1
  <2>2. Awaited(current)' <=> Awaited(current)
    BY <2>1, AwaitedIs DEF Same, StillPage
  <2>3. Course(current)'
    BY <1>1, <2>1, <2>2 DEF Course, Same, Shorter, StillPage
  <2>4. Account(current)'
    BY <1>1, <2>1, <2>2 DEF Account, Same, StillPage
  <2>5. Labels(current)'
    BY <1>1, <2>1 DEF Labels, Same, Shorter, StillPage
  <2> QED
    BY <2>3, <2>4, <2>5
<1> QED
  BY <1>1, ToldAt

LEMMA NoticesTold ==
  ASSUME Sequel, Mail, Sessions, Told, StillPage, NEW p \in Letters,
         p.cmd \notin {"close", "ERROR", "USER_INFO"}, p.val # "welcome",
         down' = down \/ Deliver(Members, <<p>>), UNCHANGED <<up, srv, answer, reason>>
  PROVE  Told'
PROOF
<1>1. ASSUME ~hurried, current \in Sockets, Account(current)
      PROVE  Same(current)
  <2>1. CASE down' = down
    BY <2>1 DEF Same
  <2>2. CASE Deliver(Members, <<p>>)
    <3>1. current \in Members => ~Closes(down[current])
      BY <1>1 DEF Members, Account
    <3> QED
      BY <1>1, <2>2, <3>1, SameLetter
  <2> QED
    BY <2>1, <2>2
<1>2. current \in Sockets => Shorter(current)
  BY DEF Shorter
<1>3. answer'.cmd # "close"
  BY DEF Told
<1> QED
  BY <1>1, <1>2, <1>3, GoesOnTold

LEMMA DropTold ==
  ASSUME Sequel, Mail, Sessions, Told, NEW s \in Sockets, Drop(s)
  PROVE  Told'
PROOF
<1>1. /\ StillPage /\ UNCHANGED <<down, srv, answer, reason>>
      /\ up[s] # <<>> /\ up' = [up EXCEPT ![s] = Tail(@)]
  BY DEF Drop, StillPage, page, session, form, view, refs, server
<1>2. current \in Sockets => Shorter(current) /\ Same(current)
  BY <1>1, TakenUp DEF Same
<1>3. answer'.cmd # "close"
  BY <1>1 DEF Told
<1> QED
  BY <1>1, <1>2, <1>3, GoesOnTold

\* The socket shown is refused.
LEMMA RefuseTold ==
  ASSUME Sequel, Mail, Sessions, Told, StillPage, NEW s \in Sockets, Refuse(s),
         srv[s] \in {"dialling", "tcp"},
         \A c \in Sockets : Shorter(c)
  PROVE  Told'
PROOF
<1> DEFINE e == Packet("ERROR", None)
           f == Packet("close", None)
<1>1. /\ e \in Letters /\ e.val # "welcome" /\ f \in Letters /\ f.val # "welcome"
      /\ e.cmd = "ERROR" /\ f.cmd = "close"
  BY LetterTypes DEF Replies, Texts, Packet
<1>2. /\ Deliver({s}, <<e, f>>) /\ srv' = [srv EXCEPT ![s] = "gone"]
      /\ reason' = (IF s = current THEN "refused" ELSE reason) /\ answer' = answer
  BY DEF Refuse
<1> HIDE DEF e, f
<1> DEFINE two == <<e, f>>
<1>3. two \in Seq(Letters) /\ Deliver({s}, two)
  BY <1>1, <1>2, TwoLetters
<1>4. \A who : ~Greeted(two) /\ Refused(two) /\ Closes(two) /\ Ends(two) /\ About(two, who)
  BY <1>1, SaysNo, Zenon
<1> HIDE DEF two
<1>5. answer'.cmd # "close"
  BY <1>2 DEF Told
<1>6. CASE s # current
  <2>1. current \in Sockets => srv'[current] = srv[current] /\ down'[current] = down[current]
    <3>1. current \in Sockets => down'[current] = down[current]
      BY <1>3, <1>6 DEF Deliver
    <3> QED
      BY <1>2, <1>6, <3>1 DEF Mail
  <2>2. current \in Sockets => Same(current)
    BY <2>1 DEF Same
  <2> QED
    BY <1>2, <1>5, <1>6, <2>1, <2>2, GoesOnTold
<1>7. CASE s = current
  <2> SUFFICES ASSUME ~hurried, Course(s), Account(s), Labels(s)
               PROVE  (Course(s) /\ Account(s) /\ Labels(s))'
    BY <1>2, <1>5, <1>7, ToldAt DEF StillPage, Sockets
  <2>1. /\ readyState[s] = "open" /\ loginError = None
        /\ ~Closes(down[s])
    BY DEF Account
  <2>2. ~usernameRef /\ ~Greeted(down[s])
    BY <1>7, AwaitedIs DEF Sessions, SessionAgreement
  <2>3. /\ ~Greeted(down'[s]) /\ Refused(down'[s]) /\ Closes(down'[s]) /\ Ends(down'[s])
        /\ \A who : About(down[s], who) => About(down'[s], who)
    BY <1>3, <1>4, <2>1, <2>2, Reaches
  <2>4. srv'[s] = "gone" /\ reason' = "refused" /\ ~Awaited(s)'
    BY <1>2, <1>7, <2>3, AwaitedIs DEF Mail
  <2>5. Course(s)'
    BY <2>1, <2>2, <2>3, <2>4 DEF Course, Shorter, StillPage
  <2>6. Account(s)'
    BY <2>1, <2>2, <2>3, <2>4 DEF Account, StillPage
  <2>7. Labels(s)'
    BY <2>3, <2>4 DEF Labels, Shorter, StillPage
  <2> QED
    BY <2>5, <2>6, <2>7
<1> QED
  BY <1>6, <1>7

LEMMA DialTold ==
  ASSUME Sequel, Mail, Sessions, Told, NEW s \in Sockets, Dial(s)
  PROVE  Told'
PROOF
<1>1. /\ StillPage /\ srv[s] = "dialling" /\ UNCHANGED <<up, answer>>
  BY DEF Dial, Refuse, StillPage, page, session, form, view, refs
<1>2. \A c \in Sockets : Shorter(c)
  BY <1>1 DEF Shorter
<1>3. CASE Refuse(s)
  BY <1>1, <1>2, <1>3, RefuseTold
<1>4. CASE srv' = [srv EXCEPT ![s] = "tcp"] /\ Deliver({s}, <<Packet("tcp_ok", None)>>)
           /\ UNCHANGED reason
  <2> DEFINE p == Packet("tcp_ok", None)
  <2>1. p \in Letters /\ p.val # "welcome" /\ p.cmd = "tcp_ok"
    BY LetterTypes DEF Replies, Texts, Packet
  <2>2. Deliver({s}, <<p>>)
    BY <1>4
  <2> HIDE DEF p
  <2>3. answer'.cmd # "close"
    BY <1>1 DEF Told
  <2>4. CASE s # current
    <3>1. current \in Sockets => srv'[current] = srv[current] /\ down'[current] = down[current]
      BY <1>4, <2>1, <2>2, <2>4, ReachesOne DEF Mail
    <3>2. current \in Sockets => Same(current)
      BY <3>1 DEF Same
    <3> QED
      BY <1>1, <1>2, <1>4, <2>3, <3>1, <3>2, GoesOnTold
  <2>5. CASE s = current
    <3> SUFFICES ASSUME ~hurried, Course(s), Account(s), Labels(s)
                 PROVE  (Course(s) /\ Account(s) /\ Labels(s))'
      BY <1>1, <1>4, <2>3, <2>5, ToldAt DEF StillPage, Sockets
    <3>1. Same(s)
      BY <1>1, <2>1, <2>2, SameLetter DEF Account
    <3>2. srv'[s] = "tcp" /\ (Awaited(s)' <=> Awaited(s))
      BY <1>4, <3>1, AwaitedIs DEF Same, Mail
    <3>3. Course(s)'
      BY <1>1, <1>2, <3>1, <3>2 DEF Course, Account, Same, Shorter, StillPage
    <3>4. Account(s)'
      BY <1>1, <1>4, <3>1, <3>2 DEF Account, Same, StillPage
    <3>5. Labels(s)'
      BY <1>1, <1>2, <3>1, <3>2 DEF Labels, Same, Shorter, StillPage
    <3> QED
      BY <3>3, <3>4, <3>5
  <2> QED
    BY <2>4, <2>5
<1> QED
  BY <1>3, <1>4 DEF Dial

LEMMA FirstPacketTold ==
  ASSUME Sequel, Mail, Sessions, Told, NEW s \in Sockets, FirstPacket(s)
  PROVE  Told'
PROOF
<1>1. /\ StillPage /\ srv[s] = "tcp" /\ up[s] # <<>> /\ up' = [up EXCEPT ![s] = Tail(@)]
  BY DEF FirstPacket, StillPage, page, session, form, view, refs
<1>2. \A c \in Sockets : Shorter(c)
  BY <1>1, TakenUp
<1>3. CASE Refuse(s)
  BY <1>1, <1>2, <1>3, RefuseTold
<1>4. CASE /\ Members = {} /\ srv' = [srv EXCEPT ![s] = "member"]
           /\ answer' = Packet("OK", "welcome") /\ UNCHANGED <<down, reason>>
  <2>1. answer'.cmd = "OK" /\ answer'.val = "welcome"
    BY <1>4 DEF Packet
  <2>2. \A c \in Sockets : Same(c)
    BY <1>4 DEF Same
  <2>3. CASE s # current
    <3>1. current \in Sockets => srv'[current] = srv[current] /\ srv[current] # "member"
      BY <1>4, <2>3 DEF Mail, Members
    <3> QED
      BY <1>1, <1>2, <1>4, <2>1, <2>2, <3>1, GoesOnTold
  <2>4. CASE s = current
    <3> SUFFICES ASSUME ~hurried, Course(s), Account(s), Labels(s)
                 PROVE  (Course(s) /\ Account(s) /\ Labels(s))'
      BY <1>1, <1>4, <2>1, <2>4, ToldAt DEF StillPage, Sockets
    <3>1. srv'[s] = "member" /\ (Awaited(s)' <=> Awaited(s))
      BY <1>4, AwaitedIs DEF Mail
    <3>2. ~usernameRef /\ ~Awaited(s)
      BY <1>1, <2>4 DEF Sessions, SessionAgreement
    <3>3. Course(s)'
      BY <1>1, <1>2, <1>4, <2>1, <3>1, <3>2 DEF Course, Account, Shorter, StillPage
    <3>4. Account(s)'
      BY <1>1, <1>4, <3>1, <3>2 DEF Account, StillPage
    <3>5. Labels(s)'
      BY <1>1, <1>2, <1>4, <2>1 DEF Labels, Shorter, StillPage
    <3> QED
      BY <3>3, <3>4, <3>5
  <2> QED
    BY <2>3, <2>4
<1> QED
  BY <1>3, <1>4 DEF FirstPacket

LEMMA ServeTold ==
  ASSUME Sequel, Mail, Sessions, Told, NEW s \in Sockets, Serve(s)
  PROVE  Told'
PROOF
<1> DEFINE p     == Head(up[s])
           moves == p.cmd \in {"BROADCAST", "DIRECT", "STATUS"} /\ status = "INACTIVE"
<1>1. /\ StillPage /\ UNCHANGED reason /\ srv[s] = "member" /\ answer = NoPacket
      /\ up[s] # <<>> /\ up' = [up EXCEPT ![s] = Tail(@)]
      /\ srv' = IF p.cmd = "LOGOUT" THEN [srv EXCEPT ![s] = "gone"] ELSE srv
  BY DEF Serve, StillPage, page, session, form, view, refs
<1>2. \A c \in Sockets : Shorter(c)
  BY <1>1, TakenUp
<1>3. p \in Wishes /\ up[s] \in Seq(Wishes)
  BY <1>1, UpTail DEF Mail
<1>4. /\ answer'.cmd # "close" /\ answer'.val # "welcome"
      /\ answer'.cmd = "ERROR" => p.cmd \in {"DIRECT", "INFO"}
      /\ answer'.cmd = "USER_INFO" => p.cmd = "INFO" /\ answer'.val = p.val
  <2>1. answer' =
          CASE p.cmd = "LIST" -> List(Roster)
            [] p.cmd = "BROADCAST" -> Packet("MSG", "me")
            [] p.cmd = "STATUS" -> Packet("OK", p.val)
            [] p.cmd = "INFO" /\ (p.val = "bob" => bob) -> Packet("USER_INFO", p.val)
            [] p.cmd \in {"DIRECT", "INFO"} /\ ~bob -> Packet("ERROR", None)
            [] OTHER -> NoPacket
    BY DEF Serve
  <2>2. /\ None \notin {"close", "ERROR", "USER_INFO", "welcome"}
        /\ "welcome" \notin Statuses \union Names
    BY Zenon DEF None, Statuses, Names
  <2>3. /\ p.cmd = "STATUS" => p.val \in Statuses
        /\ p.cmd = "INFO" => p.val \in Names
    BY <1>3 DEF Wishes
  <2> HIDE DEF p
  <2>4. \/ answer' = List(Roster) \/ answer' = NoPacket
        \/ p.cmd \in {"DIRECT", "INFO"} /\ answer' = Packet("ERROR", None)
        \/ p.cmd = "BROADCAST" /\ answer' = Packet("MSG", "me")
        \/ p.cmd = "STATUS" /\ answer' = Packet("OK", p.val)
        \/ p.cmd = "INFO" /\ answer' = Packet("USER_INFO", p.val)
    BY <2>1
  <2> QED
    BY <2>2, <2>3, <2>4 DEF List, NoPacket, Packet
<1>5. ASSUME ~hurried, current \in Sockets, Account(current)
      PROVE  Same(current)
  <2>1. CASE moves
    <3> DEFINE q == Packet("NOTICE", "ACTIVE")
    <3>1. q \in Letters /\ q.val # "welcome" /\ q.cmd = "NOTICE"
      BY LetterTypes DEF Replies, Texts, Statuses, Packet
    <3>2. Deliver({s}, <<q>>)
      BY <2>1 DEF Serve
    <3>3. current \in {s} => ~Closes(down[current])
      BY <1>1, <1>5 DEF Account
    <3> HIDE DEF q
    <3> QED
      BY <1>5, <3>1, <3>2, <3>3, SameLetter
  <2>2. CASE ~moves
    <3>1. Deliver({s}, <<>>)
      BY <2>2 DEF Serve
    <3>2. down' = down
      <4>1. \A c \in Sockets : down[c] \o <<>> = down[c]
        BY DEF Mail
      <4> QED
        BY <3>1, <4>1 DEF Deliver, Mail
    <3> QED
      BY <3>2 DEF Same
  <2> QED
    BY <2>1, <2>2
<1>6. CASE s # current
  <2>1. current \in Sockets => srv'[current] = srv[current] /\ srv[current] # "member"
    BY <1>1, <1>6 DEF Mail, Sessions, Members
  <2> QED
    BY <1>1, <1>2, <1>4, <1>5, <2>1, GoesOnTold
<1>7. CASE s = current
  <2> SUFFICES ASSUME ~hurried, Course(s), Account(s), Labels(s)
               PROVE  (Course(s) /\ Account(s) /\ Labels(s))'
    BY <1>1, <1>4, <1>7, ToldAt DEF StillPage, Sockets
  <2>1. Same(s) /\ (Awaited(s)' <=> Awaited(s))
    BY <1>5, <1>7, AwaitedIs DEF Same
  <2>2. /\ p.cmd \in {"DIRECT", "INFO"} => Asks(up[s], {"DIRECT", "INFO"})
        /\ p.cmd = "LOGOUT" => Asks(up[s], {"LOGOUT"})
        /\ p.cmd = "INFO" => p.val = pendingInfoTarget
    <3>1. \A cmds : p.cmd \in cmds => Asks(up[s], cmds)
      BY <1>1, <1>3, LosesFirst, Zenon
    <3>2. p.cmd \in {"INFO", "USER_INFO"} => p.val = pendingInfoTarget
      BY <1>1, <1>3, LosesFirst, Zenon DEF Labels
    <3> HIDE DEF p
    <3> QED
      BY <3>1, <3>2
  <2>3. srv'[s] = IF p.cmd = "LOGOUT" THEN "gone" ELSE "member"
    BY <1>1 DEF Mail
  <2> HIDE DEF p
  <2>4. Course(s)'
    BY <1>1, <1>2, <1>4, <2>1, <2>2, <2>3 DEF Course, Shorter, Same, StillPage, Live
  <2>5. Account(s)'
    <3>1. p.cmd = "LOGOUT" => readyState[s] \in {"closing", "closed"}
      BY <1>1, <2>2 DEF Course, Live
    <3>2. None \notin {"unreachable", "refused"}
      BY Zenon DEF None
    <3> QED
      BY <1>1, <2>1, <2>3, <3>1, <3>2 DEF Account, Same, StillPage
  <2>6. Labels(s)'
    BY <1>1, <1>2, <1>4, <2>1, <2>2 DEF Labels, Shorter, Same, StillPage
  <2> QED
    BY <2>4, <2>5, <2>6
<1> QED
  BY <1>6, <1>7

LEMMA ReplyTold ==
  ASSUME Sequel, Mail, Sessions, Told, NEW s \in Sockets, Reply(s)
  PROVE  Told'
PROOF
<1>1. /\ StillPage /\ UNCHANGED <<up, srv, reason>> /\ srv[s] = "member"
      /\ answer' = NoPacket /\ Deliver({s}, <<answer>>)
  BY DEF Reply, StillPage, page, session, form, view, refs
<1>2. \A c \in Sockets : Shorter(c)
  BY <1>1 DEF Shorter
<1>3. answer \in Letters /\ answer.cmd # "close"
  BY DEF Mail, Told
<1>4. answer'.cmd = None /\ answer'.val = None
  BY <1>1 DEF NoPacket, Packet
<1>5. None \notin {"close", "ERROR", "USER_INFO", "welcome"}
  BY Zenon DEF None
<1>6. CASE s # current
  <2>1. current \in Sockets => down'[current] = down[current] /\ srv[current] # "member"
    BY <1>1, <1>6 DEF Deliver, Sessions, Members
  <2>2. current \in Sockets => Same(current)
    BY <2>1 DEF Same
  <2> QED
    BY <1>1, <1>2, <1>4, <1>5, <2>1, <2>2, GoesOnTold
<1>7. CASE s = current
  <2> SUFFICES ASSUME ~hurried, Course(s), Account(s), Labels(s)
               PROVE  (Course(s) /\ Account(s) /\ Labels(s))'
    BY <1>1, <1>4, <1>5, <1>7, ToldAt DEF StillPage, Sockets
  <2>1. /\ Greeted(down[s]) => Greeted(down'[s])
        /\ Refused(down'[s]) =>
             Refused(down[s]) \/ (answer.cmd = "ERROR" /\ ~Greeted(down[s])
                                  /\ readyState[s] = "open")
        /\ Closes(down'[s]) <=> Closes(down[s])
        /\ ~Closes(down[s]) /\ Ends(down[s]) => Ends(down'[s])
    BY <1>1, <1>3, ReachesOne
  <2>2. About(down'[s], pendingInfoTarget)
    <3>1. answer.cmd = "USER_INFO" => answer.val = pendingInfoTarget
      BY <1>1 DEF Labels
    <3>2. About(down[s], pendingInfoTarget)
      BY DEF Labels
    <3> QED
      BY <1>1, <1>3, <3>1, <3>2, ReachesOne
  <2>3. Course(s)'
    BY <1>1, <1>2, <1>4, <1>5, <2>1 DEF Course, Account, Shorter, StillPage
  <2>4. Account(s)'
    BY <1>1, <1>3, <2>1, AwaitedIs DEF Account, Course, StillPage
  <2>5. Labels(s)'
    BY <1>1, <1>4, <1>5, <2>2 DEF Labels, StillPage
  <2> QED
    BY <2>3, <2>4, <2>5
<1> QED
  BY <1>6, <1>7

LEMMA HangUpTold ==
  ASSUME Sequel, Mail, Sessions, Told, NEW s \in Sockets, HangUp(s)
  PROVE  Told'
PROOF
<1>1. /\ StillPage /\ UNCHANGED <<down, reason>>
      /\ readyState[s] \in {"closing", "closed"} /\ srv[s] \in {"dialling", "tcp", "member"}
      /\ srv' = [srv EXCEPT ![s] = "gone"] /\ up' = [up EXCEPT ![s] = <<>>]
      /\ answer' = IF srv[s] = "member" THEN NoPacket ELSE answer
  BY DEF HangUp, StillPage, page, session, form, view, refs
<1>2. \A c \in Sockets : Shorter(c) /\ Same(c)
  BY <1>1, TakenUp DEF Same
<1>3. None \notin {"close", "unreachable", "refused"}
  BY Zenon DEF None
<1>4. answer'.cmd # "close"
  BY <1>1, <1>3 DEF Told, NoPacket, Packet
<1>5. CASE s # current
  <2>1. current \in Sockets =>
          srv'[current] = srv[current] /\ (srv[current] = "member" => answer' = answer)
    BY <1>1, <1>5 DEF Mail, Sessions, Members
  <2> QED
    BY <1>1, <1>2, <1>4, <2>1, GoesOnTold
<1>6. CASE s = current
  <2> SUFFICES ASSUME ~hurried, Course(s), Account(s), Labels(s)
               PROVE  (Course(s) /\ Account(s) /\ Labels(s))'
    BY <1>1, <1>4, <1>6, ToldAt DEF StillPage, Sockets
  <2>1. srv'[s] = "gone"
    BY <1>1 DEF Mail
  <2>2. Course(s)'
    BY <1>1, <1>2, <2>1 DEF Course, Shorter, Same, StillPage
  <2>3. Account(s)'
    BY <1>1, <1>3, <2>1 DEF Account, StillPage
  <2>4. Labels(s)'
    BY <1>1, <1>2, <2>1 DEF Labels, Shorter, Same, StillPage
  <2> QED
    BY <2>2, <2>3, <2>4
<1> QED
  BY <1>5, <1>6

LEMMA FailTold ==
  ASSUME Sequel, Mail, Sessions, Told, NEW s \in Sockets, Fail(s)
  PROVE  Told'
PROOF
<1> DEFINE e == Packet("ERROR", None)
           f == Packet("close", None)
           lost == srv[s] = "member" /\ answer.val # "welcome"
<1>1. /\ StillPage /\ srv[s] \in {"tcp", "member"} /\ readyState[s] = "open"
      /\ srv' = [srv EXCEPT ![s] = "gone"] /\ up' = [up EXCEPT ![s] = <<>>]
      /\ answer' = IF srv[s] = "member" THEN NoPacket ELSE answer
  BY DEF Fail, StillPage, page, session, form, view, refs
<1>2. /\ e \in Letters /\ e.val # "welcome" /\ f \in Letters /\ f.val # "welcome"
      /\ e.cmd = "ERROR" /\ f.cmd = "close"
  BY LetterTypes DEF Replies, Texts, Packet
<1>3. \/ /\ down' = [down EXCEPT ![s] = @ \o <<e, f>>]
         /\ reason' = IF lost THEN "lost" ELSE "refused"
      \/ /\ down' = [down EXCEPT ![s] = Append(@, f)] \/ down' = [down EXCEPT ![s] = <<f>>]
         /\ reason' = IF lost THEN "lost" ELSE "silent"
  BY DEF Fail
<1> HIDE DEF e, f
<1>4. s = current
  BY <1>1 DEF Sequel, Live
<1>5. answer'.cmd # "close"
  <2>1. None # "close"
    BY Zenon DEF None
  <2> QED
    BY <1>1, <2>1 DEF Told, NoPacket, Packet
<1> SUFFICES ASSUME ~hurried, Course(s), Account(s), Labels(s)
             PROVE  (Course(s) /\ Account(s) /\ Labels(s))'
  BY <1>1, <1>4, <1>5, ToldAt DEF StillPage, Sockets
<1>6. /\ loginError = None /\ ~Closes(down[s]) /\ (~usernameRef => ~Refused(down[s]))
      /\ About(down[s], pendingInfoTarget)
  BY <1>1 DEF Account, Labels
<1>7. /\ Ends(down'[s]) /\ About(down'[s], pendingInfoTarget)
      /\ \/ /\ Greeted(down'[s]) <=> Greeted(down[s])
            /\ ~usernameRef => (Refused(down'[s]) <=> ~Greeted(down[s]))
            /\ reason' = IF lost THEN "lost" ELSE "refused"
         \/ /\ Greeted(down'[s]) => Greeted(down[s])
            /\ ~usernameRef => ~Refused(down'[s])
            /\ reason' = IF lost THEN "lost" ELSE "silent"
  <2> DEFINE q   == down[s]
             two == <<e, f>>
             one == <<f>>
             who == pendingInfoTarget
  <2>1. q \in Seq(Letters) /\ two \in Seq(Letters) /\ one \in Seq(Letters)
    BY <1>2, TwoLetters, OneLetter DEF Mail
  <2>2. /\ ~Greeted(two) /\ Refused(two) /\ Closes(two) /\ Ends(two) /\ About(two, who)
        /\ ~Greeted(one) /\ ~Refused(one) /\ Ends(one) /\ About(one, who)
    <3>1. ~Greeted(two) /\ Refused(two) /\ Closes(two) /\ Ends(two) /\ About(two, who)
      BY <1>2, SaysNo, Zenon
    <3>2. /\ Greeted(one) <=> f.val = "welcome"
          /\ Refused(one) <=> f.cmd = "ERROR"
          /\ Ends(one)
          /\ (f.cmd = "USER_INFO" => f.val = who) => About(one, who)
      BY <1>2, SaysOne, Zenon
    <3> HIDE DEF one, two
    <3> QED
      BY <1>2, <3>1, <3>2
  <2>3. \/ down'[s] = q \o two /\ reason' = IF lost THEN "lost" ELSE "refused"
        \/ /\ down'[s] = q \o one \/ down'[s] = one
           /\ reason' = IF lost THEN "lost" ELSE "silent"
    <3>1. Append(q, f) = q \o one
      BY <1>2, <2>1
    <3> HIDE DEF one, two
    <3>2. \/ /\ down' = [down EXCEPT ![s] = q \o two]
             /\ reason' = IF lost THEN "lost" ELSE "refused"
          \/ /\ down' = [down EXCEPT ![s] = q \o one] \/ down' = [down EXCEPT ![s] = one]
             /\ reason' = IF lost THEN "lost" ELSE "silent"
      BY <1>3, <3>1 DEF one, two
    <3> QED
      BY <3>2 DEF Mail
  <2>4. ~Closes(q) /\ (~usernameRef => ~Refused(q)) /\ About(q, who)
    BY <1>6
  <2> HIDE DEF q, one, two, lost
  <2>5. /\ Greeted(q \o two) <=> Greeted(q)
        /\ ~usernameRef => (Refused(q \o two) <=> ~Greeted(q))
        /\ Ends(q \o two) /\ About(q \o two, who)
    BY <2>1, <2>2, <2>4, GoesOn
  <2>6. /\ Greeted(q \o one) <=> Greeted(q)
        /\ ~usernameRef => ~Refused(q \o one)
        /\ Ends(q \o one) /\ About(q \o one, who)
    BY <2>1, <2>2, <2>4, GoesOn
  <2>7. q = down[s]
    BY DEF q
  <2> QED
    BY <2>2, <2>3, <2>5, <2>6, <2>7
<1>8. srv'[s] = "gone" /\ Shorter(s)
  BY <1>1, TakenUp DEF Mail
<1>9. /\ usernameRef => lost
      /\ ~usernameRef /\ lost => Greeted(down[s])
      /\ ~lost => ~Greeted(down[s])
  <2>1. Open
    BY <1>1, <1>4 DEF Open, Sockets
  <2>2. srv[s] = "tcp" => ~usernameRef /\ ~Awaited(s)
    BY <1>4 DEF Sessions, SessionAgreement
  <2>3. srv[s] = "member" /\ answer.val # "welcome" /\ ~Awaited(s) => usernameRef
    BY <1>4, <2>1 DEF Sessions, SessionAgreement
  <2> QED
    BY <1>1, <2>2, <2>3, AwaitedIs DEF Course
<1> HIDE DEF lost
<1>10. Course(s)'
  BY <1>1, <1>7, <1>8 DEF Course, Shorter, StillPage
<1>11. Account(s)'
  BY <1>1, <1>6, <1>7, <1>8, <1>9, AwaitedIs DEF Account, StillPage
<1>12. Labels(s)'
  BY <1>1, <1>7, <1>8 DEF Labels, Shorter, StillPage
<1> QED
  BY <1>10, <1>11, <1>12

LEMMA AsksTold ==
  ASSUME Sequel, Mail, Sessions, Told,
         Greet \/ Poll \/ SendText \/ ChangeStatus \/ ListUsers \/ GetInfo \/ CloseInfo
  PROVE  Told'
PROOF
<1>1. /\ UNCHANGED <<current, readyState, down, usernameRef, loginError, server>>
      /\ hurried => hurried'
  <2>1. CASE Greet
    BY <2>1 DEF Greet, form, refs
  <2>3. CASE Poll
    BY <2>3 DEF Poll, page, session, form, refs
  <2>4. CASE CloseInfo
    BY <2>4 DEF CloseInfo, session, form, refs, sockets
  <2>2. CASE SendText \/ ChangeStatus \/ ListUsers \/ GetInfo
    <3>1. UNCHANGED <<session, form, current, voluntaryLogout, readyState, down, server>>
      BY <2>2, Zenon DEF SendText, ChangeStatus, ListUsers, GetInfo, Ask
    <3>2. hurried => hurried'
      BY <2>2, Zenon DEF SendText, ChangeStatus, ListUsers, GetInfo
    <3> QED
      BY <3>1, <3>2 DEF session, form
  <2> QED
    BY <2>1, <2>2, <2>3, <2>4
<1>2. ASSUME ~hurried', current \in Sockets, Labels(current)
      PROVE  \/ UNCHANGED <<up, pendingInfoTarget>>
             \/ \E p \in Wishes :
                  /\ up' = send(p) /\ p.cmd # "LOGOUT"
                  /\ p.cmd \in {"DIRECT", "INFO"} => phase = "chat"
                  /\ p.cmd = "INFO" => p.val = pendingInfoTarget'
                  /\ About(up[current], pendingInfoTarget')
                  /\ About(down[current], pendingInfoTarget')
                  /\ answer.cmd = "USER_INFO" /\ srv[current] = "member"
                       => answer.val = pendingInfoTarget'
  <2>1. CASE Greet \/ Poll \/ ListUsers
    <3>1. up' = send(Packet("LIST", None)) /\ pendingInfoTarget' = pendingInfoTarget
      BY <2>1, Zenon DEF Greet, Poll, ListUsers, Ask, page, refs
    <3>2. Packet("LIST", None) \in Wishes /\ Packet("LIST", None).cmd = "LIST"
      BY WishTypes DEF Commands, Packet
    <3> QED
      BY <1>2, <3>1, <3>2 DEF Labels
  <2>2. CASE SendText
    <3>1. /\ phase = "chat" /\ pendingInfoTarget' = pendingInfoTarget
          /\ \E cmd \in {"BROADCAST", "DIRECT"} : up' = send(Packet(cmd, None))
      BY <2>2, Zenon DEF SendText, Ask
    <3>2. \A cmd \in {"BROADCAST", "DIRECT"} :
            Packet(cmd, None) \in Wishes /\ Packet(cmd, None).cmd = cmd
      BY WishTypes DEF Commands, Packet
    <3> QED
      BY <1>2, <3>1, <3>2 DEF Labels
  <2>3. CASE ChangeStatus
    <3>1. /\ pendingInfoTarget' = pendingInfoTarget
          /\ \E v \in Statuses : up' = send(Packet("STATUS", v))
      BY <2>3, Zenon DEF ChangeStatus, Ask
    <3>2. \A v \in Statuses :
            Packet("STATUS", v) \in Wishes /\ Packet("STATUS", v).cmd = "STATUS"
      BY WishTypes DEF Packet
    <3> QED
      BY <1>2, <3>1, <3>2 DEF Labels
  <2>4. CASE GetInfo
    <3>1. /\ phase = "chat" /\ ~Informing
          /\ \E who \in Names : up' = send(Packet("INFO", who)) /\ pendingInfoTarget' = who
      BY <1>2, <2>4, Zenon DEF GetInfo, Ask, Label, Names
    <3>2. \A who \in Names : /\ Packet("INFO", who) \in Wishes
                             /\ Packet("INFO", who).cmd = "INFO"
                             /\ Packet("INFO", who).val = who
      BY WishTypes DEF Packet
    <3>3. \A who : About(up[current], who) /\ About(down[current], who)
      <4>1. \A i \in DOMAIN up[current] : up[current][i].cmd \notin {"INFO", "USER_INFO"}
        <5>1. \A i \in DOMAIN up[current] : up[current][i] \in Wishes
          BY <1>2 DEF Mail
        <5> QED
          BY <3>1, <5>1 DEF Informing, Wishes, Commands
      <4>2. \A i \in DOMAIN down[current] : down[current][i].cmd \notin {"INFO", "USER_INFO"}
        <5>1. \A i \in DOMAIN down[current] : down[current][i] \in Letters
          BY <1>2 DEF Mail
        <5>2. "INFO" \notin Replies
          BY Zenon DEF Replies, None
        <5> QED
          BY <3>1, <5>1, <5>2 DEF Informing, Letters
      <4> QED
        BY <4>1, <4>2 DEF About
    <3>4. answer.cmd # "USER_INFO"
      BY <3>1 DEF Informing
    <3> QED
      BY <3>1, <3>2, <3>3, <3>4
  <2>5. CASE CloseInfo
    BY <2>5, Zenon DEF CloseInfo, sockets, refs
  <2> QED
    BY <2>1, <2>2, <2>3, <2>4, <2>5
<1>3. userInfo' = userInfo \/ userInfo' = <<>>
  BY Zenon DEF Greet, Poll, SendText, ChangeStatus, ListUsers, GetInfo, CloseInfo, Ask, page,
     view
<1>4. ASSUME ~hurried', current \in Sockets
      PROVE  (Course(current) /\ Account(current) /\ Labels(current))'
  <2>1. Course(current) /\ Account(current) /\ Labels(current) /\ ~hurried
    BY <1>1, <1>4 DEF Told
  <2>2. Awaited(current)' <=> Awaited(current)
    BY <1>1 DEF Awaited
  <2>3. Account(current)'
    BY <1>1, <2>1, <2>2 DEF Account, server
  <2>4. CASE UNCHANGED <<up, pendingInfoTarget>>
    BY <1>1, <2>1, <2>2, <2>3, <2>4 DEF Course, Labels, server
  <2>5. CASE up' # up \/ pendingInfoTarget' # pendingInfoTarget
    <3>1. PICK p \in Wishes :
            /\ up' = send(p) /\ p.cmd # "LOGOUT"
            /\ p.cmd \in {"DIRECT", "INFO"} => phase = "chat"
            /\ p.cmd = "INFO" => p.val = pendingInfoTarget'
            /\ About(up[current], pendingInfoTarget')
            /\ About(down[current], pendingInfoTarget')
            /\ answer.cmd = "USER_INFO" /\ srv[current] = "member"
                 => answer.val = pendingInfoTarget'
      BY <1>2, <1>4, <2>1, <2>5
    <3> DEFINE q == up[current]
    <3>2. q \in Seq(Wishes)
      BY <1>4 DEF Mail
    <3>3. up'[current] = q \/ up'[current] = Append(q, p)
      BY <1>4, <3>1 DEF send, Mail
    <3>4. p.cmd # "USER_INFO"
      BY DEF Wishes, Commands
    <3> HIDE DEF q
    <3>5. /\ \A cmds : Asks(up'[current], cmds) => Asks(q, cmds) \/ p.cmd \in cmds
          /\ About(q, pendingInfoTarget') => About(up'[current], pendingInfoTarget')
      BY <3>1, <3>2, <3>3, <3>4, WishAdded
    <3>6. phase = "chat" => usernameRef
      BY <2>1 DEF Sessions, SessionAgreement
    <3>7. /\ Asks(up'[current], {"LOGOUT"}) => Asks(up[current], {"LOGOUT"})
          /\ ~usernameRef /\ Asks(up'[current], {"DIRECT", "INFO"})
               => Asks(up[current], {"DIRECT", "INFO"})
          /\ About(up'[current], pendingInfoTarget')
      BY <3>1, <3>5, <3>6 DEF q
    <3>8. Course(current)'
      BY <1>1, <2>1, <2>2, <3>7 DEF Course, server
    <3>9. Labels(current)'
      BY <1>1, <3>1, <3>7 DEF Labels, server
    <3> QED
      BY <2>3, <3>8, <3>9
  <2> QED
    BY <2>4, <2>5
<1>5. ~hurried' => InfoLabelled'
  BY <1>1, <1>3 DEF Told, InfoLabelled
<1> QED
  BY <1>1, <1>4, <1>5 DEF Told, server

LEMMA ConnectTold ==
  ASSUME Sequel, Mail, Sessions, Fresh, Told, Connect
  PROVE  Told'
PROOF
<1>1. PICK n \in Sockets : n = current + 1
  BY WebClientAssumption DEF Connect, NewSocket, Sequel, Sockets
<1>2. /\ current < MaxSockets /\ current' = n
      /\ readyState' = [Closed(current) EXCEPT ![n] = "connecting"]
      /\ down' = Unread(current) /\ loginError' = None /\ reason' = None
      /\ hurried => hurried'
      /\ UNCHANGED <<userInfo, pendingInfoTarget, up, srv, answer>>
  BY <1>1, Zenon DEF Connect, NewSocket, view
<1>3. n > current /\ n # current /\ n # 0
  BY <1>1 DEF Sequel, Sockets
<1>4. readyState[n] # "open" /\ down[n] = <<>> /\ up[n] = <<>> /\ srv[n] = "none"
  BY <1>3 DEF Sequel, Live, Mail, Fresh
<1>5. readyState'[n] = "connecting" /\ down'[n] = <<>> /\ up'[n] = <<>> /\ srv'[n] = "none"
  BY <1>2, <1>3, <1>4 DEF Closed, Unread
<1>6. /\ Ends(down'[n]) /\ \A cmds : ~Asks(up'[n], cmds)
      /\ \A who : About(down'[n], who) /\ About(up'[n], who)
  BY <1>5, SaysNothing, Zenon
<1>7. (Course(n) /\ Account(n) /\ Labels(n))'
  BY <1>2, <1>5, <1>6 DEF Course, Account, Labels
<1>8. ~hurried' => InfoLabelled'
  BY <1>2 DEF Told, InfoLabelled
<1> QED
  BY <1>2, <1>3, <1>7, <1>8 DEF Told

LEMMA LogoutTold ==
  ASSUME Sequel, Mail, Sessions, Told, Logout
  PROVE  Told'
PROOF
<1> DEFINE p == Packet("LOGOUT", None)
<1>1. /\ phase = "chat" /\ up' = send(p) /\ Close(current)
      /\ usernameRef' = FALSE /\ loginError' = None
      /\ UNCHANGED <<userInfo, current, pendingInfoTarget, server, hurried>>
  BY Zenon DEF Logout, EndSession, LeaveChat
<1>2. p \in Wishes /\ p.cmd = "LOGOUT"
  BY WishTypes DEF Commands, Packet
<1> HIDE DEF p
<1>3. UNCHANGED <<srv, answer, reason>>
  BY <1>1 DEF server
<1>4. ~hurried' => InfoLabelled'
  BY <1>1 DEF Told, InfoLabelled
<1>5. answer'.cmd # "close"
  BY <1>3 DEF Told
<1> SUFFICES ASSUME ~hurried PROVE Told'
  BY <1>1, <1>5 DEF Told
<1>6. current \in Sockets /\ usernameRef /\ srv[current] \in {"member", "gone"} /\ Open
  BY <1>1 DEF Sessions, SessionAgreement, Sequel, Open, Sockets
<1> DEFINE c == current
<1>7. c \in Sockets /\ readyState[c] = "open" /\ Course(c) /\ Account(c) /\ Labels(c)
  BY <1>6 DEF Told, Open
<1>8. readyState'[c] = "closing" /\ down'[c] = <<>>
  BY <1>1, <1>7 DEF Close, Closed, Unread
<1>9. ~Greeted(down'[c]) /\ ~Refused(down'[c]) /\ ~Closes(down'[c]) /\ Ends(down'[c])
  BY <1>8, SaysNothing, Zenon
<1>10. About(down'[c], pendingInfoTarget) /\ About(up'[c], pendingInfoTarget)
  <2>1. About(down'[c], pendingInfoTarget)
    BY <1>8, SaysNothing, Zenon
  <2>2. up[c] \in Seq(Wishes)
    BY <1>7 DEF Mail
  <2>3. up'[c] = Append(up[c], p)
    BY <1>1, <1>6 DEF send, Mail
  <2>4. About(Append(up[c], p), pendingInfoTarget)
    <3>1. About(up[c], pendingInfoTarget)
      BY <1>7 DEF Labels
    <3>2. p.cmd \notin {"INFO", "USER_INFO"}
      BY <1>2
    <3> QED
      BY <1>2, <2>2, <3>1, <3>2, WishAdded
  <2> QED
    BY <2>1, <2>3, <2>4
<1>11. Course(c)'
  BY <1>1, <1>3, <1>8, <1>9, AwaitedIs DEF Course, Live
<1>12. Account(c)'
  BY <1>1, <1>3, <1>6, <1>7, <1>8, <1>9 DEF Account
<1>13. Labels(c)'
  BY <1>1, <1>3, <1>7, <1>10 DEF Labels
<1> QED
  BY <1>1, <1>4, <1>5, <1>6, <1>11, <1>12, <1>13 DEF Told, Sockets

LEMMA OpenTold ==
  ASSUME Sequel, Mail, Sessions, Told, NEW s \in Sockets, OnOpen(s)
  PROVE  Told'
PROOF
<1>1. /\ readyState[s] = "connecting" /\ readyState' = [readyState EXCEPT ![s] = "open"]
      /\ srv' = [srv EXCEPT ![s] = "dialling"]
      /\ UNCHANGED <<current, usernameRef, loginError, userInfo, pendingInfoTarget, up, down,
                     answer, reason, hurried>>
  BY Zenon DEF OnOpen, session, view, refs
<1>2. s = current /\ s # 0 /\ down[s] = <<>>
  BY <1>1 DEF Sequel, Live, Mail, Sockets
<1>3. ~hurried' => InfoLabelled'
  BY <1>1 DEF Told, InfoLabelled
<1>4. answer'.cmd # "close"
  BY <1>1 DEF Told
<1> SUFFICES ASSUME ~hurried PROVE Told'
  BY <1>1, <1>4 DEF Told
<1>5. Course(s) /\ Account(s) /\ Labels(s)
  BY <1>2 DEF Told
<1>6. readyState'[s] = "open" /\ srv'[s] = "dialling"
  BY <1>1 DEF Sequel, Mail
<1>7. ~usernameRef
  BY <1>1, <1>2 DEF Sessions, SessionAgreement, Open
<1>8. ~Refused(down'[s]) /\ ~Closes(down'[s]) /\ Ends(down'[s])
  <2>1. down'[s] = <<>>
    BY <1>1, <1>2
  <2> QED
    BY <2>1, SaysNothing, Zenon
<1>9. Course(s)'
  BY <1>1, <1>5, <1>6, <1>7, <1>8 DEF Course, Live
<1>10. Account(s)'
  BY <1>1, <1>5, <1>6, <1>7, <1>8 DEF Account, Course
<1>11. Labels(s)'
  BY <1>1, <1>5, <1>6 DEF Labels
<1> QED
  BY <1>1, <1>2, <1>3, <1>4, <1>9, <1>10, <1>11 DEF Told

LEMMA EndedTold ==
  ASSUME Sequel, Mail, Sessions, Told, NEW s \in Sockets, OnClose(s) \/ OnError(s)
  PROVE  Told'
PROOF
<1>1. PICK e : Ended(s, e)
               /\ \/ /\ e = loginError /\ UNCHANGED reason
                     /\ \/ readyState[s] = "closing"
                        \/ /\ readyState[s] = "open" /\ down[s] # <<>>
                           /\ Head(down[s]).cmd = "close"
                  \/ /\ e = "unreachable" /\ readyState[s] \in {"connecting", "aborted"}
                     /\ reason' = IF s = current THEN "unreachable" ELSE reason
  BY Zenon DEF OnClose, OnError, server
<1>2. /\ readyState' = [readyState EXCEPT ![s] = "closed"]
      /\ down' = [down EXCEPT ![s] = <<>>]
      /\ UNCHANGED <<current, pendingInfoTarget, voluntaryLogout, userInfo, up, hurried>>
  BY <1>1 DEF Ended, refs
<1>3. \/ WasLost /\ usernameRef' = FALSE /\ loginError' = "lost"
      \/ ~WasLost /\ loginError' = e /\ usernameRef' = usernameRef
  BY <1>1, Zenon DEF Ended, LeaveChat
<1>4. UNCHANGED <<srv, answer>>
  BY DEF OnClose, OnError, server
<1>5. ~hurried' => InfoLabelled'
  BY <1>2 DEF Told, InfoLabelled
<1>6. answer'.cmd # "close"
  BY <1>4 DEF Told
<1> SUFFICES ASSUME ~hurried PROVE Told'
  BY <1>2, <1>6 DEF Told
<1>7. s = current /\ s # 0
  BY <1>1 DEF Sessions, Sockets
<1>8. Course(s) /\ Account(s) /\ Labels(s)
  BY <1>7 DEF Told
<1>9. readyState'[s] = "closed" /\ down'[s] = <<>>
  BY <1>2 DEF Sequel, Mail
<1>10. /\ ~Greeted(down'[s]) /\ ~Refused(down'[s]) /\ ~Closes(down'[s]) /\ Ends(down'[s])
       /\ About(down'[s], pendingInfoTarget)
  BY <1>9, SaysNothing, Zenon
<1>11. usernameRef => readyState[s] = "open" /\ ~voluntaryLogout
  BY <1>7 DEF Sessions, SessionAgreement, Open, Live
<1>12. ~usernameRef'
  BY <1>3, <1>11 DEF WasLost
<1>13. Course(s)'
  BY <1>4, <1>9, <1>10, <1>12, AwaitedIs DEF Course, Live
<1>14. Account(s)'
  <2>1. CASE e = "unreachable" /\ readyState[s] \in {"connecting", "aborted"}
             /\ reason' = "unreachable"
    BY <1>3, <1>4, <1>8, <1>9, <1>11, <2>1 DEF Account, Course, WasLost
  <2>2. CASE e = loginError /\ reason' = reason /\ readyState[s] = "closing"
    BY <1>3, <1>4, <1>8, <1>9, <1>10, <1>11, <2>2 DEF Account, WasLost
  <2>3. CASE /\ e = loginError /\ reason' = reason /\ readyState[s] = "open" /\ down[s] # <<>>
             /\ Head(down[s]).cmd = "close"
    <3>1. down[s] \in Seq(Letters) /\ Ends(down[s])
      BY <1>8 DEF Mail, Course
    <3>2. Closes(down[s]) /\ ~Refused(down[s])
      <4> DEFINE q == down[s]
      <4>1. q \in Seq(Letters) /\ q # <<>> /\ Head(q).cmd = "close" /\ Ends(q)
        BY <2>3, <3>1
      <4> HIDE DEF q
      <4>2. Closes(q) /\ ~Refused(q)
        BY <4>1, LosesFirst, Zenon
      <4> QED
        BY <4>2 DEF q
    <3>3. srv[s] = "gone"
      BY <1>8, <2>3, <3>2 DEF Account, Mail
    <3> QED
      BY <1>3, <1>4, <1>8, <1>9, <1>11, <2>3, <3>2, <3>3 DEF Account, WasLost
  <2> QED
    BY <1>1, <1>7, <2>1, <2>2, <2>3
<1>15. Labels(s)'
  BY <1>2, <1>4, <1>8, <1>10 DEF Labels
<1> QED
  BY <1>2, <1>5, <1>6, <1>7, <1>13, <1>14, <1>15 DEF Told

\* A packet that does not end the session is handled.
LEMMA PacketTold ==
  ASSUME NEW s, NEW p \in Letters, handlePacket(s, p), ~(p.cmd = "ERROR" /\ ~usernameRef),
         p.cmd = "USER_INFO" => p.val = pendingInfoTarget
  PROVE  /\ loginError' = loginError
         /\ userInfo' = userInfo \/ userInfo' = <<pendingInfoTarget, pendingInfoTarget>>
PROOF
<1>1. CASE UserInfo(p)
  <2>1. pendingInfoTarget # None
    BY <1>1, TextFacts DEF UserInfo, Letters
  <2> QED
    BY <1>1, <2>1 DEF UserInfo, form
<1>2. CASE ErrorTold(s, p)
  BY <1>2 DEF ErrorTold, form
<1>3. CASE TcpOk(p) \/ Welcome(s, p) \/ StatusTold(s, p)
  BY <1>3, Zenon DEF TcpOk, Welcome, StatusTold, form, view
<1>4. CASE Text(s, p) \/ UserList(s, p) \/ Disconnected(s, p)
  BY <1>4, Zenon DEF Text, UserList, Disconnected, form
<1> QED
  BY <1>1, <1>2, <1>3, <1>4 DEF handlePacket

LEMMA MessageTold ==
  ASSUME Sequel, Mail, Sessions, Told, NEW s \in Sockets, OnMessage(s)
  PROVE  Told'
PROOF
<1> DEFINE p == Head(down[s])
<1>1. /\ readyState[s] = "open" /\ down[s] # <<>> /\ p.cmd # "close" /\ handlePacket(s, p)
      /\ IF p.cmd = "ERROR" /\ ~usernameRef
         THEN Close(current)
         ELSE readyState' = readyState /\ down' = [down EXCEPT ![s] = Tail(@)]
      /\ UNCHANGED <<current, pendingInfoTarget, server, hurried>>
  BY Zenon DEF OnMessage, refs
<1>2. s = current /\ s # 0 /\ Open
  BY <1>1 DEF Sequel, Live, Open, Sockets
<1>3. down[s] \in Seq(Letters) /\ p \in Letters
  BY <1>1 DEF Mail
<1>4. UNCHANGED <<srv, answer, reason>> /\ answer'.cmd # "close"
  BY <1>1 DEF server, Told
<1> SUFFICES ASSUME ~hurried PROVE Told'
  BY <1>1, <1>4 DEF Told
<1>5. Course(s) /\ Account(s) /\ Labels(s) /\ InfoLabelled
  BY <1>2 DEF Told
<1>6. /\ About(down[s], pendingInfoTarget)
      /\ p.cmd = "USER_INFO" => p.val = pendingInfoTarget
      /\ p.cmd = "ERROR" => Refused(down[s])
      /\ p.val = "welcome" => Greeted(down[s])
      /\ Greeted(Tail(down[s])) => Greeted(down[s])
      /\ p.val # "welcome" => (Greeted(down[s]) <=> Greeted(Tail(down[s])))
      /\ p.cmd # "ERROR" /\ p.val # "welcome" => (Refused(down[s]) <=> Refused(Tail(down[s])))
      /\ Closes(Tail(down[s])) => Closes(down[s])
      /\ Ends(Tail(down[s])) /\ About(Tail(down[s]), pendingInfoTarget)
  <2> DEFINE q   == down[s]
             who == pendingInfoTarget
  <2>1. About(q, who) /\ Ends(q) /\ q \in Seq(Letters) /\ q # <<>> /\ p = Head(q)
    BY <1>1, <1>3, <1>5 DEF Labels, Course
  <2> HIDE DEF p, q, who
  <2>2. /\ p.cmd \in {"INFO", "USER_INFO"} => p.val = who
        /\ p.cmd = "ERROR" => Refused(q)
        /\ p.val = "welcome" => Greeted(q)
        /\ Greeted(Tail(q)) => Greeted(q)
        /\ p.val # "welcome" => (Greeted(q) <=> Greeted(Tail(q)))
        /\ p.cmd # "ERROR" /\ p.val # "welcome" => (Refused(q) <=> Refused(Tail(q)))
        /\ Closes(Tail(q)) => Closes(q)
        /\ Ends(Tail(q)) /\ About(Tail(q), who)
    BY <2>1, LosesFirst
  <2> QED
    BY <2>1, <2>2 DEF q, who
<1> HIDE DEF p
<1>7. \/ up' = up \/ up' = [up EXCEPT ![s] = Append(@, Packet("REGISTER", None))]
  BY <1>1, <1>2, <1>3, PacketHandled
<1>8. /\ \A cmds : Asks(up'[s], cmds) => Asks(up[s], cmds) \/ "REGISTER" \in cmds
      /\ About(up'[s], pendingInfoTarget)
  <2> DEFINE q == up[s]
             r == Packet("REGISTER", None)
  <2>1. r \in Wishes /\ r.cmd = "REGISTER"
    BY WishTypes DEF Commands, Packet
  <2>2. q \in Seq(Wishes) /\ About(q, pendingInfoTarget)
    BY <1>5 DEF Mail, Labels
  <2>3. up'[s] = q \/ up'[s] = Append(q, r)
    BY <1>7 DEF Mail
  <2> HIDE DEF q, r
  <2>4. /\ \A cmds : Asks(Append(q, r), cmds) => Asks(q, cmds) \/ "REGISTER" \in cmds
        /\ About(Append(q, r), pendingInfoTarget)
    BY <2>1, <2>2, WishAdded
  <2>5. q = up[s]
    BY DEF q
  <2> QED
    BY <2>2, <2>3, <2>4, <2>5
<1>9. /\ Asks(up'[s], {"LOGOUT"}) => Asks(up[s], {"LOGOUT"})
      /\ Asks(up'[s], {"DIRECT", "INFO"}) => Asks(up[s], {"DIRECT", "INFO"})
  BY <1>8
<1>10. \/ p.val = "welcome" /\ p.cmd = "OK" /\ usernameRef' = TRUE
       \/ p.val # "welcome" /\ usernameRef' = usernameRef
  BY <1>1, <1>3, PacketHandled DEF Welcome
<1>11. CASE p.cmd = "ERROR" /\ ~usernameRef
  <2>1. Close(current) /\ usernameRef' = usernameRef
    BY <1>1, <1>10, <1>11
  <2>2. readyState'[s] = "closing" /\ down'[s] = <<>>
    BY <1>1, <1>2, <2>1 DEF Close, Closed, Unread
  <2>3. /\ ~Greeted(down'[s]) /\ ~Refused(down'[s]) /\ ~Closes(down'[s]) /\ Ends(down'[s])
        /\ About(down'[s], pendingInfoTarget)
    BY <2>2, SaysNothing, Zenon
  <2>4. loginError' = "refused" /\ userInfo' = userInfo
    <3>1. ErrorTold(s, p)
      BY <1>1, <1>11
         DEF handlePacket, TcpOk, Welcome, StatusTold, Text, UserList, UserInfo, Disconnected
    <3> QED
      BY <1>11, <3>1 DEF ErrorTold
  <2>5. srv[s] = "gone" /\ reason = "refused"
    BY <1>1, <1>5, <1>6, <1>11 DEF Account, Mail
  <2>6. Course(s)'
    BY <1>4, <1>11, <2>1, <2>2, <2>3, <2>5 DEF Course, Live
  <2>7. Account(s)'
    BY <1>4, <2>2, <2>4, <2>5 DEF Account
  <2>8. Labels(s)'
    BY <1>1, <1>4, <1>8, <2>3, <2>5 DEF Labels
  <2>9. InfoLabelled'
    BY <1>1, <1>5, <2>4 DEF InfoLabelled
  <2> QED
    BY <1>1, <1>2, <1>4, <2>6, <2>7, <2>8, <2>9 DEF Told
<1>12. CASE ~(p.cmd = "ERROR" /\ ~usernameRef)
  <2>1. readyState' = readyState /\ down'[s] = Tail(down[s])
    BY <1>1, <1>12 DEF Mail
  <2>2. /\ loginError' = loginError
        /\ userInfo' = userInfo \/ userInfo' = <<pendingInfoTarget, pendingInfoTarget>>
    BY <1>1, <1>3, <1>6, <1>12, PacketTold
  <2>3. p.val = "welcome" => srv[s] \in {"member", "gone"}
    BY <1>6, AwaitedIs DEF Sessions
  <2>4. ~usernameRef' => (Refused(down[s]) <=> Refused(down'[s]))
    BY <1>6, <1>10, <1>12, <2>1
  <2>5. /\ Greeted(down'[s]) => Greeted(down[s])
        /\ p.val # "welcome" => (Greeted(down[s]) <=> Greeted(down'[s]))
        /\ Closes(down'[s]) => Closes(down[s])
        /\ Ends(down'[s]) /\ About(down'[s], pendingInfoTarget)
    BY <1>6, <2>1
  <2>6. Course(s)'
    BY <1>4, <1>5, <1>6, <1>9, <1>10, <2>1, <2>5, AwaitedIs DEF Course
  <2>7. Account(s)'
    BY <1>1, <1>4, <1>5, <1>6, <1>10, <2>1, <2>2, <2>3, <2>4, <2>5, AwaitedIs DEF Account
  <2>8. Labels(s)'
    BY <1>1, <1>4, <1>5, <1>8, <2>5 DEF Labels
  <2>9. InfoLabelled'
    BY <1>1, <1>5, <2>2 DEF InfoLabelled
  <2> QED
    BY <1>1, <1>2, <1>4, <2>6, <2>7, <2>8, <2>9 DEF Told
<1> QED
  BY <1>11, <1>12

\* Nothing happens on a socket that is not made yet.
LEMMA FreshStep ==
  ASSUME Sequel, Mail, Fresh, [Next]_vars
  PROVE  Fresh'
PROOF
<1> DEFINE Still(t) == srv'[t] = srv[t] /\ up'[t] = up[t]
<1>1. \A p : \A t \in Sockets : t # current => send(p)[t] = up[t]
  BY DEF send, Mail
<1>2. CASE \E s \in Sockets : Browser(s)
  <2>1. PICK s \in Sockets : Browser(s)
    BY <1>2
  <2>2. CASE OnOpen(s)
    <3>1. s = current /\ srv' = [srv EXCEPT ![s] = "dialling"] /\ UNCHANGED <<up, current>>
      BY <2>2 DEF OnOpen, refs, Sequel, Live
    <3> QED
      BY <3>1 DEF Fresh, Mail, Sequel, Sockets
  <2>3. CASE OnMessage(s)
    <3> DEFINE p == Head(down[s])
    <3>1. handlePacket(s, p) /\ UNCHANGED <<srv, current>> /\ down[s] # <<>>
      BY <2>3, Zenon DEF OnMessage, server, refs
    <3>2. p \in Letters
      BY <3>1 DEF Mail
    <3> HIDE DEF p
    <3>3. \A t \in Sockets : t # current => up'[t] = up[t]
      BY <3>1, <3>2, PacketHandled DEF Mail
    <3> QED
      BY <3>1, <3>3 DEF Fresh, Sequel, Sockets
  <2>4. CASE OnClose(s) \/ OnError(s)
    <3>1. UNCHANGED <<up, srv, current>>
      BY <2>4 DEF OnClose, OnError, Ended, refs, server
    <3> QED
      BY <3>1 DEF Fresh
  <2> QED
    BY <2>1, <2>2, <2>3, <2>4 DEF Browser
<1>3. CASE Connect
  <2>1. current' = current + 1 /\ UNCHANGED <<up, srv>>
    BY <1>3, Zenon DEF Connect, NewSocket
  <2> QED
    BY <2>1 DEF Fresh, Sequel, Sockets
<1>4. CASE User /\ ~Connect
  <2>1. UNCHANGED <<srv, current>>
    BY <1>4, Zenon DEF User, SendText, ChangeStatus, ListUsers, GetInfo, CloseInfo, Logout, Ask,
                       server, refs
  <2>2. up' = up \/ \E p : up' = send(p)
    BY <1>4, Zenon DEF User, SendText, ChangeStatus, ListUsers, GetInfo, CloseInfo, Logout, Ask,
                       EndSession, sockets
  <2> QED
    BY <1>1, <2>1, <2>2 DEF Fresh, Sequel, Sockets
<1>5. CASE Greet \/ Poll
  <2>1. UNCHANGED <<srv, current>> /\ \E p : up' = send(p)
    BY <1>5, Zenon DEF Greet, Poll, server, page, refs
  <2> QED
    BY <1>1, <2>1 DEF Fresh, Sequel, Sockets
<1>6. CASE \E s \in Sockets : Server(s) \/ Fail(s)
  <2>1. PICK s \in Sockets : Server(s) \/ Fail(s)
    BY <1>6
  <2>2. current' = current /\ srv[s] # "none"
    BY <2>1 DEF Server, Drop, Dial, FirstPacket, Serve, Reply, HangUp, Fail, page, refs
  <2>3. \E v : srv' = srv \/ srv' = [srv EXCEPT ![s] = v]
    BY <2>1, Zenon
       DEF Server, Drop, Dial, FirstPacket, Serve, Reply, HangUp, Fail, Refuse, server
  <2>4. \E v : up' = up \/ up' = [up EXCEPT ![s] = v]
    BY <2>1, Zenon DEF Server, Drop, Dial, FirstPacket, Serve, Reply, HangUp, Fail
  <2>5. \A t \in Sockets : t # s => Still(t)
    BY <2>3, <2>4 DEF Mail
  <2> QED
    BY <2>1, <2>2, <2>5 DEF Fresh
<1>7. CASE Announce \/ (World /\ \A s \in Sockets : ~Fail(s)) \/ UNCHANGED vars
  <2>1. UNCHANGED <<up, srv, current>>
    BY <1>7 DEF Announce, World, page, refs, vars, sockets, server
  <2> QED
    BY <2>1 DEF Fresh
<1> QED
  BY <1>2, <1>3, <1>4, <1>5, <1>6, <1>7 DEF Next

LEMMA ToldStep ==
  ASSUME Sequel, Mail, Sessions, Fresh, Told, [Next]_vars
  PROVE  Told'
PROOF
<1>1. CASE \E s \in Sockets : Browser(s) \/ Server(s)
  BY <1>1, OpenTold, MessageTold, EndedTold, DropTold, DialTold, FirstPacketTold, ServeTold,
     ReplyTold, HangUpTold
     DEF Browser, Server
<1>2. CASE User \/ Greet \/ Poll
  BY <1>2, ConnectTold, LogoutTold, AsksTold DEF User
<1>3. CASE Announce \/ World
  <2>1. /\ Packet("DISCONNECTED", "bob") \in Letters
        /\ Packet("DISCONNECTED", "bob").val # "welcome"
        /\ Packet("MSG", "bob") \in Letters /\ Packet("MSG", "bob").val # "welcome"
        /\ Packet("NOTICE", "INACTIVE") \in Letters
        /\ Packet("NOTICE", "INACTIVE").val # "welcome"
        /\ \A val : /\ Packet("DISCONNECTED", val).cmd = "DISCONNECTED"
                    /\ Packet("MSG", val).cmd = "MSG"
                    /\ Packet("NOTICE", val).cmd = "NOTICE"
    BY LetterTypes DEF Replies, Texts, Names, Statuses, Packet
  <2>2. CASE \E s \in Sockets : Fail(s)
    BY <2>2, FailTold
  <2>3. CASE \A s \in Sockets : ~Fail(s)
    <3>1. StillPage /\ UNCHANGED <<up, srv, answer, reason>>
      BY <1>3, <2>3 DEF Announce, World, StillPage, page, session, form, view, refs
    <3>2. \/ down' = down
          \/ Deliver(Members, <<Packet("DISCONNECTED", "bob")>>)
          \/ Deliver(Members, <<Packet("MSG", "bob")>>)
          \/ Deliver(Members, <<Packet("NOTICE", "INACTIVE")>>)
      BY <1>3, <2>3 DEF Announce, World, ComeAndGo, Say, MonitorMarks
    <3> QED
      BY <2>1, <3>1, <3>2, NoticesTold
  <2> QED
    BY <2>2, <2>3
<1>4. CASE UNCHANGED vars
  <2>1. StillPage /\ UNCHANGED <<up, down, srv, answer, reason>>
    BY <1>4 DEF vars, StillPage, page, session, form, view, refs, sockets, server
  <2>2. current \in Sockets => Shorter(current) /\ Same(current)
    BY <2>1 DEF Shorter, Same
  <2>3. answer'.cmd # "close"
    BY <2>1 DEF Told
  <2> QED
    BY <2>1, <2>2, <2>3, GoesOnTold
<1> QED
  BY <1>1, <1>2, <1>3, <1>4 DEF Next

LEMMA InitTold == Init => Fresh /\ Told
PROOF
<1> SUFFICES ASSUME Init PROVE Fresh /\ Told
  OBVIOUS
<1>1. /\ current = 0 /\ userInfo = <<>> /\ loginError = None /\ reason = None
      /\ up = [s \in Sockets |-> <<>>] /\ srv = [s \in Sockets |-> "none"]
      /\ answer = NoPacket
  BY Zenon DEF Init
<1>2. answer.cmd # "close"
  <2>1. None # "close"
    BY Zenon DEF None
  <2> QED
    BY <1>1, <2>1 DEF NoPacket, Packet
<1>3. Fresh
  BY <1>1 DEF Fresh
<1> QED
  BY <1>1, <1>2, <1>3 DEF Told, InfoLabelled, Sockets

\* All that is known of the page.
PageInv == Sequel /\ Mail /\ Sessions /\ Fresh /\ Told

LEMMA PageInvHolds ==
  /\ Init => PageInv
  /\ PageInv /\ [Next]_vars => PageInv'
PROOF
<1>1. Init => PageInv
  BY InitSessions, InitTold DEF PageInv
<1>2. PageInv /\ [Next]_vars => PageInv'
  BY SequelStep, SessionsStep, FreshStep, ToldStep DEF PageInv
<1> QED
  BY <1>1, <1>2

(***************************************************************************)
(* Of a user who waits for the last socket to close, the form says what    *)
(* happened to the last login or session, and no refusal or unreachable    *)
(* bridge is left unsaid or covered by the close after it.                 *)
(***************************************************************************)
THEOREM FormSaysWhy == Spec => []ReasonShown
PROOF
<1>1. PageInv => ReasonShown
  <2> SUFFICES ASSUME PageInv, ~hurried, phase = "login" PROVE ReasonShown
    BY DEF ReasonShown
  <2>1. ~usernameRef
    BY DEF PageInv, Sessions, SessionAgreement
  <2>2. CASE current = 0
    BY <2>2 DEF PageInv, Told, ReasonShown
  <2>3. CASE current # 0
    <3>1. current \in Sockets
      BY <2>3 DEF PageInv, Sequel, Sockets
    <3>2. Account(current) /\ srv[current] \in {"none", "dialling", "tcp", "member", "gone"}
      BY <3>1 DEF PageInv, Told, Mail
    <3>3. None \notin {"refused", "unreachable"}
      BY Zenon DEF None
    <3> QED
      BY <3>2, <3>3 DEF Account, ReasonShown
  <2> QED
    BY <2>2, <2>3
<1> QED
  BY <1>1, PageInvHolds, PTL DEF Spec

(***************************************************************************)
(* Of a user who waits for an answer before he asks again, the data shown  *)
(* are those of the user the modal names.                                  *)
(***************************************************************************)
THEOREM DataBearTheirName == Spec => []InfoLabelled
PROOF
<1>1. PageInv => InfoLabelled
  BY DEF PageInv, Told, InfoLabelled
<1> QED
  BY <1>1, PageInvHolds, PTL DEF Spec
=============================================================================
