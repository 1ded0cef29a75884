-------------------------- MODULE WebClientProps --------------------------
(***************************************************************************)
(* What a page of the web client should show its user.                     *)
(***************************************************************************)
EXTENDS WebClient

Commands == {"REGISTER", "BROADCAST", "DIRECT", "LIST", "INFO", "STATUS", "LOGOUT"}
Entries == [name : {"me", "bob"}, status : Statuses]
Errors == {None, "refused", "lost", "unreachable"}

\* Types; only an open socket has messages for the page.
TypeOK ==
  /\ phase \in {"login", "chat"} /\ myStatus \in Statuses
  /\ messages \subseteq Sockets /\ users \subseteq Entries
  /\ wsStatus \in {"connecting", "connected", "disconnected"}
  /\ loginError \in Errors /\ reason \in Errors \union {"silent"}
  /\ userInfo \in {<<>>} \union ({"me", "bob"} \X {"me", "bob"})
  /\ current \in 0..MaxSockets /\ pendingInfoTarget \in {None, "me", "bob"}
  /\ usernameRef \in BOOLEAN /\ voluntaryLogout \in BOOLEAN
  /\ polling \in BOOLEAN /\ hurried \in BOOLEAN /\ greet \subseteq Sockets
  /\ status \in Statuses /\ bob \in BOOLEAN /\ notice \in BOOLEAN
  /\ \A s \in Sockets :
       /\ readyState[s] \in {"none", "connecting", "aborted", "open", "closing", "closed"}
       /\ srv[s] \in {"none", "dialling", "tcp", "member", "gone"}
       /\ \A i \in DOMAIN up[s] : up[s][i].cmd \in Commands
       /\ readyState[s] # "open" => down[s] = <<>>
  /\ events \in 0..MaxEvents

-----------------------------------------------------------------------------
(***************************************************************************)
(* However fast the user logs in again, only the socket of the last login  *)
(* opens or is open: no second session is kept beside the one shown.       *)
(***************************************************************************)
OneLiveSocket ==
  \A s \in Sockets : readyState[s] \in {"connecting", "open"} => s = current

(***************************************************************************)
(* The page shows the chat, and polls, exactly while its session lasts:    *)
(* its socket is open, and the server has welcomed it.  A user in a hurry  *)
(* can lose this: the late onclose of an older socket takes the page back  *)
(* to the form while the new session goes on (useChat.js:223).             *)
(***************************************************************************)
Awaited(s) == \E i \in DOMAIN down[s] : down[s][i].val = "welcome"

SessionAgreement ==
  ~hurried =>
    /\ phase = "chat" <=> usernameRef
    /\ polling <=> usernameRef
    /\ usernameRef => Open /\ srv[current] \in {"member", "gone"}
    /\ (Open /\ srv[current] = "member" /\ answer.val # "welcome" /\ ~Awaited(current))
         => usernameRef

(***************************************************************************)
(* The form says why: what it says is what happened to the last login or   *)
(* session, and a refusal or an unreachable bridge is never left unsaid    *)
(* or covered by the close that follows.                                   *)
(***************************************************************************)
ReasonShown ==
  ~hurried /\ phase = "login" =>
    /\ loginError # None => loginError = reason
    /\ (current # 0 /\ readyState[current] = "closed" /\ reason \in {"refused", "unreachable"})
         => loginError = reason

(***************************************************************************)
(* A chat shows only messages that came or were sent in this session, even *)
(* when an older session went on after the page had left it.               *)
(***************************************************************************)
MessagesOfSession == phase = "chat" => messages \subseteq {current}

(***************************************************************************)
(* The data shown by the modal are those of the user it names, provided    *)
(* the user waited for an answer before asking again.                      *)
(***************************************************************************)
InfoLabelled == ~hurried /\ userInfo # <<>> => userInfo[1] = userInfo[2]

(***************************************************************************)
(* Whatever order notices, answers and optimistic updates were shown in,   *)
(* once the world is at rest the page comes to show the table: its own     *)
(* status and the users in it.                                             *)
(***************************************************************************)
InChat == phase = "chat" /\ srv[current] = "member"
ViewIsTrue == myStatus = status /\ users = Roster

ViewSettles == <>[]InChat => <>[](InChat /\ ViewIsTrue)

(***************************************************************************)
(* No login waits for ever, and a session that ended at the server's side  *)
(* ends on the page.                                                       *)
(***************************************************************************)
Trying == phase = "login" /\ wsStatus # "disconnected"

NeverStuck ==
  /\ Trying ~> ~Trying
  /\ (phase = "chat" /\ srv[current] = "gone") ~> phase = "login"
=============================================================================
