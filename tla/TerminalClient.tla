--------------------------- MODULE TerminalClient ---------------------------
(***************************************************************************)
(* The terminal client: cliente.c, client_net.c and client_ui.c.           *)
(*                                                                         *)
(* The main thread registers, then reads lines and turns them into         *)
(* requests; the receiver thread shows what the server sends.  They share  *)
(* the socket and the flag running; when the connection is lost the        *)
(* receiver interrupts the main thread's fgets with SIGUSR1, whose handler *)
(* does nothing, so the signal has an effect only on a thread that is      *)
(* already waiting.                                                        *)
(*                                                                         *)
(* Around the client: the user at the keyboard, and a server that may send *)
(* anything and go away at any time.                                       *)
(***************************************************************************)
EXTENDS Integers, Sequences, ChatProtocol

CONSTANTS
  Me,          \* the name given on the command line
  Lines,       \* what the user may type in this instance
  Incoming,    \* what the server may send
  MaxLines,    \* bound: how many lines the user types
  MaxPackets   \* bound: how many packets the server sends

Words == {"/broadcast", "/msg", "/status", "/list", "/info", "/help", "/exit",
          "other"}

\* A line is a command word and its arguments; a missing one is "".
Line == [word : Words, to : Names \cup {""},
         body : Texts \cup Statuses \cup {""}]

ASSUME ClientAssumption ==
  /\ Me \in Names
  /\ Lines \subseteq Line
  /\ Incoming \subseteq {p \in ChatPacket : p.command \in Responses}
  /\ MaxLines \in Nat /\ MaxPackets \in Nat

VARIABLES
  running,    \* the flag both threads read and write
  main,       \* where the main thread is
  line,       \* the line it works on
  rec, pkt,   \* where the receiver is, and its packet
  cancelled,  \* pthread_cancel was called
  sock,       \* the main thread's descriptor: "none", "open", "closed"
  server,     \* the other end: "listening", "up", "closed"
  toServer, fromServer, \* what was written; what has not been read yet
  sent,       \* all the server ever sent
  stdin, eof, \* what the user typed and the main thread did not read yet
  typed,      \* all the user ever typed
  shown,      \* packets displayed
  alarm       \* "[!] Conexion con el servidor perdida" was printed

mainVars == <<main, line, sock>>
recVars == <<rec, pkt>>
net == <<server, fromServer, sent>>
user == <<stdin, eof, typed>>
vars == <<running, mainVars, recVars, cancelled, net, toServer, user, shown, alarm>>

NoLine == [word |-> "other", to |-> "", body |-> ""]

Init ==
  /\ running = TRUE
  /\ main = "connect" /\ line = NoLine /\ sock = "none"
  /\ rec = "none" /\ pkt = NoPacket /\ cancelled = FALSE
  /\ server = "listening"
  /\ toServer = <<>> /\ fromServer = <<>> /\ sent = <<>>
  /\ stdin = <<>> /\ eof = FALSE /\ typed = <<>>
  /\ shown = <<>> /\ alarm = FALSE

-----------------------------------------------------------------------------
\* Sending and receiving whole packets

\* Nobody looks at net_send's result: what the server no longer reads is lost.
net_send(p) ==
  toServer' = IF server = "up" THEN Append(toServer, p) ELSE toServer

\* net_recv fails at the end of the stream.
AtEnd == fromServer = <<>> /\ server = "closed"

-----------------------------------------------------------------------------
\* The main thread

net_connect ==
  /\ main = "connect"
  /\ \/ server = "listening" /\ server' = "up" /\ sock' = "open" /\ main' = "register"
     \/ main' = "exited" /\ UNCHANGED <<server, sock>>
  /\ UNCHANGED <<line, fromServer, sent, toServer, running, recVars, cancelled, shown>>

net_register ==
  /\ main = "register"
  /\ net_send(Packet("REGISTER", Me, "", Me))
  /\ main' = "await"
  /\ UNCHANGED <<line, sock, net, running, recVars, cancelled, shown>>

\* Mutant: the first packet is displayed but not consumed.
Answered_Peeks ==
  /\ main = "await" /\ fromServer # <<>>
  /\ shown' = Append(shown, Head(fromServer))
  /\ IF Head(fromServer).command = "ERROR"
     THEN main' = "exited" /\ sock' = "closed" /\ UNCHANGED rec
     ELSE main' = "check" /\ rec' = "check" /\ UNCHANGED sock
  /\ UNCHANGED <<line, fromServer, server, sent, toServer, running, pkt, cancelled>>

\* The first packet is taken for the answer; the receiver starts after it.
Answered ==
  /\ main = "await" /\ fromServer # <<>>
  /\ fromServer' = Tail(fromServer)
  /\ shown' = Append(shown, Head(fromServer))
  /\ IF Head(fromServer).command = "ERROR"
     THEN main' = "exited" /\ sock' = "closed" /\ UNCHANGED rec
     ELSE main' = "check" /\ rec' = "check" /\ UNCHANGED sock
  /\ UNCHANGED <<line, server, sent, toServer, running, pkt, cancelled>>

NotAnswered ==
  /\ main = "await" /\ AtEnd
  /\ main' = "exited" /\ sock' = "closed"
  /\ UNCHANGED <<line, net, toServer, running, recVars, cancelled, shown>>

\* Mutant: for (;;) for while (running).
CheckRunning_Never ==
  /\ main = "check"
  /\ main' = "prompt"
  /\ UNCHANGED <<line, sock, net, toServer, running, recVars, cancelled, shown>>

\* while (running); the prompt is printed before fgets begins to wait.
CheckRunning ==
  /\ main = "check"
  /\ main' = IF running THEN "prompt" ELSE "end"
  /\ UNCHANGED <<line, sock, net, toServer, running, recVars, cancelled, shown>>

Prompt ==
  /\ main = "prompt"
  /\ main' = "fgets"
  /\ UNCHANGED <<line, sock, net, toServer, running, recVars, cancelled, shown>>

\* Mutant: any word is a status.
Request_AnyStatus(l) ==
  CASE l.word = "/broadcast" /\ l.body # "" -> Packet("BROADCAST", Me, "", l.body)
    [] l.word = "/status"                   -> Packet("STATUS", Me, "", l.body)
    [] l.word = "/exit"                     -> Packet("LOGOUT", Me, "", "")
    [] OTHER                                -> NoPacket

\* The request a line stands for, or NoPacket: help, a usage message.
Request(l) ==
  CASE l.word = "/broadcast" /\ l.body # ""             -> Packet("BROADCAST", Me, "", l.body)
    [] l.word = "/msg" /\ l.to # "" /\ l.body # ""      -> Packet("DIRECT", Me, l.to, l.body)
    [] l.word = "/status" /\ l.body \in Statuses        -> Packet("STATUS", Me, "", l.body)
    [] l.word = "/list"                                 -> Packet("LIST", Me, "", "")
    [] l.word = "/info" /\ l.to # ""                    -> Packet("INFO", Me, l.to, "")
    [] l.word = "/exit"                                 -> Packet("LOGOUT", Me, "", "")
    [] OTHER                                            -> NoPacket

\* Mutant: /exit sends its packet and returns 0 like the others.
ui_process_input_Stays ==
  /\ main = "process"
  /\ IF Request(line) = NoPacket THEN UNCHANGED toServer
                                 ELSE net_send(Request(line))
  /\ main' = "check"
  /\ line' = NoLine
  /\ UNCHANGED <<sock, net, running, recVars, cancelled, shown>>

ui_process_input ==
  /\ main = "process"
  /\ IF Request(line) = NoPacket THEN UNCHANGED toServer
                                 ELSE net_send(Request(line))
  /\ main' = IF line.word = "/exit" THEN "end" ELSE "check"
  /\ line' = NoLine
  /\ UNCHANGED <<sock, net, running, recVars, cancelled, shown>>

\* Mutant: the receiver is not told.
End_Silent ==
  /\ main = "end"
  /\ main' = "close"
  /\ UNCHANGED <<line, sock, net, toServer, running, recVars, cancelled, shown>>

\* running = 0; then a pause of 200 ms, during which anything may happen.
End ==
  /\ main = "end"
  /\ running' = FALSE
  /\ main' = "close"
  /\ UNCHANGED <<line, sock, net, toServer, recVars, cancelled, shown>>

CloseSocket ==
  /\ main = "close"
  /\ sock' = "closed"
  /\ main' = "cancel"
  /\ UNCHANGED <<line, net, toServer, running, recVars, cancelled, shown>>

\* Mutant: the receiver is joined without being cancelled.
Cancel_Not ==
  /\ main = "cancel"
  /\ main' = "join"
  /\ UNCHANGED <<line, sock, net, toServer, running, recVars, cancelled, shown>>

Cancel ==
  /\ main = "cancel"
  /\ cancelled' = TRUE
  /\ main' = "join"
  /\ UNCHANGED <<line, sock, net, toServer, running, recVars, shown>>

Join ==
  /\ main = "join" /\ rec = "done"
  /\ main' = "exited"
  /\ UNCHANGED <<line, sock, net, toServer, running, recVars, cancelled, shown>>

\* fgets: a line, or NULL at the end of the input.
ReadLine ==
  /\ main = "fgets"
  /\ \/ stdin # <<>> /\ line' = Head(stdin) /\ stdin' = Tail(stdin) /\ main' = "process"
     \/ stdin = <<>> /\ eof /\ main' = "end" /\ UNCHANGED <<line, stdin>>
  /\ UNCHANGED <<sock, net, toServer, running, recVars, cancelled, shown, eof, typed>>

MainThread ==
  /\ \/ /\ \/ net_connect \/ net_register \/ Answered \/ NotAnswered
           \/ CheckRunning \/ Prompt \/ ui_process_input
           \/ End \/ CloseSocket \/ Cancel \/ Join
        /\ UNCHANGED user
     \/ ReadLine
  /\ UNCHANGED alarm

-----------------------------------------------------------------------------
\* The receiver thread

RecCheck ==
  /\ rec = "check"
  /\ rec' = IF running THEN "call" ELSE "done"
  /\ UNCHANGED <<pkt, main, running, fromServer, shown, alarm>>

\* A recv that already waits when the main thread closes the descriptor goes
\* on waiting; one that is called afterwards fails.
RecCall ==
  /\ rec = "call"
  /\ rec' = IF sock = "open" THEN "recv" ELSE "failed"
  /\ UNCHANGED <<pkt, main, running, fromServer, shown, alarm>>

RecPacket ==
  /\ rec = "recv" /\ fromServer # <<>>
  /\ pkt' = Head(fromServer) /\ fromServer' = Tail(fromServer)
  /\ rec' = "display"
  /\ UNCHANGED <<main, running, shown, alarm>>

ui_display_packet ==
  /\ rec = "display"
  /\ shown' = Append(shown, pkt)
  /\ pkt' = NoPacket
  /\ rec' = "check"
  /\ UNCHANGED <<main, running, fromServer, alarm>>

RecFails ==
  /\ rec = "recv" /\ AtEnd
  /\ rec' = "failed"
  /\ UNCHANGED <<pkt, main, running, fromServer, shown, alarm>>

TestRunning ==
  /\ rec = "failed"
  /\ rec' = IF running THEN "lost" ELSE "done"
  /\ UNCHANGED <<pkt, main, running, fromServer, shown, alarm>>

Lost ==
  /\ rec = "lost"
  /\ alarm' = TRUE
  /\ running' = FALSE
  /\ rec' = "kill"
  /\ UNCHANGED <<pkt, main, fromServer, shown>>

\* The signal ends a wait in fgets, and nothing else.
Kill ==
  /\ rec = "kill"
  /\ main' = IF main = "fgets" THEN "end" ELSE main
  /\ rec' = "done"
  /\ UNCHANGED <<pkt, running, fromServer, shown, alarm>>

\* recv and printf are where a cancellation takes effect.
Cancelled ==
  /\ cancelled /\ rec \in {"call", "recv", "display", "lost"}
  /\ rec' = "done"
  /\ UNCHANGED <<pkt, main, running, fromServer, shown, alarm>>

recv_thread ==
  /\ \/ RecCheck \/ RecCall \/ RecPacket \/ ui_display_packet \/ RecFails
     \/ TestRunning \/ Lost \/ Kill \/ Cancelled
  /\ UNCHANGED <<line, sock, cancelled, server, sent, toServer, user>>

-----------------------------------------------------------------------------
\* The user and the server

Type ==
  /\ ~eof /\ Len(typed) < MaxLines
  /\ \E l \in Lines : stdin' = Append(stdin, l) /\ typed' = Append(typed, l)
  /\ UNCHANGED <<eof, net>>

EndInput ==
  /\ ~eof
  /\ eof' = TRUE
  /\ UNCHANGED <<stdin, typed, net>>

ServerSends ==
  /\ server = "up" /\ Len(sent) < MaxPackets
  /\ \E p \in Incoming : fromServer' = Append(fromServer, p) /\ sent' = Append(sent, p)
  /\ UNCHANGED <<server, user>>

\* After a LOGOUT, a refusal or a crash; a reset loses what is under way.
ServerCloses ==
  /\ server = "up"
  /\ server' = "closed"
  /\ fromServer' \in {fromServer, <<>>}
  /\ UNCHANGED <<sent, user>>

Environment ==
  /\ Type \/ EndInput \/ ServerSends \/ ServerCloses
  /\ UNCHANGED <<running, mainVars, recVars, cancelled, toServer, shown, alarm>>

Exited == main = "exited" /\ UNCHANGED vars

Next == MainThread \/ recv_thread \/ Environment \/ Exited

Spec == Init /\ [][Next]_vars

(***************************************************************************)
(* Both threads of the process are scheduled for ever.  Nothing makes the  *)
(* user type or the server answer.                                         *)
(***************************************************************************)
FairSpec == Spec /\ WF_vars(MainThread) /\ WF_vars(recv_thread)

=============================================================================
