------------------------ MODULE TerminalClientProofs ------------------------
(***************************************************************************)
(* Whatever the user types, whatever the server sends and however long     *)
(* either goes on: what the terminal client shows, asks and reports.       *)
(***************************************************************************)
EXTENDS TerminalClientProps, SequenceTheorems, TLAPS

-----------------------------------------------------------------------------
\* Types

(***************************************************************************)
(* The receiver is there from the answer on, and holds a packet while it   *)
(* displays it; one it was cancelled with it keeps.                        *)
(***************************************************************************)
Threads ==
  /\ main \in {"connect", "register", "await"} => rec = "none"
  /\ rec = "none" => main \in {"connect", "register", "await", "exited"}
  /\ rec = "display" => pkt # NoPacket
  /\ pkt # NoPacket => rec \in {"display", "done"}

LEMMA NotNothing == NoPacket \notin Incoming
PROOF
  BY ClientAssumption DEF NoPacket, Packet, Responses

\* What is written is a complete request.
LEMMA RequestIsAsked ==
  ASSUME NEW l \in Lines \cup {NoLine}
  PROVE  Request(l) \in Asked \cup {NoPacket}
PROOF
<1>1. l \in Line /\ Me \in Names
  <2>1. NoLine \in Line
    BY DEF Line, NoLine, Words
  <2> QED
    BY <2>1, ClientAssumption
<1>2. CASE l.word = "/broadcast" /\ l.body # ""
  BY <1>1, <1>2 DEF Request, Asked, ChatPacket, Packet, Requests, Line, ServerTexts
<1>3. CASE l.word = "/msg" /\ l.to # "" /\ l.body # ""
  BY <1>1, <1>3 DEF Request, Asked, ChatPacket, Packet, Requests, Line, ServerTexts
<1>4. CASE l.word = "/status" /\ l.body \in Statuses
  BY <1>1, <1>4 DEF Request, Asked, ChatPacket, Packet, Requests, Line, ServerTexts
<1>5. CASE l.word = "/list"
  BY <1>1, <1>5 DEF Request, Asked, ChatPacket, Packet, Requests, Line, ServerTexts
<1>6. CASE l.word = "/info" /\ l.to # ""
  BY <1>1, <1>6 DEF Request, Asked, ChatPacket, Packet, Requests, Line, ServerTexts
<1>7. CASE l.word = "/exit"
  BY <1>1, <1>7 DEF Request, Asked, ChatPacket, Packet, Requests, Line, ServerTexts
<1>8. CASE /\ ~(l.word = "/broadcast" /\ l.body # "")
           /\ ~(l.word = "/msg" /\ l.to # "" /\ l.body # "")
           /\ ~(l.word = "/status" /\ l.body \in Statuses)
           /\ l.word # "/list" /\ ~(l.word = "/info" /\ l.to # "") /\ l.word # "/exit"
  BY <1>8 DEF Request
<1> QED
  BY <1>2, <1>3, <1>4, <1>5, <1>6, <1>7, <1>8

LEMMA RegisterIsAsked == Packet("REGISTER", Me, "", Me) \in Asked
PROOF
  BY ClientAssumption DEF Asked, ChatPacket, Packet, Requests, ServerTexts

LEMMA SentIsAsked ==
  ASSUME toServer \in Seq(Asked), NEW p \in Asked, net_send(p)
  PROVE  toServer' \in Seq(Asked)
PROOF
<1> DEFINE A == Asked
<1>1. toServer \in Seq(A) /\ p \in A
  OBVIOUS
<1> HIDE DEF A
<1>2. Append(toServer, p) \in Seq(A)
  BY <1>1
<1>3. toServer' = IF server = "up" THEN Append(toServer, p) ELSE toServer
  BY DEF net_send
<1> QED
  BY <1>1, <1>2, <1>3 DEF A

\* The main thread keeps the types.
LEMMA TypeMain ==
  ASSUME TypeOK, Threads, MainThread
  PROVE  TypeOK' /\ Threads'
PROOF
<1> USE DEF TypeOK, Threads
<1>1. CASE net_connect /\ UNCHANGED <<user, alarm>>
  BY <1>1 DEF net_connect, user, recVars
<1>2. CASE net_register /\ UNCHANGED <<user, alarm>>
  <2>1. toServer' \in Seq(Asked)
    BY <1>2, RegisterIsAsked, SentIsAsked DEF net_register
  <2> QED
    BY <1>2, <2>1 DEF net_register, net, user, recVars
<1>3. CASE Answered /\ UNCHANGED <<user, alarm>>
  BY <1>3 DEF Answered, user
<1>4. CASE NotAnswered /\ UNCHANGED <<user, alarm>>
  BY <1>4 DEF NotAnswered, net, user, recVars
<1>5. CASE CheckRunning /\ UNCHANGED <<user, alarm>>
  BY <1>5 DEF CheckRunning, net, user, recVars
<1>6. CASE Prompt /\ UNCHANGED <<user, alarm>>
  BY <1>6 DEF Prompt, net, user, recVars
<1>7. CASE ui_process_input /\ UNCHANGED <<user, alarm>>
  <2>1. Request(line) = NoPacket \/ Request(line) \in Asked
    BY RequestIsAsked
  <2>2. toServer' \in Seq(Asked)
    BY <1>7, <2>1, SentIsAsked DEF ui_process_input
  <2> QED
    BY <1>7, <2>2 DEF ui_process_input, net, user, recVars
<1>8. CASE End /\ UNCHANGED <<user, alarm>>
  BY <1>8 DEF End, net, user, recVars
<1>9. CASE CloseSocket /\ UNCHANGED <<user, alarm>>
  BY <1>9 DEF CloseSocket, net, user, recVars
<1>10. CASE Cancel /\ UNCHANGED <<user, alarm>>
  BY <1>10 DEF Cancel, net, user, recVars
<1>11. CASE Join /\ UNCHANGED <<user, alarm>>
  BY <1>11 DEF Join, net, user, recVars
<1>12. CASE ReadLine /\ UNCHANGED alarm
  <2>1. stdin' \in Seq(Lines) /\ line' \in Lines \cup {NoLine}
    <3>1. stdin # <<>> => Head(stdin) \in Lines /\ Tail(stdin) \in Seq(Lines)
      BY HeadTailProperties
    <3> QED
      BY <1>12, <3>1 DEF ReadLine
  <2> QED
    BY <1>12, <2>1 DEF ReadLine, net, recVars
<1> QED
  BY <1>1, <1>2, <1>3, <1>4, <1>5, <1>6, <1>7, <1>8, <1>9, <1>10, <1>11, <1>12
     DEF MainThread

\* The receiver keeps the types.
LEMMA TypeReceiver ==
  ASSUME TypeOK, Threads, recv_thread
  PROVE  TypeOK' /\ Threads'
PROOF
<1> USE DEF TypeOK, Threads
<1> DEFINE Rest == UNCHANGED <<line, sock, cancelled, server, sent, toServer, user>>
<1>1. CASE RecCheck /\ Rest
  BY <1>1 DEF RecCheck, user
<1>2. CASE RecCall /\ Rest
  BY <1>2 DEF RecCall, user
<1>3. CASE RecPacket /\ Rest
  BY <1>3, NotNothing DEF RecPacket, user
<1>4. CASE ui_display_packet /\ Rest
  <2>1. pkt \in Incoming
    BY <1>4 DEF ui_display_packet
  <2> QED
    BY <1>4, <2>1 DEF ui_display_packet, user
<1>5. CASE RecFails /\ Rest
  BY <1>5 DEF RecFails, user
<1>6. CASE TestRunning /\ Rest
  BY <1>6 DEF TestRunning, user
<1>7. CASE Lost /\ Rest
  BY <1>7 DEF Lost, user
<1>8. CASE Kill /\ Rest
  BY <1>8 DEF Kill, user
<1>9. CASE Cancelled /\ Rest
  BY <1>9 DEF Cancelled, user
<1> QED
  BY <1>1, <1>2, <1>3, <1>4, <1>5, <1>6, <1>7, <1>8, <1>9 DEF recv_thread

LEMMA TypeEnvironment ==
  ASSUME TypeOK, Threads, Environment
  PROVE  TypeOK' /\ Threads'
PROOF
<1> USE DEF TypeOK, Threads
<1> DEFINE Rest == UNCHANGED <<running, mainVars, recVars, cancelled, toServer, shown, alarm>>
<1>1. CASE Type /\ Rest
  <2>1. stdin' \in Seq(Lines) /\ typed' \in Seq(Lines)
    BY <1>1 DEF Type
  <2> QED
    BY <1>1, <2>1 DEF Type, net, mainVars, recVars
<1>2. CASE EndInput /\ Rest
  BY <1>2 DEF EndInput, net, mainVars, recVars
<1>3. CASE ServerSends /\ Rest
  BY <1>3 DEF ServerSends, user, mainVars, recVars
<1>4. CASE ServerCloses /\ Rest
  <2>1. fromServer' \in Seq(Incoming)
    BY <1>4, EmptySeq DEF ServerCloses
  <2> QED
    BY <1>4, <2>1 DEF ServerCloses, user, mainVars, recVars
<1> QED
  BY <1>1, <1>2, <1>3, <1>4 DEF Environment

LEMMA InitTypes == Init => TypeOK /\ Threads
PROOF
<1> SUFFICES ASSUME Init PROVE TypeOK /\ Threads
  OBVIOUS
<1>1. <<>> \in Seq(Asked) /\ <<>> \in Seq(Incoming) /\ <<>> \in Seq(Lines)
  BY EmptySeq
<1> QED
  BY <1>1 DEF Init, TypeOK, Threads

LEMMA TypeStep ==
  ASSUME TypeOK, Threads, [Next]_vars
  PROVE  TypeOK' /\ Threads'
PROOF
<1>1. CASE UNCHANGED vars
  BY <1>1 DEF TypeOK, Threads, vars, mainVars, recVars, net, user
<1> QED
  BY <1>1, TypeMain, TypeReceiver, TypeEnvironment DEF Next, Exited

(***************************************************************************)
(* The client's variables keep their types, and the server is given        *)
(* nothing but complete requests in the user's own name.                   *)
(***************************************************************************)
THEOREM ClientTypes == Spec => []TypeOK
PROOF
<1>1. TypeOK /\ Threads /\ [Next]_vars => TypeOK' /\ Threads'
  BY TypeStep
<1> QED
  BY <1>1, InitTypes, PTL DEF Spec

-----------------------------------------------------------------------------
\* The alarm

(***************************************************************************)
(* The receiver's recv fails while running is set only when the server has *)
(* closed: main closes its own descriptor after it has cleared running.    *)
(***************************************************************************)
Closing ==
  /\ main \in {"register", "await"} => sock = "open"
  /\ rec # "none" => sock # "none"
  /\ rec # "none" /\ sock = "closed" => ~running
  /\ main \in {"close", "cancel", "join"} => ~running
  /\ rec = "failed" /\ running => server = "closed"
  /\ rec = "lost" => server = "closed"
  /\ AlarmIsTrue

LEMMA ClosingStep ==
  ASSUME TypeOK, Threads, Closing, [Next]_vars
  PROVE  Closing'
PROOF
<1> USE DEF Closing, AlarmIsTrue
<1>1. CASE MainThread
  <2>1. main' \in {"register", "await"} => sock' = "open"
    BY <1>1 DEF MainThread, net_connect, net_register, Answered, NotAnswered, CheckRunning,
      Prompt, ui_process_input, End, CloseSocket, Cancel, Join, ReadLine, Threads
  <2>2. server' = server \/ server = "listening"
    BY <1>1 DEF MainThread, net_connect, net_register, Answered, NotAnswered, CheckRunning,
      Prompt, ui_process_input, End, CloseSocket, Cancel, Join, ReadLine, net
  <2>3. alarm' = alarm
    BY <1>1 DEF MainThread
  <2>4. rec' = rec \/ (rec = "none" /\ rec' = "check" /\ sock' = "open")
    BY <1>1 DEF MainThread, net_connect, net_register, Answered, NotAnswered, CheckRunning,
      Prompt, ui_process_input, End, CloseSocket, Cancel, Join, ReadLine, recVars, Threads
  <2>5. running' = running \/ running' = FALSE
    BY <1>1 DEF MainThread, net_connect, net_register, Answered, NotAnswered, CheckRunning,
      Prompt, ui_process_input, End, CloseSocket, Cancel, Join, ReadLine
  <2>6. main' \in {"close", "cancel", "join"} => ~running'
    BY <1>1 DEF MainThread, net_connect, net_register, Answered, NotAnswered, CheckRunning,
      Prompt, ui_process_input, End, CloseSocket, Cancel, Join, ReadLine
  <2>7. sock' = sock \/ main = "connect" \/ main = "await" \/ (main = "close" /\ sock' = "closed")
    BY <1>1 DEF MainThread, net_connect, net_register, Answered, NotAnswered, CheckRunning,
      Prompt, ui_process_input, End, CloseSocket, Cancel, Join, ReadLine
  <2>8. rec' # "none" => sock' # "none"
    BY <2>4, <2>7 DEF Threads
  <2>9. rec' # "none" /\ sock' = "closed" => ~running'
    BY <2>4, <2>5, <2>7 DEF Threads
  <2> QED
    BY <2>1, <2>2, <2>3, <2>4, <2>5, <2>6, <2>8, <2>9
<1>2. CASE recv_thread
  <2>1. main' = main \/ (rec = "kill" /\ main' = "end")
    BY <1>2 DEF recv_thread, RecCheck, RecCall, RecPacket, ui_display_packet, RecFails,
      TestRunning, Lost, Kill, Cancelled
  <2>2. sock' = sock /\ server' = server /\ (running' => running)
    BY <1>2 DEF recv_thread, RecCheck, RecCall, RecPacket, ui_display_packet, RecFails,
      TestRunning, Lost, Kill, Cancelled
  <2>3. rec # "none" /\ rec' # "none"
    BY <1>2 DEF recv_thread, RecCheck, RecCall, RecPacket, ui_display_packet, RecFails,
      TestRunning, Lost, Kill, Cancelled
  <2>4. /\ rec' = "failed" /\ running' => server' = "closed"
        /\ rec' = "lost" => server' = "closed"
        /\ alarm' => server' = "closed"
    BY <1>2 DEF recv_thread, RecCheck, RecCall, RecPacket, ui_display_packet, RecFails,
      TestRunning, Lost, Kill, Cancelled, AtEnd, TypeOK
  <2> QED
    BY <2>1, <2>2, <2>3, <2>4
<1>3. CASE Environment
  <2>1. server' = server \/ server' = "closed"
    BY <1>3 DEF Environment, Type, EndInput, ServerSends, ServerCloses, net
  <2> QED
    BY <1>3, <2>1 DEF Environment, mainVars, recVars
<1>4. CASE UNCHANGED vars
  BY <1>4 DEF vars, mainVars, recVars, net, user
<1> QED
  BY <1>1, <1>2, <1>3, <1>4 DEF Next, Exited

(***************************************************************************)
(* The alarm is raised only when the server has closed the connection.     *)
(***************************************************************************)
THEOREM AlarmsAreTrue == Spec => []AlarmIsTrue
PROOF
<1>1. Init => TypeOK /\ Threads /\ Closing
  BY InitTypes DEF Init, Closing, AlarmIsTrue
<1>2. TypeOK /\ Threads /\ Closing /\ [Next]_vars => TypeOK' /\ Threads' /\ Closing'
  BY TypeStep, ClosingStep
<1>3. Closing => AlarmIsTrue
  BY DEF Closing
<1> QED
  BY <1>1, <1>2, <1>3, PTL DEF Spec

-----------------------------------------------------------------------------
\* What is written

(***************************************************************************)
(* Nothing is written before REGISTER, and once a LOGOUT is written the    *)
(* main thread is on its way out.  If the REGISTER was lost the server has *)
(* closed, and takes nothing else.                                         *)
(***************************************************************************)
Session ==
  /\ main \in {"connect", "register"} => toServer = <<>>
  /\ main \notin {"connect", "register", "exited"} /\ toServer = <<>> => server # "up"
  /\ main \in {"await", "check", "prompt", "fgets", "process"} =>
       \A k \in DOMAIN toServer : toServer[k].command # "LOGOUT"
  /\ SessionOnTheWire

\* No line is a REGISTER, and /exit alone is a LOGOUT.
LEMMA RequestCommand ==
  ASSUME NEW l, Request(l) # NoPacket
  PROVE  /\ Request(l).command # "REGISTER"
         /\ Request(l).command = "LOGOUT" => l.word = "/exit"
PROOF
<1>1. CASE l.word = "/broadcast" /\ l.body # ""
  BY <1>1 DEF Request, Packet
<1>2. CASE l.word = "/msg" /\ l.to # "" /\ l.body # ""
  BY <1>2 DEF Request, Packet
<1>3. CASE l.word = "/status" /\ l.body \in Statuses
  BY <1>3 DEF Request, Packet
<1>4. CASE l.word = "/list"
  BY <1>4 DEF Request, Packet
<1>5. CASE l.word = "/info" /\ l.to # ""
  BY <1>5 DEF Request, Packet
<1>6. CASE l.word = "/exit"
  BY <1>6 DEF Request, Packet
<1>7. CASE /\ ~(l.word = "/broadcast" /\ l.body # "")
           /\ ~(l.word = "/msg" /\ l.to # "" /\ l.body # "")
           /\ ~(l.word = "/status" /\ l.body \in Statuses)
           /\ l.word # "/list" /\ ~(l.word = "/info" /\ l.to # "") /\ l.word # "/exit"
  BY <1>7 DEF Request
<1> QED
  BY <1>1, <1>2, <1>3, <1>4, <1>5, <1>6, <1>7

\* A request more keeps the order of the session.
LEMMA WireGrows ==
  ASSUME TypeOK, SessionOnTheWire, NEW p,
         \A k \in DOMAIN toServer : toServer[k].command # "LOGOUT",
         toServer' = Append(toServer, p),
         p.command = "REGISTER" <=> toServer = <<>>
  PROVE  SessionOnTheWire'
PROOF
<1> DEFINE n == Len(toServer)
<1>1. /\ n \in Nat /\ DOMAIN toServer = 1..n
      /\ DOMAIN toServer' = 1..(n + 1) /\ Len(toServer') = n + 1
      /\ toServer'[n + 1] = p /\ \A k \in 1..n : toServer'[k] = toServer[k]
  BY DEF TypeOK
<1>2. toServer = <<>> <=> n = 0
  BY DEF TypeOK
<1> HIDE DEF n
<1> SUFFICES ASSUME NEW k \in 1..(n + 1)
             PROVE  /\ toServer'[k].command = "REGISTER" <=> k = 1
                    /\ toServer'[k].command = "LOGOUT" => k = n + 1
  BY <1>1 DEF SessionOnTheWire
<1>3. CASE k = n + 1
  BY <1>1, <1>2, <1>3
<1>4. CASE k \in 1..n
  BY <1>1, <1>4 DEF SessionOnTheWire
<1> QED
  BY <1>1, <1>3, <1>4

LEMMA SessionStep ==
  ASSUME TypeOK, Threads, Session, [Next]_vars
  PROVE  Session'
PROOF
<1> USE DEF Session
<1>1. CASE net_register /\ UNCHANGED <<user, alarm>>
  <2> DEFINE p == Packet("REGISTER", Me, "", Me)
  <2>1. /\ toServer = <<>> /\ main' = "await" /\ server' = server
        /\ toServer' = IF server = "up" THEN Append(toServer, p) ELSE toServer
    BY <1>1 DEF net_register, net_send, net
  <2>2. p.command = "REGISTER"
    BY DEF Packet
  <2> HIDE DEF p
  <2>3. CASE server = "up"
    <3>1. \A k \in DOMAIN toServer : toServer[k].command # "LOGOUT"
      BY <2>1
    <3>2. SessionOnTheWire'
      BY <2>1, <2>2, <2>3, <3>1, WireGrows
    <3>3. toServer' = <<p>>
      BY <2>1, <2>3
    <3>4. \A k \in DOMAIN toServer' : toServer'[k].command # "LOGOUT"
      BY <2>2, <3>3
    <3> QED
      BY <2>1, <3>2, <3>3, <3>4
  <2>4. CASE server # "up"
    BY <2>1, <2>4 DEF SessionOnTheWire
  <2> QED
    BY <2>3, <2>4
<1>2. CASE ui_process_input /\ UNCHANGED <<user, alarm>>
  <2>1. /\ main = "process" /\ server' = server
        /\ main' = IF line.word = "/exit" THEN "end" ELSE "check"
    BY <1>2 DEF ui_process_input, net
  <2>2. CASE toServer' = toServer
    BY <2>1, <2>2 DEF SessionOnTheWire
  <2>3. CASE toServer' # toServer
    <3> DEFINE p == Request(line)
    <3>1. server = "up" /\ toServer' = Append(toServer, p) /\ p # NoPacket
      BY <1>2, <2>3 DEF ui_process_input, net_send
    <3>2. toServer # <<>>
      BY <2>1, <3>1
    <3>3. p.command # "REGISTER" /\ (p.command = "LOGOUT" => line.word = "/exit")
      BY <3>1, RequestCommand
    <3> HIDE DEF p
    <3>4. SessionOnTheWire'
      BY <2>1, <3>1, <3>2, <3>3, WireGrows
    <3>5. main' = "check" => \A k \in DOMAIN toServer' : toServer'[k].command # "LOGOUT"
      BY <2>1, <3>1, <3>3 DEF TypeOK
    <3>6. toServer' # <<>>
      BY <3>1 DEF TypeOK
    <3> QED
      BY <2>1, <3>4, <3>5, <3>6
  <2> QED
    BY <2>2, <2>3
<1>3. CASE toServer' = toServer
  <2>1. SessionOnTheWire'
    BY <1>3 DEF SessionOnTheWire
  <2>2. CASE MainThread
    <3>1. CASE net_connect
      BY <1>3, <2>1, <3>1 DEF net_connect
    <3>2. CASE main \notin {"connect", "register"}
      <4>1. server' = server
        BY <2>2, <3>2 DEF MainThread, net_connect, net_register, Answered, NotAnswered,
          CheckRunning, Prompt, ui_process_input, End, CloseSocket, Cancel, Join, ReadLine, net
      <4>2. main' \notin {"connect", "register"}
        BY <2>2, <3>2 DEF MainThread, net_connect, net_register, Answered, NotAnswered,
          CheckRunning, Prompt, ui_process_input, End, CloseSocket, Cancel, Join, ReadLine
      <4>3. main' \in {"await", "check", "prompt", "fgets", "process"} =>
              main \in {"await", "check", "prompt", "fgets", "process"}
        BY <2>2, <3>2 DEF MainThread, net_connect, net_register, Answered, NotAnswered,
          CheckRunning, Prompt, ui_process_input, End, CloseSocket, Cancel, Join, ReadLine
      <4>4. main # "exited"
        BY <2>2, <3>2 DEF MainThread, net_connect, net_register, Answered, NotAnswered,
          CheckRunning, Prompt, ui_process_input, End, CloseSocket, Cancel, Join, ReadLine
      <4> QED
        BY <1>3, <2>1, <3>2, <4>1, <4>2, <4>3, <4>4
    <3>3. CASE main = "connect"
      <4>1. net_connect
        BY <2>2, <3>3 DEF MainThread, net_connect, net_register, Answered, NotAnswered,
          CheckRunning, Prompt, ui_process_input, End, CloseSocket, Cancel, Join, ReadLine
      <4> QED
        BY <3>1, <4>1
    <3>4. CASE main = "register"
      <4>1. net_register /\ UNCHANGED <<user, alarm>>
        BY <2>2, <3>4 DEF MainThread, net_connect, net_register, Answered, NotAnswered,
          CheckRunning, Prompt, ui_process_input, End, CloseSocket, Cancel, Join, ReadLine
      <4> QED
        BY <1>1, <4>1
    <3> QED
      BY <3>2, <3>3, <3>4
  <2>3. CASE recv_thread
    <3>1. server' = server
      BY <2>3 DEF recv_thread
    <3>2. main' = main \/ (main = "fgets" /\ main' = "end")
      BY <2>3 DEF recv_thread, RecCheck, RecCall, RecPacket, ui_display_packet, RecFails,
        TestRunning, Lost, Kill, Cancelled
    <3> QED
      BY <1>3, <2>1, <3>1, <3>2
  <2>4. CASE Environment
    <3>1. main' = main /\ (server' = server \/ server' = "closed")
      BY <2>4 DEF Environment, Type, EndInput, ServerSends, ServerCloses, net, mainVars
    <3> QED
      BY <1>3, <2>1, <3>1
  <2>5. CASE UNCHANGED vars
    BY <1>3, <2>1, <2>5 DEF vars, mainVars, net
  <2> QED
    BY <2>2, <2>3, <2>4, <2>5 DEF Next, Exited
<1>4. CASE toServer' # toServer
  <2>1. MainThread
    BY <1>4 DEF Next, Exited, recv_thread, Environment, vars
  <2>2. \/ net_register /\ UNCHANGED <<user, alarm>>
        \/ ui_process_input /\ UNCHANGED <<user, alarm>>
    BY <1>4, <2>1 DEF MainThread, net_connect, Answered, NotAnswered,
      CheckRunning, Prompt, End, CloseSocket, Cancel, Join, ReadLine
  <2> QED
    BY <1>1, <1>2, <2>2
<1> QED
  BY <1>3, <1>4

(***************************************************************************)
(* A session on the wire begins with the one REGISTER, and nothing follows *)
(* its LOGOUT.                                                             *)
(***************************************************************************)
THEOREM SessionsAreOrderly == Spec => []SessionOnTheWire
PROOF
<1>1. Init => TypeOK /\ Threads /\ Session
  BY InitTypes DEF Init, Session, SessionOnTheWire
<1>2. TypeOK /\ Threads /\ Session /\ [Next]_vars => TypeOK' /\ Threads' /\ Session'
  BY TypeStep, SessionStep
<1>3. Session => SessionOnTheWire
  BY DEF Session
<1> QED
  BY <1>1, <1>2, <1>3, PTL DEF Spec

-----------------------------------------------------------------------------
\* What is shown

\* Shown, in the receiver's hands, or still to be read.
Read == shown \o InHand \o fromServer

(***************************************************************************)
(* What the server sent is what was read and what a reset lost; while the  *)
(* connection is up nothing is.                                            *)
(***************************************************************************)
Order ==
  \E lost \in Seq(Incoming) :
    /\ sent = Read \o lost
    /\ server # "closed" => lost = <<>>

\* The first of f goes to the end of s.
LEMMA Shift ==
  ASSUME NEW S, NEW s \in Seq(S), NEW f \in Seq(S), f # <<>>
  PROVE  Append(s, Head(f)) \o Tail(f) = s \o f
PROOF
<1>1. /\ Head(f) \in S /\ Head(f) = f[1] /\ Tail(f) \in Seq(S)
      /\ Len(f) \in Nat \ {0} /\ Len(Tail(f)) = Len(f) - 1
      /\ \A i \in 1 .. Len(Tail(f)) : Tail(f)[i] = f[i + 1]
  BY HeadTailProperties, EmptySeq
<1> DEFINE a == Append(s, Head(f))
           t == Tail(f)
<1>2. /\ a \in Seq(S) /\ Len(a) = Len(s) + 1 /\ Len(s) \in Nat
      /\ \A i \in 1 .. Len(s) : a[i] = s[i]
      /\ a[Len(s) + 1] = f[1]
  BY <1>1, AppendProperties
<1>3. t \in Seq(S) /\ Len(t) = Len(f) - 1 /\ \A i \in 1 .. Len(t) : t[i] = f[i + 1]
  BY <1>1
<1> HIDE DEF a, t
<1>4. /\ a \o t \in Seq(S) /\ s \o f \in Seq(S)
      /\ Len(a \o t) = Len(s) + Len(f)
      /\ Len(s \o f) = Len(s) + Len(f)
  <2>1. Len(a \o t) = Len(a) + Len(t) /\ a \o t \in Seq(S)
    BY <1>2, <1>3, ConcatProperties
  <2>2. Len(s \o f) = Len(s) + Len(f) /\ s \o f \in Seq(S)
    BY ConcatProperties
  <2>3. Len(a) + Len(t) = Len(s) + Len(f)
    BY <1>1, <1>2, <1>3
  <2> QED
    BY <2>1, <2>2, <2>3
<1>5. ASSUME NEW i \in 1 .. Len(s) + Len(f)
      PROVE  (a \o t)[i] = (s \o f)[i]
  <2>1. (a \o t)[i] = IF i <= Len(s) + 1 THEN a[i] ELSE t[i - (Len(s) + 1)]
    BY <1>1, <1>2, <1>3, ConcatProperties
  <2>2. (s \o f)[i] = IF i <= Len(s) THEN s[i] ELSE f[i - Len(s)]
    BY ConcatProperties
  <2>3. CASE i <= Len(s)
    BY <1>2, <2>1, <2>2, <2>3
  <2>4. CASE i = Len(s) + 1
    BY <1>2, <2>1, <2>2, <2>4
  <2>5. CASE i > Len(s) + 1
    <3>1. i - (Len(s) + 1) \in 1 .. Len(t)
      BY <1>1, <1>2, <1>3, <2>5
    <3>2. t[i - (Len(s) + 1)] = f[i - (Len(s) + 1) + 1]
      BY <1>3, <3>1
    <3>3. i - (Len(s) + 1) + 1 = i - Len(s)
      BY <1>2
    <3> QED
      BY <1>2, <2>1, <2>2, <2>5, <3>2, <3>3
  <2>6. i <= Len(s) \/ i = Len(s) + 1 \/ i > Len(s) + 1
    BY <1>1, <1>2
  <2> QED
    BY <2>3, <2>4, <2>5, <2>6
<1>6. a \o t = s \o f
  BY <1>4, <1>5, SeqEqual
<1> QED
  BY <1>6 DEF a, t

LEMMA InHandIsSequence ==
  ASSUME TypeOK
  PROVE  /\ InHand \in Seq(Incoming) /\ shown \o InHand \in Seq(Incoming)
         /\ Read \in Seq(Incoming)
PROOF
<1>1. InHand \in Seq(Incoming)
  <2>1. CASE pkt = NoPacket
    BY <2>1, EmptySeq DEF InHand
  <2>2. CASE pkt # NoPacket
    <3>1. pkt \in Incoming
      BY <2>2 DEF TypeOK
    <3> HIDE DEF NoPacket
    <3> QED
      BY <2>2, <3>1 DEF InHand
  <2> QED
    BY <2>1, <2>2
<1>2. shown \o InHand \in Seq(Incoming)
  BY <1>1, ConcatProperties DEF TypeOK
<1> QED
  BY <1>1, <1>2, ConcatProperties DEF Read, TypeOK

\* Whoever reads a packet moves it from the stream, and adds or loses none.
LEMMA ReadKept ==
  ASSUME TypeOK, Threads, MainThread \/ recv_thread
  PROVE  Read' = Read
PROOF
<1> USE DEF TypeOK
<1>1. CASE Answered
  <2>1. pkt = NoPacket /\ pkt' = NoPacket
    BY <1>1 DEF Answered, Threads
  <2>2. InHand = <<>> /\ InHand' = <<>>
    BY <2>1 DEF InHand
  <2>3. shown' = Append(shown, Head(fromServer)) /\ fromServer' = Tail(fromServer)
        /\ fromServer # <<>>
    BY <1>1 DEF Answered
  <2>4. shown' \in Seq(Incoming)
    BY <2>3, HeadTailProperties, AppendProperties
  <2>5. shown \o InHand = shown /\ (shown \o InHand)' = shown'
    BY <2>2, <2>4, ConcatEmptySeq
  <2>6. Append(shown, Head(fromServer)) \o Tail(fromServer) = shown \o fromServer
    BY <2>3, Shift
  <2> QED
    BY <2>3, <2>5, <2>6 DEF Read
<1>2. CASE RecPacket
  <2>1. pkt = NoPacket /\ pkt' = Head(fromServer) /\ fromServer # <<>>
        /\ fromServer' = Tail(fromServer)
    BY <1>2 DEF RecPacket, Threads
  <2>2. shown' = shown
    BY <1>2 DEF RecPacket
  <2>3. Head(fromServer) \in Incoming /\ Head(fromServer) # NoPacket
    BY <2>1, HeadTailProperties, NotNothing
  <2>4. InHand = <<>> /\ InHand' = <<Head(fromServer)>>
    BY <2>1, <2>3 DEF InHand
  <2>5. shown \o InHand = shown
    BY <2>4, ConcatEmptySeq
  <2>6. (shown \o InHand)' = Append(shown, Head(fromServer))
    BY <2>2, <2>3, <2>4, AppendIsConcat
  <2>7. Append(shown, Head(fromServer)) \o Tail(fromServer) = shown \o fromServer
    BY <2>1, Shift
  <2> QED
    BY <2>1, <2>5, <2>6, <2>7 DEF Read
<1>3. CASE recv_thread /\ ui_display_packet
  <2>1. pkt # NoPacket /\ pkt' = NoPacket /\ shown' = Append(shown, pkt)
        /\ fromServer' = fromServer
    BY <1>3 DEF ui_display_packet, Threads
  <2>2. InHand = <<pkt>> /\ InHand' = <<>> /\ pkt \in Incoming
    BY <2>1 DEF InHand
  <2>3. shown' \in Seq(Incoming)
    BY <2>1, <2>2, AppendProperties
  <2>4. (shown \o InHand)' = shown'
    BY <2>2, <2>3, ConcatEmptySeq
  <2>5. shown \o InHand = Append(shown, pkt)
    BY <2>2, AppendIsConcat
  <2> QED
    BY <2>1, <2>4, <2>5 DEF Read
<1>4. CASE shown' = shown /\ pkt' = pkt /\ fromServer' = fromServer
  BY <1>4 DEF Read, InHand
<1>5. CASE MainThread /\ ~Answered
  <2> HIDE DEF TypeOK
  <2>1. \/ net_connect \/ net_register \/ NotAnswered \/ CheckRunning \/ Prompt
        \/ ui_process_input \/ End \/ CloseSocket \/ Cancel \/ Join \/ ReadLine
    BY <1>5 DEF MainThread
  <2>2. CASE net_register
    <3>1. UNCHANGED <<line, sock, net, running, recVars, cancelled, shown>>
      BY <2>2 DEF net_register
    <3> QED
      BY <1>4, <3>1 DEF net, recVars
  <2>3. CASE net_connect \/ NotAnswered \/ CheckRunning \/ Prompt \/ ui_process_input
    BY <1>4, <2>3 DEF net_connect, NotAnswered, CheckRunning, Prompt, ui_process_input,
      net, recVars
  <2>4. CASE End \/ CloseSocket \/ Cancel \/ Join \/ ReadLine
    BY <1>4, <2>4 DEF End, CloseSocket, Cancel, Join, ReadLine, net, recVars
  <2> QED
    BY <2>1, <2>2, <2>3, <2>4
<1>6. CASE recv_thread /\ ~RecPacket /\ ~ui_display_packet
  <2>1. shown' = shown /\ pkt' = pkt /\ fromServer' = fromServer
    BY <1>6 DEF recv_thread, RecCheck, RecCall, RecFails, TestRunning, Lost, Kill, Cancelled
  <2> QED
    BY <1>4, <2>1
<1> QED
  BY <1>1, <1>2, <1>3, <1>5, <1>6

LEMMA OrderStep ==
  ASSUME TypeOK, Threads, Order, [Next]_vars
  PROVE  Order'
PROOF
<1> PICK lost \in Seq(Incoming) :
      sent = Read \o lost /\ (server # "closed" => lost = <<>>)
  BY DEF Order
<1>1. CASE MainThread \/ recv_thread
  <2>1. Read' = Read
    BY <1>1, ReadKept
  <2>2. sent' = sent /\ (server' # "closed" => server # "closed")
    <3>1. CASE recv_thread
      BY <3>1 DEF recv_thread
    <3>2. CASE MainThread
      <4>1. CASE net_register
        BY <4>1 DEF net_register, net
      <4>2. CASE net_connect \/ Answered \/ NotAnswered \/ CheckRunning \/ Prompt
                 \/ ui_process_input
        BY <4>2 DEF net_connect, Answered, NotAnswered, CheckRunning, Prompt,
          ui_process_input, net, Order
      <4>3. CASE End \/ CloseSocket \/ Cancel \/ Join \/ ReadLine
        BY <4>3 DEF End, CloseSocket, Cancel, Join, ReadLine, net
      <4> QED
        BY <3>2, <4>1, <4>2, <4>3 DEF MainThread
    <3> QED
      BY <1>1, <3>1, <3>2
  <2> QED
    BY <2>1, <2>2 DEF Order
<1>2. CASE Environment /\ ServerSends
  <2>1. PICK p \in Incoming : fromServer' = Append(fromServer, p) /\ sent' = Append(sent, p)
    BY <1>2 DEF ServerSends
  <2>2. shown' = shown /\ InHand' = InHand /\ server # "closed" /\ server' = server
    BY <1>2 DEF Environment, ServerSends, InHand, recVars
  <2>3. lost = <<>> /\ sent = Read
    <3>1. lost = <<>>
      BY <2>2
    <3> QED
      BY <3>1, InHandIsSequence, ConcatEmptySeq
  <2>4. sent' = Read'
    <3> DEFINE s == shown \o InHand
    <3>1. s \in Seq(Incoming) /\ s' = s
      BY <2>2, InHandIsSequence
    <3>2. fromServer \in Seq(Incoming) /\ s \o fromServer \in Seq(Incoming)
      BY <3>1, ConcatProperties DEF TypeOK
    <3>3. <<p>> \in Seq(Incoming)
      OBVIOUS
    <3>4. sent' = (s \o fromServer) \o <<p>> /\ fromServer' = fromServer \o <<p>>
      BY <2>1, <2>3, <3>2, AppendIsConcat DEF Read
    <3> HIDE DEF s
    <3>5. (s \o fromServer) \o <<p>> = s \o (fromServer \o <<p>>)
      BY <3>1, <3>2, <3>3, ConcatAssociative
    <3> QED
      BY <3>1, <3>4, <3>5 DEF Read, s
  <2>5. sent' \in Seq(Incoming)
    BY TypeStep DEF TypeOK
  <2>6. sent' = Read' \o <<>> /\ <<>> \in Seq(Incoming)
    BY <2>4, <2>5, ConcatEmptySeq, EmptySeq
  <2> QED
    BY <2>6 DEF Order
<1>3. CASE Environment /\ ServerCloses
  <2>1. shown' = shown /\ InHand' = InHand /\ sent' = sent /\ server' = "closed"
    BY <1>3 DEF Environment, ServerCloses, InHand, recVars
  <2>2. CASE fromServer' = fromServer
    BY <2>1, <2>2 DEF Order, Read
  <2>3. CASE fromServer' = <<>>
    <3> DEFINE s == shown \o InHand
    <3>1. s \in Seq(Incoming) /\ fromServer \in Seq(Incoming) /\ s' = s
      BY <2>1, InHandIsSequence DEF TypeOK
    <3>2. Read' = s
      BY <2>3, <3>1, ConcatEmptySeq DEF Read
    <3> HIDE DEF s
    <3>3. fromServer \o lost \in Seq(Incoming)
      BY <3>1, ConcatProperties
    <3>4. (s \o fromServer) \o lost = s \o (fromServer \o lost)
      BY <3>1, ConcatAssociative
    <3>5. sent' = Read' \o (fromServer \o lost)
      BY <2>1, <3>2, <3>4 DEF Read, s
    <3> QED
      BY <2>1, <3>3, <3>5 DEF Order
  <2> QED
    BY <1>3, <2>2, <2>3 DEF ServerCloses
<1>4. CASE (Environment /\ (Type \/ EndInput)) \/ UNCHANGED vars
  <2>1. shown' = shown /\ pkt' = pkt /\ fromServer' = fromServer /\ sent' = sent
        /\ server' = server
    BY <1>4 DEF Environment, Type, EndInput, vars, net, recVars
  <2> QED
    BY <2>1 DEF Order, Read, InHand
<1> QED
  BY <1>1, <1>2, <1>3, <1>4 DEF Next, Exited, Environment

LEMMA OrderShown ==
  ASSUME TypeOK, Order
  PROVE  ShownInOrder
PROOF
<1> PICK lost \in Seq(Incoming) :
      sent = Read \o lost /\ (server # "closed" => lost = <<>>)
  BY DEF Order
<1> DEFINE r == Read
<1>1. r \in Seq(Incoming)
  BY InHandIsSequence
<1> HIDE DEF r
<1>2. IsPrefix(r, r \o lost)
  <2>1. Len(r) <= Len(r \o lost) /\ Len(r) \in Nat
    BY <1>1, LenProperties, ConcatProperties
  <2>2. SubSeq(r, 1, Len(r)) = SubSeq(r \o lost, 1, Len(r))
    <3>1. CASE Len(r) = 0
      BY <3>1, SubSeqEmpty
    <3>2. CASE Len(r) # 0
      <4>1. 1 \in 1 .. Len(r) /\ Len(r) \in 1 .. Len(r)
        BY <2>1, <3>2
      <4> QED
        BY <1>1, <4>1, SubSeqOfConcat1
    <3> QED
      BY <3>1, <3>2
  <2> QED
    BY <2>1, <2>2 DEF IsPrefix
<1>3. server = "up" => r \o lost = r
  BY <1>1, ConcatEmptySeq
<1> QED
  BY <1>2, <1>3 DEF ShownInOrder, Read, r

(***************************************************************************)
(* The user sees the server's packets in order, each once: all of them     *)
(* while the connection is up, and all but the last ones after a reset.    *)
(***************************************************************************)
THEOREM PacketsAreShownInOrder == Spec => []ShownInOrder
PROOF
<1>1. Init => TypeOK /\ Threads /\ Order
  <2> SUFFICES ASSUME Init PROVE Order
    BY InitTypes
  <2>1. Read = <<>> /\ sent = <<>>
    BY DEF Init, Read, InHand
  <2>2. <<>> \in Seq(Incoming) /\ sent = Read \o <<>>
    BY <2>1, EmptySeq, ConcatEmptySeq
  <2> QED
    BY <2>2 DEF Order
<1>2. TypeOK /\ Threads /\ Order /\ [Next]_vars => TypeOK' /\ Threads' /\ Order'
  BY TypeStep, OrderStep
<1>3. TypeOK /\ Order => ShownInOrder
  BY OrderShown
<1> QED
  BY <1>1, <1>2, <1>3, PTL DEF Spec
=============================================================================
