------------------------------- MODULE Bridge -------------------------------
(***************************************************************************)
(* bridge.js: the relay between one page's WebSocket and its own TCP       *)
(* connection to the server.  Pages share nothing, so one is enough.       *)
(*                                                                         *)
(* Node runs one callback at a time: each is one action, loops included.   *)
(* The first message opens the TCP connection and installs the handlers;   *)
(* the server's stream is cut into packets of PacketSize units; either     *)
(* side's end ends the other.                                              *)
(*                                                                         *)
(* Around the bridge: a page that sends, closes or vanishes, a server that *)
(* writes, reads and closes, and a network that may reset the connection.  *)
(* Texts and packet contents are left out: a message is its number, a byte *)
(* of the server's stream its position.                                    *)
(***************************************************************************)
EXTENDS Integers, Sequences

CONSTANTS
  PacketSize,  \* units of a packet on the TCP stream (1024 bytes)
  MaxUnits,    \* bound: units the server writes
  MaxMessages  \* bound: messages the page sends after the first

ASSUME BridgeAssumption ==
  PacketSize \in Nat \ {0} /\ MaxUnits \in Nat /\ MaxMessages \in Nat

VARIABLES
  ws,           \* ws.readyState: "open", "closing", "closed"
  handler,      \* what a message of the page meets: "first", "relay", "none"
  tcp,          \* the TCP socket: "new", "connecting", "up", "ended" by the
                \* server, "destroyed"
  tcpConnected, tcpBuffer,
  page, told,   \* the page: "open", "closing", "closed"; it has read tcp_ok
  up, down,     \* frames under way from and to the page
  asked, heard, \* all messages the page sent, all frames it took
  peer,         \* the server's side: "none", "up", "closed"
  stream, toServer, \* units and packets under way on the TCP connection
  written, served   \* units the server wrote, packets it read

webSocket == <<ws, page, told, up, down, asked, heard>>
server == <<peer, toServer, written, served>>
vars == <<handler, tcp, tcpConnected, tcpBuffer, stream, webSocket, server>>

Frame(type, body) == [type |-> type, body |-> body]
Message(type, n, t) == [type |-> type, n |-> n, told |-> t]

Init ==
  /\ ws = "open" /\ handler = "first"
  /\ tcp = "new" /\ tcpConnected = FALSE /\ tcpBuffer = <<>>
  /\ page = "open" /\ told = FALSE
  /\ up \in {<<Message(t, 0, FALSE)>> : t \in {"connect", "incomplete"}}
  /\ down = <<>> /\ asked = <<>> /\ heard = <<>>
  /\ peer = "none" /\ stream = <<>> /\ toServer = <<>>
  /\ written = 0 /\ served = <<>>

-----------------------------------------------------------------------------
\* Pieces of the callbacks

\* sendWs drops what a socket that is not open cannot take.
sendWs(frames) == IF ws = "open" THEN down \o frames ELSE down

\* Mutant: ws.close() before the frame is sent, which is dropped then.
SendAndClose_ClosesFirst(frames) ==
  /\ down' = sendWs(<<Frame("close", <<>>)>>)
  /\ ws' = IF ws = "open" THEN "closing" ELSE ws

\* sendWs(ws, f); ws.close(): the close frame follows f, if it was not sent yet.
SendAndClose(frames) ==
  /\ down' = sendWs(Append(frames, Frame("close", <<>>)))
  /\ ws' = IF ws = "open" THEN "closing" ELSE ws

\* An ERROR for the page; the socket is destroyed by Node, and the handler of
\* its "close", which runs next, finds the WebSocket closing already.
TcpBreaks ==
  /\ tcp' = "destroyed" /\ stream' = <<>>
  /\ SendAndClose(<<Frame("error", <<>>)>>)

-----------------------------------------------------------------------------
\* Callbacks of the WebSocket

\* Mutant: the first message also meets the handler it installs.
FirstMessage_Twice ==
  /\ handler = "first" /\ ws # "closed" /\ up # <<>> /\ Head(up).type = "connect"
  /\ tcp' = "connecting" /\ handler' = "relay"
  /\ UNCHANGED <<ws, up, down, tcpConnected, tcpBuffer, stream, page, told, asked,
                 heard, server>>

\* Mutant: the page is told before the connection is made.
FirstMessage_SaysOk ==
  /\ handler = "first" /\ ws # "closed" /\ up # <<>> /\ Head(up).type = "connect"
  /\ tcp' = "connecting" /\ handler' = "relay" /\ up' = Tail(up)
  /\ down' = sendWs(<<Frame("tcp_ok", <<>>)>>)
  /\ UNCHANGED <<ws, tcpConnected, tcpBuffer, stream, page, told, asked, heard,
                 server>>

\* ws.once("message"): connect, or refuse an incomplete request.
FirstMessage ==
  /\ handler = "first" /\ ws # "closed" /\ up # <<>> /\ Head(up).type # "close"
  /\ up' = Tail(up)
  /\ \/ /\ Head(up).type = "connect"
        /\ tcp' = "connecting" /\ handler' = "relay"
        /\ UNCHANGED <<ws, down>>
     \/ /\ Head(up).type # "connect"
        /\ handler' = "none" /\ tcp' = tcp
        /\ SendAndClose(<<Frame("error", <<>>)>>)
  /\ UNCHANGED <<tcpConnected, tcpBuffer, stream, page, told, asked, heard, server>>

\* ws.on("message"): dropped before the connection is up; a write to a socket
\* the server has ended fails, one to a destroyed socket does nothing.
NextMessage ==
  /\ handler # "first" /\ ws # "closed" /\ up # <<>> /\ Head(up).type # "close"
  /\ up' = Tail(up)
  /\ IF handler = "relay" /\ tcpConnected /\ tcp = "ended"
     THEN TcpBreaks /\ toServer' = toServer
     ELSE /\ toServer' = IF handler = "relay" /\ tcpConnected /\ tcp = "up"
                         THEN Append(toServer, Head(up)) ELSE toServer
          /\ UNCHANGED <<tcp, stream, ws, down>>
  /\ UNCHANGED <<handler, tcpConnected, tcpBuffer, page, told, asked, heard,
                 peer, written, served>>

\* The page's close frame is answered with one by the library.
CloseFrame ==
  /\ ws # "closed" /\ up # <<>> /\ Head(up).type = "close"
  /\ up' = Tail(up)
  /\ SendAndClose(<<>>)
  /\ UNCHANGED <<handler, tcp, tcpConnected, tcpBuffer, stream, page, told,
                 asked, heard, server>>

\* Mutant: only a connection that was made is closed.
WsClosed_IfConnected ==
  /\ ws = "closing" \/ (ws = "open" /\ page = "closed")
  /\ ws' = "closed" /\ up' = <<>>
  /\ IF tcpConnected THEN tcp' = "destroyed" /\ stream' = <<>>
                     ELSE UNCHANGED <<tcp, stream>>
  /\ UNCHANGED <<handler, tcpConnected, tcpBuffer, page, told, down, asked,
                 heard, server>>

\* ws.on("close"): after the handshake, or without it when the page is gone or
\* does not answer for 30 s.
WsClosed ==
  /\ ws = "closing" \/ (ws = "open" /\ page = "closed")
  /\ ws' = "closed" /\ up' = <<>>
  /\ tcp' = "destroyed" /\ stream' = <<>>
  /\ UNCHANGED <<handler, tcpConnected, tcpBuffer, page, told, down, asked,
                 heard, server>>

-----------------------------------------------------------------------------
\* Callbacks of the TCP socket

TcpConnected ==
  /\ tcp = "connecting"
  /\ tcp' = "up" /\ peer' = "up" /\ tcpConnected' = TRUE
  /\ down' = sendWs(<<Frame("tcp_ok", <<>>)>>)
  /\ UNCHANGED <<ws, handler, tcpBuffer, stream, page, told, up, asked, heard,
                 toServer, written, served>>

\* "error": nobody accepts, or the connection is reset; "close" follows.
TcpError ==
  /\ tcp \in {"connecting", "up", "ended"}
  /\ TcpBreaks
  /\ peer' = IF peer = "up" THEN "closed" ELSE peer
  /\ UNCHANGED <<handler, tcpConnected, tcpBuffer, page, told, up, asked, heard,
                 toServer, written, served>>

\* Mutant: one packet per piece ("if" for "while").
Rounds_One(buffer) == IF Len(buffer) >= PacketSize THEN 1 ELSE 0

\* How often the loop over the buffer goes round.
Rounds(buffer) == Len(buffer) \div PacketSize

\* The packet the k-th round cuts off.
Slice(buffer, k) == SubSeq(buffer, (k - 1) * PacketSize + 1, k * PacketSize)

\* Mutant: what is left of the buffer is thrown away.
Rest_Dropped(buffer) == <<>>

Rest(buffer) == SubSeq(buffer, Rounds(buffer) * PacketSize + 1, Len(buffer))

\* "data": any piece of the stream.
TcpData ==
  /\ tcp = "up"
  /\ \E n \in 1..Len(stream) :
       LET buffer == tcpBuffer \o SubSeq(stream, 1, n)
       IN  /\ stream' = SubSeq(stream, n + 1, Len(stream))
           /\ tcpBuffer' = Rest(buffer)
           /\ down' = sendWs([k \in 1..Rounds(buffer) |->
                                Frame("packet", Slice(buffer, k))])
  /\ UNCHANGED <<handler, tcp, tcpConnected, ws, page, told, up, asked, heard, server>>

\* The end of the stream: Node ends its own side and reports "close" later.
TcpEnd ==
  /\ tcp = "up" /\ peer = "closed" /\ stream = <<>>
  /\ tcp' = "ended"
  /\ UNCHANGED <<handler, tcpConnected, tcpBuffer, stream, webSocket, server>>

TcpClose ==
  /\ tcp = "ended"
  /\ tcp' = "destroyed"
  /\ SendAndClose(<<>>)
  /\ UNCHANGED <<handler, tcpConnected, tcpBuffer, stream, page, told, up, asked,
                 heard, server>>

-----------------------------------------------------------------------------
\* The page and the server

PageSends ==
  /\ page = "open" /\ Len(asked) < MaxMessages
  /\ LET m == Message("packet", Len(asked) + 1, told)
     IN  asked' = Append(asked, m) /\ up' = Append(up, m)
  /\ UNCHANGED <<handler, tcp, tcpConnected, tcpBuffer, stream, ws, page, told,
                 down, heard, server>>

\* A browser takes no message after it was asked to close, answers a close
\* frame, and reports the end of the connection.
PageReads ==
  /\ page # "closed" /\ down # <<>>
  /\ down' = Tail(down)
  /\ IF Head(down).type = "close"
     THEN /\ page' = "closed"
          /\ up' = IF page = "open" THEN Append(up, Message("close", 0, FALSE)) ELSE up
          /\ heard' = IF page = "open" THEN Append(heard, Head(down)) ELSE heard
          /\ told' = told
     ELSE /\ heard' = IF page = "open" THEN Append(heard, Head(down)) ELSE heard
          /\ told' = (told \/ (page = "open" /\ Head(down).type = "tcp_ok"))
          /\ UNCHANGED <<page, up>>
  /\ UNCHANGED <<handler, tcp, tcpConnected, tcpBuffer, stream, ws, asked, server>>

PageCloses ==
  /\ page = "open"
  /\ page' = "closing" /\ up' = Append(up, Message("close", 0, FALSE))
  /\ UNCHANGED <<handler, tcp, tcpConnected, tcpBuffer, stream, ws, told, down,
                 asked, heard, server>>

\* The tab is closed without a close frame, or the bridge's side has ended.
PageVanishes ==
  /\ page # "closed" /\ (ws = "closed" => down = <<>>)
  /\ page' = "closed" /\ down' = <<>>
  /\ UNCHANGED <<handler, tcp, tcpConnected, tcpBuffer, stream, ws, told, up,
                 asked, heard, server>>

ServerWrites ==
  /\ peer = "up" /\ written < MaxUnits
  /\ written' = written + 1
  /\ stream' = IF tcp = "destroyed" THEN stream ELSE Append(stream, written + 1)
  /\ UNCHANGED <<handler, tcp, tcpConnected, tcpBuffer, webSocket, peer, toServer,
                 served>>

ServerReads ==
  /\ peer = "up" /\ toServer # <<>>
  /\ served' = Append(served, Head(toServer)) /\ toServer' = Tail(toServer)
  /\ UNCHANGED <<handler, tcp, tcpConnected, tcpBuffer, stream, webSocket, peer,
                 written>>

ServerCloses ==
  /\ peer = "up"
  /\ peer' = "closed"
  /\ UNCHANGED <<handler, tcp, tcpConnected, tcpBuffer, stream, webSocket,
                 toServer, written, served>>

\* Both sides are closed: nothing is left to happen.
Done ==
  /\ ws = "closed" /\ page = "closed" /\ peer # "up"
  /\ UNCHANGED vars

-----------------------------------------------------------------------------
Callbacks ==
  \/ FirstMessage \/ NextMessage \/ CloseFrame \/ WsClosed
  \/ TcpConnected \/ TcpError \/ TcpData \/ TcpEnd \/ TcpClose

Page == PageSends \/ PageReads \/ PageCloses \/ PageVanishes

Server == ServerWrites \/ ServerReads \/ ServerCloses

Next == Callbacks \/ Page \/ Server \/ Done

Spec == Init /\ [][Next]_vars

\* Node's loop runs what is ready, a connection attempt ends, a browser reads
\* and notices the end, the server reads; nobody has to write or to close.
FairSpec ==
  /\ Spec
  /\ WF_vars(FirstMessage \/ NextMessage \/ CloseFrame)
  /\ WF_vars(WsClosed)
  /\ WF_vars(tcp = "connecting" /\ (TcpConnected \/ TcpError))
  /\ WF_vars(TcpData) /\ WF_vars(TcpEnd) /\ WF_vars(TcpClose)
  /\ WF_vars(PageReads) /\ WF_vars(ws = "closed" /\ PageVanishes)
  /\ WF_vars(ServerReads)
=============================================================================
