---------------------------- MODULE BridgeProps ----------------------------
(***************************************************************************)
(* What the bridge should guarantee to a page and to the server.           *)
(***************************************************************************)
EXTENDS Bridge, FiniteSets

Units == 1..MaxUnits
FrameTypes == {"tcp_ok", "error", "packet", "close"}
Frames == [type : FrameTypes, body : Seq(Units)]
Messages == [type : {"connect", "incomplete", "packet", "close"}, n : Nat, told : BOOLEAN]

\* Types; the server is given nothing but chat packets.
TypeOK ==
  /\ ws \in {"open", "closing", "closed"}
  /\ handler \in {"first", "relay", "none"}
  /\ tcp \in {"new", "connecting", "up", "ended", "destroyed"}
  /\ tcpConnected \in BOOLEAN /\ told \in BOOLEAN
  /\ page \in {"open", "closing", "closed"}
  /\ peer \in {"none", "up", "closed"}
  /\ tcpBuffer \in Seq(Units) /\ stream \in Seq(Units) /\ written \in 0..MaxUnits
  /\ up \in Seq(Messages) /\ asked \in Seq(Messages)
  /\ down \in Seq(Frames) /\ heard \in Seq(Frames)
  /\ toServer \in Seq({m \in Messages : m.type = "packet"})
  /\ served \in Seq({m \in Messages : m.type = "packet"})

-----------------------------------------------------------------------------
\* The bytes of the k-th packet of the server.
Packet(k) == [i \in 1..PacketSize |-> (k - 1) * PacketSize + i]

(***************************************************************************)
(* However the stream is cut into pieces, what the page is given are the   *)
(* server's packets, whole, each once, in the order they were written.     *)
(***************************************************************************)
InOrder(frames, c) ==
  \A i \in DOMAIN frames : frames[i].type = "packet" =>
    \E k \in 1..c :
      /\ frames[i].body = Packet(k)
      /\ \A j \in 1..(i - 1) : frames[j].type = "packet" =>
           \E l \in 1..(k - 1) : frames[j].body = Packet(l)

WholePackets ==
  \E c \in 0..written : c * PacketSize <= written /\ InOrder(heard \o down, c)

\* The elements of a sequence at some of its positions, in their order.
Picked(s, ps) ==
  [k \in 1..Cardinality(ps) |->
     s[CHOOSE i \in ps : Cardinality({j \in ps : j <= i}) = k]]

(***************************************************************************)
(* The server's packets reach the page through an ordered pipe, and all of *)
(* them while the connection stays up; bytes of an unfinished one wait.    *)
(***************************************************************************)
Bodies(frames) ==
  LET packets == Picked(frames, {i \in DOMAIN frames : frames[i].type = "packet"})
  IN  [k \in DOMAIN packets |-> packets[k].body]

ToPage == INSTANCE Pipe WITH
  Item <- {Packet(k) : k \in 1..MaxUnits},
  in   <- [k \in 1..(written \div PacketSize) |-> Packet(k)],
  out  <- Bodies(heard),
  up   <- ws = "open" /\ page = "open" /\ tcp = "up"

ImplementsPipeToPage == ToPage!Spec

(***************************************************************************)
(* So do the messages a page sends after it has read tcp_ok reach the      *)
(* server; earlier ones the bridge may drop.                               *)
(***************************************************************************)
Numbers(messages) ==
  LET ready == Picked(messages, {i \in DOMAIN messages : messages[i].told})
  IN  [k \in DOMAIN ready |-> ready[k].n]

ToServer == INSTANCE Pipe WITH
  Item <- 1..MaxMessages,
  in   <- Numbers(asked),
  out  <- Numbers(served),
  up   <- ws = "open" /\ page = "open" /\ tcp = "up" /\ peer = "up"

ImplementsPipeToServer == ToServer!Spec

(***************************************************************************)
(* A page hears first that the connection is up or why it is not, before   *)
(* any packet and before it is closed; tcp_ok once, and after an error     *)
(* nothing but the end.                                                    *)
(***************************************************************************)
ConversationInOrder ==
  \A i \in DOMAIN heard :
    /\ heard[i].type = "tcp_ok" => i = 1
    /\ i = 1 => heard[i].type \in {"tcp_ok", "error"}
    /\ heard[i].type = "error" => \A j \in DOMAIN heard : j > i => heard[j].type = "close"

(***************************************************************************)
(* Neither side outlives the other: a page whose server has gone is        *)
(* closed, and a page that has gone leaves no connection to the server,    *)
(* whether it went before, while or after it was made.                     *)
(***************************************************************************)
EndsTogether ==
  /\ (peer = "closed") ~> (page = "closed")
  /\ (page = "closed") ~> (tcp = "destroyed")
=============================================================================
