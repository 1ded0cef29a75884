------------------------ MODULE TerminalClientProps ------------------------
(***************************************************************************)
(* What the terminal client should guarantee.                              *)
(***************************************************************************)
EXTENDS TerminalClient, SequencesExt

\* What the client may ask: complete requests, of the user's own.
Asked ==
  {p \in ChatPacket : /\ p.command \in Requests /\ p.sender = Me
                      /\ p.command \in {"DIRECT", "INFO"} => p.target # ""
                      /\ p.command = "STATUS" => p.payload \in Statuses}

\* Types; what is written to the server is nothing but complete requests.
TypeOK ==
  /\ running \in BOOLEAN /\ cancelled \in BOOLEAN /\ alarm \in BOOLEAN
  /\ main \in {"connect", "register", "await", "check", "prompt", "fgets",
               "process", "end", "close", "cancel", "join", "exited"}
  /\ line \in Lines \cup {NoLine}
  /\ rec \in {"none", "check", "call", "recv", "display", "failed", "lost",
              "kill", "done"}
  /\ pkt \in Incoming \cup {NoPacket}
  /\ sock \in {"none", "open", "closed"}
  /\ server \in {"listening", "up", "closed"}
  /\ toServer \in Seq(Asked)
  /\ fromServer \in Seq(Incoming) /\ sent \in Seq(Incoming)
  /\ shown \in Seq(Incoming)
  /\ stdin \in Seq(Lines) /\ typed \in Seq(Lines) /\ eof \in BOOLEAN

-----------------------------------------------------------------------------
InHand == IF pkt = NoPacket THEN <<>> ELSE <<pkt>>

(***************************************************************************)
(* The user sees the server's packets in order, each once, although the    *)
(* first is read by one thread and the rest by another.                    *)
(***************************************************************************)
ShownInOrder ==
  LET read == shown \o InHand \o fromServer
  IN  IsPrefix(read, sent) /\ (server = "up" => read = sent)

(***************************************************************************)
(* A session on the wire begins with the one REGISTER, and nothing follows *)
(* a LOGOUT, whatever else the user has typed by then.                     *)
(***************************************************************************)
SessionOnTheWire ==
  \A k \in DOMAIN toServer :
    /\ toServer[k].command = "REGISTER" <=> k = 1
    /\ toServer[k].command = "LOGOUT" => k = Len(toServer)

(***************************************************************************)
(* The alarm is never raised by the client's own close: main clears        *)
(* running before it closes the descriptor the receiver reads from.        *)
(***************************************************************************)
AlarmIsTrue == alarm => server = "closed"

(***************************************************************************)
(* Once the main thread has decided to leave, the process ends: the        *)
(* receiver, even if it waits in recv on a silent connection, is joined.   *)
(***************************************************************************)
EndsAfterExit == main = "end" ~> main = "exited"

(***************************************************************************)
(* After the connection is lost the client stops at the next line or at    *)
(* the end of the input, if not before.                                    *)
(***************************************************************************)
EndsAtNextLine == (~running /\ (stdin # <<>> \/ eof)) ~> main = "exited"

-----------------------------------------------------------------------------
\* What the comments say and the code does not keep.

(***************************************************************************)
(* cliente.c:47: SIGUSR1 interrupts the blocking fgets when the server     *)
(* disconnects.  It does only when the main thread is already waiting; a   *)
(* signal between its test of running and the wait is lost.                *)
(***************************************************************************)
InterruptsFgets == ~running ~> main = "exited"
=============================================================================
