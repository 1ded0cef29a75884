---------------------------- MODULE ChatProtocol ----------------------------
(***************************************************************************)
(* The packet every component exchanges (src/protocolo.h).                 *)
(*                                                                         *)
(* A ChatPacket is 1024 bytes: a command, the length of the payload, and   *)
(* three character arrays.  The model keeps the fields the handlers        *)
(* branch on or copy.  payload_len follows from the payload and is left    *)
(* out; a payload is one atom: a user name, a status, or a text.  The      *)
(* empty string is the array full of zeros.                                *)
(***************************************************************************)

CONSTANTS
  Names,  \* what the sender and target arrays can hold on the wire
  Texts   \* bodies of chat messages

(***************************************************************************)
(* Nothing in the code keeps a user from being called SERVER or ALL; such  *)
(* a name would be taken for the server's or for a broadcast by the        *)
(* clients.  The model assumes nobody does.                                *)
(***************************************************************************)
ASSUME NamesAssumption == {"SERVER", "ALL"} \cap Names = {}

Requests == {"REGISTER", "BROADCAST", "DIRECT", "LIST", "INFO", "STATUS",
             "LOGOUT"}
Responses == {"OK", "ERROR", "MSG", "USER_LIST", "USER_INFO", "DISCONNECTED"}

Statuses == {"ACTIVE", "BUSY", "INACTIVE"}

(***************************************************************************)
(* The texts the server composes itself.  "welcome" is "Bienvenido <name>";*)
(* "roster" and "info" stand for the formatted answers to LIST and INFO.   *)
(***************************************************************************)
ServerTexts ==
  {"welcome", "bye", "name taken", "server full", "not connected",
   "status refused", "now INACTIVE", "back to ACTIVE", "roster", "info"}

ChatPacket ==
  [command : Requests \cup Responses \cup {"none"},
   sender  : Names \cup {"", "SERVER"},
   target  : Names \cup {"", "ALL"},
   payload : Names \cup Statuses \cup Texts \cup ServerTexts \cup {""}]

Packet(cmd, from, to, body) ==
  [command |-> cmd, sender |-> from, target |-> to, payload |-> body]

\* memset(&pkt, 0, sizeof(pkt))
NoPacket == Packet("none", "", "", "")
=============================================================================
