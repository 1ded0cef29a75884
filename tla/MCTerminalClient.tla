-------------------------- MODULE MCTerminalClient --------------------------
(***************************************************************************)
(* Small instances of the terminal client.                                 *)
(***************************************************************************)
EXTENDS TerminalClientProps

L(word, to, body) == [word |-> word, to |-> to, body |-> body]

\* A good and a bad line of the commands with arguments, and the exit.
Mixed == {L("/msg", "bob", "t"), L("/msg", "", "t"), L("/status", "", "BUSY"),
          L("/status", "", "t"), L("/exit", "", "")}

Short == {L("/broadcast", "", "t"), L("/exit", "", "")}

FromServer == {Packet("OK", "SERVER", "alice", "welcome"),
               Packet("ERROR", "SERVER", "alice", "name taken"),
               Packet("MSG", "bob", "ALL", "t")}

Friendly == FromServer \ {Packet("ERROR", "SERVER", "alice", "name taken")}
=============================================================================
