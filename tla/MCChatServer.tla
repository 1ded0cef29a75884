---------------------------- MODULE MCChatServer ----------------------------
(***************************************************************************)
(* Small instances of the server.                                          *)
(***************************************************************************)
EXTENDS ChatServerClaims

\* The second shares its address with the first, the third its name; the
\* second's name is one byte too long for a slot.
MembershipNames == [c1 |-> "alice", c2 |-> "maria1", c3 |-> "alice"]
MembershipIps == [c1 |-> "ip1", c2 |-> "ip1", c3 |-> "ip2"]

\* Users who have nothing in common.
PairNames == [c1 |-> "alice", c2 |-> "bob"]
PairIps == [c1 |-> "ip1", c2 |-> "ip2"]
GroupNames == [c1 |-> "alice", c2 |-> "bob", c3 |-> "carol"]
GroupIps == [c1 |-> "ip1", c2 |-> "ip2", c3 |-> "ip3"]

\* How many requests each makes.
Silent == [c \in Conns |-> 0]
OneEach == [c \in Conns |-> 1]
OnlyFirst == [c \in Conns |-> IF c = "c1" THEN 1 ELSE 0]
FirstTwo == [c \in Conns |-> IF c = "c3" THEN 0 ELSE 1]

\* Names that fit in 31 bytes.
Whole == [n \in Names \cup {""} |-> n]

\* Names of 32 bytes, of which a slot keeps the same 31.
Cut == [n \in Names \cup {""} |-> IF n \in {"maria1", "maria2"} THEN "maria" ELSE n]
LongNames == [c1 |-> "maria1", c2 |-> "maria2"]
=============================================================================
