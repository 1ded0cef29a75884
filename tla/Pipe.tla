-------------------------------- MODULE Pipe --------------------------------
(***************************************************************************)
(* What one direction of a relay promises: what is put in comes out in     *)
(* order, each item once and whole, and as long as the connection stays up *)
(* everything comes out.  When it breaks, items under way may be lost, but *)
(* only from the end.                                                      *)
(***************************************************************************)
EXTENDS Naturals, Sequences

CONSTANT Item

VARIABLES in, out, up

Init == in = <<>> /\ out = <<>> /\ up = FALSE

Put == (\E x \in Item : in' = Append(in, x)) /\ UNCHANGED <<out, up>>

Get ==
  /\ Len(out) < Len(in)
  /\ out' = Append(out, in[Len(out) + 1])
  /\ UNCHANGED <<in, up>>

ConnectOrBreak == up' = ~up /\ UNCHANGED <<in, out>>

vars == <<in, out, up>>

Next == Put \/ Get \/ ConnectOrBreak

\* What is never done, and what is done in the end.
Safe == Init /\ [][Next]_vars

Spec == Safe /\ WF_vars(up /\ Get)
=============================================================================
