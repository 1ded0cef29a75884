-------------------------- MODULE ChatServerClaims --------------------------
(***************************************************************************)
(* What the documentation or the comments say of the server, and the code  *)
(* does not keep.  Each is refuted by a run of its own.                    *)
(***************************************************************************)
EXTENDS ChatServerProps

(***************************************************************************)
(* cliente.c:75 takes the first packet for the answer to its REGISTER.     *)
(* cl_add publishes the slot before handle_register answers, so another    *)
(* user's broadcast can be the first packet a newcomer gets.               *)
(***************************************************************************)
WelcomeComesFirst ==
  \A c \in Conns :
    delivered[c] # <<>> => Head(delivered[c]).command \in {"OK", "ERROR"}

(***************************************************************************)
(* client_list.h:28 has cl_add return -2 if the list is full.  It does as  *)
(* soon as MAX_CLIENTS slots have ever been used, holes or not.            *)
(***************************************************************************)
FullMeansFull ==
  [][ acc.pc = "register" /\ acc'.rc = -2
        => Cardinality(Active) = MAX_CLIENTS ]_vars

(***************************************************************************)
(* README.md:123 lets any command reactivate an INACTIVE user: by the time *)
(* the command's handler runs, its sender is not INACTIVE any more, unless *)
(* it leaves.  LIST and INFO are handled without a call of cl_touch.       *)
(***************************************************************************)
Handlers == {"broadcast", "direct", "status", "list", "info"}

AnyCommandReactivates ==
  [][ \A c \in Conns : th[c].pc \notin Handlers /\ th'[c].pc \in Handlers
        => \A i \in Active : Owner(i) = c => lista'[i].status # "INACTIVE" ]_vars
=============================================================================
