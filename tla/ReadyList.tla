------------------------------ MODULE ReadyList ------------------------------
(***************************************************************************)
(* What the pool promises about its list of ready clients, without blocks, *)
(* forks and mutexes: the list is a register that lags behind the clients. *)
(* A client announces that something about it is to change, changes, and   *)
(* then clears the list; whoever finds the list empty fills it with        *)
(* clients that are up or are about to clear it.                           *)
(*                                                                         *)
(* Module HeadForks implements it (resetHeadForkCache and GetHeadForks in  *)
(* src/pool/forks.go, and their callers).                                  *)
(***************************************************************************)

CONSTANT Clients

VARIABLES
    up,     \* the clients that are online
    owing,  \* the clients that have yet to clear the list
    listed  \* the clients that requests may be sent to

listVars == <<up, owing, listed>>

ListInit == up = {} /\ owing = {} /\ listed = {}

\* A client is about to change, or its head has changed.
Owe(c) ==
    /\ owing' = owing \cup {c}
    /\ UNCHANGED <<up, listed>>

\* Its status changes.
Change(c) ==
    /\ c \in owing
    /\ up' \in {up \cup {c}, up \ {c}}
    /\ UNCHANGED <<owing, listed>>

Clear(c) ==
    /\ c \in owing
    /\ owing' = owing \ {c}
    /\ listed' = {}
    /\ UNCHANGED up

\* Nobody is listed who is down and has nothing to clear.
Fill ==
    /\ listed = {}
    /\ listed' \subseteq up \cup owing
    /\ UNCHANGED <<up, owing>>

ListNext == Fill \/ \E c \in Clients : Owe(c) \/ Change(c) \/ Clear(c)

ListSpec == ListInit /\ [][ListNext]_listVars

\* Whoever owes it clears the list in the end.
FairListSpec == ListSpec /\ \A c \in Clients : c \in owing ~> c \notin owing

=============================================================================
