------------------------------ MODULE Scheduler ------------------------------
(***************************************************************************)
(* How the pool picks the endpoint of a request: GetReadyEndpoint and the  *)
(* round robin of runClientScheduler (src/pool/beaconpool.go).  A request  *)
(* takes the ready clients of the canonical fork, then, under the          *)
(* scheduler mutex, the first of them behind the last one picked for the   *)
(* same client type.  The fork may be recomputed between the two.          *)
(*                                                                         *)
(* Client types and custody group counts are constants here; a node that   *)
(* is replaced by another type of node is a different client.              *)
(***************************************************************************)
EXTENDS Integers, FiniteSets

CONSTANTS
    N,         \* number of clients of the pool
    Types,     \* the client types
    AnyType,   \* UnspecifiedClient, the type of a request for any client
    TypeOf,    \* the type of each client
    Cgc,       \* the custody group count of each client
    MinCgcs,   \* the least custody group counts that requests ask for
    Requests,  \* requests that run concurrently
    NoCall     \* a request that is not running

Clients == 0 .. N - 1
Keys == Types \cup {AnyType}

ASSUME SchedulerAssumption ==
    /\ N \in Nat
    /\ AnyType \notin Types
    /\ TypeOf \in [Clients -> Types]
    /\ Cgc \in [Clients -> Nat]
    /\ MinCgcs \subseteq Nat

VARIABLES
    ready,          \* the ready clients of the canonical fork
    rrLastIndexes,  \* the index of the client last picked for each key
    calls,          \* what each running request asks for and has seen
    waited          \* history: waited[k][c][d] counts how often d was picked
                    \* for key k since c was, or since a request came that
                    \* could not have picked c; it stops counting at two

vars == <<ready, rrLastIndexes, calls, waited>>

Call == [key : Keys, minCgc : MinCgcs, seen : SUBSET Clients]

TypeOK ==
    /\ ready \subseteq Clients
    /\ rrLastIndexes \in [Keys -> Nat]
    /\ calls \in [Requests -> Call \cup {NoCall}]
    /\ waited \in [Keys -> [Clients -> [Clients -> 0 .. 2]]]

Init ==
    /\ ready = {}
    /\ rrLastIndexes = [k \in Keys |-> 0]
    /\ calls = [q \in Requests |-> NoCall]
    /\ waited = [k \in Keys |-> [c \in Clients |-> [d \in Clients |-> 0]]]

-----------------------------------------------------------------------------

\* The fork cache is recomputed.
ReadyChanges(R) ==
    /\ R # ready
    /\ ready' = R
    /\ UNCHANGED <<rrLastIndexes, calls, waited>>

\* GetReadyEndpoint reads the canonical fork; without ready clients it
\* returns nil at once.
ReadFork(q, k, m) ==
    /\ calls[q] = NoCall
    /\ ready # {}
    /\ calls' = [calls EXCEPT ![q] = [key |-> k, minCgc |-> m, seen |-> ready]]
    /\ UNCHANGED <<ready, rrLastIndexes, waited>>

\* The client type of a request admits a client.
Admits(k, c) == k = AnyType \/ k = TypeOf[c]

\* The clients a request can be given.
Eligible(call) ==
    {c \in call.seen : Admits(call.key, c) /\ Cgc[c] >= call.minCgc}

\* Mutant: the comparison admits the client that was picked last.
FirstNotBefore(E, last) ==
    {c \in E : \/ c >= last /\ \A d \in E : d >= last => c <= d
               \/ \A d \in E : d < last /\ c <= d}

\* The first of the clients E behind index last, or else the first of all, as
\* a set that is empty only if E is.
FirstBehind(E, last) ==
    {c \in E : \/ c > last /\ \A d \in E : d > last => c <= d
               \/ \A d \in E : d <= last /\ c <= d}

\* The history after p was picked among E.
Waited(w, E, p) ==
    [c \in Clients |->
        [d \in Clients |->
            IF c = p \/ c \notin E THEN 0
            ELSE IF d = p /\ w[c][d] < 2 THEN w[c][d] + 1
            ELSE w[c][d]]]

\* runClientScheduler picks a client and remembers it ...
Pick(q) ==
    /\ calls[q] # NoCall
    /\ LET k == calls[q].key
           E == Eligible(calls[q])
       IN  \E p \in FirstBehind(E, rrLastIndexes[k]) :
              /\ rrLastIndexes' = [rrLastIndexes EXCEPT ![k] = p]
              /\ waited' = [waited EXCEPT ![k] = Waited(waited[k], E, p)]
    /\ calls' = [calls EXCEPT ![q] = NoCall]
    /\ UNCHANGED ready

\* Mutant: when no client fits the index is put in front of the first one.
PickNoneRestarts(q) ==
    /\ calls[q] # NoCall
    /\ Eligible(calls[q]) = {}
    /\ rrLastIndexes' = [rrLastIndexes EXCEPT ![calls[q].key] = -1]
    /\ calls' = [calls EXCEPT ![q] = NoCall]
    /\ UNCHANGED <<ready, waited>>

\* ... or finds none that fits.
PickNone(q) ==
    /\ calls[q] # NoCall
    /\ Eligible(calls[q]) = {}
    /\ calls' = [calls EXCEPT ![q] = NoCall]
    /\ UNCHANGED <<ready, rrLastIndexes, waited>>

Next ==
    \/ \E R \in SUBSET Clients : ReadyChanges(R)
    \/ \E q \in Requests :
          \/ \E k \in Keys, m \in MinCgcs : ReadFork(q, k, m)
          \/ Pick(q)
          \/ PickNone(q)

Spec == Init /\ [][Next]_vars

-----------------------------------------------------------------------------

\* Requests for the same client type go round: while each of them could pick
\* a client, no other client is picked twice before it, however the ready
\* clients change around it and however old the lists are that the requests
\* work from.
NoDoubleOvertaking ==
    \A k \in Keys : \A c, d \in Clients : waited[k][c][d] <= 1

=============================================================================
