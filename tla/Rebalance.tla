------------------------------ MODULE Rebalance ------------------------------
(***************************************************************************)
(* The session rebalancer (rebalanceSessions in src/proxy/beaconproxy.go), *)
(* which moves sessions off the endpoints that have too many of them, and  *)
(* the calls that assign endpoints to sessions at the same time.           *)
(*                                                                         *)
(* A run holds the sessions mutex from the count to its end.  Requests     *)
(* need that mutex to find their session, but not to change the session's  *)
(* endpoint afterwards, so a call that has its session races with the run. *)
(* The count looks at the endpoint of a session twice: whether it is a     *)
(* ready client, and which total to increment.  In between a call may give *)
(* the session another one, for which there is no total yet, or none.  The *)
(* totals then have a key that is not ready, or nil, which the run works   *)
(* on like on the others until it dereferences it and panics.              *)
(*                                                                         *)
(* Sessions are numbered by age.  The run picks the session with the       *)
(* oldest lastRebalance, which nothing updates after the session's         *)
(* creation, so that it picks the session with the lowest number.          *)
(***************************************************************************)
EXTENDS Integers, FiniteSets

CONSTANTS
    Sessions,      \* the sessions, numbered by age
    Endpoints,     \* the clients of the pool
    NoEndpoint,    \* nil, the endpoint of a session that has none
    AnyType,       \* UnspecifiedClient, the prefix of the main sessions
    TypeOf,        \* the client type of each endpoint
    Prefix,        \* the prefix of each session: AnyType or a client type
    Num, Den,      \* RebalanceThreshold, as the fraction Num / Den
    AbsThreshold,  \* RebalanceAbsThreshold
    MaxSweep,      \* RebalanceMaxSweep; 0 : no limit
    NoMove         \* no move has been chosen

ASSUME RebalanceAssumption ==
    /\ Sessions \subseteq Nat /\ IsFiniteSet(Sessions)
    /\ IsFiniteSet(Endpoints) /\ NoEndpoint \notin Endpoints
    /\ Num \in Nat /\ Den \in Nat \ {0}
    /\ AbsThreshold \in Nat
    /\ MaxSweep \in Nat

VARIABLES
    last,     \* lastPoolClient of each session
    ready,    \* the ready clients of the canonical fork
    open,     \* sessions with a call that has yet to choose its endpoint
    phase,    \* the rebalancer: asleep, waiting for the mutex, or running
    clients,  \* the ready clients it has seen
    unseen,   \* sessions the count has yet to look at
    checked,  \* the session that it has found on a ready client, if any
    totals,   \* endpointTotals
    total,    \* totalSessions, which gives the ideal total of an endpoint
    move,     \* the session it is about to move, from where, to where
    count     \* rebalancedCount; not counted when there is no limit

countVars == <<unseen, checked>>
runVars == <<phase, clients, countVars, totals, total, move, count>>
vars == <<last, ready, open, runVars>>

Keys == Endpoints \cup {NoEndpoint}

\* There is a total for each ready client, and maybe some others.
TypeOK ==
    /\ last \in [Sessions -> Keys]
    /\ ready \subseteq Endpoints
    /\ open \subseteq Sessions
    /\ phase \in {"asleep", "lock", "count", "choose", "apply", "check"}
    /\ clients \subseteq Endpoints
    /\ unseen \subseteq Sessions
    /\ checked \subseteq Sessions /\ Cardinality(checked) <= 1
    /\ clients \subseteq DOMAIN totals /\ DOMAIN totals \subseteq Keys
    /\ totals \in [DOMAIN totals -> 0 .. Cardinality(Sessions)]
    /\ total \in 0 .. Cardinality(Sessions)
    /\ move = NoMove \/ move \in Sessions \X (DOMAIN totals) \X (DOMAIN totals)
    /\ count \in Nat
    /\ MaxSweep > 0 => count <= MaxSweep

Init ==
    /\ last = [s \in Sessions |-> NoEndpoint]
    /\ ready = {}
    /\ open = {}
    /\ phase = "asleep"
    /\ clients = {}
    /\ unseen = {}
    /\ checked = {}
    /\ totals = [e \in {} |-> 0]
    /\ total = 0
    /\ move = NoMove
    /\ count = 0

\* The mutex that guards the map of the sessions.
Locked == phase \in {"count", "choose", "apply", "check"}

-----------------------------------------------------------------------------
(* The pool and the calls *)

\* The fork cache is recomputed.
ReadyChanges(R) ==
    /\ R # ready
    /\ ready' = R
    /\ UNCHANGED <<last, open, runVars>>

\* getSessionForRequest, which waits for the mutex.
OpenCall(s) ==
    /\ ~Locked
    /\ s \notin open
    /\ open' = open \cup {s}
    /\ UNCHANGED <<last, ready, runVars>>

\* getEndpointForCall: the call stays on the session's endpoint, chooses
\* another without telling the session, or gives the session a new one: a
\* ready endpoint, or none when no ready one has the type that is asked for,
\* which a header of the request may set to any type.
Call(s, e) ==
    /\ s \in open
    /\ open' = open \ {s}
    /\ e = last[s] \/ e \in ready \cup {NoEndpoint}
    /\ last' = [last EXCEPT ![s] = e]
    /\ UNCHANGED <<ready, runVars>>

-----------------------------------------------------------------------------
(* A run of the rebalancer: the count *)

\* It looks at the canonical fork, and gives up below two ready clients.
Wake ==
    /\ phase = "asleep"
    /\ Cardinality(ready) > 1
    /\ clients' = ready
    /\ totals' = [e \in ready |-> 0]
    /\ phase' = "lock"
    /\ UNCHANGED <<last, ready, open, countVars, total, move, count>>

\* With the mutex, it collects the sessions, in an order that Go leaves open.
TakeMutex ==
    /\ phase = "lock"
    /\ phase' = "count"
    /\ unseen' = Sessions
    /\ UNCHANGED <<last, ready, open, clients, checked, totals, total, move, count>>

\* It looks whether the endpoint of a session is one of the ready clients ...
CheckSession(s) ==
    /\ phase = "count" /\ checked = {}
    /\ s \in unseen
    /\ unseen' = unseen \ {s}
    /\ checked' = {r \in {s} : last[r] \in clients}
    /\ UNCHANGED <<last, ready, open, phase, clients, totals, total, move, count>>

\* ... and then increments the total of the endpoint that the session has by
\* now, starting from zero if there is none.
CountSession(s) ==
    /\ phase = "count"
    /\ s \in checked
    /\ checked' = {}
    /\ totals' = [e \in DOMAIN totals \cup {last[s]} |->
                     (IF e \in DOMAIN totals THEN totals[e] ELSE 0)
                        + (IF e = last[s] THEN 1 ELSE 0)]
    /\ total' = total + 1
    /\ UNCHANGED <<last, ready, open, phase, clients, unseen, move, count>>

Distance(n, m) == IF n < m THEN m - n ELSE n - m

\* Mutant: the comparison with the absolute threshold admits equality.
NeedsRebalanceAtThreshold(t, n) ==
    LET R == Cardinality(clients)
    IN  \E e \in DOMAIN t :
           /\ Distance(t[e] * R, n) * Den > Num * n
           /\ Distance(t[e] * R, n) \div R >= AbsThreshold

\* needsRebalance, for totals t and n sessions: the difference of some total to
\* the ideal one n / R is above both thresholds, relative to the ideal one for
\* the first, its integer part for the second.
NeedsRebalance(t, n) ==
    LET R == Cardinality(clients)
    IN  \E e \in DOMAIN t :
           /\ Distance(t[e] * R, n) * Den > Num * n
           /\ Distance(t[e] * R, n) \div R > AbsThreshold

\* The run ends and returns the mutex.
Finish ==
    /\ phase' = "asleep"
    /\ clients' = {}
    /\ unseen' = {}
    /\ checked' = {}
    /\ totals' = [e \in {} |-> 0]
    /\ total' = 0
    /\ move' = NoMove
    /\ count' = 0

\* There is nothing to do without sessions, or when they are balanced.
CountDone ==
    /\ phase = "count" /\ unseen = {} /\ checked = {}
    /\ IF total > 0 /\ NeedsRebalance(totals, total)
       THEN /\ phase' = "choose"
            /\ UNCHANGED <<clients, countVars, totals, total, move, count>>
       ELSE Finish
    /\ UNCHANGED <<last, ready, open>>

-----------------------------------------------------------------------------
(* A run of the rebalancer: the moves *)

\* The sessions an endpoint has.
SessionsOn(e) == {s \in Sessions : last[s] = e}

\* Mutant: an endpoint is overloaded from one session above the ideal on.
OverloadedByOne(e) == (totals[e] - 1) * Cardinality(clients) >= total

\* An endpoint with more sessions than the ideal total.
Overloaded(e) == totals[e] * Cardinality(clients) > total

\* The orders of the endpoints by descending total; sort.Slice leaves open which
\* of two equal ones comes first.
Orders ==
    {rank \in [DOMAIN totals -> 1 .. Cardinality(DOMAIN totals)] :
        \A d, e \in DOMAIN totals :
           /\ d # e => rank[d] # rank[e]
           /\ totals[d] > totals[e] => rank[d] < rank[e]}

\* The endpoints of E that a scan from the end finds, before it is at src.
LastBehind(rank, src, E) ==
    {e \in E : rank[src] < rank[e] /\ \A d \in E : rank[d] <= rank[e]}

\* The endpoints with fewer sessions than src.
Fewer(src) == {e \in DOMAIN totals : totals[e] < totals[src]}

\* The oldest session on src with prefix p.
Oldest(src, p) ==
    {s \in SessionsOn(src) :
        Prefix[s] = p /\ \A r \in SessionsOn(src) : Prefix[r] = p => s <= r}

\* Mutant: a main session is moved to any endpoint with fewer sessions.
MainMovesAnywhere(rank, src) ==
    Oldest(src, AnyType) \X {src} \X (Fewer(src) \ {NoEndpoint})

\* The moves of a main session off src; it may go to any endpoint.  The nil
\* endpoint is taken for no target.
MainMoves(rank, src) ==
    Oldest(src, AnyType) \X {src}
       \X (LastBehind(rank, src, Fewer(src)) \ {NoEndpoint})

\* The moves of a session off src that needs an endpoint of type p.  When the
\* scan meets the nil endpoint first it asks it for its type, and panics.
TypedMoves(rank, src, p) ==
    Oldest(src, p) \X {src}
       \X LastBehind(rank, src,
             {e \in Fewer(src) \ {NoEndpoint} : TypeOf[e] = p}
                \cup {e \in DOMAIN totals : e = NoEndpoint /\ rank[src] < rank[e]})

\* Main sessions are preferred.
Moves(rank, src) ==
    IF MainMoves(rank, src) # {} THEN MainMoves(rank, src)
    ELSE UNION {TypedMoves(rank, src, Prefix[s]) :
                   s \in {s \in SessionsOn(src) : Prefix[s] # AnyType}}

\* The endpoints that sessions can be moved off.
Sources(rank) == {e \in DOMAIN totals : Overloaded(e) /\ Moves(rank, e) # {}}

\* rebalanceOne chooses a move off the endpoint with the most sessions ...
Choose ==
    /\ phase = "choose"
    /\ \E rank \in Orders : \E src \in Sources(rank) :
          /\ \A e \in Sources(rank) : rank[src] <= rank[e]
          /\ move' \in Moves(rank, src)
    /\ phase' = "apply"
    /\ UNCHANGED <<last, ready, open, clients, countVars, totals, total, count>>

\* ... and when there is none the run ends.
NothingToMove ==
    /\ phase = "choose"
    /\ \E rank \in Orders : Sources(rank) = {}
    /\ Finish
    /\ UNCHANGED <<last, ready, open>>

\* Mutant: the session's endpoint is not set.
ApplyTotals ==
    /\ phase = "apply" /\ NoEndpoint \notin {move[2], move[3]}
    /\ totals' = [totals EXCEPT ![move[2]] = @ - 1, ![move[3]] = @ + 1]
    /\ count' = IF MaxSweep = 0 THEN 0 ELSE count + 1
    /\ phase' = "check"
    /\ move' = NoMove
    /\ UNCHANGED <<last, ready, open, clients, countVars, total>>

\* Mutant: the totals of source and target are taken for each other.
ApplySwapped ==
    /\ phase = "apply" /\ NoEndpoint \notin {move[2], move[3]}
    /\ last' = [last EXCEPT ![move[1]] = move[3]]
    /\ totals' = [totals EXCEPT ![move[3]] = @ - 1, ![move[2]] = @ + 1]
    /\ count' = IF MaxSweep = 0 THEN 0 ELSE count + 1
    /\ phase' = "check"
    /\ move' = NoMove
    /\ UNCHANGED <<ready, open, clients, countVars, total>>

\* The session moves, from wherever a call has put it meanwhile.
Apply ==
    /\ phase = "apply" /\ NoEndpoint \notin {move[2], move[3]}
    /\ last' = [last EXCEPT ![move[1]] = move[3]]
    /\ totals' = [totals EXCEPT ![move[2]] = @ - 1, ![move[3]] = @ + 1]
    /\ count' = IF MaxSweep = 0 THEN 0 ELSE count + 1
    /\ phase' = "check"
    /\ move' = NoMove
    /\ UNCHANGED <<ready, open, clients, countVars, total>>

\* The type of a nil target is asked for, or, when its session has moved, the
\* name of a nil source: the run panics, which returns the mutex, and
\* HandleSubroutinePanic starts the loop of the rebalancer again.
ApplyPanics ==
    /\ phase = "apply" /\ NoEndpoint \in {move[2], move[3]}
    /\ last' = IF move[3] = NoEndpoint THEN last
               ELSE [last EXCEPT ![move[1]] = move[3]]
    /\ Finish
    /\ UNCHANGED <<ready, open>>

\* Mutant: one session more than the limit is moved.
CheckSweepOneMore ==
    /\ phase = "check"
    /\ IF NeedsRebalance(totals, total) /\ (MaxSweep = 0 \/ count <= MaxSweep)
       THEN phase' = "choose" /\ UNCHANGED <<clients, countVars, totals, total, move, count>>
       ELSE Finish
    /\ UNCHANGED <<last, ready, open>>

\* The run goes on until the totals are balanced or enough have moved.
Check ==
    /\ phase = "check"
    /\ IF NeedsRebalance(totals, total) /\ (MaxSweep = 0 \/ count < MaxSweep)
       THEN phase' = "choose" /\ UNCHANGED <<clients, countVars, totals, total, move, count>>
       ELSE Finish
    /\ UNCHANGED <<last, ready, open>>

Run ==
    \/ TakeMutex
    \/ \E s \in Sessions : CheckSession(s) \/ CountSession(s)
    \/ CountDone
    \/ Choose \/ NothingToMove
    \/ Apply \/ ApplyPanics
    \/ Check

Next ==
    \/ \E R \in SUBSET Endpoints : ReadyChanges(R)
    \/ \E s \in Sessions : OpenCall(s)
    \/ \E s \in Sessions, e \in Keys : Call(s, e)
    \/ Wake
    \/ Run

Spec == Init /\ [][Next]_vars

-----------------------------------------------------------------------------
(* The rebalancer by itself *)

\* Calls have placed the sessions anywhere, and none is running.
PlacedInit ==
    /\ last \in [Sessions -> Keys]
    /\ ready \in {R \in SUBSET Endpoints : Cardinality(R) > 1}
    /\ open = {}
    /\ phase = "asleep"
    /\ clients = {}
    /\ unseen = {}
    /\ checked = {}
    /\ totals = [e \in {} |-> 0]
    /\ total = 0
    /\ move = NoMove
    /\ count = 0

QuietNext == Wake \/ Run

\* The rebalancer's goroutine is scheduled.
QuietSpec == PlacedInit /\ [][QuietNext]_vars /\ WF_vars(Run)

-----------------------------------------------------------------------------
(* Properties *)

\* Whatever calls do at the same time, no move makes the spread of the totals
\* that the run works on larger: the most loaded endpoint gets no more sessions
\* and the least loaded one loses none.
SpreadShrinks ==
    [][phase = "apply" /\ phase' = "check" =>
          \A e \in DOMAIN totals :
             /\ \E d \in DOMAIN totals : totals'[e] <= totals[d]
             /\ \E d \in DOMAIN totals : totals'[e] >= totals[d]]_vars

\* A main session only moves to an endpoint that is below the ideal total,
\* also when the totals are stale, or have keys that are not ready.
MainToUnderloaded ==
    [][phase = "apply" /\ Prefix[move[1]] = AnyType
          => totals[move[3]] * Cardinality(clients) < total]_vars

\* When they have been counted the totals are the sessions that the ready
\* clients have, and stay so.
TotalsTrue ==
    phase \in {"choose", "apply", "check"} =>
       /\ DOMAIN totals = clients
       /\ \A e \in clients : totals[e] = Cardinality(SessionsOn(e))
       /\ total = Cardinality({s \in Sessions : last[s] \in clients})

\* The pairs of sessions that share an endpoint of the run.
SharedPairs == UNION {SessionsOn(e) \X SessionsOn(e) : e \in clients}

\* Each move separates its session from more sessions than it brings it to, so
\* that a run cannot move for ever: there are only so many pairs.
MovesSeparate ==
    [][phase = "apply"
          => Cardinality(SharedPairs') < Cardinality(SharedPairs)]_vars

\* A run ends, so that the next one comes after the interval and requests
\* find their sessions again.
RunEnds == Locked ~> ~Locked

\* A run leaves the endpoints balanced, or has moved as many sessions as the
\* limit allows: it never gives up for want of a move.
RunBalances ==
    [][Locked /\ ~Locked'
          => \/ ~NeedsRebalance(totals, total)
             \/ MaxSweep > 0 /\ count = MaxSweep]_vars

=============================================================================
