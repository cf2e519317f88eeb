----------------------------- MODULE RequestPath -----------------------------
(***************************************************************************)
(* How a request finds its endpoint, from its session to the call that is  *)
(* registered with the session (getEndpointForCall in                      *)
(* src/proxy/beaconproxy.go, setLastPoolClient and addActiveContext in     *)
(* src/proxy/session.go), while other requests of the session do the same, *)
(* the rebalancer moves sessions, and the ready clients change.            *)
(*                                                                         *)
(* The endpoint of a session is read and written without a lock: each      *)
(* access is a step.  The round robin is the one of module Scheduler, the  *)
(* rebalancer is module Rebalance in outline: which sessions it counts and *)
(* where it moves them depends on no totals.                               *)
(***************************************************************************)
EXTENDS Scheduler

CONSTANTS
    Sessions,  \* the sessions
    Prefix,    \* the prefix of each session: AnyType or a client type
    Sticky,    \* StickyEndpoint
    NoClient,  \* nil
    Mover      \* the rebalancer

ASSUME PathAssumption ==
    /\ Prefix \in [Sessions -> Keys]
    /\ Sticky \in BOOLEAN
    /\ NoClient \notin Clients
    /\ Mover \notin Requests
    /\ Keys \cap Clients = {}
    /\ 0 \in MinCgcs

\* All that sets the endpoint of a session.
Actors == Requests \cup {Mover}

VARIABLES
    last,  \* lastPoolClient of each session
    run,   \* where the run of the rebalancer is
    seen,  \* the ready clients that it has seen
    keys,  \* the endpoints that it has totals of
    found, \* the session that its count has found on a ready client, if any
    req    \* each running request, and the move of the rebalancer

runVars == <<run, seen, keys, found>>
pathVars == <<last, runVars, req>>
allVars == <<vars, pathVars>>

Endpoints == Clients \cup {NoClient}

\* Nothing, and a request: where it is, the client type and the custody groups
\* it asks for, whether it names its endpoint, and the endpoint it has chosen.
\* Two fields are history: the clients that were ready at some time since it
\* came, or since somebody it may get its endpoint from began, and whether its
\* session was given another endpoint before it could register its call.
Idle == [at |-> "idle"]
Request ==
    [at : {"read", "look", "take", "fork", "pick", "compare", "cancel", "assign",
           "register", "call"},
     session : Sessions, key : Keys, minCgc : MinCgcs, named : BOOLEAN,
     endpoint : Endpoints, since : SUBSET Clients, late : BOOLEAN]

PathTypeOK ==
    /\ TypeOK
    /\ last \in [Sessions -> Endpoints]
    /\ run \in {"asleep", "lock", "count", "move"}
    /\ seen \subseteq Clients
    /\ keys \subseteq Endpoints
    /\ found \subseteq Sessions
    /\ req \in [Actors -> Request \cup {Idle}]

PathInit ==
    /\ Init
    /\ last = [s \in Sessions |-> NoClient]
    /\ run = "asleep"
    /\ seen = {}
    /\ keys = {}
    /\ found = {}
    /\ req = [a \in Actors |-> Idle]

At(a, place) == req[a].at = place

\* The actor's request becomes r, or moves on to a place.
Becomes(a, r) == req' = [req EXCEPT ![a] = r]
Goto(a, place) == Becomes(a, [req[a] EXCEPT !.at = place])

\* Who is choosing an endpoint for session s, or giving it one.
Choosing(s) ==
    {a \in Actors : /\ req[a].at \notin {"idle", "register", "call"}
                    /\ req[a].session = s}

\* The clients of S can be the answer to all that are choosing.
EverybodyLearns(S) ==
    req' = [a \in Actors |->
               IF \E s \in Sessions : a \in Choosing(s)
               THEN [req[a] EXCEPT !.since = @ \cup S] ELSE req[a]]

\* A run of the rebalancer holds the mutex that guards the map of the sessions.
Locked == run \in {"count", "move"}

-----------------------------------------------------------------------------
(* getEndpointForCall *)

\* The fork cache is recomputed.
ForkChanges(R) ==
    /\ ReadyChanges(R)
    /\ EverybodyLearns(R)
    /\ UNCHANGED <<last, runVars>>

\* The clients that a request of session s may be given when it comes now.
Offered(s) ==
    ready \cup (keys \ {NoClient}) \cup UNION {req[a].since : a \in Choosing(s)}

\* A request gets its session, for which it needs the mutex that a run of the
\* rebalancer holds.  A header may replace the client type by another.
Arrive(q, s, m, k) ==
    /\ At(q, "idle")
    /\ ~Locked
    /\ Becomes(q, [at |-> IF Sticky /\ k = AnyType THEN "read" ELSE "fork",
                   session |-> s,
                   key |-> IF k = AnyType THEN Prefix[s] ELSE k,
                   minCgc |-> m, named |-> FALSE, endpoint |-> NoClient,
                   since |-> Offered(s), late |-> FALSE])
    /\ UNCHANGED <<vars, last, runVars>>

\* A header may also name an endpoint, ready or not, which has to have the
\* custody groups.
ArriveNamed(q, s, m, e) ==
    /\ At(q, "idle")
    /\ ~Locked
    /\ Cgc[e] >= m
    /\ Becomes(q, [at |-> "register", session |-> s, key |-> AnyType,
                   minCgc |-> m, named |-> TRUE, endpoint |-> e,
                   since |-> {}, late |-> FALSE])
    /\ UNCHANGED <<vars, last, runVars>>

\* The request reads the endpoint of its session ...
Read(q) ==
    /\ At(q, "read")
    /\ Becomes(q, [req[q] EXCEPT !.at = "look", !.endpoint = last[req[q].session]])
    /\ UNCHANGED <<vars, last, runVars>>

\* Mutant: the endpoint of the session is used whether it is ready or not.
LookUnready(q) ==
    /\ At(q, "look")
    /\ Becomes(q, [req[q] EXCEPT
          !.at = IF req[q].endpoint # NoClient THEN "take" ELSE "fork",
          !.endpoint = NoClient])
    /\ UNCHANGED <<vars, last, runVars>>

\* ... looks whether it is ready, for which it may have to wait until the fork
\* cache has been recomputed ...
Look(q) ==
    /\ At(q, "look")
    /\ Becomes(q, [req[q] EXCEPT
          !.at = IF req[q].endpoint \in ready THEN "take" ELSE "fork",
          !.endpoint = NoClient])
    /\ UNCHANGED <<vars, last, runVars>>

\* The endpoint has the type and the custody groups that are asked for.
Suits(e, r) == e \in Clients /\ Admits(r.key, e) /\ Cgc[e] >= r.minCgc

\* Mutant: the custody groups of the session's endpoint are not looked at.
TakeAnyCgc(q) ==
    /\ At(q, "take")
    /\ LET e == last[req[q].session]
       IN  IF e \in Clients /\ Admits(req[q].key, e)
           THEN Becomes(q, [req[q] EXCEPT !.at = "register", !.endpoint = e])
           ELSE Goto(q, "fork")
    /\ UNCHANGED <<vars, last, runVars>>

\* ... and then reads it once more, and takes it when it suits.
Take(q) ==
    /\ At(q, "take")
    /\ LET e == last[req[q].session]
       IN  IF Suits(e, req[q])
           THEN Becomes(q, [req[q] EXCEPT !.at = "register", !.endpoint = e])
           ELSE Goto(q, "fork")
    /\ UNCHANGED <<vars, last, runVars>>

\* Otherwise it asks GetReadyEndpoint.
AskFork(q) ==
    /\ At(q, "fork")
    /\ ReadFork(q, req[q].key, req[q].minCgc)
    /\ Goto(q, "pick")
    /\ UNCHANGED <<last, runVars>>

\* The endpoint it gets becomes the session's as well, unless the request asks
\* for custody groups ...
Schedule(q) ==
    /\ At(q, "pick")
    /\ Pick(q)
    /\ Becomes(q, [req[q] EXCEPT !.endpoint = rrLastIndexes'[req[q].key],
                                 !.at = IF req[q].minCgc = 0 THEN "compare" ELSE "register"])
    /\ UNCHANGED <<last, runVars>>

\* ... and so does nil when it gets none; then the request is refused.
GetsNone(q) ==
    /\ Becomes(q, IF req[q].minCgc = 0 THEN [req[q] EXCEPT !.at = "compare"] ELSE Idle)
    /\ UNCHANGED <<last, runVars>>

NothingReady(q) ==
    /\ At(q, "fork")
    /\ ready = {}
    /\ GetsNone(q)
    /\ UNCHANGED vars

ScheduleNone(q) ==
    /\ At(q, "pick")
    /\ PickNone(q)
    /\ GetsNone(q)

-----------------------------------------------------------------------------
(* setLastPoolClient, called by a request or by the rebalancer *)

\* The session has its endpoint.  A request without one is refused.
Continues(a) ==
    IF a = Mover \/ req[a].endpoint = NoClient THEN Idle
    ELSE [req[a] EXCEPT !.at = "register"]

Compare(a) ==
    /\ At(a, "compare")
    /\ IF last[req[a].session] = req[a].endpoint THEN Becomes(a, Continues(a))
       ELSE Goto(a, "cancel")
    /\ UNCHANGED <<vars, last, runVars>>

\* Mutant: the calls of the session go on.
CancelNone(a) ==
    /\ At(a, "cancel")
    /\ Goto(a, "assign")
    /\ UNCHANGED <<vars, last, runVars>>

\* cancelActiveConnections ends the calls that the session knows.
CancelCalls(a) ==
    /\ At(a, "cancel")
    /\ req' = [b \in Actors |->
                  IF b = a THEN [req[a] EXCEPT !.at = "assign"]
                  ELSE IF At(b, "call") /\ req[b].session = req[a].session THEN Idle
                  ELSE req[b]]
    /\ UNCHANGED <<vars, last, runVars>>

Assign(a) ==
    /\ At(a, "assign")
    /\ last' = [last EXCEPT ![req[a].session] = req[a].endpoint]
    /\ req' = [b \in Actors |->
                  IF b = a THEN Continues(a)
                  ELSE IF At(b, "register") /\ req[b].session = req[a].session
                  THEN [req[b] EXCEPT !.late = TRUE]
                  ELSE req[b]]
    /\ UNCHANGED <<vars, runVars>>

-----------------------------------------------------------------------------
(* The call *)

\* addActiveContext, perhaps while another endpoint is about to be assigned.
Register(q) ==
    /\ At(q, "register")
    /\ Becomes(q, [req[q] EXCEPT
          !.at = "call",
          !.since = {},
          !.late = @ \/ \E a \in Choosing(req[q].session) : At(a, "assign")])
    /\ UNCHANGED <<vars, last, runVars>>

EndCall(q) ==
    /\ At(q, "call")
    /\ Becomes(q, Idle)
    /\ UNCHANGED <<vars, last, runVars>>

-----------------------------------------------------------------------------
(* The rebalancer *)

\* A run reads the ready clients, and then gets the mutex.
StartRun ==
    /\ run = "asleep"
    /\ Cardinality(ready) > 1
    /\ run' = "lock"
    /\ seen' = ready
    /\ keys' = ready
    /\ UNCHANGED <<vars, last, found, req>>

GetLock ==
    /\ run = "lock"
    /\ run' = "count"
    /\ UNCHANGED <<vars, last, seen, keys, found, req>>

\* It counts a session that is on one of them, ...
CheckSession(s) ==
    /\ run = "count" /\ found = {}
    /\ last[s] \in seen
    /\ found' = {s}
    /\ UNCHANGED <<vars, last, run, seen, keys, req>>

\* ... for the endpoint that it has by now, which may be none of them, or nil.
CountSession(s) ==
    /\ run = "count" /\ s \in found
    /\ found' = {}
    /\ keys' = keys \cup {last[s]}
    /\ EverybodyLearns({last[s]} \ {NoClient})
    /\ UNCHANGED <<vars, last, run, seen>>

CountDone ==
    /\ run = "count" /\ found = {}
    /\ run' = "move"
    /\ UNCHANGED <<vars, last, seen, keys, found, req>>

\* It moves session s from one endpoint to another, of its type if it has one.
Move(s, e) ==
    /\ run = "move"
    /\ At(Mover, "idle")
    /\ last[s] \in keys
    /\ e \in keys \ {last[s]}
    /\ Admits(Prefix[s], e)
    /\ Becomes(Mover, [at |-> "compare", session |-> s, key |-> Prefix[s],
                       minCgc |-> 0, named |-> FALSE, endpoint |-> e,
                       since |-> keys \ {NoClient}, late |-> FALSE])
    /\ UNCHANGED <<vars, last, runVars>>

\* It ends when nothing needs to be moved, or when it panics over a nil endpoint.
EndRun ==
    /\ run = "move"
    /\ At(Mover, "idle")
    /\ run' = "asleep"
    /\ seen' = {}
    /\ keys' = {}
    /\ UNCHANGED <<vars, last, found, req>>

-----------------------------------------------------------------------------

RequestStep(q) ==
    \/ \E s \in Sessions, m \in MinCgcs :
          \/ \E k \in Keys : Arrive(q, s, m, k)
          \/ \E e \in Clients : ArriveNamed(q, s, m, e)
    \/ Read(q) \/ Look(q) \/ Take(q) \/ AskFork(q) \/ NothingReady(q)
    \/ Schedule(q) \/ ScheduleNone(q)
    \/ Register(q) \/ EndCall(q)

SetLastPoolClient(a) == Compare(a) \/ CancelCalls(a) \/ Assign(a)

Rebalancer ==
    \/ StartRun \/ GetLock \/ CountDone \/ EndRun
    \/ \E s \in Sessions : CheckSession(s) \/ CountSession(s)
    \/ \E s \in Sessions, e \in Clients : Move(s, e)

PathNext ==
    \/ \E R \in SUBSET Clients : ForkChanges(R)
    \/ \E q \in Requests : RequestStep(q)
    \/ \E a \in Actors : SetLastPoolClient(a)
    \/ Rebalancer

PathSpec == PathInit /\ [][PathNext]_allVars

-----------------------------------------------------------------------------
(* Properties *)

\* Whichever way a request comes to its endpoint, and whatever its session is
\* given meanwhile, the endpoint has the type and the custody groups that the
\* request asks for.
FitsRequest ==
    \A q \in Requests :
       req[q].at \in {"register", "call"} => Suits(req[q].endpoint, req[q])

\* A request that does not name its endpoint gets one that was ready since it
\* came, or since a request of its session that was still choosing when it
\* came, or a run of the rebalancer, began, or one that the run has counted for
\* a session that was changing; although it reads the endpoint of its session
\* again after it has found it to be ready.
AnsweredFromReady ==
    \A q \in Requests :
       At(q, "register") /\ ~req[q].named => req[q].endpoint \in req[q].since

\* The calls of a session are on the session's endpoint, except the ones that
\* name theirs or ask for custody groups, and those that had chosen theirs but
\* were not registered when the session was given another.
StraysAreLate ==
    \A q \in Requests :
       At(q, "call") /\ ~req[q].named /\ req[q].minCgc = 0 /\ ~req[q].late
          => req[q].endpoint = last[req[q].session]

=============================================================================
