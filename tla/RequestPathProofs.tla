-------------------------- MODULE RequestPathProofs --------------------------
(***************************************************************************)
(* Proofs about the path of a request, for any clients, sessions and       *)
(* numbers of concurrent requests.                                         *)
(***************************************************************************)
EXTENDS RequestPath, SchedulerProofs

Places ==
    {"read", "look", "take", "fork", "pick", "compare", "cancel", "assign", "register",
     "call"}

LEMMA RequestIsActor == \A q \in Requests : q \in Actors /\ q # Mover
BY PathAssumption DEF Actors

\* Whoever is somewhere has a request, which has the fields of one.
LEMMA Running ==
    ASSUME PathTypeOK, NEW a \in Actors, req[a].at # "idle"
    PROVE  req[a] \in Request
BY DEF PathTypeOK, Idle

LEMMA Moved ==
    ASSUME NEW r \in Request, NEW place \in Places
    PROVE  [r EXCEPT !.at = place] \in Request
BY DEF Request, Places

\* What the actors have when they have learned of the clients S.
LEMMA Learned ==
    ASSUME PathTypeOK, NEW S \in SUBSET Clients, EverybodyLearns(S), NEW a \in Actors
    PROVE  \/ req'[a] = req[a]
           \/ req[a] \in Request /\ req'[a] = [req[a] EXCEPT !.since = @ \cup S]
BY Running DEF EverybodyLearns, Choosing

LEMMA LearnTypes ==
    ASSUME PathTypeOK, NEW S \in SUBSET Clients, EverybodyLearns(S)
    PROVE  req' \in [Actors -> Request \cup {Idle}]
<1>1. ASSUME NEW a \in Actors PROVE req'[a] \in Request \cup {Idle}
  <2>1. CASE req'[a] = req[a]
    BY <2>1 DEF PathTypeOK
  <2>2. CASE req[a] \in Request /\ req'[a] = [req[a] EXCEPT !.since = @ \cup S]
    BY <2>2 DEF Request
  <2> QED
    BY <2>1, <2>2, Learned
<1>2. DOMAIN req' = Actors /\ req' = [a \in Actors |-> req'[a]]
  BY DEF EverybodyLearns
<1> QED
  BY <1>1, <1>2

LEMMA BecomesType ==
    ASSUME PathTypeOK, NEW a \in Actors, NEW r \in Request \cup {Idle}, Becomes(a, r)
    PROVE  /\ req' \in [Actors -> Request \cup {Idle}]
           /\ req'[a] = r
           /\ \A b \in Actors : b # a => req'[b] = req[b]
BY DEF PathTypeOK, Becomes

\* What a request has when it has read the endpoint of its session, or has
\* looked whether that is ready.
LEMMA LookMoves ==
    ASSUME PathTypeOK, NEW q \in Requests, Read(q) \/ Look(q)
    PROVE  /\ req[q] \in Request
           /\ req' \in [Actors -> Request \cup {Idle}]
           /\ \/ /\ req[q].at = "read" /\ req'[q].at = "look"
                 /\ req'[q].endpoint = last[req[q].session]
              \/ /\ req[q].at = "look" /\ req'[q].at \in {"take", "fork"}
                 /\ req'[q].endpoint = NoClient
                 /\ req'[q].at = "take" => req[q].endpoint \in ready
           /\ req'[q].session = req[q].session
           /\ req'[q].since = req[q].since
<1> DEFINE r == req[q]
           place == IF Read(q) THEN "look" ELSE IF r.endpoint \in ready THEN "take" ELSE "fork"
           e == IF Read(q) THEN last[r.session] ELSE NoClient
<1>1. q \in Actors /\ r \in Request /\ r.at = IF Read(q) THEN "read" ELSE "look"
  BY RequestIsActor, Running DEF Read, Look, At
<1>2. Becomes(q, [r EXCEPT !.at = place, !.endpoint = e])
  BY DEF Read, Look
<1>3. e \in Endpoints
  BY <1>1 DEF PathTypeOK, Endpoints, Request
<1>4. place \in Places
  BY DEF Places
<1>5. (Read(q) => place = "look" /\ e = last[r.session])
      /\ (~Read(q) => place \in {"take", "fork"} /\ e = NoClient
                         /\ (place = "take" => r.endpoint \in ready))
  OBVIOUS
<1> HIDE DEF place, e
<1>6. [r EXCEPT !.at = place, !.endpoint = e] \in Request
  BY <1>1, <1>3, <1>4 DEF Request, Places
<1>7. /\ req' \in [Actors -> Request \cup {Idle}]
      /\ req'[q] = [r EXCEPT !.at = place, !.endpoint = e]
  BY <1>1, <1>2, <1>6, BecomesType
<1>8. /\ req'[q].at = place /\ req'[q].endpoint = e
      /\ req'[q].session = r.session /\ req'[q].since = r.since
  BY <1>1, <1>7 DEF Request
<1> QED
  BY <1>1, <1>5, <1>7, <1>8

\* The rebalancer counts a session, which everybody learns of, begins to move a
\* session, or goes on by itself.
LEMMA RebalancerFrame ==
    ASSUME PathTypeOK, Rebalancer
    PROVE  /\ UNCHANGED <<vars, last>>
           /\ \/ \E s \in Sessions : /\ CountSession(s)
                                     /\ {last[s]} \ {NoClient} \in SUBSET Clients
                                     /\ EverybodyLearns({last[s]} \ {NoClient})
              \/ \E s \in Sessions, e \in Clients :
                    /\ Move(s, e)
                    /\ req'[Mover].at = "compare"
                    /\ \A b \in Actors : b # Mover => req'[b] = req[b]
              \/ req' = req
<1>1. ASSUME NEW s \in Sessions, CountSession(s)
      PROVE  {last[s]} \ {NoClient} \in SUBSET Clients
  BY DEF PathTypeOK, Endpoints
<1>2. ASSUME NEW s \in Sessions, NEW e \in Clients, Move(s, e)
      PROVE  /\ req'[Mover].at = "compare"
             /\ \A b \in Actors : b # Mover => req'[b] = req[b]
  BY <1>2 DEF Move, Becomes, PathTypeOK, Actors
<1> QED
  BY <1>1, <1>2
     DEF Rebalancer, StartRun, GetLock, CheckSession, CountSession, CountDone, EndRun, Move
LEMMA OfferedAreClients ==
    ASSUME PathTypeOK, NEW s \in Sessions
    PROVE  Offered(s) \subseteq Clients
<1>1. ASSUME NEW a \in Choosing(s) PROVE req[a].since \subseteq Clients
  <2>1. a \in Actors /\ req[a] \in Request
    BY <1>1, Running DEF Choosing
  <2> QED
    BY <2>1 DEF Request
<1> QED
  BY <1>1 DEF Offered, PathTypeOK, TypeOK, Endpoints

-----------------------------------------------------------------------------
(* The steps of the path are steps of the scheduler, or leave it alone. *)

LEMMA PathStepIsSchedulerStep == PathTypeOK /\ [PathNext]_allVars => [Next]_vars
<1> SUFFICES ASSUME PathTypeOK, [PathNext]_allVars PROVE [Next]_vars
  OBVIOUS
<1>1. CASE UNCHANGED allVars
  BY <1>1 DEF allVars
<1>2. ASSUME NEW R \in SUBSET Clients, ForkChanges(R) PROVE [Next]_vars
  BY <1>2 DEF ForkChanges, Next
<1>3. ASSUME NEW q \in Requests, RequestStep(q) PROVE [Next]_vars
  <2>1. CASE AskFork(q)
    <3>1. req[q] \in Request
      BY <2>1, Running, RequestIsActor DEF AskFork, At
    <3>2. req[q].key \in Keys /\ req[q].minCgc \in MinCgcs
      BY <3>1 DEF Request
    <3> QED
      BY <2>1, <3>2 DEF AskFork, Next
  <2>2. CASE Schedule(q)
    BY <2>2 DEF Schedule, Next
  <2>3. CASE ScheduleNone(q)
    BY <2>3 DEF ScheduleNone, Next
  <2> QED
    BY <1>3, <2>1, <2>2, <2>3
       DEF RequestStep, Arrive, ArriveNamed, Read, Look, Take, NothingReady, Register, EndCall
<1>4. ASSUME NEW a \in Actors, SetLastPoolClient(a) PROVE UNCHANGED vars
  BY <1>4 DEF SetLastPoolClient, Compare, CancelCalls, Assign
<1>5. CASE Rebalancer
  BY <1>5, RebalancerFrame
<1> QED
  BY <1>1, <1>2, <1>3, <1>4, <1>5 DEF PathNext

-----------------------------------------------------------------------------
(* Types *)

\* The records that a step puts in the place of a request.
LEMMA ArrivalTypes ==
    ASSUME PathTypeOK, NEW s \in Sessions, NEW m \in MinCgcs, NEW k \in Keys,
           NEW place \in {"read", "fork"}
    PROVE  [at |-> place, session |-> s, key |-> IF k = AnyType THEN Prefix[s] ELSE k,
            minCgc |-> m, named |-> FALSE, endpoint |-> NoClient,
            since |-> Offered(s), late |-> FALSE] \in Request
<1>1. (IF k = AnyType THEN Prefix[s] ELSE k) \in Keys
  BY PathAssumption
<1>2. Offered(s) \in SUBSET Clients
  BY OfferedAreClients
<1> QED
  BY <1>1, <1>2 DEF Request, Endpoints

LEMMA ContinuesType ==
    ASSUME PathTypeOK, NEW a \in Actors, req[a] \in Request
    PROVE  Continues(a) \in Request \cup {Idle}
<1>1. [req[a] EXCEPT !.at = "register"] \in Request
  BY Moved DEF Places
<1> QED
  BY <1>1 DEF Continues

\* A request that waits for the scheduler has told it what it wants.
AskedInv ==
    \A q \in Requests :
       At(q, "pick") => /\ calls[q] \in Call
                        /\ calls[q].key = req[q].key
                        /\ calls[q].minCgc = req[q].minCgc

\* What the scheduler returns.
LEMMA ScheduleReturns ==
    ASSUME PathTypeOK, AskedInv, NEW q \in Requests, Schedule(q)
    PROVE  /\ rrLastIndexes'[req[q].key] \in calls[q].seen
           /\ Suits(rrLastIndexes'[req[q].key], req[q])
<1> DEFINE k == calls[q].key
<1>1. calls[q] \in Call /\ k = req[q].key /\ calls[q].minCgc = req[q].minCgc
  BY DEF AskedInv, Schedule
<1>2. k \in Keys /\ rrLastIndexes \in [Keys -> Nat] /\ calls[q].seen \subseteq Clients
  BY <1>1 DEF Call, PathTypeOK, TypeOK
<1>3. PICK p \in FirstBehind(Eligible(calls[q]), rrLastIndexes[k]) :
         rrLastIndexes' = [rrLastIndexes EXCEPT ![k] = p]
  BY DEF Schedule, Pick
<1>4. p \in Eligible(calls[q]) /\ rrLastIndexes'[k] = p
  BY <1>2, <1>3 DEF FirstBehind
<1> QED
  BY <1>1, <1>2, <1>4 DEF Eligible, Suits

LEMMA RequestTypes ==
    ASSUME PathTypeOK, AskedInv, NEW q \in Requests, RequestStep(q)
    PROVE  req' \in [Actors -> Request \cup {Idle}]
<1> DEFINE r == req[q]
<1>0. q \in Actors
  BY RequestIsActor
<1>1. ASSUME r.at # "idle" PROVE r \in Request
  BY <1>0, <1>1, Running
<1>2. ASSUME NEW place \in Places, r.at # "idle", Goto(q, place)
      PROVE  req' \in [Actors -> Request \cup {Idle}]
  <2>1. [r EXCEPT !.at = place] \in Request
    BY <1>1, <1>2, Moved
  <2> QED
    BY <1>0, <1>2, <2>1, BecomesType DEF Goto
<1>3. ASSUME NEW s \in Sessions, NEW m \in MinCgcs, NEW k \in Keys, Arrive(q, s, m, k)
      PROVE  req' \in [Actors -> Request \cup {Idle}]
  <2> DEFINE place == IF Sticky /\ k = AnyType THEN "read" ELSE "fork"
  <2>1. place \in {"read", "fork"}
    OBVIOUS
  <2> HIDE DEF place
  <2>2. [at |-> place, session |-> s, key |-> IF k = AnyType THEN Prefix[s] ELSE k,
         minCgc |-> m, named |-> FALSE, endpoint |-> NoClient,
         since |-> Offered(s), late |-> FALSE] \in Request
    BY <2>1, ArrivalTypes
  <2> QED
    BY <1>0, <1>3, <2>2, BecomesType DEF Arrive, place
<1>4. ASSUME NEW s \in Sessions, NEW m \in MinCgcs, NEW e \in Clients,
             ArriveNamed(q, s, m, e)
      PROVE  req' \in [Actors -> Request \cup {Idle}]
  <2>1. AnyType \in Keys
    BY DEF Keys
  <2>2. [at |-> "register", session |-> s, key |-> AnyType, minCgc |-> m,
         named |-> TRUE, endpoint |-> e, since |-> {}, late |-> FALSE] \in Request
    BY <2>1 DEF Request, Endpoints
  <2> QED
    BY <1>0, <1>4, <2>2, BecomesType DEF ArriveNamed
<1>5. CASE Read(q) \/ Look(q)
  BY <1>5, LookMoves
<1>6. CASE Take(q)
  <2> DEFINE e == last[r.session]
  <2>1. r.at # "idle"
    BY <1>6 DEF Take, At
  <2>2. CASE Suits(e, r)
    <3>1. e \in Endpoints
      BY <2>2 DEF Suits, Endpoints
    <3>2. [r EXCEPT !.at = "register", !.endpoint = e] \in Request
      BY <1>1, <2>1, <3>1 DEF Request
    <3> QED
      BY <1>0, <1>6, <2>2, <3>2, BecomesType DEF Take
  <2>3. CASE ~Suits(e, r)
    BY <1>2, <1>6, <2>1, <2>3 DEF Take, Places
  <2> QED
    BY <2>2, <2>3
<1>7. CASE AskFork(q)
  BY <1>2, <1>7 DEF AskFork, At, Places
<1>8. CASE Schedule(q)
  <2> DEFINE e == rrLastIndexes'[r.key]
  <2>1. r \in Request
    BY <1>1, <1>8 DEF Schedule, At
  <2>2. e \in Endpoints
    BY <1>8, ScheduleReturns DEF Suits, Endpoints
  <2>3. [r EXCEPT !.endpoint = e, !.at = IF r.minCgc = 0 THEN "compare" ELSE "register"]
           \in Request
    BY <2>1, <2>2 DEF Request
  <2> QED
    BY <1>0, <1>8, <2>3, BecomesType DEF Schedule
<1>9. ASSUME GetsNone(q), r.at # "idle"
      PROVE  req' \in [Actors -> Request \cup {Idle}]
  <2>1. [r EXCEPT !.at = "compare"] \in Request
    BY <1>1, <1>9, Moved DEF Places
  <2>2. (IF r.minCgc = 0 THEN [r EXCEPT !.at = "compare"] ELSE Idle) \in Request \cup {Idle}
    BY <2>1
  <2> QED
    BY <1>0, <1>9, <2>2, BecomesType DEF GetsNone
<1>10. CASE NothingReady(q) \/ ScheduleNone(q)
  BY <1>9, <1>10 DEF NothingReady, ScheduleNone, At
<1>11. CASE Register(q)
  <2> DEFINE l == r.late \/ \E a \in Choosing(r.session) : At(a, "assign")
  <2>1. r \in Request
    BY <1>1, <1>11 DEF Register, At
  <2>2. l \in BOOLEAN
    OBVIOUS
  <2> HIDE DEF l
  <2>3. [r EXCEPT !.at = "call", !.since = {}, !.late = l] \in Request
    BY <2>1, <2>2 DEF Request
  <2> QED
    BY <1>0, <1>11, <2>3, BecomesType DEF Register, l
<1>12. CASE EndCall(q)
  BY <1>0, <1>12, BecomesType DEF EndCall
<1> QED
  BY <1>3, <1>4, <1>5, <1>6, <1>7, <1>8, <1>10, <1>11, <1>12 DEF RequestStep

LEMMA SetTypes ==
    ASSUME PathTypeOK, NEW a \in Actors, SetLastPoolClient(a)
    PROVE  req' \in [Actors -> Request \cup {Idle}] /\ last' \in [Sessions -> Endpoints]
<1>1. req[a] \in Request
  BY Running DEF SetLastPoolClient, Compare, CancelCalls, Assign, At
<1>2. Continues(a) \in Request \cup {Idle}
  BY <1>1, ContinuesType
<1>3. \A b \in Actors : req[b] \in Request \cup {Idle}
  BY DEF PathTypeOK
<1>4. ASSUME NEW place \in Places
      PROVE  [req[a] EXCEPT !.at = place] \in Request
  BY <1>1, Moved
<1>5. CASE Compare(a)
  <2>1. CASE last[req[a].session] = req[a].endpoint
    BY <1>2, <1>5, <2>1, BecomesType DEF Compare, PathTypeOK
  <2>2. CASE last[req[a].session] # req[a].endpoint
    BY <1>4, <1>5, <2>2, BecomesType DEF Compare, Goto, Places, PathTypeOK
  <2> QED
    BY <2>1, <2>2
<1>6. CASE CancelCalls(a)
  <2>1. [req[a] EXCEPT !.at = "assign"] \in Request
    BY <1>4 DEF Places
  <2> QED
    BY <1>3, <1>6, <2>1 DEF CancelCalls, PathTypeOK
<1>7. CASE Assign(a)
  <2>1. ASSUME NEW b \in Actors, At(b, "register")
        PROVE  [req[b] EXCEPT !.late = TRUE] \in Request
    <3>1. req[b] \in Request
      BY <2>1, Running DEF At
    <3> QED
      BY <3>1 DEF Request
  <2>2. req' \in [Actors -> Request \cup {Idle}]
    BY <1>2, <1>3, <1>7, <2>1 DEF Assign
  <2>3. req[a].session \in Sessions /\ req[a].endpoint \in Endpoints
    BY <1>1 DEF Request
  <2> QED
    BY <1>7, <2>2, <2>3 DEF Assign, PathTypeOK
<1> QED
  BY <1>5, <1>6, <1>7 DEF SetLastPoolClient

LEMMA MoveTypes ==
    ASSUME PathTypeOK, NEW s \in Sessions, NEW e \in Clients, Move(s, e)
    PROVE  req' \in [Actors -> Request \cup {Idle}]
<1>1. [at |-> "compare", session |-> s, key |-> Prefix[s], minCgc |-> 0,
       named |-> FALSE, endpoint |-> e, since |-> keys \ {NoClient}, late |-> FALSE]
         \in Request
  BY PathAssumption DEF Request, Endpoints, PathTypeOK
<1> QED
  BY <1>1, BecomesType DEF Move, Actors

LEMMA PathTypesKept == PathTypeOK /\ AskedInv /\ [PathNext]_allVars => PathTypeOK'
<1> SUFFICES ASSUME PathTypeOK, AskedInv, [PathNext]_allVars PROVE PathTypeOK'
  OBVIOUS
<1>1. TypeOK'
  BY PathStepIsSchedulerStep, NextTypeOK DEF PathTypeOK
<1>2. CASE UNCHANGED allVars
  BY <1>1, <1>2 DEF allVars, pathVars, runVars, PathTypeOK
<1>3. ASSUME NEW R \in SUBSET Clients, ForkChanges(R) PROVE PathTypeOK'
  <2>1. req' \in [Actors -> Request \cup {Idle}]
    BY <1>3, LearnTypes DEF ForkChanges
  <2> QED
    BY <1>1, <1>3, <2>1 DEF ForkChanges, PathTypeOK, runVars
<1>4. ASSUME NEW q \in Requests, RequestStep(q) PROVE PathTypeOK'
  <2>1. UNCHANGED <<last, runVars>>
    BY <1>4 DEF RequestStep, Arrive, ArriveNamed, Read, Look, Take, AskFork, NothingReady,
                Schedule, ScheduleNone, GetsNone, Register, EndCall
  <2> QED
    BY <1>1, <1>4, <2>1, RequestTypes DEF PathTypeOK, runVars
<1>5. ASSUME NEW a \in Actors, SetLastPoolClient(a) PROVE PathTypeOK'
  <2>1. UNCHANGED runVars
    BY <1>5 DEF SetLastPoolClient, Compare, CancelCalls, Assign
  <2> QED
    BY <1>1, <1>5, <2>1, SetTypes DEF PathTypeOK, runVars
<1>6. ASSUME NEW s \in Sessions, NEW e \in Clients, Move(s, e) PROVE PathTypeOK'
  BY <1>1, <1>6, MoveTypes DEF Move, PathTypeOK, runVars
<1>7. CASE StartRun \/ GetLock \/ CountDone \/ EndRun
  BY <1>1, <1>7 DEF StartRun, GetLock, CountDone, EndRun, PathTypeOK, TypeOK, Endpoints
<1>8. ASSUME NEW s \in Sessions, CheckSession(s) PROVE PathTypeOK'
  BY <1>1, <1>8 DEF CheckSession, PathTypeOK
<1>9. ASSUME NEW s \in Sessions, CountSession(s) PROVE PathTypeOK'
  <2>1. last[s] \in Endpoints
    BY DEF PathTypeOK
  <2>2. {last[s]} \ {NoClient} \in SUBSET Clients
    BY <2>1 DEF Endpoints
  <2>3. req' \in [Actors -> Request \cup {Idle}]
    BY <1>9, <2>2, LearnTypes DEF CountSession
  <2> QED
    BY <1>1, <1>9, <2>1, <2>3 DEF CountSession, PathTypeOK
<1> QED
  BY <1>2, <1>3, <1>4, <1>5, <1>6, <1>7, <1>8, <1>9 DEF PathNext, Rebalancer

-----------------------------------------------------------------------------
(* What a step leaves alone *)

\* Every request stays where it is when it learns of ready clients.
LEMMA LearnStep ==
    ASSUME PathTypeOK, NEW S \in SUBSET Clients, EverybodyLearns(S), NEW a \in Actors
    PROVE  /\ req'[a].at = req[a].at
           /\ req[a].at # "idle" =>
                 /\ req'[a].session = req[a].session
                 /\ req'[a].key = req[a].key
                 /\ req'[a].minCgc = req[a].minCgc
                 /\ req'[a].named = req[a].named
                 /\ req'[a].endpoint = req[a].endpoint
                 /\ req'[a].late = req[a].late
<1>1. req'[a] = req[a] \/ (req[a] \in Request /\ req'[a] = [req[a] EXCEPT !.since = @ \cup S])
  BY Learned
<1> QED
  BY <1>1 DEF Request

\* A step of a request leaves the other requests and the sessions alone.
LEMMA RequestFrame ==
    ASSUME PathTypeOK, NEW q \in Requests, RequestStep(q)
    PROVE  /\ \A b \in Actors : b # q => req'[b] = req[b]
           /\ \A p \in Requests : p # q => calls'[p] = calls[p]
           /\ UNCHANGED <<last, runVars>>
<1>1. \A b \in Actors : b # q => req'[b] = req[b]
  BY DEF PathTypeOK, RequestStep, Arrive, ArriveNamed, Read, Look, Take, AskFork, NothingReady,
         Schedule, ScheduleNone, GetsNone, Register, EndCall, Becomes, Goto
<1>2. \A p \in Requests : p # q => calls'[p] = calls[p]
  BY DEF PathTypeOK, TypeOK, vars, RequestStep, Arrive, ArriveNamed, Read, Look, Take, AskFork,
         NothingReady, Schedule, ScheduleNone, Register, EndCall, ReadFork, Pick, PickNone
<1>3. UNCHANGED <<last, runVars>>
  BY DEF RequestStep, Arrive, ArriveNamed, Read, Look, Take, AskFork, NothingReady,
         Schedule, ScheduleNone, GetsNone, Register, EndCall
<1> QED
  BY <1>1, <1>2, <1>3

\* Giving a session an endpoint moves the one who does, ends calls, and makes
\* requests late.
LEMMA SetFrame ==
    ASSUME PathTypeOK, NEW a \in Actors, SetLastPoolClient(a), NEW b \in Actors, b # a
    PROVE  \/ req'[b] = req[b]
           \/ At(b, "call") /\ req'[b] = Idle
           \/ At(b, "register") /\ req'[b] = [req[b] EXCEPT !.late = TRUE]
BY DEF PathTypeOK, SetLastPoolClient, Compare, CancelCalls, Assign, Becomes, Goto

\* Where the one who does is then.
LEMMA SetterMoves ==
    ASSUME PathTypeOK, NEW a \in Actors, SetLastPoolClient(a)
    PROVE  \/ req'[a] = Continues(a)
           \/ req'[a] = [req[a] EXCEPT !.at = "cancel"]
           \/ req'[a] = [req[a] EXCEPT !.at = "assign"]
BY DEF PathTypeOK, SetLastPoolClient, Compare, CancelCalls, Assign, Becomes, Goto

LEMMA SetterHasRequest ==
    ASSUME PathTypeOK, NEW a \in Actors, SetLastPoolClient(a)
    PROVE  req[a] \in Request /\ req[a].at \in {"compare", "cancel", "assign"}
BY Running DEF SetLastPoolClient, Compare, CancelCalls, Assign, At

-----------------------------------------------------------------------------

LEMMA SetterPlace ==
    ASSUME PathTypeOK, NEW a \in Actors, SetLastPoolClient(a)
    PROVE  req'[a].at \in {"idle", "register", "cancel", "assign"}
<1>1. req[a] \in Request
  BY SetterHasRequest
<1>2. Continues(a).at \in {"idle", "register"}
  BY <1>1 DEF Continues, Idle, Request
<1> QED
  BY <1>1, <1>2, SetterMoves DEF Request

\* Only AskFork leads to where a request waits for the scheduler.
LEMMA OnlyAskForkAsks ==
    ASSUME PathTypeOK, NEW q \in Requests, RequestStep(q), ~AskFork(q)
    PROVE  req'[q].at # "pick"
<1>0. q \in Actors
  BY RequestIsActor
<1>1. ASSUME NEW r, Becomes(q, r) PROVE req'[q] = r
  BY <1>0, <1>1 DEF Becomes, PathTypeOK
<1>2. ASSUME NEW place \in Places, Goto(q, place), req[q].at # "idle", place # "pick"
      PROVE  req'[q].at # "pick"
  <2>1. req[q] \in Request /\ req'[q] = [req[q] EXCEPT !.at = place]
    BY <1>0, <1>1, <1>2, Running DEF Goto
  <2> QED
    BY <1>2, <2>1 DEF Request
<1>3. ASSUME NEW s \in Sessions, NEW m \in MinCgcs, NEW k \in Keys, Arrive(q, s, m, k)
      PROVE  req'[q].at # "pick"
  BY <1>1, <1>3 DEF Arrive
<1>4. ASSUME NEW s \in Sessions, NEW m \in MinCgcs, NEW e \in Clients,
             ArriveNamed(q, s, m, e)
      PROVE  req'[q].at # "pick"
  BY <1>1, <1>4 DEF ArriveNamed
<1>5. CASE Read(q) \/ Look(q)
  BY <1>5, LookMoves
<1>6. CASE Take(q)
  <2>1. req[q] \in Request
    BY <1>0, <1>6, Running DEF Take, At
  <2>2. CASE Suits(last[req[q].session], req[q])
    BY <1>1, <1>6, <2>1, <2>2 DEF Take, Request
  <2>3. CASE ~Suits(last[req[q].session], req[q])
    BY <1>2, <1>6, <2>3 DEF Take, At, Places
  <2> QED
    BY <2>2, <2>3
<1>7. ASSUME GetsNone(q), req[q].at # "idle" PROVE req'[q].at # "pick"
  <2>1. req[q] \in Request
    BY <1>0, <1>7, Running
  <2> QED
    BY <1>1, <1>7, <2>1 DEF GetsNone, Idle, Request
<1>8. CASE NothingReady(q) \/ ScheduleNone(q)
  BY <1>7, <1>8 DEF NothingReady, ScheduleNone, At
<1>9. CASE Schedule(q) \/ Register(q)
  <2>1. req[q] \in Request
    BY <1>0, <1>9, Running DEF Schedule, Register, At
  <2> QED
    BY <1>1, <1>9, <2>1 DEF Schedule, Register, Request
<1>10. CASE EndCall(q)
  BY <1>1, <1>10 DEF EndCall, Idle
<1> QED
  BY <1>3, <1>4, <1>5, <1>6, <1>8, <1>9, <1>10 DEF RequestStep

LEMMA AskedKept == PathTypeOK /\ AskedInv /\ [PathNext]_allVars => AskedInv'
<1> SUFFICES ASSUME PathTypeOK, AskedInv, [PathNext]_allVars,
                    NEW p \in Requests, At(p, "pick")'
             PROVE  /\ calls'[p] \in Call
                    /\ calls'[p].key = req'[p].key
                    /\ calls'[p].minCgc = req'[p].minCgc
  BY DEF AskedInv, Call, Keys, Clients
<1> DEFINE Goal == /\ calls'[p] \in Call
                   /\ calls'[p].key = req'[p].key
                   /\ calls'[p].minCgc = req'[p].minCgc
<1>0. p \in Actors /\ p # Mover
  BY RequestIsActor
<1>a. ASSUME req'[p] = req[p], calls'[p] = calls[p] PROVE Goal
  BY <1>a DEF AskedInv, At
<1>b. ASSUME NEW S \in SUBSET Clients, EverybodyLearns(S), calls' = calls PROVE Goal
  BY <1>0, <1>b, LearnStep DEF AskedInv, At
<1>1. CASE UNCHANGED allVars
  BY <1>1, <1>a DEF allVars, vars, pathVars
<1>2. ASSUME NEW R \in SUBSET Clients, ForkChanges(R) PROVE Goal
  <2>1. calls' = calls
    BY <1>2 DEF ForkChanges, ReadyChanges
  <2>2. EverybodyLearns(R)
    BY <1>2 DEF ForkChanges
  <2> QED
    BY <1>0, <1>b, <2>1, <2>2
<1>3. ASSUME NEW q \in Requests, RequestStep(q) PROVE Goal
  <2>1. CASE q # p
    BY <1>0, <1>3, <1>a, <2>1, RequestFrame
  <2>2. CASE q = p
    <3>1. AskFork(p)
      BY <1>3, <2>2, OnlyAskForkAsks DEF At
    <3>2. req[p] \in Request
      BY <1>0, <3>1, Running DEF AskFork, At
    <3>3. req'[p] = [req[p] EXCEPT !.at = "pick"]
      BY <1>0, <3>1 DEF AskFork, Goto, Becomes, PathTypeOK
    <3>4. calls'[p] = [key |-> req[p].key, minCgc |-> req[p].minCgc, seen |-> ready]
      BY <3>1 DEF AskFork, ReadFork, PathTypeOK, TypeOK
    <3> QED
      BY <3>2, <3>3, <3>4 DEF Request, Call, PathTypeOK, TypeOK
  <2> QED
    BY <2>1, <2>2
<1>4. ASSUME NEW a \in Actors, SetLastPoolClient(a) PROVE Goal
  <2>1. calls' = calls
    BY <1>4 DEF SetLastPoolClient, Compare, CancelCalls, Assign, vars
  <2>2. a # p
    BY <1>4, SetterPlace DEF At
  <2>3. req'[p] # Idle
    BY DEF At, Idle
  <2>4. req'[p] = req[p] \/ (At(p, "register") /\ req'[p] = [req[p] EXCEPT !.late = TRUE])
    BY <1>0, <1>4, <2>2, <2>3, SetFrame
  <2>5. CASE At(p, "register") /\ req'[p] = [req[p] EXCEPT !.late = TRUE]
    <3>1. req[p] \in Request
      BY <1>0, <2>5, Running DEF At
    <3> QED
      BY <2>5, <3>1 DEF At, Request
  <2> QED
    BY <1>a, <2>1, <2>4, <2>5
<1>5. CASE Rebalancer
  <2>1. calls' = calls
    BY <1>0, <1>5, RebalancerFrame DEF vars
  <2> QED
    BY <1>0, <1>5, <1>a, <1>b, <2>1, RebalancerFrame
<1> QED
  BY <1>1, <1>2, <1>3, <1>4, <1>5 DEF PathNext

\* The inductive invariant of the types.
PathInv == PathTypeOK /\ AskedInv

LEMMA InitPathInv == PathInit => PathInv
<1> SUFFICES ASSUME PathInit PROVE PathInv
  OBVIOUS
<1>1. PathTypeOK
  BY InitTypeOK DEF PathInit, PathTypeOK, Endpoints
<1>2. AskedInv
  BY RequestIsActor DEF PathInit, AskedInv, At, Idle
<1> QED
  BY <1>1, <1>2 DEF PathInv

LEMMA NextPathInv == PathInv /\ [PathNext]_allVars => PathInv'
BY PathTypesKept, AskedKept DEF PathInv

LEMMA PathInvariant == PathSpec => []PathInv
BY InitPathInv, NextPathInv, PTL DEF PathSpec

\* The variables of the path have their types: the actors are always somewhere
\* in getEndpointForCall, setLastPoolClient or ProcessCall.
THEOREM PathTypes == PathSpec => []PathTypeOK
<1>1. PathInv => PathTypeOK
  BY DEF PathInv
<1> QED
  BY <1>1, PathInvariant, PTL

\* A path of requests, with everything that sessions and the rebalancer do to
\* it, is a behaviour of the scheduler.
THEOREM PathRunsScheduler == PathSpec => Spec
<1>1. PathInit => Init
  BY DEF PathInit
<1>2. PathInv /\ [PathNext]_allVars => [Next]_vars
  BY PathStepIsSchedulerStep DEF PathInv
<1> QED
  BY <1>1, <1>2, PathInvariant, PTL DEF PathSpec, Spec

\* So the round robin of GetReadyEndpoint stays fair under sessions that stick
\* to their endpoints and a rebalancer that moves them.
THEOREM PathIsFair == PathSpec => []NoDoubleOvertaking
BY PathRunsScheduler, RoundRobinIsFair, PTL

-----------------------------------------------------------------------------
(* The endpoint fits the request. *)

\* What a request has chosen: nothing yet, although it may look at what its
\* session has; something that fits or nil; and something that fits once it has
\* passed setLastPoolClient.
Fits(r) ==
    /\ r.at \in {"read", "take", "fork", "pick"} => r.endpoint = NoClient
    /\ r.at \in {"compare", "cancel", "assign"} =>
          r.endpoint = NoClient \/ Suits(r.endpoint, r)
    /\ r.at \in {"register", "call"} => Suits(r.endpoint, r)

FitsInv == \A q \in Requests : Fits(req[q])

LEMMA IdleFits == Fits(Idle)
BY DEF Fits, Idle

LEMMA RequestFits ==
    ASSUME PathInv, FitsInv, NEW q \in Requests, RequestStep(q)
    PROVE  Fits(req'[q])
<1> DEFINE r == req[q]
<1>0. q \in Actors /\ PathTypeOK /\ AskedInv /\ Fits(r)
  BY RequestIsActor DEF PathInv, FitsInv
<1>1. ASSUME NEW x, Becomes(q, x) PROVE req'[q] = x
  BY <1>0, <1>1 DEF Becomes, PathTypeOK
<1>2. ASSUME r.at # "idle" PROVE r \in Request
  BY <1>0, <1>2, Running
<1>3. ASSUME NEW s \in Sessions, NEW m \in MinCgcs, NEW k \in Keys, Arrive(q, s, m, k)
      PROVE  Fits(req'[q])
  BY <1>1, <1>3 DEF Arrive, Fits
<1>4. ASSUME NEW s \in Sessions, NEW m \in MinCgcs, NEW e \in Clients,
             ArriveNamed(q, s, m, e)
      PROVE  Fits(req'[q])
  BY <1>1, <1>4 DEF ArriveNamed, Fits, Suits, Admits
<1>5. CASE Read(q) \/ Look(q)
  BY <1>0, <1>5, LookMoves DEF Fits
<1>6. CASE Take(q)
  <2> DEFINE e == last[r.session]
  <2>1. r \in Request /\ r.at = "take"
    BY <1>2, <1>6 DEF Take, At
  <2>2. CASE Suits(e, r)
    <3>1. req'[q] = [r EXCEPT !.at = "register", !.endpoint = e]
      BY <1>1, <1>6, <2>2 DEF Take
    <3> QED
      BY <2>1, <2>2, <3>1 DEF Fits, Request, Suits
  <2>3. CASE ~Suits(e, r)
    <3>1. req'[q] = [r EXCEPT !.at = "fork"]
      BY <1>1, <1>6, <2>3 DEF Take, Goto
    <3> QED
      BY <1>0, <2>1, <3>1 DEF Fits, Request
  <2> QED
    BY <2>2, <2>3
<1>7. CASE AskFork(q)
  <2>1. r \in Request /\ r.at = "fork" /\ req'[q] = [r EXCEPT !.at = "pick"]
    BY <1>1, <1>2, <1>7 DEF AskFork, At, Goto
  <2> QED
    BY <1>0, <2>1 DEF Fits, Request
<1>8. CASE Schedule(q)
  <2> DEFINE e == rrLastIndexes'[r.key]
             place == IF r.minCgc = 0 THEN "compare" ELSE "register"
  <2>a. r \in Request
    BY <1>2, <1>8 DEF Schedule, At
  <2>b. Suits(e, r)
    BY <1>0, <1>8, ScheduleReturns
  <2>1. r \in Request /\ Suits(e, r)
    BY <2>a, <2>b
  <2>2. req'[q] = [r EXCEPT !.endpoint = e, !.at = place]
    BY <1>1, <1>8 DEF Schedule
  <2>3. place \in {"compare", "register"}
    OBVIOUS
  <2> HIDE DEF e, place
  <2> QED
    BY <2>1, <2>2, <2>3 DEF Fits, Request, Suits
<1>9. ASSUME GetsNone(q), r.at \in {"fork", "pick"} PROVE Fits(req'[q])
  <2>1. r \in Request /\ r.endpoint = NoClient
    BY <1>0, <1>2, <1>9 DEF Fits
  <2>2. req'[q] = Idle \/ req'[q] = [r EXCEPT !.at = "compare"]
    BY <1>1, <1>9 DEF GetsNone
  <2> QED
    BY <2>1, <2>2, IdleFits DEF Fits, Request
<1>10. CASE NothingReady(q) \/ ScheduleNone(q)
  BY <1>9, <1>10 DEF NothingReady, ScheduleNone, At
<1>11. CASE Register(q)
  <2> DEFINE l == r.late \/ \E a \in Choosing(r.session) : At(a, "assign")
  <2>1. r \in Request /\ r.at = "register"
    BY <1>2, <1>11 DEF Register, At
  <2>2. req'[q] = [r EXCEPT !.at = "call", !.since = {}, !.late = l]
    BY <1>1, <1>11 DEF Register
  <2> HIDE DEF l
  <2> QED
    BY <1>0, <2>1, <2>2 DEF Fits, Request, Suits
<1>12. CASE EndCall(q)
  BY <1>1, <1>12, IdleFits DEF EndCall
<1> QED
  BY <1>3, <1>4, <1>5, <1>6, <1>7, <1>8, <1>10, <1>11, <1>12 DEF RequestStep

\* The one who gives the session its endpoint, and the others.
LEMMA SetFits ==
    ASSUME PathInv, FitsInv, NEW a \in Actors, SetLastPoolClient(a), NEW q \in Requests
    PROVE  Fits(req'[q])
<1>0. q \in Actors /\ q # Mover /\ PathTypeOK /\ Fits(req[q])
  BY RequestIsActor DEF PathInv, FitsInv
<1>1. CASE q = a
  <2>1. req[q] \in Request /\ req[q].at \in {"compare", "cancel", "assign"}
    BY <1>0, <1>1, SetterHasRequest
  <2>2. req[q].endpoint = NoClient \/ Suits(req[q].endpoint, req[q])
    BY <1>0, <2>1 DEF Fits
  <2>3. \/ req'[q] = Idle
        \/ req'[q] = [req[q] EXCEPT !.at = "register"] /\ req[q].endpoint # NoClient
        \/ req'[q] = [req[q] EXCEPT !.at = "cancel"]
        \/ req'[q] = [req[q] EXCEPT !.at = "assign"]
    BY <1>0, <1>1, SetterMoves DEF Continues
  <2> QED
    BY <2>1, <2>2, <2>3, IdleFits DEF Fits, Request, Suits
<1>2. CASE q # a
  <2>1. \/ req'[q] = req[q] \/ req'[q] = Idle
        \/ At(q, "register") /\ req'[q] = [req[q] EXCEPT !.late = TRUE]
    BY <1>0, <1>2, SetFrame
  <2>2. CASE At(q, "register") /\ req'[q] = [req[q] EXCEPT !.late = TRUE]
    <3>1. req[q] \in Request
      BY <1>0, <2>2, Running DEF At
    <3> QED
      BY <1>0, <2>2, <3>1 DEF At, Fits, Request, Suits
  <2> QED
    BY <1>0, <2>1, <2>2, IdleFits
<1> QED
  BY <1>1, <1>2

LEMMA FitsKept == PathInv /\ FitsInv /\ [PathNext]_allVars => FitsInv'
<1> SUFFICES ASSUME PathInv, FitsInv, [PathNext]_allVars, NEW p \in Requests
             PROVE  Fits(req'[p])
  BY DEF FitsInv, Fits, Suits, Admits
<1>0. p \in Actors /\ p # Mover /\ PathTypeOK /\ Fits(req[p])
  BY RequestIsActor DEF PathInv, FitsInv
<1>a. ASSUME NEW S \in SUBSET Clients, EverybodyLearns(S) PROVE Fits(req'[p])
  <2>1. req'[p] = req[p] \/ (req[p] \in Request /\ req'[p] = [req[p] EXCEPT !.since = @ \cup S])
    BY <1>0, <1>a, Learned
  <2> QED
    BY <1>0, <2>1 DEF Fits, Request, Suits
<1>1. CASE UNCHANGED allVars
  BY <1>0, <1>1 DEF allVars, pathVars
<1>2. ASSUME NEW R \in SUBSET Clients, ForkChanges(R) PROVE Fits(req'[p])
  BY <1>2, <1>a DEF ForkChanges
<1>3. ASSUME NEW q \in Requests, RequestStep(q) PROVE Fits(req'[p])
  BY <1>0, <1>3, RequestFits, RequestFrame
<1>4. ASSUME NEW a \in Actors, SetLastPoolClient(a) PROVE Fits(req'[p])
  BY <1>4, SetFits
<1>5. CASE Rebalancer
  BY <1>0, <1>5, <1>a, RebalancerFrame
<1> QED
  BY <1>1, <1>2, <1>3, <1>4, <1>5 DEF PathNext

\* Whatever endpoint a request ends with has its type and its custody groups.
THEOREM RequestsFit == PathSpec => []FitsRequest
<1>1. PathInit => FitsInv
  BY RequestIsActor DEF PathInit, FitsInv, Fits, Idle
<1>2. FitsInv => FitsRequest
  BY DEF FitsInv, Fits, FitsRequest
<1> QED
  BY <1>1, <1>2, PathInvariant, FitsKept, PTL DEF PathSpec

-----------------------------------------------------------------------------
(* The calls of a session are on its endpoint. *)

\* A request that takes the session's endpoint and is about to be registered,
\* or registered, is on the session's endpoint or late.
OnEndpoint(r, l) ==
    r.at \in {"register", "call"} /\ ~r.named /\ r.minCgc = 0 /\ ~r.late
       => r.endpoint = l[r.session]

\* And a call that is there while another endpoint is about to be assigned
\* came too late for cancelActiveConnections.
StrayInv ==
    \A q \in Requests :
       /\ OnEndpoint(req[q], last)
       /\ At(q, "call") =>
             \A a \in Actors :
                At(a, "assign") /\ req[a].session = req[q].session => req[q].late

LEMMA StrayInit == PathInit => StrayInv
BY RequestIsActor DEF PathInit, StrayInv, OnEndpoint, At, Idle

\* A step of the request itself.
LEMMA RequestStaysOn ==
    ASSUME PathInv, StrayInv, NEW q \in Requests, RequestStep(q)
    PROVE  OnEndpoint(req'[q], last)
<1> DEFINE r == req[q]
<1>0. q \in Actors /\ PathTypeOK /\ OnEndpoint(r, last)
  BY RequestIsActor DEF PathInv, StrayInv
<1>1. ASSUME NEW x, Becomes(q, x) PROVE req'[q] = x
  BY <1>0, <1>1 DEF Becomes, PathTypeOK
<1>2. ASSUME r.at # "idle" PROVE r \in Request
  BY <1>0, <1>2, Running
<1>a. ASSUME NEW place \in Places, place \notin {"register", "call"}, r \in Request,
             Becomes(q, [r EXCEPT !.at = place])
      PROVE  OnEndpoint(req'[q], last)
  BY <1>1, <1>a DEF OnEndpoint, Request
<1>b. OnEndpoint(Idle, last)
  BY DEF OnEndpoint, Idle
<1>3. ASSUME NEW s \in Sessions, NEW m \in MinCgcs, NEW k \in Keys, Arrive(q, s, m, k)
      PROVE  OnEndpoint(req'[q], last)
  BY <1>1, <1>3 DEF Arrive, OnEndpoint
<1>4. ASSUME NEW s \in Sessions, NEW m \in MinCgcs, NEW e \in Clients,
             ArriveNamed(q, s, m, e)
      PROVE  OnEndpoint(req'[q], last)
  BY <1>1, <1>4 DEF ArriveNamed, OnEndpoint
<1>5. CASE Read(q) \/ Look(q)
  BY <1>0, <1>5, LookMoves DEF OnEndpoint
<1>6. CASE Take(q)
  <2> DEFINE e == last[r.session]
  <2>1. r \in Request
    BY <1>2, <1>6 DEF Take, At
  <2>2. CASE Suits(e, r)
    <3>1. req'[q] = [r EXCEPT !.at = "register", !.endpoint = e]
      BY <1>1, <1>6, <2>2 DEF Take
    <3> QED
      BY <2>1, <3>1 DEF OnEndpoint, Request
  <2>3. CASE ~Suits(e, r)
    BY <1>6, <1>a, <2>1, <2>3 DEF Take, Goto, Places
  <2> QED
    BY <2>2, <2>3
<1>7. CASE AskFork(q)
  BY <1>2, <1>7, <1>a DEF AskFork, At, Goto, Places
<1>8. CASE Schedule(q)
  <2> DEFINE e == rrLastIndexes'[r.key]
             place == IF r.minCgc = 0 THEN "compare" ELSE "register"
  <2>1. r \in Request
    BY <1>2, <1>8 DEF Schedule, At
  <2>2. req'[q] = [r EXCEPT !.endpoint = e, !.at = place]
    BY <1>1, <1>8 DEF Schedule
  <2>3. r.minCgc = 0 => place = "compare"
    OBVIOUS
  <2> HIDE DEF e, place
  <2> QED
    BY <2>1, <2>2, <2>3 DEF OnEndpoint, Request
<1>9. ASSUME GetsNone(q), r.at # "idle" PROVE OnEndpoint(req'[q], last)
  <2>1. req'[q] = Idle \/ Becomes(q, [r EXCEPT !.at = "compare"])
    BY <1>1, <1>9 DEF GetsNone
  <2> QED
    BY <1>2, <1>9, <1>a, <1>b, <2>1 DEF Places
<1>10. CASE NothingReady(q) \/ ScheduleNone(q)
  BY <1>9, <1>10 DEF NothingReady, ScheduleNone, At
<1>11. CASE Register(q)
  <2> DEFINE l == r.late \/ \E a \in Choosing(r.session) : At(a, "assign")
  <2>1. r \in Request /\ r.at = "register"
    BY <1>2, <1>11 DEF Register, At
  <2>2. req'[q] = [r EXCEPT !.at = "call", !.since = {}, !.late = l]
    BY <1>1, <1>11 DEF Register
  <2>3. r.late => l
    OBVIOUS
  <2> HIDE DEF l
  <2> QED
    BY <1>0, <2>1, <2>2, <2>3 DEF OnEndpoint, Request
<1>12. CASE EndCall(q)
  BY <1>1, <1>12, <1>b DEF EndCall
<1> QED
  BY <1>3, <1>4, <1>5, <1>6, <1>7, <1>8, <1>10, <1>11, <1>12 DEF RequestStep

\* Of the steps of a request only Register leads to a call, and it notices who
\* is about to assign another endpoint; and none leads to "assign".
LEMMA OnlyRegisterCalls ==
    ASSUME PathInv, NEW q \in Requests, RequestStep(q)
    PROVE  /\ req'[q].at # "assign"
           /\ req'[q].at = "call" =>
                 /\ req[q] \in Request
                 /\ req'[q].session = req[q].session
                 /\ \A a \in Actors :
                       At(a, "assign") /\ req[a].session = req[q].session => req'[q].late
<1> DEFINE r == req[q]
<1>0. q \in Actors /\ PathTypeOK
  BY RequestIsActor DEF PathInv
<1>1. ASSUME NEW x, Becomes(q, x) PROVE req'[q] = x
  BY <1>0, <1>1 DEF Becomes, PathTypeOK
<1>2. ASSUME r.at # "idle" PROVE r \in Request
  BY <1>0, <1>2, Running
<1>a. ASSUME NEW place \in Places, Goto(q, place), r.at # "idle"
      PROVE  req'[q].at = place
  BY <1>1, <1>2, <1>a DEF Goto, Request
<1>3. CASE Register(q)
  <2> DEFINE l == r.late \/ \E a \in Choosing(r.session) : At(a, "assign")
  <2>1. r \in Request
    BY <1>2, <1>3 DEF Register, At
  <2>2. req'[q] = [r EXCEPT !.at = "call", !.since = {}, !.late = l]
    BY <1>1, <1>3 DEF Register
  <2>3. \A a \in Actors : At(a, "assign") /\ req[a].session = r.session => l
    BY DEF Choosing, At
  <2> HIDE DEF l
  <2> QED
    BY <2>1, <2>2, <2>3 DEF Request
<1>4. ASSUME ~Register(q)
      PROVE  req'[q].at \notin {"assign", "call"}
  <2>1. ASSUME NEW s \in Sessions, NEW m \in MinCgcs, NEW k \in Keys, Arrive(q, s, m, k)
        PROVE  req'[q].at \notin {"assign", "call"}
    BY <1>1, <2>1 DEF Arrive
  <2>2. ASSUME NEW s \in Sessions, NEW m \in MinCgcs, NEW e \in Clients,
               ArriveNamed(q, s, m, e)
        PROVE  req'[q].at \notin {"assign", "call"}
    BY <1>1, <2>2 DEF ArriveNamed
  <2>3. CASE Read(q) \/ Look(q)
    BY <1>0, <2>3, LookMoves
  <2>4. CASE Take(q)
    <3>1. r \in Request
      BY <1>2, <2>4 DEF Take, At
    <3>2. CASE Suits(last[r.session], r)
      BY <1>1, <2>4, <3>1, <3>2 DEF Take, Request
    <3>3. CASE ~Suits(last[r.session], r)
      BY <1>a, <2>4, <3>3 DEF Take, At, Places
    <3> QED
      BY <3>2, <3>3
  <2>5. CASE AskFork(q)
    BY <1>a, <2>5 DEF AskFork, At, Places
  <2>6. CASE Schedule(q)
    <3>1. r \in Request
      BY <1>2, <2>6 DEF Schedule, At
    <3> QED
      BY <1>1, <2>6, <3>1 DEF Schedule, Request
  <2>7. ASSUME GetsNone(q), r.at # "idle" PROVE req'[q].at \notin {"assign", "call"}
    <3>1. r \in Request
      BY <1>2, <2>7
    <3>2. req'[q] = Idle \/ req'[q] = [r EXCEPT !.at = "compare"]
      BY <1>1, <2>7 DEF GetsNone
    <3> QED
      BY <3>1, <3>2 DEF Idle, Request
  <2>8. CASE NothingReady(q) \/ ScheduleNone(q)
    BY <2>7, <2>8 DEF NothingReady, ScheduleNone, At
  <2>9. CASE EndCall(q)
    BY <1>1, <2>9 DEF EndCall, Idle
  <2> QED
    BY <1>4, <2>1, <2>2, <2>3, <2>4, <2>5, <2>6, <2>8, <2>9 DEF RequestStep
<1> QED
  BY <1>3, <1>4

\* What StrayInv says of a request.
NotStray(p) ==
    /\ OnEndpoint(req[p], last)
    /\ At(p, "call") =>
          \A a \in Actors :
             At(a, "assign") /\ req[a].session = req[p].session => req[p].late

\* Giving the session an endpoint, step by step.
LEMMA SetNotStray ==
    ASSUME PathInv, StrayInv, NEW a \in Actors, SetLastPoolClient(a), NEW p \in Requests
    PROVE  NotStray(p)'
<1>0. /\ p \in Actors /\ p # Mover /\ PathTypeOK /\ NotStray(p)
      /\ req[a] \in Request
      /\ \A b \in Actors : req[b].at # "idle" => req[b] \in Request
  BY RequestIsActor, SetterHasRequest, Running DEF PathInv, StrayInv, NotStray
<1>1. p = a => ~At(p, "call")'
  BY <1>0, SetterPlace DEF At
<1>2. CASE Compare(a)
  <2>1. last' = last /\ \A b \in Actors : b # a => req'[b] = req[b]
    BY <1>0, <1>2 DEF Compare, Goto, Becomes, PathTypeOK
  <2>2. \/ req'[a] = Continues(a) /\ last[req[a].session] = req[a].endpoint
        \/ req'[a] = [req[a] EXCEPT !.at = "cancel"]
    BY <1>0, <1>2 DEF Compare, Goto, Becomes, PathTypeOK
  <2>3. req'[a].at # "assign" /\ OnEndpoint(req'[a], last)
    BY <1>0, <2>2 DEF Continues, Idle, OnEndpoint, Request
  <2> QED
    BY <1>0, <1>1, <2>1, <2>3 DEF NotStray, At
<1>3. CASE CancelCalls(a)
  <2>1. /\ last' = last
        /\ req'[a] = [req[a] EXCEPT !.at = "assign"]
        /\ \A b \in Actors : b # a => req'[b] = req[b] \/ req'[b] = Idle
        /\ \A b \in Actors : b # a /\ At(b, "call") /\ req[b].session = req[a].session
              => req'[b] = Idle
    BY <1>0, <1>3 DEF CancelCalls, PathTypeOK
  <2>2. req'[a].at = "assign" /\ req'[a].session = req[a].session
    BY <1>0, <2>1 DEF Request
  <2>a. OnEndpoint(Idle, last) /\ Idle.at = "idle"
    BY DEF OnEndpoint, Idle
  <2>b. p # a => req'[p] = req[p] \/ req'[p] = Idle
    BY <1>0, <2>1
  <2>3. OnEndpoint(req'[p], last)
    <3>1. CASE p = a
      BY <2>2, <3>1 DEF OnEndpoint
    <3>2. CASE p # a
      BY <1>0, <2>a, <2>b, <3>2 DEF NotStray
    <3> QED
      BY <3>1, <3>2
  <2>4. ASSUME At(p, "call")', NEW b \in Actors, At(b, "assign")',
               req'[b].session = req'[p].session
        PROVE  req'[p].late
    <3>1. p # a /\ req'[p] = req[p] /\ At(p, "call") /\ req[p].session # req[a].session
      <4>1. p # a
        BY <2>2, <2>4 DEF At
      <4>2. req'[p] # Idle
        BY <2>4, <2>a DEF At
      <4> QED
        BY <1>0, <2>1, <2>4, <2>b, <4>1, <4>2 DEF At
    <3>2. b # a /\ req'[b] = req[b]
      <4>1. b # a
        BY <2>2, <2>4, <3>1
      <4>2. req'[b] # Idle
        BY <2>4, <2>a DEF At
      <4> QED
        BY <2>1, <4>1, <4>2
    <3> QED
      BY <1>0, <2>4, <3>1, <3>2 DEF NotStray, At
  <2> QED
    BY <2>1, <2>3, <2>4 DEF NotStray
<1>4. CASE Assign(a)
  <2>1. req[a].session \in Sessions
    BY <1>0 DEF Request
  <2>2. /\ At(a, "assign")
        /\ last' = [last EXCEPT ![req[a].session] = req[a].endpoint]
        /\ req'[a] = Continues(a)
    BY <1>0, <1>4 DEF Assign, PathTypeOK
  <2>3. ASSUME NEW b \in Actors, b # a
        PROVE  \/ /\ At(b, "register") /\ req[b].session = req[a].session
                  /\ req'[b] = [req[b] EXCEPT !.late = TRUE]
               \/ /\ ~(At(b, "register") /\ req[b].session = req[a].session)
                  /\ req'[b] = req[b]
    BY <1>0, <1>4, <2>3 DEF Assign, PathTypeOK
  <2>4. last'[req[a].session] = req[a].endpoint
    BY <1>0, <2>1, <2>2 DEF PathTypeOK
  <2>5. CASE p = a
    <3>1. req'[p] = Idle \/ req'[p] = [req[p] EXCEPT !.at = "register"]
      BY <2>2, <2>5 DEF Continues
    <3> QED
      BY <1>0, <1>1, <2>4, <2>5, <3>1 DEF NotStray, OnEndpoint, Idle, Request
  <2>6. CASE p # a
    <3>1. CASE At(p, "register") /\ req[p].session = req[a].session
      <4>1. req'[p] = [req[p] EXCEPT !.late = TRUE] /\ req[p] \in Request
        BY <1>0, <2>3, <2>6, <3>1 DEF At
      <4> QED
        BY <3>1, <4>1 DEF NotStray, OnEndpoint, At, Request
    <3>2. CASE ~(At(p, "register") /\ req[p].session = req[a].session)
      <4>1. req'[p] = req[p]
        BY <1>0, <2>3, <2>6, <3>2
      <4>2. ASSUME At(p, "call"), req[p].session = req[a].session PROVE req[p].late
        BY <1>0, <2>2, <4>2 DEF NotStray
      <4>3. ASSUME req[p].at # "idle", req[p].session # req[a].session
            PROVE  last'[req[p].session] = last[req[p].session]
        BY <1>0, <2>1, <2>2, <4>3 DEF PathTypeOK, Request
      <4>4. OnEndpoint(req'[p], last')
        BY <1>0, <3>2, <4>1, <4>2, <4>3 DEF NotStray, OnEndpoint, At
      <4>5. ASSUME At(p, "call")', NEW b \in Actors, At(b, "assign")',
                   req'[b].session = req'[p].session
            PROVE  req'[p].late
        <5>1. b # a
          BY <1>0, <2>2, <4>5 DEF Continues, Idle, At, Request
        <5>2. req'[b] = req[b]
          <6>1. CASE req'[b] = [req[b] EXCEPT !.late = TRUE] /\ At(b, "register")
            BY <1>0, <4>5, <6>1 DEF At, Request
          <6> QED
            BY <2>3, <5>1, <6>1
        <5> QED
          BY <1>0, <4>1, <4>5, <5>2 DEF NotStray, At
      <4> QED
        BY <4>4, <4>5 DEF NotStray
    <3> QED
      BY <3>1, <3>2
  <2> QED
    BY <2>5, <2>6
<1> QED
  BY <1>2, <1>3, <1>4 DEF SetLastPoolClient

LEMMA StrayKept == PathInv /\ StrayInv /\ [PathNext]_allVars => StrayInv'
<1> SUFFICES ASSUME PathInv, StrayInv, [PathNext]_allVars, NEW p \in Requests
             PROVE  NotStray(p)'
  BY DEF StrayInv, NotStray, OnEndpoint, At
<1>0. p \in Actors /\ p # Mover /\ PathTypeOK /\ NotStray(p)
  BY RequestIsActor DEF PathInv, StrayInv, NotStray
<1>a. ASSUME NEW S \in SUBSET Clients, EverybodyLearns(S), last' = last PROVE NotStray(p)'
  BY <1>0, <1>a, LearnStep DEF NotStray, OnEndpoint, At
<1>1. CASE UNCHANGED allVars
  BY <1>0, <1>1 DEF allVars, pathVars, NotStray, OnEndpoint, At
<1>2. ASSUME NEW R \in SUBSET Clients, ForkChanges(R) PROVE NotStray(p)'
  BY <1>2, <1>a DEF ForkChanges
<1>3. ASSUME NEW q \in Requests, RequestStep(q) PROVE NotStray(p)'
  <2>1. last' = last /\ \A b \in Actors : b # q => req'[b] = req[b]
    BY <1>0, <1>3, RequestFrame
  <2>2. req'[q].at # "assign"
    BY <1>3, OnlyRegisterCalls
  <2>3. CASE p = q
    <3>1. OnEndpoint(req'[p], last)
      BY <1>3, <2>3, RequestStaysOn
    <3>2. ASSUME At(p, "call")', NEW b \in Actors, At(b, "assign")',
                 req'[b].session = req'[p].session
          PROVE  req'[p].late
      BY <1>3, <2>1, <2>2, <2>3, <3>2, OnlyRegisterCalls DEF At
    <3> QED
      BY <2>1, <3>1, <3>2 DEF NotStray
  <2>4. CASE p # q
    BY <1>0, <2>1, <2>2, <2>4 DEF NotStray, OnEndpoint, At
  <2> QED
    BY <2>3, <2>4
<1>4. ASSUME NEW a \in Actors, SetLastPoolClient(a) PROVE NotStray(p)'
  BY <1>4, SetNotStray
<1>5. CASE Rebalancer
  <2>1. last' = last
    BY <1>0, <1>5, RebalancerFrame
  <2>2. ASSUME \A b \in Actors : req'[b] = req[b] \/ (b = Mover /\ req'[b].at = "compare")
        PROVE  NotStray(p)'
    BY <1>0, <2>1, <2>2 DEF NotStray, OnEndpoint, At
  <2> QED
    BY <1>0, <1>5, <1>a, <2>1, <2>2, RebalancerFrame
<1> QED
  BY <1>1, <1>2, <1>3, <1>4, <1>5 DEF PathNext

\* The calls of a session follow its endpoint, whoever moves it, except those
\* that slip between the choice of their endpoint and addActiveContext.
THEOREM CallsFollowTheSession == PathSpec => []StraysAreLate
<1>1. StrayInv => StraysAreLate
  BY DEF StrayInv, OnEndpoint, StraysAreLate, At
<1> QED
  BY <1>1, StrayInit, StrayKept, PathInvariant, PTL DEF PathSpec

-----------------------------------------------------------------------------
(* The endpoint was ready. *)

\* The clients that an actor may still give to its session: those it has read
\* in the canonical fork, or the one it has chosen.
Brings(a) ==
    {c \in Clients :
        \/ a # Mover /\ At(a, "pick") /\ c \in calls[a].seen
        \/ req[a].at \in {"compare", "cancel", "assign"} /\ c = req[a].endpoint}

IsChoosing(a) == req[a].at \notin {"idle", "register", "call"}

\* What is ready, and what the run of the rebalancer works with.
Sources == ready \cup (keys \ {NoClient})

\* A request that may take the endpoint of its session counts it as ready,
\* unless that is the one that it has read and has not looked at yet.
MayTake(q) ==
    req[q].at \in {"look", "take"} /\ last[req[q].session] \in Clients
       => last[req[q].session] \in req[q].since \cup {req[q].endpoint}

\* A request that is still choosing counts as ready all that, and what anybody
\* may give to its session.
KnowsSources(q) ==
    /\ Sources \subseteq req[q].since
    /\ \A a \in Actors :
          IsChoosing(a) /\ req[a].session = req[q].session => Brings(a) \subseteq req[q].since
    /\ MayTake(q)

SinceInv ==
    /\ \A a \in Actors : Brings(a) \subseteq req[a].since
    /\ \A q \in Requests : IsChoosing(q) => KnowsSources(q)
    /\ AnsweredFromReady

\* Nobody brings anything who is not choosing.
LEMMA OnlyChoosersBring ==
    ASSUME NEW a, Brings(a) # {}
    PROVE  IsChoosing(a)
BY DEF Brings, IsChoosing, At

LEMMA SinceInit == PathInit => SinceInv
BY RequestIsActor DEF PathInit, SinceInv, Brings, IsChoosing, AnsweredFromReady, At, Idle

\* Whoever arrives counts all of that as ready.
LEMMA OfferedCovers ==
    ASSUME PathTypeOK, SinceInv, NEW s \in Sessions
    PROVE  /\ Sources \subseteq Offered(s)
           /\ \A a \in Actors :
                 IsChoosing(a) /\ req[a].session = s => Brings(a) \subseteq Offered(s)
<1>1. ASSUME NEW a \in Actors, IsChoosing(a), req[a].session = s
      PROVE  Brings(a) \subseteq Offered(s)
  <2>1. a \in Choosing(s)
    BY <1>1 DEF Choosing, IsChoosing
  <2>2. Brings(a) \subseteq req[a].since
    BY DEF SinceInv
  <2> QED
    BY <2>1, <2>2 DEF Offered
<1> QED
  BY <1>1 DEF Offered, Sources

\* A request that goes on to another place with the record it has.
LEMMA PlainMove ==
    ASSUME PathTypeOK, NEW q \in Requests, NEW place \in Places, req[q].at # "idle",
           Goto(q, place)
    PROVE  /\ req'[q].at = place
           /\ req'[q].session = req[q].session
           /\ req'[q].since = req[q].since
           /\ req'[q].endpoint = req[q].endpoint
           /\ req'[q].named = req[q].named
<1>1. req[q] \in Request /\ q \in Actors
  BY RequestIsActor, Running
<1>2. req'[q] = [req[q] EXCEPT !.at = place]
  BY <1>1 DEF Goto, Becomes, PathTypeOK
<1> QED
  BY <1>1, <1>2 DEF Request

\* What a step does to the request that takes it.
StepOfRequest(q) ==
    /\ Brings(q)' \subseteq Brings(q) \cup ready
    /\ IsChoosing(q)' =>
          \/ /\ req'[q].session \in Sessions
             /\ req'[q].since = Offered(req'[q].session)
             /\ Brings(q)' = {}
             /\ req'[q].at \notin {"look", "take"}
          \/ /\ IsChoosing(q)
             /\ req'[q].session = req[q].session
             /\ req'[q].since = req[q].since
             /\ req'[q].at \in {"look", "take"} =>
                   \/ last[req[q].session] = req'[q].endpoint
                   \/ MayTake(q) /\ req[q].at = "look" /\ req[q].endpoint \in ready
    /\ At(q, "register")' /\ ~req'[q].named => req'[q].endpoint \in req'[q].since

LEMMA EveryStepOfRequest ==
    ASSUME PathInv, FitsInv, SinceInv, NEW q \in Requests, RequestStep(q)
    PROVE  StepOfRequest(q)
<1> DEFINE r == req[q]
<1>0. q \in Actors /\ q # Mover /\ PathTypeOK /\ AskedInv /\ Fits(r)
  BY RequestIsActor DEF PathInv, FitsInv
<1>1. ASSUME NEW x, Becomes(q, x) PROVE req'[q] = x
  BY <1>0, <1>1 DEF Becomes, PathTypeOK
<1>2. ASSUME r.at # "idle" PROVE r \in Request
  BY <1>0, <1>2, Running
<1>a. ASSUME req'[q] = Idle PROVE StepOfRequest(q)
  BY <1>a DEF StepOfRequest, Brings, IsChoosing, At, Idle
\* It goes on without an endpoint.
<1>b. ASSUME NEW place \in {"fork", "compare"}, IsChoosing(q), r.endpoint = NoClient,
             Goto(q, place)
      PROVE  StepOfRequest(q)
  <2>1. /\ req'[q].at = place /\ req'[q].session = r.session
        /\ req'[q].since = r.since /\ req'[q].endpoint = r.endpoint
    BY <1>0, <1>b, PlainMove DEF Places, IsChoosing
  <2>2. Brings(q)' = {}
    BY <1>b, <2>1, PathAssumption DEF Brings, At
  <2> QED
    BY <1>b, <2>1, <2>2 DEF StepOfRequest, At
<1>3. ASSUME NEW s \in Sessions, NEW m \in MinCgcs, NEW k \in Keys, Arrive(q, s, m, k)
      PROVE  StepOfRequest(q)
  <2>1. /\ req'[q].at \in {"read", "fork"} /\ req'[q].session = s
        /\ req'[q].since = Offered(s)
    BY <1>1, <1>3 DEF Arrive
  <2>2. Brings(q)' = {}
    BY <2>1 DEF Brings, At
  <2> QED
    BY <2>1, <2>2 DEF StepOfRequest, At
<1>4. ASSUME NEW s \in Sessions, NEW m \in MinCgcs, NEW e \in Clients,
             ArriveNamed(q, s, m, e)
      PROVE  StepOfRequest(q)
  <2>1. req'[q].at = "register" /\ req'[q].named
    BY <1>1, <1>4 DEF ArriveNamed
  <2> QED
    BY <2>1 DEF StepOfRequest, Brings, IsChoosing, At
<1>5. CASE Read(q) \/ Look(q)
  <2>1. IsChoosing(q) /\ req'[q].at \in {"look", "take", "fork"}
    BY <1>0, <1>5, LookMoves DEF IsChoosing
  <2>2. Brings(q)' = {}
    BY <2>1 DEF Brings, At
  <2>3. req'[q].at \in {"look", "take"} =>
           \/ last[r.session] = req'[q].endpoint
           \/ MayTake(q) /\ r.at = "look" /\ r.endpoint \in ready
    BY <1>0, <1>5, <2>1, LookMoves DEF SinceInv, KnowsSources
  <2> QED
    BY <1>0, <1>5, <2>1, <2>2, <2>3, LookMoves DEF StepOfRequest, At
<1>6. CASE Take(q)
  <2> DEFINE e == last[r.session]
  <2>1. IsChoosing(q) /\ r.endpoint = NoClient /\ At(q, "take") /\ r \in Request
    BY <1>0, <1>2, <1>6 DEF Take, At, IsChoosing, Fits
  <2>2. CASE Suits(e, r)
    <3>1. req'[q] = [r EXCEPT !.at = "register", !.endpoint = e]
      BY <1>1, <1>6, <2>2 DEF Take
    <3>2. e \in r.since
      BY <2>1, <2>2, PathAssumption DEF SinceInv, KnowsSources, MayTake, Suits, At
    <3>3. req'[q].at = "register" /\ req'[q].endpoint = e /\ req'[q].since = r.since
      BY <2>1, <3>1 DEF Request
    <3> QED
      BY <3>2, <3>3 DEF StepOfRequest, Brings, IsChoosing, At
  <2>3. CASE ~Suits(e, r)
    BY <1>6, <1>b, <2>1, <2>3 DEF Take
  <2> QED
    BY <2>2, <2>3
<1>7. CASE AskFork(q)
  <2>1. IsChoosing(q) /\ At(q, "fork")
    BY <1>7 DEF AskFork, At, IsChoosing
  <2>2. /\ req'[q].at = "pick" /\ req'[q].session = r.session
        /\ req'[q].since = r.since
    BY <1>0, <1>7, <2>1, PlainMove DEF AskFork, Places, IsChoosing
  <2>3. calls'[q].seen = ready
    BY <1>0, <1>7 DEF AskFork, ReadFork, PathTypeOK, TypeOK
  <2> QED
    BY <2>1, <2>2, <2>3 DEF StepOfRequest, Brings, At
<1>8. CASE Schedule(q)
  <2> DEFINE e == rrLastIndexes'[r.key]
             place == IF r.minCgc = 0 THEN "compare" ELSE "register"
  <2>1. IsChoosing(q) /\ At(q, "pick") /\ r \in Request
    BY <1>2, <1>8 DEF Schedule, At, IsChoosing
  <2>2. e \in calls[q].seen /\ e \in Clients
    BY <1>0, <1>8, ScheduleReturns DEF Suits
  <2>3. req'[q] = [r EXCEPT !.endpoint = e, !.at = place]
    BY <1>1, <1>8 DEF Schedule
  <2>4. place \in {"compare", "register"}
    OBVIOUS
  <2> HIDE DEF e, place
  <2>5. /\ req'[q].at = place /\ req'[q].session = r.session
        /\ req'[q].since = r.since /\ req'[q].endpoint = e
    BY <2>1, <2>3 DEF Request
  <2>6. e \in Brings(q)
    BY <1>0, <2>1, <2>2 DEF Brings
  <2>7. e \in r.since
    BY <1>0, <2>6 DEF SinceInv
  <2>8. Brings(q)' \subseteq {e}
    BY <2>4, <2>5 DEF Brings, At
  <2> QED
    BY <2>1, <2>4, <2>5, <2>6, <2>7, <2>8 DEF StepOfRequest, At
<1>9. ASSUME GetsNone(q), r.at \in {"fork", "pick"} PROVE StepOfRequest(q)
  <2>1. IsChoosing(q) /\ r.endpoint = NoClient
    BY <1>0, <1>9 DEF IsChoosing, Fits
  <2>2. req'[q] = Idle \/ Goto(q, "compare")
    BY <1>1, <1>9 DEF GetsNone, Goto
  <2> QED
    BY <1>a, <1>b, <2>1, <2>2
<1>10. CASE NothingReady(q) \/ ScheduleNone(q)
  BY <1>9, <1>10 DEF NothingReady, ScheduleNone, At
<1>11. CASE Register(q)
  <2> DEFINE l == r.late \/ \E a \in Choosing(r.session) : At(a, "assign")
  <2>1. r \in Request
    BY <1>2, <1>11 DEF Register, At
  <2>2. req'[q] = [r EXCEPT !.at = "call", !.since = {}, !.late = l]
    BY <1>1, <1>11 DEF Register
  <2> HIDE DEF l
  <2>3. req'[q].at = "call"
    BY <2>1, <2>2 DEF Request
  <2> QED
    BY <2>3 DEF StepOfRequest, Brings, IsChoosing, At
<1>12. CASE EndCall(q)
  BY <1>1, <1>12, <1>a DEF EndCall
<1> QED
  BY <1>3, <1>4, <1>5, <1>6, <1>7, <1>8, <1>10, <1>11, <1>12 DEF RequestStep

LEMMA RequestKeepsReady ==
    ASSUME NEW q \in Requests, RequestStep(q)
    PROVE  ready' = ready
BY DEF vars, RequestStep, Arrive, ArriveNamed, Read, Look, Take, AskFork, NothingReady,
       Schedule, ScheduleNone, Register, EndCall, ReadFork, Pick, PickNone

LEMMA RequestKeepsSince ==
    ASSUME PathInv, FitsInv, SinceInv, NEW q \in Requests, RequestStep(q)
    PROVE  SinceInv'
<1>0. PathTypeOK /\ q \in Actors /\ q # Mover /\ StepOfRequest(q)
  BY RequestIsActor, EveryStepOfRequest DEF PathInv
<1>1. Sources' = Sources /\ last' = last
  BY <1>0, RequestKeepsReady, RequestFrame DEF Sources, runVars
<1>2. \A b \in Actors : b # q => req'[b] = req[b]
  BY <1>0, RequestFrame
<1>3. ASSUME NEW b \in Actors, b # q PROVE Brings(b)' = Brings(b)
  <2>1. b # Mover => calls'[b] = calls[b]
    BY <1>0, <1>3, RequestFrame DEF Actors
  <2> QED
    BY <1>2, <1>3, <2>1 DEF Brings, At
<1>4. Brings(q)' \subseteq req'[q].since
  <2>1. CASE Brings(q)' = {}
    BY <2>1
  <2>2. CASE Brings(q)' # {}
    <3>1. IsChoosing(q)'
      BY <2>2 DEF Brings, IsChoosing, At
    <3>2. IsChoosing(q) /\ req'[q].since = req[q].since
      BY <1>0, <2>2, <3>1 DEF StepOfRequest
    <3> QED
      BY <1>0, <3>2 DEF StepOfRequest, SinceInv, KnowsSources, Sources
  <2> QED
    BY <2>1, <2>2
<1>5. ASSUME NEW p \in Requests, IsChoosing(p)' PROVE KnowsSources(p)'
  <2>0. p \in Actors
    BY RequestIsActor
  <2>1. CASE /\ p = q /\ req'[q].session \in Sessions
             /\ req'[q].since = Offered(req'[q].session)
             /\ Brings(q)' = {} /\ req'[q].at \notin {"look", "take"}
    <3> DEFINE s == req'[q].session
    <3>1. Sources \subseteq req'[q].since
      BY <1>0, <2>1, OfferedCovers
    <3>2. ASSUME NEW a \in Actors, IsChoosing(a)', req'[a].session = s
          PROVE  Brings(a)' \subseteq req'[q].since
      <4>1. CASE a = q
        BY <2>1, <4>1
      <4>2. CASE a # q
        <5>1. IsChoosing(a) /\ req[a].session = s
          BY <1>2, <3>2, <4>2 DEF IsChoosing
        <5> QED
          BY <1>0, <1>3, <2>1, <4>2, <5>1, OfferedCovers
      <4> QED
        BY <4>1, <4>2
    <3> QED
      BY <1>1, <2>1, <3>1, <3>2 DEF KnowsSources, MayTake
  <2>2. CASE /\ IsChoosing(p) /\ req'[p].session = req[p].session
             /\ req'[p].since = req[p].since
             /\ req'[p].at \in {"look", "take"} =>
                   \/ req'[p] = req[p]
                   \/ last[req[p].session] = req'[p].endpoint
                   \/ MayTake(p) /\ req[p].at = "look" /\ req[p].endpoint \in ready
    <3>1. KnowsSources(p)
      BY <2>2 DEF SinceInv
    <3>2. ASSUME NEW a \in Actors, IsChoosing(a)', req'[a].session = req'[p].session
          PROVE  Brings(a)' \subseteq req'[p].since
      <4>1. CASE a # q
        <5>1. IsChoosing(a) /\ req[a].session = req[p].session
          BY <1>2, <2>2, <3>2, <4>1 DEF IsChoosing
        <5> QED
          BY <1>3, <2>2, <3>1, <4>1, <5>1 DEF KnowsSources
      <4>2. CASE a = q
        <5>1. Brings(q)' = {} \/ (IsChoosing(q) /\ req'[q].session = req[q].session)
          BY <1>0, <3>2, <4>2 DEF StepOfRequest
        <5> QED
          BY <1>0, <2>2, <3>1, <3>2, <4>2, <5>1 DEF StepOfRequest, KnowsSources, Sources
      <4> QED
        BY <4>1, <4>2
    <3>3. MayTake(p)'
      BY <1>1, <2>2, <3>1 DEF KnowsSources, MayTake, Sources
    <3> QED
      BY <1>1, <2>2, <3>1, <3>2, <3>3 DEF KnowsSources
  <2>3. CASE p # q
    BY <1>2, <1>5, <2>0, <2>2, <2>3 DEF IsChoosing, At
  <2> QED
    BY <1>0, <1>5, <2>1, <2>2, <2>3 DEF StepOfRequest
<1>6. AnsweredFromReady'
  <2> SUFFICES ASSUME NEW p \in Requests, At(p, "register")', ~req'[p].named
               PROVE  req'[p].endpoint \in req'[p].since
    BY DEF AnsweredFromReady, At
  <2>1. CASE p = q
    BY <1>0, <2>1 DEF StepOfRequest
  <2>2. CASE p # q
    BY <1>2, <2>2, RequestIsActor DEF SinceInv, AnsweredFromReady, At
  <2> QED
    BY <2>1, <2>2
<1>7. \A a \in Actors : Brings(a)' \subseteq req'[a].since
  BY <1>2, <1>3, <1>4 DEF SinceInv
<1> QED
  BY <1>5, <1>6, <1>7 DEF SinceInv

\* Giving a session an endpoint brings nobody anything new, and the endpoint
\* is one that everybody who may take it counts as ready.
LEMMA SetKeepsSince ==
    ASSUME PathInv, FitsInv, SinceInv, NEW a \in Actors, SetLastPoolClient(a)
    PROVE  SinceInv'
<1>0. /\ PathTypeOK /\ req[a] \in Request
      /\ req[a].at \in {"compare", "cancel", "assign"}
  BY SetterHasRequest DEF PathInv
<1>1. Sources' = Sources /\ calls' = calls
  BY DEF SetLastPoolClient, Compare, CancelCalls, Assign, vars, runVars, Sources
\* The endpoint that is given.
<1>2. req[a].endpoint \in Clients => req[a].endpoint \in Brings(a)
  BY <1>0 DEF Brings
<1>3. ASSUME NEW s \in Sessions
      PROVE  last'[s] = last[s] \/ (s = req[a].session /\ last'[s] = req[a].endpoint)
  <2>1. CASE Assign(a)
    BY <1>0, <2>1 DEF Assign, PathTypeOK, Request
  <2>2. CASE ~Assign(a)
    BY <2>2 DEF SetLastPoolClient, Compare, CancelCalls
  <2> QED
    BY <2>1, <2>2
\* What becomes of each actor.
<1>4. ASSUME NEW b \in Actors
      PROVE  /\ Brings(b)' \subseteq Brings(b)
             /\ Brings(b)' \subseteq req'[b].since
             /\ IsChoosing(b)' => /\ IsChoosing(b)
                                  /\ req'[b].session = req[b].session
                                  /\ req'[b].since = req[b].since
                                  /\ \/ req'[b] = req[b]
                                     \/ req'[b].at \notin {"look", "take"}
             /\ At(b, "register")' /\ ~req'[b].named /\ b # Mover
                  => req'[b].endpoint \in req'[b].since
  <2>0. b # Mover => b \in Requests
    BY DEF Actors
  <2>a. CASE req'[b] = Idle
    BY <2>a DEF Brings, IsChoosing, At, Idle
  <2>b. CASE req'[b] = req[b]
    BY <1>1, <2>0, <2>b DEF SinceInv, AnsweredFromReady, Brings, IsChoosing, At
  <2>c. CASE At(b, "register") /\ req'[b] = [req[b] EXCEPT !.late = TRUE]
    <3>1. req[b] \in Request
      BY <1>0, <2>c, Running DEF At
    <3>2. /\ req'[b].at = "register" /\ req'[b].since = req[b].since
          /\ req'[b].endpoint = req[b].endpoint /\ req'[b].named = req[b].named
      BY <2>c, <3>1 DEF Request, At
    <3> QED
      BY <2>0, <2>c, <3>2 DEF SinceInv, AnsweredFromReady, Brings, IsChoosing, At
  <2>d. CASE b = a
    <3>1. CASE \E at \in {"cancel", "assign"} : req'[a] = [req[a] EXCEPT !.at = at]
      <4>1. /\ req'[a].at \in {"cancel", "assign"} /\ req'[a].session = req[a].session
            /\ req'[a].since = req[a].since /\ req'[a].endpoint = req[a].endpoint
        BY <1>0, <3>1 DEF Request
      <4>2. Brings(a)' \subseteq Brings(a)
        BY <1>0, <4>1 DEF Brings, At
      <4>3. IsChoosing(a)
        BY <1>0 DEF IsChoosing
      <4> QED
        BY <2>d, <4>1, <4>2, <4>3 DEF SinceInv, At
    <3>2. CASE req'[a] = Continues(a)
      <4>1. CASE Continues(a) = Idle
        BY <2>a, <2>d, <3>2, <4>1
      <4>2. CASE Continues(a) # Idle
        <5>1. /\ a # Mover /\ req[a].endpoint # NoClient
              /\ req'[a] = [req[a] EXCEPT !.at = "register"]
          BY <3>2, <4>2 DEF Continues
        <5>2. /\ req'[a].at = "register" /\ req'[a].since = req[a].since
              /\ req'[a].endpoint = req[a].endpoint
          BY <1>0, <5>1 DEF Request
        <5>3. req[a].endpoint \in req[a].since
          BY <1>0, <1>2, <5>1 DEF SinceInv, Request, Endpoints
        <5> QED
          BY <2>d, <5>2, <5>3 DEF Brings, IsChoosing, At
      <4> QED
        BY <4>1, <4>2
    <3> QED
      BY <1>0, <3>1, <3>2, SetterMoves
  <2> QED
    BY <1>0, <2>a, <2>b, <2>c, <2>d, SetFrame
<1>5. ASSUME NEW p \in Requests, IsChoosing(p)' PROVE KnowsSources(p)'
  <2>0. p \in Actors
    BY RequestIsActor
  <2>1. /\ IsChoosing(p) /\ req'[p].session = req[p].session
        /\ req'[p].since = req[p].since
        /\ req'[p] = req[p] \/ req'[p].at \notin {"look", "take"}
    BY <1>4, <1>5, <2>0
  <2>2. KnowsSources(p) /\ req[p].session \in Sessions
    BY <1>0, <2>0, <2>1, Running DEF SinceInv, IsChoosing, Request
  <2>3. \A b \in Actors : IsChoosing(b)' /\ req'[b].session = req'[p].session
           => Brings(b)' \subseteq req'[p].since
    BY <1>4, <2>1, <2>2 DEF KnowsSources
  <2>4. MayTake(p)'
    <3>1. CASE last'[req[p].session] = last[req[p].session]
      BY <2>1, <2>2, <3>1 DEF KnowsSources, MayTake
    <3>2. CASE req[p].session = req[a].session /\ last'[req[p].session] = req[a].endpoint
      <4>1. IsChoosing(a)
        BY <1>0 DEF IsChoosing
      <4> QED
        BY <1>2, <2>1, <2>2, <3>2, <4>1 DEF KnowsSources, MayTake
    <3> QED
      BY <1>3, <2>2, <3>1, <3>2
  <2> QED
    BY <1>1, <2>1, <2>2, <2>3, <2>4 DEF KnowsSources
<1>6. AnsweredFromReady'
  BY <1>4, RequestIsActor DEF AnsweredFromReady, At
<1> QED
  BY <1>4, <1>5, <1>6 DEF SinceInv

\* Whoever is choosing counts the clients that he learns of, and nobody else
\* needs to.
LEMMA LearningKeepsSince ==
    ASSUME PathInv, SinceInv, NEW S \in SUBSET Clients, EverybodyLearns(S),
           Sources' \subseteq Sources \cup S, last' = last, calls' = calls
    PROVE  SinceInv'
<1>0. PathTypeOK
  BY DEF PathInv
<1>2. ASSUME NEW b \in Actors
      PROVE  /\ IsChoosing(b)' <=> IsChoosing(b)
             /\ Brings(b)' = Brings(b)
             /\ IsChoosing(b) => /\ req'[b].at = req[b].at
                                 /\ req'[b].session = req[b].session
                                 /\ req'[b].endpoint = req[b].endpoint
                                 /\ req'[b].since = req[b].since \cup S
             /\ ~IsChoosing(b) => req'[b] = req[b]
  <2>1. CASE IsChoosing(b)
    <3>1. req[b] \in Request
      BY <1>0, <2>1, Running DEF IsChoosing
    <3>2. \E s \in Sessions : b \in Choosing(s)
      BY <2>1, <3>1 DEF IsChoosing, Choosing, Request
    <3>3. req'[b] = [req[b] EXCEPT !.since = @ \cup S]
      BY <3>2 DEF EverybodyLearns
    <3>4. /\ req'[b].at = req[b].at /\ req'[b].session = req[b].session
          /\ req'[b].since = req[b].since \cup S /\ req'[b].endpoint = req[b].endpoint
      BY <3>1, <3>3 DEF Request
    <3> QED
      BY <2>1, <3>4 DEF IsChoosing, Brings, At
  <2>2. CASE ~IsChoosing(b)
    <3>1. req'[b] = req[b]
      BY <2>2 DEF EverybodyLearns, Choosing, IsChoosing
    <3> QED
      BY <2>2, <3>1 DEF IsChoosing, Brings, At
  <2> QED
    BY <2>1, <2>2
<1>3. \A b \in Actors : Brings(b)' \subseteq req'[b].since
  BY <1>2 DEF SinceInv
<1>4. ASSUME NEW p \in Requests, IsChoosing(p)' PROVE KnowsSources(p)'
  <2>1. /\ p \in Actors /\ req'[p].at = req[p].at /\ req'[p].session = req[p].session
        /\ req'[p].endpoint = req[p].endpoint
        /\ req'[p].since = req[p].since \cup S /\ KnowsSources(p)
    BY <1>2, <1>4, RequestIsActor DEF SinceInv
  <2>2. MayTake(p)'
    BY <2>1 DEF KnowsSources, MayTake
  <2> QED
    BY <1>2, <2>1, <2>2 DEF KnowsSources
<1>5. AnsweredFromReady'
  <2> SUFFICES ASSUME NEW p \in Requests, At(p, "register")', ~req'[p].named
               PROVE  req'[p].endpoint \in req'[p].since
    BY DEF AnsweredFromReady, At
  <2>1. p \in Actors /\ req'[p] = req[p]
    BY <1>2, RequestIsActor DEF IsChoosing, At
  <2> QED
    BY <2>1 DEF SinceInv, AnsweredFromReady, At
<1> QED
  BY <1>3, <1>4, <1>5 DEF SinceInv

\* New ready clients are counted by everybody who is choosing.
LEMMA ForkKeepsSince ==
    ASSUME PathInv, SinceInv, NEW R \in SUBSET Clients, ForkChanges(R)
    PROVE  SinceInv'
<1>1. /\ EverybodyLearns(R) /\ last' = last /\ calls' = calls
      /\ ready' = R /\ keys' = keys
  BY DEF ForkChanges, ReadyChanges, runVars
<1>2. Sources' \subseteq Sources \cup R
  BY <1>1 DEF Sources
<1> QED
  BY <1>1, <1>2, LearningKeepsSince

\* So is the endpoint that the rebalancer counts for a session.
LEMMA CountKeepsSince ==
    ASSUME PathInv, SinceInv, NEW s \in Sessions, CountSession(s)
    PROVE  SinceInv'
<1> DEFINE S == {last[s]} \ {NoClient}
<1>1. S \in SUBSET Clients
  BY DEF PathInv, PathTypeOK, Endpoints
<1>2. /\ EverybodyLearns(S) /\ last' = last /\ calls' = calls
      /\ ready' = ready /\ keys' = keys \cup {last[s]}
  BY DEF CountSession, vars
<1>3. Sources' \subseteq Sources \cup S
  BY <1>2 DEF Sources
<1> HIDE DEF S
<1> QED
  BY <1>1, <1>2, <1>3, LearningKeepsSince

\* It moves sessions to clients that everybody counts as ready.
LEMMA RebalancerKeepsSince ==
    ASSUME PathInv, SinceInv, Rebalancer
    PROVE  SinceInv'
<1>0. PathTypeOK
  BY DEF PathInv
<1>1. ready' = ready /\ last' = last /\ calls' = calls
  BY <1>0, RebalancerFrame DEF vars
<1> SUFFICES ASSUME \A s \in Sessions : ~CountSession(s)
             PROVE  SinceInv'
  BY CountKeepsSince
<1>2. Sources' \subseteq Sources
  BY <1>1 DEF Rebalancer, StartRun, GetLock, CheckSession, CountDone, EndRun, Move, runVars,
              Sources
<1>3. \A b \in Actors : b # Mover => req'[b] = req[b]
  BY <1>0, RebalancerFrame
<1>4. ASSUME NEW b \in Actors, b # Mover PROVE Brings(b)' = Brings(b)
  BY <1>1, <1>3, <1>4 DEF Brings, At
<1>5. \/ req'[Mover] = req[Mover]
      \/ Brings(Mover)' \subseteq Sources /\ Brings(Mover)' \subseteq req'[Mover].since
  <2>1. ASSUME NEW s \in Sessions, NEW e \in Clients, Move(s, e)
        PROVE  Brings(Mover)' \subseteq Sources /\ Brings(Mover)' \subseteq req'[Mover].since
    <3>1. /\ req'[Mover].at = "compare" /\ req'[Mover].endpoint = e
          /\ req'[Mover].since = keys \ {NoClient}
      BY <1>0, <2>1 DEF Move, Becomes, PathTypeOK, Actors
    <3>2. e \in keys \ {NoClient}
      BY <2>1, PathAssumption DEF Move
    <3> QED
      BY <3>1, <3>2 DEF Brings, At, Sources
  <2> QED
    BY <1>0, <2>1, RebalancerFrame
<1>6. \A b \in Actors : Brings(b)' \subseteq req'[b].since
  <2>1. Brings(Mover)' \subseteq req'[Mover].since
    BY <1>1, <1>5 DEF SinceInv, Brings, At, Actors
  <2> QED
    BY <1>3, <1>4, <2>1 DEF SinceInv
<1>7. ASSUME NEW p \in Requests, IsChoosing(p)' PROVE KnowsSources(p)'
  <2>1. p \in Actors /\ req'[p] = req[p]
    BY <1>3, RequestIsActor
  <2>2. KnowsSources(p)
    BY <1>7, <2>1 DEF SinceInv, IsChoosing
  <2>3. ASSUME NEW b \in Actors, IsChoosing(b)', req'[b].session = req'[p].session
        PROVE  Brings(b)' \subseteq req'[p].since
    <3>1. CASE req'[b] = req[b]
      <4>1. Brings(b)' = Brings(b)
        BY <1>1, <3>1 DEF Brings, At
      <4> QED
        BY <2>1, <2>2, <2>3, <3>1, <4>1 DEF KnowsSources, IsChoosing
    <3>2. CASE b = Mover /\ Brings(Mover)' \subseteq Sources
      BY <2>1, <2>2, <3>2 DEF KnowsSources
    <3> QED
      BY <1>3, <1>5, <3>1, <3>2
  <2>4. MayTake(p)'
    BY <1>1, <2>1, <2>2 DEF KnowsSources, MayTake
  <2> QED
    BY <1>2, <2>1, <2>2, <2>3, <2>4 DEF KnowsSources
<1>8. AnsweredFromReady'
  BY <1>3, RequestIsActor DEF SinceInv, AnsweredFromReady, At
<1> QED
  BY <1>6, <1>7, <1>8 DEF SinceInv

LEMMA SinceKept == PathInv /\ FitsInv /\ SinceInv /\ [PathNext]_allVars => SinceInv'
<1> SUFFICES ASSUME PathInv, FitsInv, SinceInv, [PathNext]_allVars PROVE SinceInv'
  OBVIOUS
<1>1. CASE UNCHANGED allVars
  BY <1>1 DEF allVars, vars, pathVars, runVars, SinceInv, KnowsSources, MayTake, Sources,
              Brings, IsChoosing, AnsweredFromReady, At
<1> QED
  BY <1>1, RequestKeepsSince, SetKeepsSince, RebalancerKeepsSince, ForkKeepsSince
     DEF PathNext

\* A request is only ever answered by a client that was ready while it, or
\* somebody it may have the client from, was choosing, or that the rebalancer
\* has counted meanwhile: although it reads the endpoint of its session twice,
\* and others assign it without a lock.
THEOREM AnswersWereReady == PathSpec => []AnsweredFromReady
<1>1. PathInit => FitsInv
  BY RequestIsActor DEF PathInit, FitsInv, Fits, Idle
<1>2. SinceInv => AnsweredFromReady
  BY DEF SinceInv
<1> QED
  BY <1>1, <1>2, SinceInit, SinceKept, PathInvariant, FitsKept, PTL DEF PathSpec

=============================================================================
