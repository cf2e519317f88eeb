---------------------------- MODULE SessionProofs ----------------------------
(***************************************************************************)
(* Proofs about the table of sessions and a call that holds one of them,   *)
(* for any addresses, prefixes, limits and timeouts.                       *)
(***************************************************************************)
EXTENDS SessionCall, ProxyCallProofs

\* The limiter of a group that is removed is as full as a new one: it has
\* refilled since the group was seen last.
Refilling ==
    \A a \in Addrs :
       /\ tokens[a] = Burst \/ tokens[a] >= Rate * seen[a]
       /\ a \notin groups => tokens[a] = Burst

\* A group is at least as fresh as each of its sessions.
GroupsOutliveSessions ==
    \A k \in sessions : k[1] \in groups /\ seen[k[1]] <= used[k]

TableInv == TableTypeOK /\ Refilling /\ GroupsOutliveSessions

LEMMA NextMultiple == \A n \in Nat : Rate * (n + 1) = Rate * n + Rate
BY LimitAssumption

LEMMA NoMultiple == Rate * 0 = 0
BY LimitAssumption

LEMMA OlderIsAge ==
    ASSUME NEW n \in Ages
    PROVE  /\ Older(n) \in Ages
           /\ Older(n) = n \/ Older(n) = n + 1
BY LimitAssumption DEF Ages, Older

\* Time makes none of two ages the smaller one.
LEMMA OlderKeepsOrder ==
    ASSUME NEW m \in Ages, NEW n \in Ages, m <= n
    PROVE  Older(m) <= Older(n)
BY LimitAssumption DEF Ages, Older

LEMMA RefilledIsLevel ==
    ASSUME NEW n \in 0 .. Burst
    PROVE  /\ Refilled(n) \in 0 .. Burst
           /\ Refilled(n) = Burst \/ Refilled(n) = n + Rate
BY LimitAssumption DEF Refilled

LEMMA RequestKeeps ==
    ASSUME TableInv, NEW a \in Addrs, NEW p \in Prefixes, Request(a, p)
    PROVE  TableInv'
<1>1. TableTypeOK'
  BY LimitAssumption DEF TableInv, TableTypeOK, Request, Keys, Ages
<1>2. Refilling'
  BY LimitAssumption, NoMultiple DEF TableInv, TableTypeOK, Refilling, Request, Ages
<1>3. GroupsOutliveSessions'
  <2> SUFFICES ASSUME NEW k \in sessions'
               PROVE  k[1] \in groups' /\ seen'[k[1]] <= used'[k]
    BY DEF GroupsOutliveSessions
  <2>1. k \in Keys /\ k[1] \in Addrs
    BY DEF TableInv, TableTypeOK, Request, Keys
  <2>2. CASE k = <<a, p>>
    BY <2>1, <2>2 DEF TableInv, TableTypeOK, Request
  <2>3. CASE k # <<a, p>>
    <3>1. k[1] \in groups /\ seen[k[1]] <= used[k] /\ used'[k] = used[k]
      BY <2>1, <2>3 DEF TableInv, TableTypeOK, GroupsOutliveSessions, Request
    <3>2. seen'[k[1]] = 0 \/ seen'[k[1]] = seen[k[1]]
      BY <2>1 DEF TableInv, TableTypeOK, Request
    <3>3. used[k] \in Ages
      BY <2>1 DEF TableInv, TableTypeOK
    <3> QED
      BY <3>1, <3>2, <3>3, LimitAssumption DEF Request, Ages
  <2> QED
    BY <2>2, <2>3
<1> QED
  BY <1>1, <1>2, <1>3 DEF TableInv

LEMMA StreamEventKeeps ==
    ASSUME TableInv, NEW k \in Keys, NEW inGroup \in BOOLEAN, StreamEvent(k, inGroup)
    PROVE  TableInv'
<1>1. k[1] \in Addrs
  BY DEF Keys
<1>2. 0 \in Ages
  BY LimitAssumption DEF Ages
<1>3. TableTypeOK'
  BY <1>1, <1>2 DEF TableInv, TableTypeOK, StreamEvent
<1>4. Refilling'
  BY <1>1, LimitAssumption, NoMultiple
     DEF TableInv, TableTypeOK, Refilling, StreamEvent, Ages
<1>5. GroupsOutliveSessions'
  <2> SUFFICES ASSUME NEW l \in sessions
               PROVE  l[1] \in groups /\ seen'[l[1]] <= used'[l]
    BY DEF GroupsOutliveSessions, StreamEvent
  <2>1. l \in Keys /\ l[1] \in Addrs
    BY DEF TableInv, TableTypeOK, Keys
  <2>2. l[1] \in groups /\ seen[l[1]] <= used[l]
    BY DEF TableInv, GroupsOutliveSessions
  <2>3. seen'[l[1]] = 0 \/ (seen'[l[1]] = seen[l[1]] /\ l # k)
    BY <1>1, <2>1 DEF TableInv, TableTypeOK, StreamEvent
  <2>4. used'[l] \in Ages /\ (l # k => used'[l] = used[l])
    BY <1>2, <2>1 DEF TableInv, TableTypeOK, StreamEvent
  <2> QED
    BY <2>2, <2>3, <2>4, LimitAssumption DEF Ages
<1> QED
  BY <1>3, <1>4, <1>5 DEF TableInv

\* A group that has expired has a full limiter.
LEMMA ExpiredIsFull ==
    ASSUME TableInv, NEW a \in Addrs, Expired(seen[a])
    PROVE  tokens[a] = Burst
<1>1. seen[a] = SessionTimeout + 1 /\ tokens[a] \in 0 .. Burst
  BY LimitAssumption DEF TableInv, TableTypeOK, Ages, Expired
<1>2. Rate * (SessionTimeout + 1) = Rate * SessionTimeout + Rate
  BY LimitAssumption, NextMultiple
<1>3. Rate * SessionTimeout = SessionTimeout * Rate
  BY LimitAssumption
<1>4. Rate * SessionTimeout \in Nat
  BY LimitAssumption
<1> QED
  BY <1>1, <1>2, <1>3, <1>4, LimitAssumption, RefillAssumption
     DEF TableInv, Refilling

LEMMA CleanupLeavesTokens ==
    ASSUME TableInv, Cleanup
    PROVE  tokens' = tokens
<1>1. \A a \in Addrs : a \notin GroupsKept => tokens[a] = Burst
  BY ExpiredIsFull DEF TableInv, Refilling, GroupsKept
<1> QED
  BY <1>1 DEF Cleanup, TableInv, TableTypeOK

LEMMA CleanupKeeps == ASSUME TableInv, Cleanup PROVE TableInv'
<1>1. GroupsKept \subseteq groups /\ SessionsKept \subseteq sessions
  BY DEF GroupsKept, SessionsKept
<1>2. 0 \in Ages
  BY LimitAssumption DEF Ages
<1>3. TableTypeOK'
  BY <1>1, <1>2, CleanupLeavesTokens DEF TableInv, TableTypeOK, Cleanup
<1>4. Refilling'
  <2> SUFFICES ASSUME NEW a \in Addrs
               PROVE  /\ tokens'[a] = Burst \/ tokens'[a] >= Rate * seen'[a]
                      /\ a \notin groups' => tokens'[a] = Burst
    BY DEF Refilling
  <2>1. CASE a \in GroupsKept
    BY <2>1, CleanupLeavesTokens DEF TableInv, Refilling, Cleanup
  <2>2. CASE a \notin GroupsKept
    BY <2>2 DEF Cleanup
  <2> QED
    BY <2>1, <2>2
<1>5. GroupsOutliveSessions'
  <2> SUFFICES ASSUME NEW k \in SessionsKept
               PROVE  k[1] \in GroupsKept /\ seen'[k[1]] <= used'[k]
    BY DEF GroupsOutliveSessions, Cleanup
  <2>1. k \in sessions /\ k \in Keys /\ k[1] \in Addrs /\ k[1] \in GroupsKept
    BY DEF SessionsKept, TableInv, TableTypeOK, Keys
  <2> QED
    BY <2>1 DEF Cleanup, TableInv, GroupsOutliveSessions
<1> QED
  BY <1>3, <1>4, <1>5 DEF TableInv

LEMMA TickKeeps == ASSUME TableInv, Tick PROVE TableInv'
<1>1. \A a \in Addrs : seen[a] \in Ages /\ tokens[a] \in 0 .. Burst
  BY DEF TableInv, TableTypeOK
<1>2. \A k \in Keys : used[k] \in Ages
  BY DEF TableInv, TableTypeOK
<1>3. TableTypeOK'
  <2>1. seen' \in [Addrs -> Ages]
    BY <1>1, OlderIsAge DEF Tick
  <2>2. used' \in [Keys -> Ages]
    BY <1>2, OlderIsAge DEF Tick
  <2>3. tokens' \in [Addrs -> 0 .. Burst]
    BY <1>1, RefilledIsLevel DEF Tick
  <2> QED
    BY <2>1, <2>2, <2>3 DEF TableInv, TableTypeOK, Tick
<1>4. Refilling'
  <2> SUFFICES ASSUME NEW a \in Addrs
               PROVE  /\ tokens'[a] = Burst \/ tokens'[a] >= Rate * seen'[a]
                      /\ a \notin groups => tokens'[a] = Burst
    BY DEF Refilling, Tick
  <2>1. tokens'[a] = Burst \/ tokens'[a] = tokens[a] + Rate
    BY <1>1, RefilledIsLevel DEF Tick
  <2>2. seen'[a] = seen[a] \/ seen'[a] = seen[a] + 1
    BY <1>1, OlderIsAge DEF Tick
  <2>3. tokens[a] = Burst => tokens'[a] = Burst
    BY <1>1, LimitAssumption DEF Tick, Refilled
  <2>4. seen[a] \in Nat /\ tokens[a] \in Nat /\ Rate * seen[a] \in Nat
    BY <1>1, LimitAssumption DEF Ages
  <2>5. Rate * (seen[a] + 1) = Rate * seen[a] + Rate
    BY <2>4, NextMultiple
  <2>6. Rate * seen'[a] <= Rate * seen[a] + Rate /\ Rate * seen'[a] \in Nat
    BY <2>2, <2>4, <2>5, LimitAssumption
  <2>7. tokens[a] = Burst \/ tokens[a] >= Rate * seen[a]
    BY DEF TableInv, Refilling
  <2>8. a \notin groups => tokens[a] = Burst
    BY DEF TableInv, Refilling
  <2>9. tokens'[a] = Burst \/ tokens'[a] >= Rate * seen'[a]
    BY <2>1, <2>3, <2>4, <2>6, <2>7, LimitAssumption
  <2> QED
    BY <2>3, <2>8, <2>9
<1>5. GroupsOutliveSessions'
  <2> SUFFICES ASSUME NEW k \in sessions
               PROVE  k[1] \in groups /\ seen'[k[1]] <= used'[k]
    BY DEF GroupsOutliveSessions, Tick
  <2>1. k \in Keys /\ k[1] \in Addrs
    BY DEF TableInv, TableTypeOK, Keys
  <2>2. k[1] \in groups /\ seen[k[1]] <= used[k]
    BY DEF TableInv, GroupsOutliveSessions
  <2>3. seen'[k[1]] = Older(seen[k[1]]) /\ used'[k] = Older(used[k])
    BY <2>1, <2>2 DEF Tick
  <2> QED
    BY <1>1, <1>2, <2>1, <2>2, <2>3, OlderKeepsOrder
<1> QED
  BY <1>3, <1>4, <1>5 DEF TableInv

LEMMA TableNextKeeps == TableInv /\ [TableNext]_tableVars => TableInv'
<1> SUFFICES ASSUME TableInv, [TableNext]_tableVars PROVE TableInv'
  OBVIOUS
<1>1. CASE UNCHANGED tableVars
  BY <1>1 DEF tableVars, TableInv, TableTypeOK, Refilling, GroupsOutliveSessions
<1>2. CASE TableNext
  BY <1>2, RequestKeeps, StreamEventKeeps, CleanupKeeps, TickKeeps DEF TableNext
<1> QED
  BY <1>1, <1>2

-----------------------------------------------------------------------------
(* The table implements one bucket for each address. *)

LEMMA RequestIsAdmitOrRefuse ==
    ASSUME TableInv, NEW a \in Addrs, NEW p \in Prefixes, Request(a, p)
    PROVE  Bucket!Admit(a) \/ Bucket!Refuse(a)
<1>1. tokens \in [Addrs -> 0 .. Burst]
  BY DEF TableInv, TableTypeOK
<1>2. CASE tokens[a] > 0
  BY <1>2 DEF Request, Bucket!Admit
<1>3. CASE tokens[a] = 0
  <2>1. tokens' = tokens
    BY <1>1, <1>3, LimitAssumption DEF Request
  <2> QED
    BY <1>3, <2>1 DEF Request, Bucket!Refuse
<1> QED
  BY <1>1, <1>2, <1>3, LimitAssumption

LEMMA TableStepIsBucketStep ==
    ASSUME TableInv, [TableNext]_tableVars
    PROVE  [Bucket!Next]_<<tokens, answer>>
<1>1. CASE UNCHANGED tableVars
  BY <1>1 DEF tableVars
<1>2. ASSUME NEW a \in Addrs, NEW p \in Prefixes, Request(a, p)
      PROVE  Bucket!Next
  BY <1>2, RequestIsAdmitOrRefuse DEF Bucket!Next
<1>3. ASSUME NEW k \in Keys, NEW inGroup \in BOOLEAN, StreamEvent(k, inGroup)
      PROVE  UNCHANGED <<tokens, answer>>
  BY <1>3 DEF StreamEvent
<1>4. CASE Cleanup
  BY <1>4, CleanupLeavesTokens DEF Cleanup
<1>5. CASE Tick
  BY <1>5 DEF Tick, Bucket!Next, Bucket!Refill, Bucket!Filled, Refilled
<1> QED
  BY <1>1, <1>2, <1>3, <1>4, <1>5 DEF TableNext

LEMMA TableInitInv == TableInit => TableInv
<1> SUFFICES ASSUME TableInit PROVE TableInv
  OBVIOUS
<1>1. 0 \in Ages /\ Burst \in 0 .. Burst
  BY LimitAssumption DEF Ages
<1>2. TableTypeOK
  BY <1>1 DEF TableInit, TableTypeOK
<1> QED
  BY <1>2 DEF TableInit, TableInv, Refilling, GroupsOutliveSessions

\* The table of sessions limits each address like one bucket that lasts for
\* ever: an address gets no tokens from a second prefix, and none from a group
\* that is removed and created again, since that has refilled before.
THEOREM TableIsOneBucketPerAddress == TableSpec => BucketPerAddress
<1>1. TableInit => Bucket!Init
  BY LimitAssumption DEF TableInit, Bucket!Init
<1>2. TableInv /\ [TableNext]_tableVars => [Bucket!Next]_<<tokens, answer>>
  BY TableStepIsBucketStep
<1> QED
  BY <1>1, <1>2, TableInitInv, TableNextKeeps, PTL
     DEF TableSpec, BucketPerAddress, Bucket!Spec

-----------------------------------------------------------------------------
(* The call and the table *)

\* The deadline has passed when no tick is left.
LeftInv ==
    /\ left \in 0 .. CallTimeout
    /\ left = 0 => passed = TRUE
    /\ left # 0 => passed = FALSE
    /\ held \subseteq {"group", "session"}

LEMMA LeftInit == SystemInit => LeftInv
<1> SUFFICES ASSUME SystemInit PROVE LeftInv
  OBVIOUS
<1>1. left = CallTimeout /\ passed = FALSE
  BY DEF SystemInit, Init
<1>2. held = {"group", "session"}
  BY DEF SystemInit
<1> QED
  BY <1>1, <1>2, TimeoutAssumption DEF LeftInv

LEMMA LeftKept == LeftInv /\ [SystemNext]_systemVars => LeftInv'
<1> SUFFICES ASSUME LeftInv, [SystemNext]_systemVars PROVE LeftInv'
  OBVIOUS
<1> USE TimeoutAssumption DEF LeftInv
<1>1. CASE SetDeadline
  <2>1. left' = CallTimeout /\ passed' = FALSE /\ held' = held
    BY <1>1 DEF SetDeadline, Receive
  <2> QED
    BY <2>1
<1>2. CASE MarkSeen
  BY <1>2 DEF MarkSeen, Look, watcherVars
<1>3. CASE WatcherStep
  BY <1>3 DEF WatcherStep, OnlyCall, Timeout, Flag, WakeUp, Stop, FlagStopped, CloseReader
<1>4. CASE HandlerStep
  BY <1>4 DEF HandlerStep, OnlyCall, Register, CheckCancelled, Respond, Send,
              Cancel, Remove, watcherVars
<1>5. CASE NodeStep
  BY <1>5 DEF NodeStep, OnlyCall, Response, ForwardEvent, Fails, watcherVars
<1>6. CASE OutsideStep
  BY <1>6 DEF OutsideStep, OnlyCall, ClientGone, SessionMoves, watcherVars
<1>7. CASE OtherRequest \/ CleanupRuns \/ UNCHANGED systemVars
  BY <1>7 DEF OtherRequest, CleanupRuns, systemVars, vars, watcherVars
<1>8. CASE Clock
  <2>1. left' \in 0 .. CallTimeout /\ held' = held
    BY <1>8 DEF Clock
  <2>2. ASSUME left' = 0 PROVE passed' = TRUE
    BY <1>8, <2>2, Zenon DEF Clock
  <2>3. ASSUME left' # 0 PROVE passed' = FALSE
    BY <1>8, <2>3, Zenon DEF Clock
  <2> QED
    BY <2>1, <2>2, <2>3
<1> QED
  BY <1>1, <1>2, <1>3, <1>4, <1>5, <1>6, <1>7, <1>8 DEF SystemNext

\* Each step of the two is a step of the call and one of the table.
LEMMA SystemStepIsCallStep == LeftInv /\ [SystemNext]_systemVars => [Next]_vars
<1> SUFFICES ASSUME LeftInv, [SystemNext]_systemVars PROVE [Next]_vars
  OBVIOUS
<1>1. CASE SetDeadline
  BY <1>1 DEF SetDeadline, Next, Watcher
<1>2. CASE MarkSeen
  BY <1>2 DEF MarkSeen, Next, Handler
<1>3. CASE WatcherStep
  BY <1>3 DEF WatcherStep, Next, Watcher
<1>4. CASE HandlerStep
  BY <1>4 DEF HandlerStep, Next, Handler
<1>5. CASE NodeStep
  BY <1>5 DEF NodeStep, Next, Handler
<1>6. CASE OutsideStep
  BY <1>6 DEF OutsideStep, Next
<1>7. CASE OtherRequest \/ CleanupRuns \/ UNCHANGED systemVars
  BY <1>7 DEF OtherRequest, CleanupRuns, systemVars
<1>8. CASE Clock
  <2>1. UNCHANGED <<handlerVars, watcher, cancelled, done, updateChan>>
    BY <1>8 DEF Clock
  <2>2. CASE passed
    <3>1. left = 0 /\ left' = 0
      BY <1>8, <2>2 DEF Clock, LeftInv
    <3>2. passed = TRUE /\ passed' = TRUE
      BY <1>8, <2>2, <3>1 DEF Clock, LeftInv
    <3> QED
      BY <2>1, <3>2 DEF vars, watcherVars
  <2>3. CASE ~passed
    <3>1. passed' = TRUE \/ passed' = FALSE
      BY <1>8 DEF Clock
    <3>2. passed = FALSE
      BY <2>3 DEF LeftInv
    <3>3. CASE passed' = TRUE
      BY <2>1, <2>3, <3>3 DEF TimePasses, Next
    <3>4. CASE passed' = FALSE
      BY <2>1, <3>2, <3>4 DEF vars, watcherVars
    <3> QED
      BY <3>1, <3>3, <3>4
  <2> QED
    BY <2>2, <2>3
<1> QED
  BY <1>1, <1>2, <1>3, <1>4, <1>5, <1>6, <1>7, <1>8 DEF SystemNext

LEMMA SystemStepIsTableStep == [SystemNext]_systemVars => [TableNext]_tableVars
<1> SUFFICES ASSUME [SystemNext]_systemVars PROVE [TableNext]_tableVars
  OBVIOUS
<1>1. CASE SetDeadline \/ UNCHANGED systemVars
  BY <1>1 DEF SetDeadline, systemVars
<1>2. CASE MarkSeen
  <2>1. StreamEvent(Owner, TRUE) \/ StreamEvent(Owner, FALSE) \/ UNCHANGED tableVars
    <3>1. CASE "session" \in held
      <4>1. ("session" \in held) = TRUE
        BY <3>1
      <4> QED
        BY <1>2, <4>1 DEF MarkSeen
    <3>2. CASE "session" \notin held
      <4>1. ("session" \in held) = FALSE
        BY <3>2
      <4> QED
        BY <1>2, <4>1 DEF MarkSeen
    <3> QED
      BY <3>1, <3>2
  <2> QED
    BY <2>1, OwnerAssumption DEF TableNext
<1>3. CASE WatcherStep \/ HandlerStep \/ NodeStep \/ OutsideStep
  BY <1>3 DEF WatcherStep, HandlerStep, NodeStep, OutsideStep, OnlyCall
<1>4. CASE OtherRequest
  BY <1>4 DEF OtherRequest, TableNext
<1>5. CASE CleanupRuns
  BY <1>5 DEF CleanupRuns, TableNext
<1>6. CASE Clock
  BY <1>6 DEF Clock, TableNext
<1> QED
  BY <1>1, <1>2, <1>3, <1>4, <1>5, <1>6 DEF SystemNext

-----------------------------------------------------------------------------
(* A call that is not cancelled keeps its session. *)

\* Until the response is there the session is as old as the call at most, and
\* so it is when an update waits; from then on it cannot be older than two
\* timeouts when the deadline passes.
LiveInv ==
    ~done =>
       /\ held = {"group", "session"}
       /\ Owner \in sessions
       /\ used[Owner] + left <= 2 * CallTimeout
       /\ handler \in {"register", "request", "check", "respond"} =>
             updateChan = 0 /\ used[Owner] + left <= CallTimeout
       /\ handler = "send" \/ updateChan > 0 => used[Owner] <= CallTimeout

SystemInv == CallInv /\ TableInv /\ LeftInv /\ LiveInv

LEMMA SystemInitInv == SystemInit => SystemInv
<1> SUFFICES ASSUME SystemInit PROVE SystemInv
  OBVIOUS
<1>1. CallInv
  BY CallInit DEF SystemInit
<1>2. Owner \in Keys /\ Owner[1] \in Addrs
  BY OwnerAssumption DEF Keys
<1>3. TableInv
  <2>1. 0 \in Ages /\ Burst \in 0 .. Burst /\ Burst - 1 \in 0 .. Burst
    BY LimitAssumption, TimeoutAssumption DEF Ages
  <2>2. TableTypeOK
    BY <1>2, <2>1 DEF SystemInit, TableTypeOK
  <2>3. Refilling
    BY <1>2, <2>1, NoMultiple, LimitAssumption DEF SystemInit, Refilling
  <2>4. GroupsOutliveSessions
    BY <1>2 DEF SystemInit, GroupsOutliveSessions
  <2> QED
    BY <2>2, <2>3, <2>4 DEF TableInv
<1>4. LiveInv
  BY <1>2, TimeoutAssumption DEF SystemInit, Init, LiveInv
<1> QED
  BY <1>1, <1>3, <1>4, LeftInit DEF SystemInv

LEMMA CallKept == CallInv /\ [Next]_vars => CallInv'
BY WatcherKeeps, HandlerKeeps, OutsideKeeps DEF Next

\* A session that a live call holds is not old enough to be removed.
LEMMA CleanupSparesOwner ==
    ASSUME SystemInv, ~done, Cleanup
    PROVE  /\ Owner \in SessionsKept /\ Owner[1] \in GroupsKept
           /\ used'[Owner] = used[Owner]
<1>1. Owner \in sessions /\ Owner \in Keys /\ Owner[1] \in Addrs
  BY OwnerAssumption DEF SystemInv, LiveInv, Keys
<1>2. used[Owner] \in Ages /\ seen[Owner[1]] \in Ages /\ left \in Nat
  BY <1>1, TimeoutAssumption DEF SystemInv, TableInv, TableTypeOK, LeftInv
<1>3. used[Owner] + left <= 2 * CallTimeout
  BY DEF SystemInv, LiveInv
<1>4. Owner[1] \in groups /\ seen[Owner[1]] <= used[Owner]
  BY <1>1 DEF SystemInv, TableInv, GroupsOutliveSessions
<1>5. ~Expired(used[Owner]) /\ ~Expired(seen[Owner[1]])
  BY <1>2, <1>3, <1>4, LimitAssumption, TimeoutAssumption DEF Expired, Ages
<1>6. Owner \in SessionsKept /\ Owner[1] \in GroupsKept
  BY <1>1, <1>4, <1>5 DEF SessionsKept, GroupsKept
<1> QED
  BY <1>1, <1>6 DEF Cleanup

LEMMA LiveKept == SystemInv /\ [SystemNext]_systemVars => LiveInv'
<1> SUFFICES ASSUME SystemInv, [SystemNext]_systemVars, done' # TRUE
             PROVE  /\ held' = {"group", "session"}
                    /\ Owner \in sessions'
                    /\ used'[Owner] + left' <= 2 * CallTimeout
                    /\ handler' \in {"register", "request", "check", "respond"} =>
                          updateChan' = 0 /\ used'[Owner] + left' <= CallTimeout
                    /\ handler' = "send" \/ updateChan' > 0 =>
                          used'[Owner] <= CallTimeout
  BY DEF LiveInv
<1> USE TimeoutAssumption
<1>1. /\ used[Owner] \in Nat /\ left \in 0 .. CallTimeout /\ updateChan \in Nat
      /\ used \in [Keys -> Ages] /\ Owner \in Keys /\ done \in BOOLEAN
  BY OwnerAssumption, LimitAssumption, CapacityAssumption
     DEF SystemInv, CallInv, TypeOK, TableInv, TableTypeOK, LeftInv, Ages
<1>2. CASE SetDeadline
  <2>1. /\ ~done /\ updateChan > 0 /\ updateChan' = updateChan - 1
        /\ left' = CallTimeout /\ handler' = handler /\ held' = held
        /\ used' = used /\ sessions' = sessions
    BY <1>1, <1>2 DEF SetDeadline, Receive, tableVars, handlerVars
  <2>2. /\ held = {"group", "session"} /\ Owner \in sessions
        /\ used[Owner] <= CallTimeout
        /\ handler \notin {"register", "request", "check", "respond"}
    BY <2>1, <1>1 DEF SystemInv, LiveInv
  <2> QED
    BY <1>1, <2>1, <2>2
<1>3. CASE MarkSeen
  <2>1. ~done /\ done' = done /\ updateChan' = updateChan /\ left' = left /\ held' = held
    BY <1>3 DEF MarkSeen, Look
  <2>2. handler' = "send" \/ handler' = "cancel"
    BY <1>3 DEF MarkSeen, Look, HandlerAt
  <2>3. CASE UNCHANGED tableVars /\ handler' = "cancel"
    BY <1>1, <2>1, <2>3 DEF SystemInv, LiveInv, tableVars
  <2>4. CASE handler' = "send"
    <3>1. "group" \in held /\ "session" \in held
      BY <2>1 DEF SystemInv, LiveInv
    <3>2. ("session" \in held) = TRUE
      BY <3>1
    <3>3. StreamEvent(Owner, TRUE)
      BY <1>3, <2>4, <3>1, <3>2 DEF MarkSeen
    <3>4. used'[Owner] = 0 /\ sessions' = sessions
      BY <1>1, <3>3 DEF StreamEvent
    <3> QED
      BY <1>1, <2>1, <2>4, <3>4 DEF SystemInv, LiveInv
  <2> QED
    BY <1>3, <2>2, <2>3, <2>4 DEF MarkSeen
<1>4. CASE WatcherStep
  BY <1>1, <1>4 DEF SystemInv, LiveInv, WatcherStep, OnlyCall, tableVars, handlerVars,
     Timeout, Flag, WakeUp, Stop, FlagStopped, CloseReader
<1>5. CASE HandlerStep
  <2>1. UNCHANGED <<sessions, used, left, held>>
    BY <1>5 DEF HandlerStep, OnlyCall, tableVars
  <2> USE <1>1, <2>1 DEF SystemInv, LiveInv, HandlerAt
  <2>2. CASE Register
    BY <2>2 DEF Register
  <2>3. CASE CheckCancelled
    BY <2>3 DEF CheckCancelled
  <2>4. CASE Respond
    <3>1. /\ handler = "respond" /\ ~done /\ updateChan' = updateChan
          /\ handler' = "send" \/ handler' = "copy"
      BY <2>4 DEF Respond
    <3>2. used[Owner] + left <= CallTimeout /\ updateChan = 0
      BY <3>1
    <3> QED
      BY <3>1, <3>2
  <2>5. CASE Send
    BY <2>5 DEF Send
  <2>6. CASE Cancel
    BY <2>6 DEF Cancel
  <2>7. CASE Remove
    BY <2>7 DEF Remove
  <2> QED
    BY <1>5, <2>2, <2>3, <2>4, <2>5, <2>6, <2>7 DEF HandlerStep
<1>6. CASE NodeStep
  BY <1>1, <1>6 DEF SystemInv, LiveInv, NodeStep, OnlyCall, tableVars, HandlerAt,
     Response, ForwardEvent, Fails
<1>7. CASE OutsideStep
  BY <1>1, <1>7 DEF SystemInv, LiveInv, OutsideStep, OnlyCall, tableVars, handlerVars,
     ClientGone, SessionMoves
<1>8. CASE OtherRequest
  <2>1. PICK a \in Addrs, p \in Prefixes : Request(a, p)
    BY <1>8 DEF OtherRequest
  <2>2. UNCHANGED <<vars, left, held>>
    BY <1>8 DEF OtherRequest
  <2>3. used'[Owner] \in Nat /\ used'[Owner] <= used[Owner]
    <3>1. used' = [used EXCEPT ![<<a, p>>] = 0]
      BY <2>1 DEF Request
    <3>2. used'[Owner] = 0 \/ used'[Owner] = used[Owner]
      BY <1>1, <3>1
    <3> QED
      BY <1>1, <3>2
  <2>4. ~done /\ UNCHANGED <<handler, updateChan>>
    BY <1>1, <2>2 DEF vars, handlerVars
  <2>5. Owner \in sessions'
    BY <2>1, <2>4 DEF SystemInv, LiveInv, Request
  <2> QED
    BY <1>1, <2>2, <2>3, <2>4, <2>5 DEF SystemInv, LiveInv
<1>9. CASE CleanupRuns
  <2>1. Cleanup /\ UNCHANGED <<vars, left>> /\ ~done
    BY <1>9 DEF CleanupRuns, vars
  <2>2. held' = held /\ Owner \in sessions' /\ used'[Owner] = used[Owner]
    BY <1>9, <2>1, CleanupSparesOwner DEF CleanupRuns, Cleanup
  <2> QED
    BY <1>1, <2>1, <2>2 DEF SystemInv, LiveInv, vars, handlerVars
<1>10. CASE Clock
  <2>1. /\ UNCHANGED <<handlerVars, done, updateChan, held>> /\ Tick
        /\ ~done /\ ~passed /\ updateChan = 0 /\ handler # "send"
    BY <1>10 DEF Clock, Prompt
  <2>2. left # 0
    BY <2>1 DEF SystemInv, LeftInv
  <2>3. left' = left - 1
    BY <1>1, <1>10, <2>2 DEF Clock
  <2>4. used'[Owner] = used[Owner] \/ used'[Owner] = used[Owner] + 1
    BY <1>1, <2>1, OlderIsAge DEF Tick
  <2>5. sessions' = sessions
    BY <2>1 DEF Tick
  <2> QED
    BY <1>1, <2>1, <2>2, <2>3, <2>4, <2>5 DEF SystemInv, LiveInv, handlerVars
<1>11. CASE UNCHANGED systemVars
  BY <1>1, <1>11 DEF SystemInv, LiveInv, systemVars, vars, handlerVars, tableVars
<1> QED
  BY <1>2, <1>3, <1>4, <1>5, <1>6, <1>7, <1>8, <1>9, <1>10, <1>11 DEF SystemNext

LEMMA SystemInvariant == SystemSpec => []SystemInv
<1>1. SystemInv /\ [SystemNext]_systemVars => SystemInv'
  BY CallKept, SystemStepIsCallStep, TableNextKeeps, SystemStepIsTableStep,
     LeftKept, LiveKept DEF SystemInv
<1> QED
  BY SystemInitInv, <1>1, PTL DEF SystemSpec

\* The call and the table keep their types next to each other.
THEOREM SystemTypes == SystemSpec => []SystemTypeOK
<1>1. SystemInv => SystemTypeOK
  BY DEF SystemInv, CallInv, TableInv, LeftInv, SystemTypeOK
<1> QED
  BY SystemInvariant, <1>1, PTL

\* The composition runs the call and the table as they are specified alone.
THEOREM SystemRunsCall == SystemSpec => Spec
<1>1. SystemInit => Init
  BY DEF SystemInit
<1>2. SystemInv /\ [SystemNext]_systemVars => [Next]_vars
  BY SystemStepIsCallStep DEF SystemInv
<1> QED
  BY <1>1, <1>2, SystemInvariant, PTL DEF SystemSpec, Spec

\* Next to a call, too, an address has one bucket.
THEOREM SystemIsOneBucketPerAddress == SystemSpec => BucketPerAddress
<1>1. SystemInit => Bucket!Init
  BY LimitAssumption, TimeoutAssumption DEF SystemInit, Bucket!Init
<1>2. SystemInv /\ [SystemNext]_systemVars => [Bucket!Next]_<<tokens, answer>>
  BY TableStepIsBucketStep, SystemStepIsTableStep DEF SystemInv
<1> QED
  BY <1>1, <1>2, SystemInvariant, PTL DEF SystemSpec, BucketPerAddress, Bucket!Spec

\* A call that is not cancelled never loses its session to the cleanup, if the
\* session timeout is at least twice the call timeout.
THEOREM LiveCallsKeepSessions == SystemSpec => []LiveCallKeepsSession
<1>1. SystemInv => LiveCallKeepsSession
  BY DEF SystemInv, LiveInv, LiveCallKeepsSession
<1> QED
  BY SystemInvariant, <1>1, PTL

=============================================================================
