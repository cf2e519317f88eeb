-------------------------- MODULE EventStreamProofs --------------------------
(***************************************************************************)
(* Proofs about EventStream, and about the client that opens and closes    *)
(* streams, for channels of any capacity.                                  *)
(***************************************************************************)
EXTENDS PoolClient, SequenceTheorems, TLAPS

\* While the stream is down the last report to reach the client is that it is
\* not connected: the error is still to be received, or its report is with
\* the consumer, or last in the channel, or has been taken.
LastReportIsLoss ==
    Lost /\ errors = 0 =>
       /\ consumer # "ready"
       /\ \/ consumer = "notReady"
          \/ readyChan # <<>> /\ readyChan[Len(readyChan)] = FALSE
          \/ readyChan = <<>> /\ online = FALSE

StreamInv == TypeOK /\ LastReportIsLoss

LEMMA StreamInit == Init => StreamInv
<1> SUFFICES ASSUME Init PROVE StreamInv
  OBVIOUS
<1>1. /\ eventChan \in 0 .. Capacity /\ errors \in 0 .. Capacity
      /\ readyChan \in Seq(BOOLEAN) /\ Len(readyChan) <= Capacity
  BY StreamAssumption DEF Init
<1>2. TypeOK
  BY <1>1 DEF Init, TypeOK
<1>3. LastReportIsLoss
  BY DEF Init, LastReportIsLoss, Lost
<1> QED
  BY <1>2, <1>3 DEF StreamInv

-----------------------------------------------------------------------------
(* The client *)

LEMMA TakeReadyKeeps == ASSUME StreamInv, TakeReady PROVE StreamInv'
<1>1. /\ readyChan \in Seq(BOOLEAN) /\ readyChan # <<>>
      /\ Len(readyChan) <= Capacity
      /\ online' = readyChan[1] /\ readyChan' = Tail(readyChan)
  BY DEF StreamInv, TypeOK, TakeReady
<1>2. /\ readyChan' \in Seq(BOOLEAN)
      /\ Len(readyChan') = Len(readyChan) - 1
      /\ Len(readyChan) \in Nat \ {0}
      /\ \A i \in 1 .. Len(readyChan) - 1 : readyChan'[i] = readyChan[i + 1]
      /\ readyChan[1] \in BOOLEAN
  BY <1>1
<1>3. readyChan' \in Seq(BOOLEAN) /\ Len(readyChan') <= Capacity
  BY <1>1, <1>2, StreamAssumption
<1>4. TypeOK'
  BY <1>1, <1>2, <1>3 DEF StreamInv, TypeOK, TakeReady
<1>5. CASE Len(readyChan) = 1
  <2>1. readyChan' = <<>> /\ readyChan[Len(readyChan)] = online'
    BY <1>1, <1>2, <1>5
  <2> QED
    BY <1>1, <1>4, <2>1 DEF StreamInv, LastReportIsLoss, Lost, TakeReady
<1>6. CASE Len(readyChan) # 1
  <2>1. /\ readyChan' # <<>>
        /\ readyChan'[Len(readyChan')] = readyChan[Len(readyChan)]
    BY <1>2, <1>6
  <2> QED
    BY <1>1, <1>4, <2>1 DEF StreamInv, LastReportIsLoss, Lost, TakeReady
<1> QED
  BY <1>5, <1>6

LEMMA ClientKeeps == ASSUME StreamInv, Client \/ Close PROVE StreamInv'
<1>1. CASE TakeEvent
  <2>1. eventChan' \in 0 .. Capacity
    BY <1>1, StreamAssumption DEF StreamInv, TypeOK, TakeEvent
  <2> QED
    BY <1>1, <2>1 DEF StreamInv, TypeOK, LastReportIsLoss, Lost, TakeEvent,
       clientVars
<1>2. CASE CloseReturns
  BY <1>2 DEF StreamInv, TypeOK, LastReportIsLoss, Lost, CloseReturns
<1>3. CASE Close
  BY <1>3 DEF StreamInv, TypeOK, LastReportIsLoss, Lost, Close
<1> QED
  BY <1>1, <1>2, <1>3, TakeReadyKeeps DEF Client

-----------------------------------------------------------------------------
(* The consumer and the closer *)

\* The steps that only move the consumer, away from its reports.
LEMMA MovesKeep ==
  ASSUME StreamInv,
         Start \/ SubscribeFails \/ SubscribeAgain \/ GiveUp \/ ReceiveKill \/ End
  PROVE  StreamInv'
  BY DEF StreamInv, TypeOK, LastReportIsLoss, Lost, clientVars, ConsumerAt, Start,
         SubscribeFails, SubscribeAgain, GiveUp, ReceiveKill, End

LEMMA SendReadyKeeps == ASSUME StreamInv, SendReady PROVE StreamInv'
<1>1. /\ readyChan \in Seq(BOOLEAN) /\ Len(readyChan) < Capacity
      /\ readyChan' = Append(readyChan, consumer = "ready")
      /\ consumer' = "select"
  BY DEF StreamInv, TypeOK, SendReady
<1>2. /\ readyChan' \in Seq(BOOLEAN)
      /\ Len(readyChan') = Len(readyChan) + 1
      /\ Len(readyChan) \in Nat
      /\ readyChan' # <<>>
      /\ readyChan'[Len(readyChan')] = (consumer = "ready")
  BY <1>1
<1>3. Len(readyChan') <= Capacity
  BY <1>1, <1>2, StreamAssumption
<1>4. TypeOK'
  BY <1>1, <1>2, <1>3 DEF StreamInv, TypeOK, SendReady, clientVars
<1>5. LastReportIsLoss'
  <2>1. Lost' = Lost /\ errors' = errors
    BY DEF SendReady, Lost
  <2>2. Lost /\ errors = 0 => consumer # "ready"
    BY DEF StreamInv, LastReportIsLoss
  <2>3. Lost /\ errors = 0 => readyChan'[Len(readyChan')] = FALSE
    BY <1>2, <2>2
  <2> QED
    BY <1>1, <1>2, <2>1, <2>3 DEF LastReportIsLoss
<1> QED
  BY <1>4, <1>5 DEF StreamInv

LEMMA ConsumerKeeps ==
  ASSUME StreamInv, Consumer \/ CloseChannels PROVE StreamInv'
<1>1. CASE Subscribe
  BY <1>1 DEF StreamInv, TypeOK, LastReportIsLoss, Lost, clientVars, ConsumerAt,
     Subscribe
<1>2. CASE ReceiveEvent
  BY <1>2 DEF StreamInv, TypeOK, LastReportIsLoss, Lost, clientVars, ReceiveEvent
<1>3. CASE ReceiveReady
  BY <1>3 DEF StreamInv, TypeOK, LastReportIsLoss, Lost, clientVars, ConsumerAt,
     ReceiveReady
<1>4. CASE ReceiveError
  <2>1. errors' \in 0 .. Capacity
    BY <1>4, StreamAssumption DEF StreamInv, TypeOK, ReceiveError
  <2> QED
    BY <1>4, <2>1 DEF StreamInv, TypeOK, LastReportIsLoss, Lost, clientVars,
       ConsumerAt, ReceiveError
<1>5. CASE SendEvent
  <2>1. eventChan' \in 0 .. Capacity
    BY <1>5, StreamAssumption DEF StreamInv, TypeOK, SendEvent
  <2> QED
    BY <1>5, <2>1 DEF StreamInv, TypeOK, LastReportIsLoss, Lost, clientVars,
       ConsumerAt, SendEvent
<1>6. CASE CloseChannels
  BY <1>6 DEF StreamInv, TypeOK, LastReportIsLoss, Lost, clientVars, CloseChannels
<1> QED
  BY <1>1, <1>2, <1>3, <1>4, <1>5, <1>6, MovesKeep, SendReadyKeeps DEF Consumer

-----------------------------------------------------------------------------
(* The reader *)

LEMMA ReaderKeeps == ASSUME StreamInv, Reader PROVE StreamInv'
<1> USE DEF ReaderAt, clientVars
<1>1. CASE SendError \/ (ReportFailure /\ ~isClosed)
  <2>1. errors' \in 0 .. Capacity /\ errors' # 0
    BY <1>1, StreamAssumption DEF StreamInv, TypeOK, SendError, ReportFailure
  <2> QED
    BY <1>1, <2>1 DEF StreamInv, TypeOK, LastReportIsLoss, SendError, ReportFailure
<1>2. CASE Decode \/ EmitPanics \/ Reconnect \/ (ReportFailure /\ isClosed)
  BY <1>2 DEF StreamInv, TypeOK, LastReportIsLoss, Lost, Decode, EmitPanics,
     Reconnect, ReportFailure
<1>3. CASE BackedOff \/ ReconnectFails
  BY <1>3 DEF StreamInv, TypeOK, LastReportIsLoss, Lost, BackedOff, ReconnectFails
<1> QED
  BY <1>1, <1>2, <1>3 DEF Reader

LEMMA StreamInvariant == Spec => []StreamInv
<1>1. ASSUME StreamInv, UNCHANGED vars PROVE StreamInv'
  BY <1>1 DEF StreamInv, TypeOK, LastReportIsLoss, Lost, vars, clientVars
<1>2. StreamInv /\ [Next]_vars => StreamInv'
  BY <1>1, ClientKeeps, ConsumerKeeps, ReaderKeeps DEF Next
<1> QED
  BY StreamInit, <1>2, PTL DEF Spec

-----------------------------------------------------------------------------

\* The channels never hold more than their capacity.
THEOREM StreamTypes == Spec => []TypeOK
  BY StreamInvariant, PTL DEF StreamInv

\* Once all reports are delivered, a client whose stream is down is not
\* online, in whatever order the consumer received the connections and losses.
THEOREM LostMeansOffline == Spec => []NotOnlineWhenLost
<1>1. StreamInv => NotOnlineWhenLost
  BY DEF StreamInv, LastReportIsLoss, NotOnlineWhenLost, Delivered
<1> QED
  BY StreamInvariant, <1>1, PTL

-----------------------------------------------------------------------------
(* The client around its streams *)

\* A reader that was never started has reported nothing, to nobody.
NothingYet ==
    reader = "none" =>
       /\ readyChan = <<>> /\ errors = 0
       /\ consumer \in {"start", "subscribe", "wait", "done"}

\* The goroutine has a stream, open or not yet closed, exactly when it follows
\* one.
FollowInv ==
    /\ loop = "follow" <=> client # "closed"
    /\ OnlineIsFollowed
    /\ NothingYet

LoopTypeOK ==
    /\ node \in Nodes
    /\ loop \in {"check", "poll", "follow", "sleep"}
    /\ isSyncing \in BOOLEAN
    /\ panicked \in BOOLEAN
    /\ leftover \in BOOLEAN
    /\ hung \in BOOLEAN

PoolInv == StreamInv /\ LoopTypeOK /\ FollowInv

LEMMA PoolInitInv == PoolInit => PoolInv
<1> SUFFICES ASSUME PoolInit PROVE PoolInv
  OBVIOUS
<1>1. /\ eventChan \in 0 .. Capacity /\ errors \in 0 .. Capacity
      /\ readyChan \in Seq(BOOLEAN) /\ Len(readyChan) <= Capacity
  BY StreamAssumption DEF PoolInit
<1>2. TypeOK
  BY <1>1 DEF PoolInit, TypeOK
<1>3. LastReportIsLoss /\ LoopTypeOK /\ FollowInv
  BY DEF PoolInit, LastReportIsLoss, Lost, LoopTypeOK, FollowInv, OnlineIsFollowed,
         NothingYet
<1> QED
  BY <1>2, <1>3 DEF PoolInv, StreamInv

\* The goroutine on its own leaves a stream that it does not open alone.
LEMMA LoopKeepsStream ==
    ASSUME StreamInv, NodeChanges \/ Hang \/ Loop \/ Timers \/ LeftoverPanics
    PROVE  StreamInv'
<1>1. CASE OpenStream
  <2>1. /\ eventChan' \in 0 .. Capacity /\ errors' \in 0 .. Capacity
        /\ readyChan' \in Seq(BOOLEAN) /\ Len(readyChan') <= Capacity
    BY <1>1, StreamAssumption DEF OpenStream
  <2> QED
    BY <1>1, <2>1 DEF OpenStream, StreamInv, TypeOK, LastReportIsLoss, Lost
<1>2. CASE CheckFails \/ PollFails
  BY <1>2 DEF CheckFails, PollFails, FailsAt, streamVars, StreamInv, TypeOK,
     LastReportIsLoss, Lost
<1>3. CASE NodeChanges \/ Hang \/ Check \/ CheckPanics \/ Wake \/ SyncCheck
  BY <1>3 DEF NodeChanges, Hang, Check, CheckPanics, Wake, SyncCheck, vars, clientVars,
     StreamInv, TypeOK, LastReportIsLoss, Lost
<1>4. CASE FollowPanics \/ LeftoverPanics
  BY <1>4 DEF FollowPanics, LeftoverPanics, clientVars, StreamInv, TypeOK,
     LastReportIsLoss, Lost
<1>5. CASE FollowEnds \/ TimersFail
  BY <1>5, ClientKeeps DEF FollowEnds, TimersFail, Client
<1> QED
  BY <1>1, <1>2, <1>3, <1>4, <1>5 DEF Loop, Timers

LEMMA LoopTypes == ASSUME LoopTypeOK, PoolNext PROVE LoopTypeOK'
<1> USE DEF LoopTypeOK, LoopAt, loopVars, Stream
<1>1. CASE \/ NodeChanges \/ Hang \/ Check \/ CheckFails \/ PollFails \/ Wake
           \/ FollowEnds
  BY <1>1 DEF NodeChanges, Hang, Check, CheckFails, PollFails, FailsAt, Wake, FollowEnds
<1>2. CASE OpenStream
  <2>1. Lingers \in BOOLEAN
    BY DEF Lingers
  <2> QED
    BY <1>2, <2>1 DEF OpenStream
<1>3. CASE CheckPanics \/ FollowPanics
  <2>1. (panicked \/ online) \in BOOLEAN
    OBVIOUS
  <2> QED
    BY <1>3, <2>1 DEF CheckPanics, FollowPanics
<1>4. CASE SyncCheck \/ TimersFail \/ FollowReady
  BY <1>4 DEF SyncCheck, TimersFail, FollowReady
<1>5. CASE \/ Stream(TakeEvent) \/ ConsumerStep \/ ReaderStep \/ Stream(CloseChannels)
           \/ LeftoverPanics
  BY <1>5 DEF ConsumerStep, ReaderStep, ConnectReturns, LeftoverPanics
<1> QED
  BY <1>1, <1>2, <1>3, <1>4, <1>5 DEF PoolNext, Loop, Timers

LEMMA LoopKeepsFollow ==
    ASSUME PoolInv,
           NodeChanges \/ Hang \/ Loop \/ Timers \/ FollowReady \/ LeftoverPanics
    PROVE  FollowInv'
<1> USE DEF PoolInv, FollowInv, OnlineIsFollowed, NothingYet, LoopAt
<1>1. CASE OpenStream
  BY <1>1 DEF OpenStream
<1>2. CASE CheckFails \/ PollFails
  BY <1>2 DEF CheckFails, PollFails, FailsAt, streamVars
<1>3. CASE NodeChanges \/ Hang \/ Check \/ Wake \/ SyncCheck
  BY <1>3 DEF NodeChanges, Hang, Check, Wake, SyncCheck, vars, clientVars
<1>4. CASE CheckPanics \/ FollowPanics
  <2>1. panicked' = TRUE \/ (panicked' = panicked /\ ~online)
    BY <1>4 DEF CheckPanics, FollowPanics, LoopTypeOK, StreamInv, TypeOK
  <2> QED
    BY <1>4, <2>1 DEF CheckPanics, FollowPanics, vars, clientVars
<1>5. CASE FollowEnds
  BY <1>5 DEF FollowEnds, CloseReturns
<1>6. CASE TimersFail
  BY <1>6 DEF TimersFail, Close
<1>7. CASE FollowReady
  <2>1. reader # "none"
    BY <1>7 DEF FollowReady, TakeReady
  <2> QED
    BY <1>7, <2>1 DEF FollowReady, TakeReady
<1>8. CASE LeftoverPanics
  BY <1>8 DEF LeftoverPanics, clientVars, loopVars
<1> QED
  BY <1>1, <1>2, <1>3, <1>4, <1>5, <1>6, <1>7, <1>8 DEF Loop, Timers

LEMMA StreamKeepsFollow ==
    ASSUME PoolInv,
           \/ Stream(TakeEvent) \/ ConsumerStep \/ ReaderStep \/ Stream(CloseChannels)
    PROVE  FollowInv'
<1> USE DEF PoolInv, FollowInv, OnlineIsFollowed, NothingYet, loopVars, clientVars
<1>1. CASE Stream(TakeEvent) \/ Stream(CloseChannels)
  BY <1>1 DEF Stream, TakeEvent, CloseChannels
<1>2. CASE ConsumerStep
  <2> loop' = loop /\ panicked' = panicked
    BY <1>2 DEF ConsumerStep, ConnectReturns
  <2>1. CASE \/ Start \/ Subscribe \/ SubscribeFails \/ SubscribeAgain \/ GiveUp
             \/ ReceiveKill \/ End
    BY <1>2, <2>1 DEF ConsumerStep, ConsumerAt, Start, Subscribe, SubscribeFails,
       SubscribeAgain, GiveUp, ReceiveKill, End
  <2>2. CASE ReceiveEvent \/ ReceiveReady \/ ReceiveError \/ SendEvent \/ SendReady
    <3>1. reader # "none" /\ reader' # "none"
      BY <2>2 DEF ReceiveEvent, ReceiveReady, ReceiveError, SendEvent, SendReady, ConsumerAt
    <3>2. UNCHANGED clientVars
      BY <2>2 DEF ReceiveEvent, ReceiveReady, ReceiveError, SendEvent, SendReady
    <3> QED
      BY <1>2, <3>1, <3>2 DEF ConsumerStep
  <2> QED
    BY <1>2, <2>1, <2>2 DEF ConsumerStep, Consumer
<1>3. CASE ReaderStep
  <2> loop' = loop /\ panicked' = panicked
    BY <1>3 DEF ReaderStep, ConnectReturns
  <2>1. reader # "none" /\ reader' # "none" /\ UNCHANGED clientVars
    BY <1>3 DEF ReaderStep, Reader, ReaderAt, Decode, EmitPanics, SendError, BackedOff,
       Reconnect, ReconnectFails, ReportFailure
  <2> QED
    BY <1>3, <2>1 DEF ReaderStep
<1> QED
  BY <1>1, <1>2, <1>3

LEMMA PoolInvariant == PoolSpec => []PoolInv
<1>1. ASSUME PoolInv, UNCHANGED poolVars PROVE PoolInv'
  BY <1>1 DEF poolVars, vars, clientVars, loopVars, PoolInv, StreamInv, TypeOK,
     LastReportIsLoss, Lost, LoopTypeOK, FollowInv, OnlineIsFollowed, NothingYet
<1>2. ASSUME PoolInv, PoolNext PROVE StreamInv'
  BY <1>2, LoopKeepsStream, ClientKeeps, ConsumerKeeps, ReaderKeeps
     DEF PoolInv, PoolNext, Client, Stream, FollowReady, ConsumerStep, ReaderStep
<1>3. ASSUME PoolInv, PoolNext PROVE LoopTypeOK' /\ FollowInv'
  BY <1>3, LoopTypes, LoopKeepsFollow, StreamKeepsFollow DEF PoolInv, PoolNext
<1>4. PoolInv /\ [PoolNext]_poolVars => PoolInv'
  BY <1>1, <1>2, <1>3 DEF PoolInv
<1> QED
  BY PoolInitInv, <1>4, PTL DEF PoolSpec

\* Types: however streams are opened and closed, their channels never hold more
\* than their capacity.
THEOREM PoolTypes == PoolSpec => []PoolTypeOK
<1>1. PoolInv => PoolTypeOK
  BY DEF PoolInv, StreamInv, LoopTypeOK, PoolTypeOK
<1> QED
  BY <1>1, PoolInvariant, PTL

\* Also across streams, a client whose stream is down and has said so is not
\* online.
THEOREM PoolLostMeansOffline == PoolSpec => []NotOnlineWhenLost
<1>1. PoolInv => NotOnlineWhenLost
  BY DEF PoolInv, StreamInv, LastReportIsLoss, NotOnlineWhenLost, Delivered
<1> QED
  BY <1>1, PoolInvariant, PTL

\* A client is online only while its goroutine follows a connected stream, or
\* after a panic.
THEOREM OnlineMeansFollowed == PoolSpec => []OnlineIsFollowed
<1>1. PoolInv => OnlineIsFollowed
  BY DEF PoolInv, FollowInv
<1> QED
  BY <1>1, PoolInvariant, PTL

=============================================================================
