--------------------------- MODULE ProxyCallProofs ---------------------------
(***************************************************************************)
(* Proofs about ProxyCall, for a channel of any capacity.                  *)
(***************************************************************************)
EXTENDS ProxyCall, TLAPS

\* Once an event was forwarded late, the handler is behind the point where it
\* looks at the flag, or about to look at it; the flag is never taken back.
LateIsLast ==
    \/ late = 0
    \/ late = 1 /\ cancelled = TRUE /\ handler \in {"look", "cancel", "remove", "done"}

CallInv == TypeOK /\ LateIsLast

LEMMA CallInit == Init => CallInv
<1> SUFFICES ASSUME Init PROVE CallInv
  OBVIOUS
<1>1. updateChan \in 0 .. Capacity /\ late \in 0 .. 2
  BY CapacityAssumption DEF Init
<1>2. /\ stream \in BOOLEAN /\ done \in BOOLEAN /\ cancelled \in BOOLEAN
      /\ registered \in BOOLEAN /\ passed \in BOOLEAN /\ reader \in BOOLEAN
  BY DEF Init
<1>3. TypeOK
  BY <1>1, <1>2 DEF Init, TypeOK
<1>4. LateIsLast
  BY DEF Init, LateIsLast
<1> QED
  BY <1>3, <1>4 DEF CallInv

LEMMA WatcherKeeps == ASSUME CallInv, Watcher PROVE CallInv'
<1> USE CapacityAssumption DEF CallInv, TypeOK, LateIsLast, WatcherAt
<1>1. CASE Receive
  <2>1. updateChan' \in 0 .. Capacity
    BY <1>1 DEF Receive
  <2> QED
    BY <1>1, <2>1 DEF Receive, handlerVars
<1>2. CASE Timeout
  BY <1>2 DEF Timeout, handlerVars
<1>3. CASE Flag
  BY <1>3 DEF Flag, handlerVars
<1>4. CASE WakeUp
  BY <1>4 DEF WakeUp, handlerVars
<1>5. CASE Stop
  BY <1>5 DEF Stop, handlerVars
<1>6. CASE FlagStopped
  BY <1>6 DEF FlagStopped, handlerVars
<1>7. CASE CloseReader
  BY <1>7 DEF CloseReader
<1> QED
  BY <1>1, <1>2, <1>3, <1>4, <1>5, <1>6, <1>7 DEF Watcher

LEMMA HandlerKeeps == ASSUME CallInv, Handler PROVE CallInv'
<1> USE CapacityAssumption DEF CallInv, TypeOK, LateIsLast, HandlerAt, watcherVars
<1>1. CASE Register
  BY <1>1 DEF Register
<1>2. CASE Response
  BY <1>2 DEF Response
<1>3. CASE CheckCancelled
  BY <1>3 DEF CheckCancelled
<1>4. CASE Respond
  BY <1>4 DEF Respond
<1>5. CASE Send
  BY <1>5 DEF Send
<1>6. CASE ForwardEvent
  BY <1>6 DEF ForwardEvent
<1>7. CASE Look
  BY <1>7 DEF Look
<1>8. CASE Fails
  BY <1>8 DEF Fails
<1>9. CASE Cancel
  BY <1>9 DEF Cancel
<1>10. CASE Remove
  BY <1>10 DEF Remove
<1> QED
  BY <1>1, <1>2, <1>3, <1>4, <1>5, <1>6, <1>7, <1>8, <1>9, <1>10 DEF Handler

LEMMA OutsideKeeps ==
  ASSUME CallInv, TimePasses \/ ClientGone \/ SessionMoves \/ UNCHANGED vars
  PROVE  CallInv'
<1> USE DEF CallInv, TypeOK, LateIsLast
<1>1. CASE TimePasses
  BY <1>1 DEF TimePasses, handlerVars
<1>2. CASE ClientGone
  BY <1>2 DEF ClientGone, handlerVars, watcherVars
<1>3. CASE SessionMoves
  BY <1>3 DEF SessionMoves, watcherVars
<1>4. CASE UNCHANGED vars
  BY <1>4 DEF vars, handlerVars, watcherVars
<1> QED
  BY <1>1, <1>2, <1>3, <1>4

LEMMA CallInvariant == Spec => []CallInv
<1>1. CallInv /\ [Next]_vars => CallInv'
  BY WatcherKeeps, HandlerKeeps, OutsideKeeps DEF Next
<1> QED
  BY CallInit, <1>1, PTL DEF Spec

\* The variables of the call keep their types; the channel never holds more
\* updates than its capacity.
THEOREM CallTypes == Spec => []TypeOK
  BY CallInvariant, PTL DEF CallInv

\* After the flag `cancelled' was set at most one more event is forwarded,
\* whatever the goroutine, the session and the client do in between.
THEOREM LateEventsAreFew == Spec => []FewLateEvents
<1>1. CallInv => FewLateEvents
  BY DEF CallInv, LateIsLast, FewLateEvents
<1> QED
  BY CallInvariant, <1>1, PTL

=============================================================================
