----------------------------- MODULE SessionCall -----------------------------
(***************************************************************************)
(* A proxied call and the table of sessions.  The call holds the group and *)
(* the session that its request was given (src/proxy/beaconproxy.go:167),  *)
(* and the events of a stream mark both as seen; other requests and the    *)
(* cleanup go on in the table.  A tick of time ages the table and brings   *)
(* the deadline of the call closer.                                        *)
(***************************************************************************)
EXTENDS ProxyCall, SessionTable

CONSTANTS
    Owner,       \* the address and the prefix of the call
    CallTimeout  \* in ticks

ASSUME OwnerAssumption == Owner \in Keys

\* The deadline is pushed back when the response arrives, which is not seen by
\* the session, and from then on with each event.
ASSUME TimeoutAssumption ==
    /\ CallTimeout \in Nat \ {0}
    /\ 2 * CallTimeout <= SessionTimeout
    /\ Burst > 0

VARIABLES
    left,  \* ticks until the deadline
    held   \* the call's group and session, if the table still has them

systemVars == <<vars, tableVars, left, held>>

SystemTypeOK ==
    /\ TypeOK
    /\ TableTypeOK
    /\ left \in 0 .. CallTimeout
    /\ held \subseteq {"group", "session"}

\* The request has been admitted as the first one of its address.
SystemInit ==
    /\ Init
    /\ groups = {Owner[1]}
    /\ seen = [a \in Addrs |-> 0]
    /\ tokens = [a \in Addrs |-> IF a = Owner[1] THEN Burst - 1 ELSE Burst]
    /\ sessions = {Owner}
    /\ used = [k \in Keys |-> 0]
    /\ answer = [a \in Addrs |-> IF a = Owner[1] THEN "admitted" ELSE "none"]
    /\ left = CallTimeout
    /\ held = {"group", "session"}

-----------------------------------------------------------------------------
(* The call *)

\* An update sets a new deadline.
SetDeadline ==
    /\ Receive
    /\ left' = CallTimeout
    /\ UNCHANGED <<tableVars, held>>

\* Mutant: an event pushes the deadline back, but does not mark the session.
MarkSeenNot == Look /\ UNCHANGED <<tableVars, left, held>>

\* After an event of an uncancelled stream its session has been seen.
MarkSeen ==
    /\ Look
    /\ IF handler' = "send" /\ "group" \in held
       THEN StreamEvent(Owner, "session" \in held)
       ELSE UNCHANGED tableVars
    /\ UNCHANGED <<left, held>>

\* The other steps of the call do not touch the table.
OnlyCall == UNCHANGED <<tableVars, left, held>>

WatcherStep ==
    (Timeout \/ Flag \/ WakeUp \/ Stop \/ FlagStopped \/ CloseReader) /\ OnlyCall

HandlerStep ==
    (Register \/ CheckCancelled \/ Respond \/ Send \/ Cancel \/ Remove) /\ OnlyCall

NodeStep == (Response \/ ForwardEvent \/ Fails) /\ OnlyCall

OutsideStep == (ClientGone \/ SessionMoves) /\ OnlyCall

-----------------------------------------------------------------------------
(* The table *)

OtherRequest ==
    /\ \E a \in Addrs, p \in Prefixes : Request(a, p)
    /\ UNCHANGED <<vars, left, held>>

\* A group or session that is removed is not put back: the next request of
\* its address creates another one.
CleanupRuns ==
    /\ Cleanup
    /\ held' = IF Owner[1] \notin GroupsKept THEN {}
               ELSE IF Owner \notin SessionsKept THEN held \ {"session"}
               ELSE held
    /\ UNCHANGED <<vars, left>>

\* The goroutines are fast compared to a tick: a deadline that has passed and
\* an update that is sent are noticed before the next one.
Prompt == done \/ (~passed /\ updateChan = 0 /\ handler # "send")

Clock ==
    /\ Prompt
    /\ Tick
    /\ left' = IF left > 0 THEN left - 1 ELSE left
    /\ passed' = (left' = 0)
    /\ UNCHANGED <<handlerVars, watcher, cancelled, done, updateChan, held>>

SystemNext ==
    \/ SetDeadline \/ MarkSeen
    \/ WatcherStep \/ HandlerStep \/ NodeStep \/ OutsideStep
    \/ OtherRequest \/ CleanupRuns \/ Clock

SystemSpec == SystemInit /\ [][SystemNext]_systemVars

\* The fairness of ProxyCall, with the clock instead of TimePasses.
SystemFairness ==
    /\ WF_systemVars(SetDeadline \/ WatcherStep)
    /\ SF_systemVars(Stop /\ OnlyCall)
    /\ WF_systemVars(MarkSeen \/ HandlerStep)
    /\ WF_systemVars(done /\ Fails /\ OnlyCall)
    /\ WF_systemVars(Clock)

SystemFairSpec == SystemSpec /\ SystemFairness

-----------------------------------------------------------------------------
(* Properties *)

\* A call that has not been cancelled keeps its group and session in the
\* table, however long its stream runs and however quiet its address is, so
\* that a move of the session and the limit of the address still reach it.
LiveCallKeepsSession == ~done => held = {"group", "session"}

=============================================================================
