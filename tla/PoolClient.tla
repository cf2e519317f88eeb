------------------------------ MODULE PoolClient ------------------------------
(***************************************************************************)
(* The goroutine of a client of the pool (runPoolClientLoop, checkPool-    *)
(* Client and runPoolClient in src/pool/clientlogic.go) around the event   *)
(* streams that it opens and closes (module EventStream): it checks its    *)
(* node, polls the head, follows a stream while it checks the node on      *)
(* timers, closes the stream when a check fails, sleeps, and starts again. *)
(* A panic is recovered and restarts the goroutine.                        *)
(*                                                                         *)
(* The timers of the select are actions that may happen at any time.       *)
(***************************************************************************)
EXTENDS EventStream

VARIABLES
    node,       \* what the node does
    loop,       \* where the goroutine is
    isSyncing,  \* isSyncing or isOptimistic
    panicked,   \* history: the loop has panicked online, and not set its
                \* status since
    leftover,   \* goroutines of an earlier stream still run
    hung        \* the connection that the stream is opening may never return

loopVars == <<node, loop, isSyncing, panicked, leftover, hung>>
poolVars == <<vars, loopVars>>

\* The node works; it cannot be reached; it accepts connections, but answers
\* nothing; it is syncing or optimistic; its head is behind the finalized
\* checkpoint of the pool, or its specs are not the pool's; or it answers with
\* an identity that has no data.
Nodes == {"good", "down", "silent", "syncing", "behind", "odd"}

\* Every request to the node fails, for some by their timeout.
Unreachable == node \in {"down", "silent"}

PoolTypeOK ==
    /\ TypeOK
    /\ node \in Nodes
    /\ loop \in {"check", "poll", "follow", "sleep"}
    /\ isSyncing \in BOOLEAN
    /\ panicked \in BOOLEAN
    /\ leftover \in BOOLEAN
    /\ hung \in BOOLEAN

\* newPoolClient: there is no stream.
PoolInit ==
    /\ client = "closed"
    /\ online = FALSE
    /\ killed = FALSE
    /\ eventChan = 0
    /\ readyChan = <<>>
    /\ consumer = "done"
    /\ reader = "none"
    /\ errors = 0
    /\ isClosed = FALSE
    /\ node \in Nodes
    /\ loop = "check"
    /\ isSyncing = FALSE
    /\ panicked = FALSE
    /\ leftover = FALSE
    /\ hung = FALSE

NodeChanges ==
    /\ \E n \in Nodes \ {node} : node' = n
    /\ UNCHANGED <<vars, loop, isSyncing, panicked, leftover, hung>>

\* The connection is lost on a silent node: whatever the node does later, it
\* need not answer.
Hang ==
    /\ Alive /\ node = "silent"
    /\ consumer = "subscribe" \/ reader = "connect"
    /\ hung' = TRUE
    /\ UNCHANGED <<vars, node, loop, isSyncing, panicked, leftover>>

-----------------------------------------------------------------------------
(* Before the stream *)

LoopAt(from, to) == Alive /\ loop = from /\ loop' = to

streamVars == <<client, killed, eventChan, readyChan, consumer, reader, errors, isClosed>>

\* An error takes the client offline until it tries again.
FailsAt(from) ==
    /\ LoopAt(from, "sleep")
    /\ online' = FALSE
    /\ panicked' = FALSE
    /\ UNCHANGED <<streamVars, node, isSyncing, leftover, hung>>

\* Mutant: the check leaves the status as it is when the node is not syncing.
CheckOnlySets ==
    /\ ~Unreachable /\ node # "odd"
    /\ LoopAt("check", "poll")
    /\ isSyncing' = (isSyncing \/ node = "syncing")
    /\ UNCHANGED <<vars, node, panicked, leftover, hung>>

\* checkPoolClient.
Check ==
    /\ ~Unreachable /\ node # "odd"
    /\ LoopAt("check", "poll")
    /\ isSyncing' = (node = "syncing")
    /\ UNCHANGED <<vars, node, panicked, leftover, hung>>

CheckFails == Unreachable /\ FailsAt("check")

\* pollClientHead, and then what it has shown.
PollFails == (Unreachable \/ node = "behind" \/ isSyncing) /\ FailsAt("poll")

\* The reader of the last stream may not have noticed that it was closed, and
\* its consumer may not even have started.
Lingers == leftover \/ reader \notin {"none", "gone"} \/ consumer = "start"

\* NewBlockStream.
OpenStream ==
    /\ ~Unreachable /\ node # "behind" /\ ~isSyncing
    /\ LoopAt("poll", "follow")
    /\ client' = "running"
    /\ killed' = FALSE
    /\ eventChan' = 0
    /\ readyChan' = <<>>
    /\ consumer' = "start"
    /\ reader' = "none"
    /\ errors' = 0
    /\ isClosed' = FALSE
    /\ leftover' = Lingers
    /\ hung' = FALSE
    /\ UNCHANGED <<online, node, isSyncing, panicked>>

\* A reader of an earlier stream panics like the one of the last stream.
LeftoverPanics ==
    /\ Alive /\ leftover
    /\ reader' = "panic"
    /\ UNCHANGED <<clientVars, eventChan, readyChan, consumer, errors, isClosed, loopVars>>

Wake ==
    /\ LoopAt("sleep", "check")
    /\ UNCHANGED <<vars, node, isSyncing, panicked, leftover, hung>>

-----------------------------------------------------------------------------
(* While it follows the stream *)

\* Only the reports set the status.
FollowReady ==
    TakeReady /\ panicked' = FALSE /\ UNCHANGED <<node, loop, isSyncing, leftover, hung>>

SyncCheck ==
    /\ Alive /\ client = "running" /\ ~Unreachable
    /\ isSyncing' = (node = "syncing")
    /\ UNCHANGED <<vars, node, loop, panicked, leftover, hung>>

\* Mutant: the errors of the timers are logged like the ones of the meta data.
TimersFailQuietly ==
    /\ Alive /\ client = "running" /\ Unreachable
    /\ UNCHANGED poolVars

\* The check of the sync status or the poll of the head fails.
TimersFail ==
    /\ Unreachable
    /\ Close
    /\ panicked' = FALSE
    /\ UNCHANGED <<node, loop, isSyncing, leftover, hung>>

\* The defer of runPoolClient has closed the stream.
FollowEnds ==
    CloseReturns /\ loop' = "sleep" /\ UNCHANGED <<node, isSyncing, panicked, leftover, hung>>

-----------------------------------------------------------------------------
(* Panics of updateMetaData, which HandleSubroutinePanic recovers *)

CheckPanics ==
    /\ node = "odd"
    /\ LoopAt("check", "sleep")
    /\ panicked' = (panicked \/ online)
    /\ UNCHANGED <<vars, node, isSyncing, leftover, hung>>

FollowPanics ==
    /\ node = "odd"
    /\ Alive /\ client = "running"
    /\ client' = "closing"
    /\ killed' = TRUE
    /\ panicked' = (panicked \/ online)
    /\ UNCHANGED <<online, eventChan, readyChan, consumer, reader, errors, isClosed,
                   node, loop, isSyncing, leftover, hung>>

-----------------------------------------------------------------------------

\* A connection returns, unless the node is silent, with the outcome that the
\* node gives it; one that was lost returns in any way, if it does.
ConnectReturns(connected) ==
    /\ hung \/ (node # "silent" /\ connected = (node # "down"))
    /\ hung' = FALSE
    /\ UNCHANGED <<node, loop, isSyncing, panicked, leftover>>

ConsumerStep ==
    /\ Consumer
    /\ IF consumer = "subscribe" THEN ConnectReturns(consumer' = "select")
       ELSE UNCHANGED loopVars

ReaderStep ==
    /\ Reader
    /\ IF reader = "connect" THEN ConnectReturns(reader' = "announce")
       ELSE UNCHANGED loopVars

Stream(A) == A /\ UNCHANGED loopVars

Loop ==
    \/ Check \/ CheckFails \/ CheckPanics
    \/ PollFails \/ OpenStream
    \/ Wake \/ FollowEnds

Timers == SyncCheck \/ TimersFail \/ FollowPanics

PoolNext ==
    \/ NodeChanges \/ Hang
    \/ Loop \/ Timers
    \/ Stream(TakeEvent) \/ FollowReady
    \/ ConsumerStep \/ ReaderStep \/ Stream(CloseChannels)
    \/ LeftoverPanics

PoolSpec == PoolInit /\ [][PoolNext]_poolVars

\* All goroutines are scheduled, the timers fire, and a select does not pass
\* over a case that stays ready for ever.  A connection that is lost need not
\* return, and a node need not send anything on one that is open.
PoolFairness ==
    /\ WF_poolVars(Loop)
    /\ WF_poolVars(Timers)
    /\ WF_poolVars(Stream(TakeEvent))
    /\ WF_poolVars(FollowReady)
    /\ WF_poolVars((consumer = "subscribe" => ~hung) /\ ConsumerStep)
    /\ SF_poolVars(Stream(ReceiveKill \/ GiveUp))
    /\ SF_poolVars(Stream(ReceiveError))
    /\ WF_poolVars(Stream(CloseChannels))
    /\ WF_poolVars(reader # "decode" /\ (reader = "connect" => ~hung) /\ ReaderStep)

FairPoolSpec == PoolSpec /\ PoolFairness

-----------------------------------------------------------------------------
(* Properties *)

\* A client is online only while its goroutine follows a stream that has been
\* connected; but a panic leaves it online, whatever the node does, until the
\* next stream reports or the next check fails.
OnlineIsFollowed ==
    online /\ ~panicked => client = "running" /\ reader # "none"

\* A stream that goes down takes its client offline, or comes back, unless the
\* goroutine has panicked.
LossNoticed == Lost ~> ~online \/ ~Lost \/ panicked

\* Close returns, or the process has panicked, or the consumer waits for ever:
\* for room in a channel, or for its first connection, of which it has again
\* and again no answer to expect.  Nothing else that the node does can hold the
\* goroutine up, nor can the reader.
ReturnsOrStuck ==
    client = "closing" ~>
       \/ client = "closed"
       \/ ~Alive
       \/ Stuck
       \/ [](consumer = "subscribe" /\ <>(hung \/ node = "silent"))

\* The goroutine waits for ever for the consumer of its stream, which waits for
\* it, or for its first connection.
StuckForEver == <>[](client = "closing" /\ (Stuck \/ consumer = "subscribe"))

\* A node that cannot be reached for good takes its client offline for good,
\* although its stream may go on: unless the goroutine has panicked and is stuck.
DownNodeLeaves ==
    <>[]Unreachable =>
       \/ <>[]~online
       \/ <>~Alive
       \/ StuckForEver /\ <>[]panicked

Connected == client = "running" /\ reader \in {"decode", "emit"}

\* A node that works for good is online again and again, or its stream stays
\* connected, whatever it did before and whatever state its stream was left in,
\* unless the goroutine is stuck, or its stream waits for a connection that was
\* lost.  The second case is not always the first: the select may take the
\* report of a connection before the error that ended the one before, and then
\* leaves the client offline for as long as the stream lasts.
GoodNodeReturns ==
    <>[](node = "good") =>
       \/ []<>(online /\ ~isSyncing)
       \/ <>[](Connected /\ ~isSyncing)
       \/ <>~Alive
       \/ StuckForEver
       \/ <>[]hung

=============================================================================
