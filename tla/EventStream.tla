----------------------------- MODULE EventStream -----------------------------
(***************************************************************************)
(* The event stream between a node and its client's goroutine, from its    *)
(* opening to its end.  Four goroutines take part: the reader, which       *)
(* decodes events and reconnects (src/rpc/eventstream/eventstream.go); the *)
(* consumer, which hands them on (startStream in src/rpc/beaconstream.go); *)
(* the client, which takes them (runPoolClient in                          *)
(* src/pool/clientlogic.go) and closes the stream when the node fails; and *)
(* the closer, which closes the channels of the reader.                    *)
(*                                                                         *)
(* The channels Events and Ready have no buffer: a send on them is one     *)
(* step of the reader and the consumer.  Events carry no data here.        *)
(***************************************************************************)
EXTENDS Integers, Sequences

CONSTANTS
    Capacity  \* of Errors, EventChan and ReadyChan, all ten in the code

ASSUME StreamAssumption == Capacity \in Nat \ {0}

VARIABLES
    client,     \* the client's goroutine
    online,     \* its isOnline
    killed,     \* killChan is closed
    eventChan,  \* number of events in EventChan
    readyChan,  \* the reports in ReadyChan
    consumer,   \* where the consumer is
    reader,     \* where the reader is; "none" before the first connection
    errors,     \* number of errors in Errors
    isClosed    \* the closer has run: Errors and Events are closed

clientVars == <<client, online, killed>>
vars == <<clientVars, eventChan, readyChan, consumer, reader, errors, isClosed>>

TypeOK ==
    /\ client \in {"running", "closing", "closed"}
    /\ online \in BOOLEAN /\ killed \in BOOLEAN
    /\ eventChan \in 0 .. Capacity
    /\ readyChan \in Seq(BOOLEAN) /\ Len(readyChan) <= Capacity
    /\ consumer \in {"start", "subscribe", "wait", "select", "event", "ready",
                     "notReady", "close", "done"}
    /\ reader \in {"none", "announce", "decode", "emit", "fail", "backoff",
                   "connect", "report", "gone", "panic"}
    /\ errors \in 0 .. Capacity
    /\ isClosed \in BOOLEAN

\* NewBlockStream.
Init ==
    /\ client = "running"
    /\ online = FALSE
    /\ killed = FALSE
    /\ eventChan = 0
    /\ readyChan = <<>>
    /\ consumer = "start"
    /\ reader = "none"
    /\ errors = 0
    /\ isClosed = FALSE

\* A panic of the reader, which nothing recovers, ends the process.
Alive == reader # "panic"

-----------------------------------------------------------------------------
(* The client *)

TakeEvent ==
    /\ Alive /\ client = "running"
    /\ eventChan > 0
    /\ eventChan' = eventChan - 1
    /\ UNCHANGED <<clientVars, readyChan, consumer, reader, errors, isClosed>>

\* A report that the stream is connected or not sets the client's status.
TakeReady ==
    /\ Alive /\ client = "running"
    /\ readyChan # <<>>
    /\ online' = Head(readyChan)
    /\ readyChan' = Tail(readyChan)
    /\ UNCHANGED <<client, killed, eventChan, consumer, reader, errors, isClosed>>

\* Mutant: the client is closed as it is.
CloseAsItIs ==
    /\ Alive /\ client = "running"
    /\ client' = "closing"
    /\ killed' = TRUE
    /\ UNCHANGED <<online, eventChan, readyChan, consumer, reader, errors, isClosed>>

\* The node fails a check: the client goes offline and closes the stream.
Close ==
    /\ Alive /\ client = "running"
    /\ client' = "closing"
    /\ online' = FALSE
    /\ killed' = TRUE
    /\ UNCHANGED <<eventChan, readyChan, consumer, reader, errors, isClosed>>

\* Close returns once it gets runMutex, which the consumer holds from its
\* start to its end.
CloseReturns ==
    /\ Alive /\ client = "closing"
    /\ consumer \in {"start", "done"}
    /\ client' = "closed"
    /\ UNCHANGED <<online, killed, eventChan, readyChan, consumer, reader,
                   errors, isClosed>>

-----------------------------------------------------------------------------
(* The consumer: startStream *)

ConsumerAt(from, to) == Alive /\ consumer = from /\ consumer' = to

Start ==
    /\ ConsumerAt("start", "subscribe")
    /\ UNCHANGED <<clientVars, eventChan, readyChan, reader, errors, isClosed>>

\* The first connection succeeds, which starts the reader ...  A connection has
\* no timeout and no context: until it succeeds or fails the consumer does not
\* look at killChan.
Subscribe ==
    /\ ConsumerAt("subscribe", "select")
    /\ reader' = "announce"
    /\ UNCHANGED <<clientVars, eventChan, readyChan, errors, isClosed>>

\* ... or fails, and is tried again unless the stream is closed meanwhile.
SubscribeFails ==
    /\ ConsumerAt("subscribe", "wait")
    /\ UNCHANGED <<clientVars, eventChan, readyChan, reader, errors, isClosed>>

SubscribeAgain ==
    /\ ConsumerAt("wait", "subscribe")
    /\ UNCHANGED <<clientVars, eventChan, readyChan, reader, errors, isClosed>>

\* Mutant: closing the stream ends the wait, but not the attempts.
GiveUpWaiting ==
    /\ killed
    /\ ConsumerAt("wait", "subscribe")
    /\ UNCHANGED <<clientVars, eventChan, readyChan, reader, errors, isClosed>>

GiveUp ==
    /\ killed
    /\ ConsumerAt("wait", "done")
    /\ UNCHANGED <<clientVars, eventChan, readyChan, reader, errors, isClosed>>

\* The select takes an event; one that cannot be parsed is dropped.
ReceiveEvent ==
    /\ consumer = "select" /\ reader = "emit"
    /\ ~isClosed
    /\ consumer' \in {"select", "event"}
    /\ reader' = "decode"
    /\ UNCHANGED <<clientVars, eventChan, readyChan, errors, isClosed>>

ReceiveReady ==
    /\ ConsumerAt("select", "ready")
    /\ reader = "announce"
    /\ reader' = "decode"
    /\ UNCHANGED <<clientVars, eventChan, readyChan, errors, isClosed>>

\* Mutant: the error is logged, but not reported.
LogError ==
    /\ ConsumerAt("select", "select")
    /\ errors > 0
    /\ errors' = errors - 1
    /\ UNCHANGED <<clientVars, eventChan, readyChan, reader, isClosed>>

ReceiveError ==
    /\ ConsumerAt("select", "notReady")
    /\ errors > 0
    /\ errors' = errors - 1
    /\ UNCHANGED <<clientVars, eventChan, readyChan, reader, isClosed>>

ReceiveKill ==
    /\ killed
    /\ ConsumerAt("select", "close")
    /\ UNCHANGED <<clientVars, eventChan, readyChan, reader, errors, isClosed>>

\* Mutant: the channel takes any number of events.
SendEventAlways ==
    /\ ConsumerAt("event", "select")
    /\ eventChan' = eventChan + 1
    /\ UNCHANGED <<clientVars, readyChan, reader, errors, isClosed>>

\* Sends wait for room in the channel, and for nothing else.
SendEvent ==
    /\ ConsumerAt("event", "select")
    /\ eventChan < Capacity
    /\ eventChan' = eventChan + 1
    /\ UNCHANGED <<clientVars, readyChan, reader, errors, isClosed>>

SendReady ==
    /\ Alive /\ consumer \in {"ready", "notReady"}
    /\ Len(readyChan) < Capacity
    /\ readyChan' = Append(readyChan, consumer = "ready")
    /\ consumer' = "select"
    /\ UNCHANGED <<clientVars, eventChan, reader, errors, isClosed>>

\* The end of startStream; stream.Close starts the closer.
End ==
    /\ ConsumerAt("close", "done")
    /\ UNCHANGED <<clientVars, eventChan, readyChan, reader, errors, isClosed>>

\* The closer, once it gets closeMutex, which the reader may hold.
CloseChannels ==
    /\ Alive /\ consumer = "done" /\ reader # "none"
    /\ ~isClosed
    /\ reader # "fail"
    /\ isClosed' = TRUE
    /\ UNCHANGED <<clientVars, eventChan, readyChan, consumer, reader, errors>>

-----------------------------------------------------------------------------
(* The reader: stream, receiveEvents and retryRestartStream *)

ReaderAt(from, to) ==
    /\ reader = from /\ reader' = to
    /\ UNCHANGED <<clientVars, eventChan, readyChan, consumer, isClosed>>

\* Under closeMutex it sees whether the stream is closed; an event is then
\* emitted without the mutex, an error is reported with it.
Decode ==
    /\ \/ isClosed /\ ReaderAt("decode", "gone")
       \/ ~isClosed /\ ReaderAt("decode", "emit")
       \/ ~isClosed /\ ReaderAt("decode", "fail")
    /\ UNCHANGED errors

\* Sending on a closed channel panics.
EmitPanics == isClosed /\ ReaderAt("emit", "panic") /\ UNCHANGED errors

\* Mutant: the error that ends a connection is not reported.
DropError == ReaderAt("fail", "backoff") /\ UNCHANGED errors

SendError ==
    /\ ReaderAt("fail", "backoff")
    /\ errors < Capacity
    /\ errors' = errors + 1

\* It waits before it connects again, unless the stream is closed by then.
BackedOff ==
    /\ ReaderAt("backoff", IF isClosed THEN "gone" ELSE "connect")
    /\ UNCHANGED errors

Reconnect == ReaderAt("connect", "announce") /\ UNCHANGED errors

ReconnectFails ==
    /\ ReaderAt("connect", IF isClosed THEN "gone" ELSE "report")
    /\ UNCHANGED errors

ReportFailure ==
    /\ ReaderAt("report", IF isClosed THEN "panic" ELSE "backoff")
    /\ isClosed \/ errors < Capacity
    /\ errors' = IF isClosed THEN errors ELSE errors + 1

-----------------------------------------------------------------------------

Client == TakeEvent \/ TakeReady \/ CloseReturns

Consumer ==
    \/ Start \/ Subscribe \/ SubscribeFails \/ SubscribeAgain \/ GiveUp
    \/ ReceiveEvent \/ ReceiveReady \/ ReceiveError \/ ReceiveKill
    \/ SendEvent \/ SendReady \/ End

Reader ==
    \/ Decode \/ EmitPanics \/ SendError \/ BackedOff
    \/ Reconnect \/ ReconnectFails \/ ReportFailure

Next == Client \/ Close \/ Consumer \/ CloseChannels \/ Reader

Spec == Init /\ [][Next]_vars

\* All goroutines are scheduled, and a select does not pass over a case that
\* stays ready for ever.  Nothing is assumed of the node: a connection need not
\* return, and one that is open need not bring anything.
Fairness ==
    /\ WF_vars(TakeEvent)
    /\ WF_vars(TakeReady)
    /\ WF_vars(CloseReturns)
    /\ WF_vars(consumer # "subscribe" /\ Consumer)
    /\ SF_vars(ReceiveKill \/ GiveUp)
    /\ SF_vars(ReceiveError)
    /\ WF_vars(CloseChannels)
    /\ WF_vars(reader \notin {"connect", "decode"} /\ Reader)

FairSpec == Spec /\ Fairness

-----------------------------------------------------------------------------
(* Properties *)

Lost == reader \in {"backoff", "connect", "report"}

\* Nothing is on its way from the reader to the client.
Delivered == errors = 0 /\ readyChan = <<>> /\ consumer = "select"

\* Once all reports are delivered a client whose stream is down is not
\* online: whatever order the consumer takes reports in, the last one is not
\* that the stream is connected.
NotOnlineWhenLost == Lost /\ Delivered => ~online

\* The consumer waits for room in a channel that its client has left.
Stuck ==
    \/ consumer = "event" /\ eventChan = Capacity
    \/ consumer \in {"ready", "notReady"} /\ Len(readyChan) = Capacity

\* README.md line 8 promises to monitor the endpoints closely: a client that
\* closes a stream that was connected gets to connect again.
CloseAlwaysReturns ==
    client = "closing" /\ reader # "none" ~> client = "closed" \/ ~Alive

\* The comment at src/rpc/eventstream/eventstream.go:101 says that Close is
\* safe for concurrent access: no send of the reader panics.
NoPanic == Alive

=============================================================================
