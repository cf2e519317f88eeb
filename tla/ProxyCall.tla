------------------------------ MODULE ProxyCall ------------------------------
(***************************************************************************)
(* One proxied call (src/proxy/proxycall.go): the handler, which forwards  *)
(* the node's response, and the goroutine of its call context, which       *)
(* cancels the call when its deadline passes.  An event stream pushes the  *)
(* deadline back with each event, through updateChan.                      *)
(*                                                                         *)
(* Outside are the node, which answers when it likes or never, the client, *)
(* which may disconnect, and the session, which may move to another        *)
(* endpoint and then cancels its calls.                                    *)
(***************************************************************************)
EXTENDS Integers

CONSTANTS
    Capacity  \* of updateChan

ASSUME CapacityAssumption == Capacity \in Nat \ {0}

VARIABLES
    stream,      \* the response is an event stream
    handler,     \* where the handler is
    watcher,     \* where the goroutine of the context is
    done,        \* the context is cancelled
    cancelled,   \* the flag of the same name
    registered,  \* the session knows the call
    updateChan,  \* number of updates in the channel
    passed,      \* the deadline has passed
    body,        \* the body of the response
    reader,      \* streamReader is set
    late         \* history: events forwarded since the flag was set, up to 2

handlerVars == <<stream, handler, registered, body, reader, late>>
watcherVars == <<watcher, cancelled, passed>>
vars == <<handlerVars, watcherVars, done, updateChan>>

TypeOK ==
    /\ stream \in BOOLEAN
    /\ handler \in {"register", "request", "check", "respond", "copy", "send",
                    "read", "look", "cancel", "remove", "done"}
    /\ watcher \in {"select", "fired", "sleep", "stop", "close", "exit"}
    /\ done \in BOOLEAN /\ cancelled \in BOOLEAN /\ registered \in BOOLEAN
    /\ updateChan \in 0 .. Capacity
    /\ passed \in BOOLEAN
    /\ body \in {"none", "open", "closed"}
    /\ reader \in BOOLEAN
    /\ late \in 0 .. 2

\* newProxyCallContext has started the goroutine.
Init ==
    /\ stream \in BOOLEAN
    /\ handler = "register"
    /\ watcher = "select"
    /\ done = FALSE
    /\ cancelled = FALSE
    /\ registered = FALSE
    /\ updateChan = 0
    /\ passed = FALSE
    /\ body = "none"
    /\ reader = FALSE
    /\ late = 0

-----------------------------------------------------------------------------
(* processCallContext *)

WatcherAt(from, to) == watcher = from /\ watcher' = to

\* The select takes an update, which sets a new deadline ...
Receive ==
    /\ watcher = "select"
    /\ updateChan > 0
    /\ updateChan' = updateChan - 1
    /\ passed' = FALSE
    /\ UNCHANGED <<handlerVars, watcher, cancelled, done>>

\* ... or notices that the deadline has passed, and cancels the context ...
Timeout ==
    /\ WatcherAt("select", "fired")
    /\ passed
    /\ done' = TRUE
    /\ UNCHANGED <<handlerVars, cancelled, passed, updateChan>>

\* ... then sets the flag and sleeps.
Flag ==
    /\ WatcherAt("fired", "sleep")
    /\ cancelled' = TRUE
    /\ UNCHANGED <<handlerVars, passed, done, updateChan>>

WakeUp ==
    /\ WatcherAt("sleep", "select")
    /\ UNCHANGED <<handlerVars, cancelled, passed, done, updateChan>>

\* Mutant: the break leaves the select but not the loop.
StopLoopsOn ==
    /\ WatcherAt("select", "select")
    /\ done
    /\ UNCHANGED <<handlerVars, cancelled, passed, done, updateChan>>

\* Or it notices that the context is cancelled, and leaves the loop.
Stop ==
    /\ WatcherAt("select", "stop")
    /\ done
    /\ UNCHANGED <<handlerVars, cancelled, passed, done, updateChan>>

FlagStopped ==
    /\ WatcherAt("stop", "close")
    /\ cancelled' = TRUE
    /\ UNCHANGED <<handlerVars, passed, done, updateChan>>

CloseReader ==
    /\ WatcherAt("close", "exit")
    /\ body' = IF reader THEN "closed" ELSE body
    /\ UNCHANGED <<stream, handler, registered, reader, late,
                   cancelled, passed, done, updateChan>>

Watcher ==
    Receive \/ Timeout \/ Flag \/ WakeUp \/ Stop \/ FlagStopped \/ CloseReader

-----------------------------------------------------------------------------
(* processProxyCall and processEventStreamResponse *)

HandlerAt(from, to) == handler = from /\ handler' = to

\* addActiveContext.
Register ==
    /\ HandlerAt("register", "request")
    /\ registered' = TRUE
    /\ UNCHANGED <<stream, body, reader, late, watcherVars, done, updateChan>>

\* The node's response arrives, perhaps when the context was just cancelled.
Response ==
    /\ HandlerAt("request", "check")
    /\ body' = "open"
    /\ UNCHANGED <<stream, registered, reader, late, watcherVars, done, updateChan>>

\* Mutant: the request does not carry the context.
FailsWithoutContext ==
    /\ handler \in {"request", "copy", "read"}
    /\ body = "closed"
    /\ handler' = "cancel"
    /\ UNCHANGED <<stream, registered, body, reader, late, watcherVars, done,
                   updateChan>>

\* The request, or a read from the response, fails or ends: the context is
\* cancelled, the node has closed the connection, or the client is gone.
Fails ==
    /\ handler \in {"request", "copy", "read"}
    /\ handler' = "cancel"
    /\ UNCHANGED <<stream, registered, body, reader, late, watcherVars, done,
                   updateChan>>

\* A response that came after the flag was set is closed.
CheckCancelled ==
    /\ HandlerAt("check", IF cancelled THEN "cancel" ELSE "respond")
    /\ body' = IF cancelled THEN "closed" ELSE body
    /\ UNCHANGED <<stream, registered, reader, late, watcherVars, done, updateChan>>

\* streamReader is set and the response's headers go out.
Respond ==
    /\ HandlerAt("respond", IF stream THEN "send" ELSE "copy")
    /\ reader' = TRUE
    /\ UNCHANGED <<stream, registered, body, late, watcherVars, done, updateChan>>

\* Mutant: the channel takes any number of updates.
SendAlways ==
    /\ HandlerAt("send", "read")
    /\ updateChan' = updateChan + 1
    /\ UNCHANGED <<stream, registered, body, reader, late, watcherVars, done>>

\* The deadline is pushed back, which waits for room in the channel.
Send ==
    /\ HandlerAt("send", "read")
    /\ updateChan < Capacity
    /\ updateChan' = updateChan + 1
    /\ UNCHANGED <<stream, registered, body, reader, late, watcherVars, done>>

\* An event is read, possibly from the buffer in front of a closed body, and
\* written to the client.
ForwardEvent ==
    /\ HandlerAt("read", "look")
    /\ late' = IF cancelled /\ late < 2 THEN late + 1 ELSE late
    /\ UNCHANGED <<stream, registered, body, reader, watcherVars, done, updateChan>>

\* Mutant: the flag is not looked at.
GoOn ==
    /\ HandlerAt("look", "send")
    /\ UNCHANGED <<stream, registered, body, reader, late, watcherVars, done,
                   updateChan>>

\* After each event the handler looks at the flag.
Look ==
    /\ HandlerAt("look", IF cancelled THEN "cancel" ELSE "send")
    /\ UNCHANGED <<stream, registered, body, reader, late, watcherVars, done,
                   updateChan>>

\* The deferred function.
Cancel ==
    /\ HandlerAt("cancel", "remove")
    /\ done' = TRUE
    /\ UNCHANGED <<stream, registered, body, reader, late, watcherVars, updateChan>>

Remove ==
    /\ HandlerAt("remove", "done")
    /\ registered' = FALSE
    /\ UNCHANGED <<stream, body, reader, late, watcherVars, done, updateChan>>

Handler ==
    \/ Register \/ Response \/ CheckCancelled \/ Respond \/ Send
    \/ ForwardEvent \/ Look \/ Fails \/ Cancel \/ Remove

-----------------------------------------------------------------------------
(* Outside *)

\* The deadline passes.
TimePasses ==
    /\ ~passed
    /\ passed' = TRUE
    /\ UNCHANGED <<handlerVars, watcher, cancelled, done, updateChan>>

\* The client disconnects, which cancels the context of its request.
ClientGone ==
    /\ handler # "done"
    /\ ~done
    /\ done' = TRUE
    /\ UNCHANGED <<handlerVars, watcherVars, updateChan>>

\* setLastPoolClient moves the session: cancelActiveConnections.
SessionMoves ==
    /\ registered
    /\ done' = TRUE
    /\ registered' = FALSE
    /\ UNCHANGED <<stream, handler, body, reader, late, watcherVars, updateChan>>

Next == Watcher \/ Handler \/ TimePasses \/ ClientGone \/ SessionMoves

Spec == Init /\ [][Next]_vars

\* Both goroutines are scheduled; the node's answers are not owed, but a
\* cancelled context ends the request and its reads.  Writes to the client of
\* the call are assumed to return or fail, which the server's write timeout
\* would see to if it were configured, but has no default.  Deadlines pass.  A
\* select chooses at random among the cases that are ready, so that it does
\* not pass over the cancelled context for ever.
Fairness ==
    /\ WF_vars(Watcher)
    /\ SF_vars(Stop)
    /\ WF_vars(Register \/ CheckCancelled \/ Respond \/ Send \/ Look
                  \/ Cancel \/ Remove)
    /\ WF_vars(done /\ Fails)
    /\ WF_vars(TimePasses)

FairSpec == Spec /\ Fairness

-----------------------------------------------------------------------------
(* Properties *)

\* The handler waits for room in a channel that nobody reads any more.
Stuck == handler = "send" /\ updateChan = Capacity /\ watcher = "exit"

\* After the flag was set at most one more event reaches the client, also if
\* more of them are buffered.
FewLateEvents == late <= 1

\* A call that is no event stream ends, whatever the node does: nothing but
\* the goroutine's deadline sees to it, and writes to the client return or fail.
PlainCallEnds == ~stream ~> handler = "done"

\* The goroutine does not outlive its call for ever.
WatcherEnds == handler = "done" ~> watcher = "exit"

\* A cancelled call ends or is stuck on the channel; when writes to the client
\* return or fail nothing else holds it, neither the node nor the goroutine.
EndsOrStuck == done ~> handler = "done" \/ Stuck

\* dugtrio-config.example.yaml lines 35 and 36 give calls a timeout: a call
\* whose context has been cancelled by it, or otherwise, ends.
CancelledCallEnds == done ~> handler = "done"

=============================================================================
