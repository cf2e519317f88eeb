---------------------------- MODULE SessionTable ----------------------------
(***************************************************************************)
(* The sessions of the proxy (src/proxy/session.go): a group per address   *)
(* with the rate limiter that all its requests share, and in each group a  *)
(* session per prefix.  Requests and the events of streams keep them       *)
(* alive, a periodic cleanup removes the ones that have not been seen for  *)
(* the session timeout.                                                    *)
(*                                                                         *)
(* An address stands for an address and the identifier of the user.  Time  *)
(* passes in ticks.  What is known of the time of an event is its age,     *)
(* which stops to grow once it is beyond the timeout.                      *)
(***************************************************************************)
EXTENDS Integers

CONSTANTS
    Addrs,          \* the addresses that requests come from
    Prefixes,       \* the prefixes of requests
    Rate,           \* CallRateLimit, in tokens per tick
    Burst,          \* CallRateBurst
    SessionTimeout  \* in ticks

\* The configuration has a rate limit.
ASSUME LimitAssumption ==
    /\ Rate \in Nat \ {0}
    /\ Burst \in Nat
    /\ SessionTimeout \in Nat

\* An idle limiter is full again before its group expires.
ASSUME RefillAssumption == Burst <= SessionTimeout * Rate

VARIABLES
    groups,    \* the addresses with a group
    seen,      \* age of the lastSeen of each group
    tokens,    \* of each group's limiter; a new one is full
    sessions,  \* <<address, prefix>> of the sessions in their groups
    used,      \* age of the lastSeen of each session
    answer     \* history: what the last request of each address was told

tableVars == <<groups, seen, tokens, sessions, used, answer>>

Ages == 0 .. SessionTimeout + 1
Keys == Addrs \X Prefixes

TableTypeOK ==
    /\ groups \subseteq Addrs
    /\ seen \in [Addrs -> Ages]
    /\ tokens \in [Addrs -> 0 .. Burst]
    /\ sessions \subseteq Keys
    /\ used \in [Keys -> Ages]
    /\ answer \in [Addrs -> {"none", "admitted", "refused"}]

\* What is not in the table has the values that it will start with.
TableInit ==
    /\ groups = {}
    /\ seen = [a \in Addrs |-> 0]
    /\ tokens = [a \in Addrs |-> Burst]
    /\ sessions = {}
    /\ used = [k \in Keys |-> 0]
    /\ answer = [a \in Addrs |-> "none"]

-----------------------------------------------------------------------------

\* getSessionForRequest finds or creates the group and the session, and marks
\* both as seen, before checkCallLimit takes a token or refuses the request.  The
\* mutex of the table is returned in between; the two are a step, as the limiter
\* is assumed to be asked less than a tick after the group was found, which no
\* cleanup removes meanwhile.
Request(a, p) ==
    /\ groups' = groups \cup {a}
    /\ seen' = [seen EXCEPT ![a] = 0]
    /\ sessions' = sessions \cup {<<a, p>>}
    /\ used' = [used EXCEPT ![<<a, p>>] = 0]
    /\ tokens' = [tokens EXCEPT ![a] = IF @ > 0 THEN @ - 1 ELSE @]
    /\ answer' = [answer EXCEPT ![a] = IF tokens[a] > 0 THEN "admitted" ELSE "refused"]

\* A stream of session k has forwarded an event, which marks the group and
\* the session that it began with.  The session may have left the group
\* meanwhile; when the group has been removed as well the table does not see
\* the event.
StreamEvent(k, inGroup) ==
    /\ k[1] \in groups
    /\ inGroup => k \in sessions
    /\ seen' = [seen EXCEPT ![k[1]] = 0]
    /\ used' = IF inGroup THEN [used EXCEPT ![k] = 0] ELSE used
    /\ UNCHANGED <<groups, tokens, sessions, answer>>

Expired(age) == age > SessionTimeout

\* The groups that a cleanup leaves, and the sessions in them.
GroupsKept == {a \in groups : ~Expired(seen[a])}
SessionsKept == {k \in sessions : k[1] \in GroupsKept /\ ~Expired(used[k])}

\* Mutant: a group expires with the first of its sessions.
CleanupEager ==
    /\ groups' = {a \in groups : \A k \in sessions : k[1] = a => ~Expired(used[k])}
    /\ sessions' = {k \in sessions : k[1] \in groups'}
    /\ seen' = [a \in Addrs |-> IF a \in groups' THEN seen[a] ELSE 0]
    /\ tokens' = [a \in Addrs |-> IF a \in groups' THEN tokens[a] ELSE Burst]
    /\ used' = [k \in Keys |-> IF k \in sessions' THEN used[k] ELSE 0]
    /\ UNCHANGED answer

\* cleanupSessions removes expired groups with all their sessions, and from
\* the others the expired sessions.
Cleanup ==
    /\ groups' = GroupsKept
    /\ sessions' = SessionsKept
    /\ seen' = [a \in Addrs |-> IF a \in GroupsKept THEN seen[a] ELSE 0]
    /\ tokens' = [a \in Addrs |-> IF a \in GroupsKept THEN tokens[a] ELSE Burst]
    /\ used' = [k \in Keys |-> IF k \in SessionsKept THEN used[k] ELSE 0]
    /\ UNCHANGED answer

Older(age) == IF age \in 0 .. SessionTimeout THEN age + 1 ELSE age

\* golang.org/x/time/rate refills a limiter at its rate up to its burst.
Refilled(n) == IF n + Rate < Burst THEN n + Rate ELSE Burst

Tick ==
    /\ seen' = [a \in Addrs |-> IF a \in groups THEN Older(seen[a]) ELSE seen[a]]
    /\ used' = [k \in Keys |-> IF k \in sessions THEN Older(used[k]) ELSE used[k]]
    /\ tokens' = [a \in Addrs |-> Refilled(tokens[a])]
    /\ UNCHANGED <<groups, sessions, answer>>

TableNext ==
    \/ \E a \in Addrs, p \in Prefixes : Request(a, p)
    \/ \E k \in Keys, inGroup \in BOOLEAN : StreamEvent(k, inGroup)
    \/ Cleanup
    \/ Tick

TableSpec == TableInit /\ [][TableNext]_tableVars

-----------------------------------------------------------------------------
(* Properties *)

\* The table limits each address like one bucket that lasts for ever
\* ("rate limits apply per-client regardless of which prefix endpoints",
\* src/proxy/session.go:19): neither a second prefix nor a group that expires
\* and is created again gives an address tokens that it had spent.
Bucket == INSTANCE TokenBucket WITH level <- tokens

BucketPerAddress == Bucket!Spec

=============================================================================
