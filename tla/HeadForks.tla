------------------------------ MODULE HeadForks ------------------------------
(***************************************************************************)
(* How the pool decides which clients are ready: the goroutine of each     *)
(* client (src/pool/clientlogic.go) follows its node's head and status and *)
(* invalidates the fork cache; the request that finds the fork cache empty *)
(* recomputes it (src/pool/forks.go) by grouping the clients by head and   *)
(* marking the ones that are online and close enough to their fork's head. *)
(*                                                                         *)
(* A client writes its status without a lock, its head under a lock of its *)
(* own, the block cache under the cache's lock; the computation holds the  *)
(* fork cache mutex and reads all of them one after the other.  Each of    *)
(* those accesses is a step, so they interleave.                           *)
(*                                                                         *)
(* A walk over the block cache is one step.  What a node announces is      *)
(* arbitrary: \E over Roots and FlagValues.                                *)
(***************************************************************************)
EXTENDS BlockCache, Sequences

CONSTANTS
    N,                \* number of clients of the pool
    NoRoot,           \* the zero root, head of a client that knows no head yet
    MaxHeadDistance,  \* blocks that a ready client may lag behind its fork
    FlagValues        \* the values of the status flags that are explored

Clients == 0 .. N - 1
Flags == [online : BOOLEAN, syncing : BOOLEAN, optimistic : BOOLEAN]
AllDown == [online |-> FALSE, syncing |-> FALSE, optimistic |-> FALSE]
Heads == Roots \cup {NoRoot}
Fork == [root : Heads, all : SUBSET Clients, ready : SUBSET Clients]

ASSUME PoolAssumption ==
    /\ N \in Nat \ {0}
    /\ NoRoot \notin Roots
    /\ MaxHeadDistance \in Nat
    /\ FlagValues \subseteq Flags

VARIABLES
    flags,      \* isOnline, isSyncing, isOptimistic of each client
    pending,    \* the flags updateStatus is writing; equal to flags otherwise
    head,       \* headRoot of each client
    pc,         \* where the goroutine of each client is
    blk,        \* the block it is working on, NoRoot when there is none
    forkCache,  \* the published forks; <<>> is the nil of an empty cache
    phase,      \* the computation under forkCacheMutex; "none" : not locked
    todo,       \* clients its current loop has still to visit
    forks       \* the forks it has built so far

clientVars == <<flags, pending, head, pc, blk>>
forkVars == <<forkCache, phase, todo, forks>>
vars == <<cacheVars, clientVars, forkVars>>

ClientPCs ==
    {"idle", "ensure", "fetch", "setHead", "store", "swap", "update", "reset"}

TypeOK ==
    /\ CacheTypeOK
    /\ flags \in [Clients -> Flags]
    /\ pending \in [Clients -> Flags]
    /\ head \in [Clients -> Heads]
    /\ pc \in [Clients -> ClientPCs]
    /\ blk \in [Clients -> Heads]
    /\ forkCache \in Seq(Fork)
    /\ phase \in {"none", "group", "ready", "sort"}
    /\ todo \subseteq Clients
    /\ forks \in Seq(Fork)

Init ==
    /\ CacheInit
    /\ flags = [c \in Clients |-> AllDown]
    /\ pending = flags
    /\ head = [c \in Clients |-> NoRoot]
    /\ pc = [c \in Clients |-> "idle"]
    /\ blk = head
    /\ forkCache = <<>>
    /\ phase = "none"
    /\ todo = {}
    /\ forks = <<>>

-----------------------------------------------------------------------------
(* The status of a client *)

\* GetStatus: syncing hides optimistic, which hides online.
StatusOf(f) ==
    CASE f.syncing -> "syncing"
      [] ~f.syncing /\ f.optimistic -> "optimistic"
      [] ~f.syncing /\ ~f.optimistic /\ f.online -> "online"
      [] OTHER -> "offline"

\* What a concurrent GetStatus may see: each flag is read before or after
\* updateStatus writes it.
StatusReads(c) ==
    {StatusOf([online |-> x.online, syncing |-> y.syncing,
               optimistic |-> z.optimistic]) :
        x, y, z \in {flags[c], pending[c]}}

Goto(c, at) == pc' = [pc EXCEPT ![c] = at]

\* updateStatus starts to write.  Its callers either set online (a stream
\* event, or a failure, which sets it to FALSE) or the other two (a sync
\* check), and the stream is opened after the head was polled once.
BeginUpdate(c, f) ==
    /\ pc[c] = "idle"
    /\ f # flags[c]
    /\ \/ f = [flags[c] EXCEPT !.online = f.online]
       \/ f.online = flags[c].online
    /\ f.online => head[c] # NoRoot
    /\ pending' = [pending EXCEPT ![c] = f]
    /\ Goto(c, "update")
    /\ UNCHANGED <<cacheVars, flags, head, blk, forkVars>>

\* Mutant: the fork cache is reset only when the client comes online.
FinishUpdateQuietly(c) ==
    /\ pc[c] = "update"
    /\ flags' = [flags EXCEPT ![c] = pending[c]]
    /\ Goto(c, IF StatusOf(pending[c]) = "online" THEN "reset" ELSE "idle")
    /\ UNCHANGED <<cacheVars, pending, head, blk, forkVars>>

\* All flags are written; a status that changed invalidates the fork cache.
FinishUpdate(c) ==
    /\ pc[c] = "update"
    /\ flags' = [flags EXCEPT ![c] = pending[c]]
    /\ Goto(c, IF StatusOf(flags[c]) # StatusOf(pending[c]) THEN "reset"
               ELSE "idle")
    /\ UNCHANGED <<cacheVars, pending, head, blk, forkVars>>

-----------------------------------------------------------------------------
(* A block event of the node's stream: processBlockEvent *)

BlockEvent(c, r) ==
    /\ pc[c] = "idle"
    /\ head[c] # NoRoot
    /\ AddBlock(r)
    /\ blk' = [blk EXCEPT ![c] = r]
    /\ Goto(c, IF Refused(r) THEN "setHead" ELSE "ensure")
    /\ UNCHANGED <<flags, pending, head, forkVars>>

\* EnsureHeader: somebody has stored the header already.
HeaderKnown(c) ==
    /\ pc[c] = "ensure"
    /\ blk[c] \in header
    /\ Goto(c, "setHead")
    /\ UNCHANGED <<cacheVars, flags, pending, head, blk, forkVars>>

\* EnsureHeader takes the block's header mutex, then asks the node.
FetchHeader(c) ==
    /\ pc[c] = "ensure"
    /\ blk[c] \notin header
    /\ \A d \in Clients : ~(pc[d] = "fetch" /\ blk[d] = blk[c])
    /\ Goto(c, "fetch")
    /\ UNCHANGED <<cacheVars, flags, pending, head, blk, forkVars>>

HeaderFetched(c) ==
    /\ pc[c] = "fetch"
    /\ StoreHeader(blk[c])
    /\ Goto(c, "setHead")
    /\ UNCHANGED <<flags, pending, head, blk, forkVars>>

\* Mutant: the event goes on after the header could not be fetched.
FetchErrorIgnored(c) ==
    /\ pc[c] = "fetch"
    /\ Goto(c, "setHead")
    /\ UNCHANGED <<cacheVars, flags, pending, head, blk, forkVars>>

\* The node did not answer in time: the event is dropped.
FetchFails(c) ==
    /\ pc[c] = "fetch"
    /\ Goto(c, "idle")
    /\ blk' = [blk EXCEPT ![c] = NoRoot]
    /\ UNCHANGED <<cacheVars, flags, pending, head, forkVars>>

-----------------------------------------------------------------------------
(* The head as polled from the node: pollClientHead and setHeader *)

PollHead(c, r) ==
    /\ pc[c] = "idle"
    /\ AddBlock(r)
    /\ blk' = [blk EXCEPT ![c] = r]
    /\ Goto(c, IF Refused(r) THEN "swap" ELSE "store")
    /\ UNCHANGED <<flags, pending, head, forkVars>>

StorePolled(c) ==
    /\ pc[c] = "store"
    /\ StoreHeader(blk[c])
    /\ Goto(c, "swap")
    /\ UNCHANGED <<flags, pending, head, blk, forkVars>>

\* A polled head that is the current one changes nothing.
KeepHead(c) ==
    /\ pc[c] = "swap"
    /\ head[c] = blk[c]
    /\ Goto(c, "idle")
    /\ blk' = [blk EXCEPT ![c] = NoRoot]
    /\ UNCHANGED <<cacheVars, flags, pending, head, forkVars>>

-----------------------------------------------------------------------------
(* Both ways end here *)

\* Mutant: the fork cache is not invalidated.
MoveHeadQuietly(c) ==
    /\ pc[c] = "setHead" \/ (pc[c] = "swap" /\ head[c] # blk[c])
    /\ head' = [head EXCEPT ![c] = blk[c]]
    /\ Goto(c, "idle")
    /\ blk' = [blk EXCEPT ![c] = NoRoot]
    /\ UNCHANGED <<cacheVars, flags, pending, forkVars>>

\* The head moves to the block, under headMutex.
MoveHead(c) ==
    /\ pc[c] = "setHead" \/ (pc[c] = "swap" /\ head[c] # blk[c])
    /\ head' = [head EXCEPT ![c] = blk[c]]
    /\ Goto(c, "reset")
    /\ blk' = [blk EXCEPT ![c] = NoRoot]
    /\ UNCHANGED <<cacheVars, flags, pending, forkVars>>

\* Mutant: the fork cache is cleared without its mutex.
ResetUnlocked(c) ==
    /\ pc[c] = "reset"
    /\ forkCache' = <<>>
    /\ Goto(c, "idle")
    /\ UNCHANGED <<cacheVars, flags, pending, head, blk, phase, todo, forks>>

\* resetHeadForkCache, which waits for a running computation.
Reset(c) ==
    /\ pc[c] = "reset"
    /\ phase = "none"
    /\ forkCache' = <<>>
    /\ Goto(c, "idle")
    /\ UNCHANGED <<cacheVars, flags, pending, head, blk, phase, todo, forks>>

CleanupCache == Cleanup /\ UNCHANGED <<clientVars, forkVars>>

-----------------------------------------------------------------------------
(* GetHeadForks *)

\* A request finds the fork cache empty and starts to compute it.
StartCompute ==
    /\ phase = "none"
    /\ forkCache = <<>>
    /\ phase' = "group"
    /\ todo' = Clients
    /\ forks' = <<>>
    /\ UNCHANGED <<cacheVars, clientVars, forkCache>>

\* Head h belongs to fork f: it is the fork's root or an ancestor of it.
OnFork(f, h) == Reaches(h, f.root)

\* Mutant: a fork never takes a head that is ahead of it.
ForkTakesBehind(f, h) == OnFork(f, h)

\* A fork takes head h when one of h and its root is an ancestor of the other.
ForkTakes(f, h) == OnFork(f, h) \/ Reaches(f.root, h)

\* Client c joins fork f, whose root moves forward to c's head when that is
\* the later one.
Join(f, c) ==
    [root |-> IF OnFork(f, head[c]) THEN f.root ELSE head[c],
     all |-> f.all \cup {c},
     ready |-> f.ready]

\* The client is the next one of a loop in the order of the pool.
IsNext(c) == c \in todo /\ \A d \in todo : c <= d

\* The last client of the first loop ends it.
GroupDone(c) ==
    IF todo = {c} THEN phase' = "ready" /\ todo' = Clients
    ELSE phase' = phase /\ todo' = todo \ {c}

\* The first loop, for one client: no fork so far takes its head ...
OpenFork(c) ==
    /\ phase = "group"
    /\ IsNext(c)
    /\ \A i \in DOMAIN forks : ~ForkTakes(forks[i], head[c])
    /\ forks' = Append(forks, [root |-> head[c], all |-> {c}, ready |-> {}])
    /\ GroupDone(c)
    /\ UNCHANGED <<cacheVars, clientVars, forkCache>>

\* Mutant: the loop over the forks does not stop at the first match.
JoinEveryFork(c) ==
    /\ phase = "group"
    /\ IsNext(c)
    /\ \E i \in DOMAIN forks : ForkTakes(forks[i], head[c])
    /\ forks' = [i \in DOMAIN forks |->
                    IF ForkTakes(forks[i], head[c]) THEN Join(forks[i], c)
                    ELSE forks[i]]
    /\ GroupDone(c)
    /\ UNCHANGED <<cacheVars, clientVars, forkCache>>

\* ... or it joins the first that does.
JoinFork(c) ==
    /\ phase = "group"
    /\ IsNext(c)
    /\ \E i \in DOMAIN forks :
          /\ ForkTakes(forks[i], head[c])
          /\ \A j \in 1 .. i - 1 : ~ForkTakes(forks[j], head[c])
          /\ forks' = [forks EXCEPT ![i] = Join(forks[i], c)]
    /\ GroupDone(c)
    /\ UNCHANGED <<cacheVars, clientVars, forkCache>>

\* Mutant: the distance is not looked at.
IsReadyAnyDistance(c, f, status) == status = "online"

\* A member of fork f is ready when its status reads online and its head is
\* not known to be too far behind.
IsReady(c, f, status) ==
    /\ status = "online"
    /\ BlockDistance(head[c], f.root) <= MaxHeadDistance

\* The fork after the second loop has looked at member c.
Checked(f, c, status) ==
    [root |-> f.root, all |-> f.all,
     ready |-> f.ready \cup (IF IsReady(c, f, status) THEN {c} ELSE {})]

\* The second loop, for member c of fork i; it goes fork by fork.
CheckReady(i, c) ==
    /\ phase = "ready"
    /\ c \in todo \cap forks[i].all
    /\ \A d \in todo \cap forks[i].all : c <= d
    /\ \A j \in 1 .. i - 1 : todo \cap forks[j].all = {}
    /\ \E status \in StatusReads(c) :
          forks' = [forks EXCEPT ![i] = Checked(forks[i], c, status)]
    /\ todo' = todo \ {c}
    /\ phase' = IF todo = {c} THEN "sort" ELSE phase
    /\ UNCHANGED <<cacheVars, clientVars, forkCache>>

\* The forks are sorted by the number of ready clients, ties in any order,
\* and published.
Publish ==
    /\ phase = "sort"
    /\ \E order \in [DOMAIN forks -> DOMAIN forks] :
          /\ \A i, j \in DOMAIN forks :
                i < j => /\ order[i] # order[j]
                         /\ Cardinality(forks[order[i]].ready)
                              >= Cardinality(forks[order[j]].ready)
          /\ forkCache' = [i \in 1 .. Len(forks) |-> forks[order[i]]]
    /\ phase' = "none"
    /\ forks' = <<>>
    /\ UNCHANGED <<cacheVars, clientVars, todo>>

-----------------------------------------------------------------------------

ClientStep(c) ==
    \/ \E f \in FlagValues : BeginUpdate(c, f)
    \/ FinishUpdate(c)
    \/ \E r \in Roots : BlockEvent(c, r) \/ PollHead(c, r)
    \/ HeaderKnown(c)
    \/ FetchHeader(c)
    \/ HeaderFetched(c)
    \/ FetchFails(c)
    \/ StorePolled(c)
    \/ KeepHead(c)
    \/ MoveHead(c)
    \/ Reset(c)

Compute ==
    \/ \E c \in Clients : OpenFork(c) \/ JoinFork(c)
    \/ \E i \in DOMAIN forks, c \in Clients : CheckReady(i, c)
    \/ Publish

Next ==
    \/ \E c \in Clients : ClientStep(c)
    \/ StartCompute
    \/ Compute
    \/ CleanupCache

Spec == Init /\ [][Next]_vars

\* A status update that was begun is finished, a computation runs to its end,
\* and a reset that waits for the mutex gets it: Go hands a mutex to a waiter
\* that has starved for a millisecond.
Fairness ==
    /\ WF_vars(Compute)
    /\ \A c \in Clients : WF_vars(FinishUpdate(c)) /\ SF_vars(Reset(c))

FairSpec == Spec /\ Fairness

-----------------------------------------------------------------------------
(* Properties *)

Status(c) == StatusOf(flags[c])

\* The client has yet to invalidate the fork cache.
ResetDue(c) ==
    \/ pc[c] = "reset"
    \/ pc[c] = "update" /\ StatusOf(flags[c]) # StatusOf(pending[c])

\* Nobody is in the middle of anything and the fork cache is filled.
Settled ==
    /\ phase = "none"
    /\ forkCache # <<>>
    /\ \A c \in Clients : pc[c] = "idle"

\* A client that is not online is listed as ready only until its own reset of
\* the fork cache, whatever torn status a running computation has read.
ReadyAreOnline ==
    \A i \in DOMAIN forkCache : \A c \in forkCache[i].ready :
       Status(c) = "online" \/ ResetDue(c)

\* The members of a fork have their heads on the chain of its root, as long
\* as they do not owe a reset: a forked-off client shares no fork, so no
\* requests, with the others.
MembersOnChain ==
    \A i \in DOMAIN forkCache : \A c \in forkCache[i].all :
       \/ head[c] = forkCache[i].root
       \/ <<head[c], forkCache[i].root>> \in Before
       \/ pc[c] = "reset"

\* Each client is counted in one fork, so that the sizes that pick the
\* canonical fork are right.
ForksPartition ==
    forkCache # <<>> =>
       \A c \in Clients :
          \E i \in DOMAIN forkCache :
             /\ c \in forkCache[i].all
             /\ \A j \in DOMAIN forkCache : c \in forkCache[j].all => i = j

\* A head that is cached has its header, which the walk from it starts with.
HeadHasHeader == \A c \in Clients : head[c] \in rootMap => head[c] \in header

\* Once everything has settled no two published forks are known to be one:
\* no block that arrived meanwhile was missed, whoever brought it.
ForksUnrelated ==
    Settled =>
       \A i, j \in DOMAIN forkCache :
          i # j => ~Reaches(forkCache[i].root, forkCache[j].root)

\* Once everything has settled no ready client is known to lag too far.
NoKnownLaggard ==
    Settled =>
       \A i \in DOMAIN forkCache : \A c \in forkCache[i].ready :
          BlockDistance(head[c], forkCache[i].root) <= MaxHeadDistance

ListedReady(c) == \E i \in DOMAIN forkCache : c \in forkCache[i].ready

\* A client that stops being online is taken off the list of ready clients,
\* or comes online again.
DropNoticed ==
    \A c \in Clients :
       Status(c) # "online" ~> ~ListedReady(c) \/ Status(c) = "online"

-----------------------------------------------------------------------------
(* What all this implements *)

List == INSTANCE ReadyList
            WITH up <- {c \in Clients : Status(c) = "online"},
                 owing <- {c \in Clients : ResetDue(c)},
                 listed <- {c \in Clients : ListedReady(c)}

\* The published forks are a list of ready clients that lags behind the clients
\* by at most the reset that each of them owes, and the reset comes.
ListsReady == List!FairListSpec

=============================================================================
