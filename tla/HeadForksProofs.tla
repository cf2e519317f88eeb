--------------------------- MODULE HeadForksProofs ---------------------------
(***************************************************************************)
(* Theorems about the fork computation, for any number of clients, any     *)
(* forest of blocks and any flags.                                         *)
(***************************************************************************)
EXTENDS HeadForks, BlockCacheProofs, FiniteSetTheorems

\* The members of a fork are on its chain, or owe a reset.
ChainOK(f) ==
    \A c \in f.all :
       \/ head[c] = f.root
       \/ <<head[c], f.root>> \in Before
       \/ pc[c] = "reset"

\* The ready members of a fork are online, or owe a reset.
ReadyOK(f) == \A c \in f.ready : Status(c) = "online" \/ ResetDue(c)

\* The forks under construction and the published ones are subject to the
\* same conditions: a reset that falls due during a computation waits for its
\* end, and then clears what it published.
ForksInv ==
    /\ \A c \in Clients : pc[c] # "update" => pending[c] = flags[c]
    /\ phase = "none" => forks = <<>>
    /\ \A i \in DOMAIN forks : ChainOK(forks[i]) /\ ReadyOK(forks[i])
    /\ \A i \in DOMAIN forkCache : ChainOK(forkCache[i]) /\ ReadyOK(forkCache[i])

-----------------------------------------------------------------------------
(* The block cache inside the pool *)

\* Each step of the pool is a step of the block cache or leaves it alone.
LEMMA NextIsCacheNext == TypeOK /\ [Next]_vars => [CacheNext]_cacheVars
<1> SUFFICES ASSUME TypeOK, [Next]_vars PROVE [CacheNext]_cacheVars
    OBVIOUS
<1>1. ASSUME NEW c \in Clients, ClientStep(c) PROVE [CacheNext]_cacheVars
    <2>1. ASSUME NEW r \in Roots, BlockEvent(c, r) \/ PollHead(c, r)
          PROVE  [CacheNext]_cacheVars
        BY <2>1 DEF BlockEvent, PollHead, CacheNext
    <2>2. ASSUME StoreHeader(blk[c]) PROVE [CacheNext]_cacheVars
        BY <2>2 DEF StoreHeader, CacheNext, TypeOK, CacheTypeOK
    <2>3. CASE UNCHANGED cacheVars
        BY <2>3
    <2> QED BY <1>1, <2>1, <2>2, <2>3
            DEF ClientStep, BeginUpdate, FinishUpdate, HeaderKnown, FetchHeader,
                HeaderFetched, FetchFails, StorePolled, KeepHead, MoveHead, Reset
<1>2. CASE StartCompute \/ Compute
    BY <1>2 DEF StartCompute, Compute, OpenFork, JoinFork, CheckReady, Publish
<1>3. CASE CleanupCache
    BY <1>3 DEF CleanupCache, CacheNext
<1>4. CASE UNCHANGED vars
    BY <1>4 DEF vars
<1> QED BY <1>1, <1>2, <1>3, <1>4 DEF Next

\* The types of the cache's variables survive each of its steps.
LEMMA NextCacheTypeOK == CacheTypeOK /\ [CacheNext]_cacheVars => CacheTypeOK'
<1> SUFFICES ASSUME CacheTypeOK, [CacheNext]_cacheVars PROVE CacheTypeOK'
    OBVIOUS
<1> USE ChainAssumption, FollowAssumption DEF CacheTypeOK
<1>1. ASSUME NEW r \in Roots, Insert(r) PROVE CacheTypeOK'
    <2>1. SlotOf[r] \in Slots /\ SlotOf[r] \in Nat
        BY DEF Slots
    <2> QED BY <1>1, <2>1 DEF Insert
<1>2. CASE UNCHANGED cacheVars
    BY <1>2 DEF cacheVars
<1>3. ASSUME NEW r \in Roots, StoreHeader(r) PROVE CacheTypeOK'
    BY <1>3 DEF StoreHeader
<1>4. CASE Cleanup
    BY <1>4 DEF Cleanup
<1> QED BY <1>1, <1>2, <1>3, <1>4 DEF CacheNext, AddBlock

-----------------------------------------------------------------------------
(* Types *)

\* A block in hand at the header store is one that was allocated, so it is a
\* root: StoreHeader demands it.
LEMMA ClientTypeOK ==
    ASSUME TypeOK, NEW c \in Clients, ClientStep(c)
    PROVE  TypeOK'
<1> USE PoolAssumption
<1>0. CacheTypeOK'
    <2>1. [Next]_vars
        BY DEF Next
    <2> QED BY <2>1, NextIsCacheNext, NextCacheTypeOK DEF TypeOK
<1>1. ASSUME NEW f \in FlagValues, BeginUpdate(c, f) PROVE TypeOK'
    BY <1>0, <1>1 DEF BeginUpdate, TypeOK, Goto, ClientPCs, forkVars
<1>2. CASE FinishUpdate(c)
    BY <1>0, <1>2 DEF FinishUpdate, TypeOK, Goto, ClientPCs, forkVars
<1>3. ASSUME NEW r \in Roots, BlockEvent(c, r) PROVE TypeOK'
    BY <1>0, <1>3 DEF BlockEvent, TypeOK, Goto, ClientPCs, Heads, forkVars
<1>4. ASSUME NEW r \in Roots, PollHead(c, r) PROVE TypeOK'
    BY <1>0, <1>4 DEF PollHead, TypeOK, Goto, ClientPCs, Heads, forkVars
<1>5. CASE HeaderKnown(c) \/ FetchHeader(c)
    BY <1>0, <1>5 DEF HeaderKnown, FetchHeader, TypeOK, Goto, ClientPCs, forkVars
<1>6. CASE HeaderFetched(c) \/ StorePolled(c)
    BY <1>0, <1>6 DEF HeaderFetched, StorePolled, TypeOK, Goto, ClientPCs, forkVars
<1>7. CASE FetchFails(c) \/ KeepHead(c) \/ MoveHead(c)
    BY <1>0, <1>7 DEF FetchFails, KeepHead, MoveHead, TypeOK, Goto, ClientPCs,
                      Heads, forkVars
<1>8. CASE Reset(c)
    BY <1>0, <1>8 DEF Reset, TypeOK, Goto, ClientPCs
<1> QED BY <1>1, <1>2, <1>3, <1>4, <1>5, <1>6, <1>7, <1>8 DEF ClientStep

LEMMA ComputeTypeOK ==
    ASSUME TypeOK, StartCompute \/ Compute
    PROVE  TypeOK'
<1> USE PoolAssumption
<1>0. CacheTypeOK'
    BY DEF TypeOK, CacheTypeOK, cacheVars, StartCompute, Compute, OpenFork,
           JoinFork, CheckReady, Publish
<1>1. CASE StartCompute
    BY <1>0, <1>1 DEF StartCompute, TypeOK, clientVars
<1>2. ASSUME NEW c \in Clients, OpenFork(c) PROVE TypeOK'
    <2>1. [root |-> head[c], all |-> {c}, ready |-> {}] \in Fork
        BY DEF Fork, TypeOK
    <2>2. forks' \in Seq(Fork)
        BY <1>2, <2>1 DEF OpenFork, TypeOK
    <2> QED BY <1>0, <1>2, <2>2 DEF OpenFork, GroupDone, TypeOK, clientVars
<1>3. ASSUME NEW c \in Clients, JoinFork(c) PROVE TypeOK'
    <2>1. \A i \in DOMAIN forks : Join(forks[i], c) \in Fork
        <3> SUFFICES ASSUME NEW i \in DOMAIN forks PROVE Join(forks[i], c) \in Fork
            OBVIOUS
        <3>1. forks[i] \in Fork /\ head[c] \in Heads
            BY DEF TypeOK
        <3> QED BY <3>1 DEF Fork, Join
    <2>2. forks' \in Seq(Fork)
        BY <1>3, <2>1 DEF JoinFork, TypeOK
    <2> QED BY <1>0, <1>3, <2>2 DEF JoinFork, GroupDone, TypeOK, clientVars
<1>4. ASSUME NEW i \in DOMAIN forks, NEW c \in Clients, CheckReady(i, c)
      PROVE  TypeOK'
    <2>1. PICK status \in StatusReads(c) :
             forks' = [forks EXCEPT ![i] = Checked(forks[i], c, status)]
        BY <1>4 DEF CheckReady
    <2>2. Checked(forks[i], c, status) \in Fork
        <3>1. forks[i] \in Fork
            BY DEF TypeOK
        <3> QED BY <3>1 DEF Fork, Checked
    <2>3. forks' \in Seq(Fork)
        BY <2>1, <2>2 DEF TypeOK
    <2> QED BY <1>0, <1>4, <2>3 DEF CheckReady, TypeOK, clientVars
<1>5. CASE Publish
    <2>1. forkCache' \in Seq(Fork)
        BY <1>5 DEF Publish, TypeOK
    <2> QED BY <1>0, <1>5, <2>1 DEF Publish, TypeOK, clientVars
<1> QED BY <1>1, <1>2, <1>3, <1>4, <1>5 DEF Compute

LEMMA NextTypeOK == TypeOK /\ [Next]_vars => TypeOK'
<1> SUFFICES ASSUME TypeOK, [Next]_vars PROVE TypeOK'
    OBVIOUS
<1>1. CASE CleanupCache
    <2>1. CacheTypeOK'
        BY <1>1, NextCacheTypeOK DEF CleanupCache, CacheNext, TypeOK
    <2> QED BY <1>1, <2>1 DEF CleanupCache, TypeOK, clientVars, forkVars
<1>2. CASE UNCHANGED vars
    BY <1>2 DEF vars, cacheVars, clientVars, forkVars, TypeOK, CacheTypeOK
<1> QED BY <1>1, <1>2, ClientTypeOK, ComputeTypeOK DEF Next

LEMMA InitTypeOK == Init => TypeOK
<1> SUFFICES ASSUME Init PROVE TypeOK
    OBVIOUS
<1>1. CacheTypeOK
    BY InitCacheInv DEF Init, CacheInv
<1>2. AllDown \in Flags
    BY DEF AllDown, Flags
<1> QED BY <1>1, <1>2 DEF Init, TypeOK, ClientPCs, Heads

\* All variables of the pool keep their types.
THEOREM Types == Spec => []TypeOK
BY InitTypeOK, NextTypeOK, PTL DEF Spec

\* The pool uses its block cache as the specification of the cache says, so
\* that what holds of the cache alone holds of the cache inside the pool.
THEOREM PoolUsesCache == Spec => CacheSpec
<1>1. Init => CacheInit
    BY DEF Init
<1> QED BY <1>1, Types, NextIsCacheNext, PTL DEF Spec, CacheSpec

-----------------------------------------------------------------------------
(* The forks *)

\* Whatever mixture of old and new flags GetStatus sees: if it reads online,
\* the client is online or the update that it overlaps ends with a reset.
LEMMA TornStatusRead ==
    ASSUME TypeOK, ForksInv, NEW c \in Clients, "online" \in StatusReads(c)
    PROVE  Status(c) = "online" \/ ResetDue(c)
<1>1. PICK x, y, z \in {flags[c], pending[c]} :
         StatusOf([online |-> x.online, syncing |-> y.syncing,
                   optimistic |-> z.optimistic]) = "online"
    BY DEF StatusReads
<1>2. flags[c] \in Flags /\ pending[c] \in Flags
    BY DEF TypeOK
<1>3. x.online /\ ~y.syncing /\ ~z.optimistic
    BY <1>1, <1>2 DEF StatusOf, Flags
<1>4. CASE pc[c] # "update"
    <2>1. pending[c] = flags[c]
        BY <1>4 DEF ForksInv
    <2> QED BY <1>2, <1>3, <2>1 DEF Status, StatusOf, Flags
<1>5. CASE pc[c] = "update" /\ StatusOf(flags[c]) = StatusOf(pending[c])
    <2>1. StatusOf(flags[c]) = "online"
        BY <1>2, <1>3, <1>5 DEF StatusOf, Flags
    <2> QED BY <2>1 DEF Status
<1> QED BY <1>4, <1>5 DEF ResetDue

\* A step that touches neither the heads nor the flags, and ends no wait for
\* a reset, leaves every fork as good as it was.
LEMMA ForkUndisturbed ==
    ASSUME TypeOK, NEW f \in Fork, ChainOK(f), ReadyOK(f), UNCHANGED <<flags, head>>,
           \A c \in Clients : pc[c] = "reset" => pc'[c] = "reset",
           \A c \in Clients : ResetDue(c) => ResetDue(c)'
    PROVE  ChainOK(f)' /\ ReadyOK(f)'
<1>1. f.all \subseteq Clients /\ f.ready \subseteq Clients
    BY DEF Fork
<1>2. ChainOK(f)'
    BY <1>1 DEF ChainOK
<1>3. \A c \in Clients : Status(c)' = Status(c)
    BY DEF Status
<1>4. ReadyOK(f)'
    BY <1>1, <1>3 DEF ReadyOK
<1> QED BY <1>2, <1>4

\* The steps of a client keep the condition on each fork that they leave in
\* place.
LEMMA ClientKeepsFork ==
    ASSUME TypeOK, ForksInv, NEW c \in Clients, ClientStep(c), ~Reset(c),
           NEW f \in Fork, ChainOK(f), ReadyOK(f)
    PROVE  ChainOK(f)' /\ ReadyOK(f)'
<1>0. /\ f.all \subseteq Clients /\ f.ready \subseteq Clients
      /\ pc \in [Clients -> ClientPCs] /\ head \in [Clients -> Heads]
      /\ flags \in [Clients -> Flags] /\ pending \in [Clients -> Flags]
    BY DEF Fork, TypeOK
<1>1. CASE \E g \in FlagValues : BeginUpdate(c, g)
    <2>1. PICK g \in FlagValues : BeginUpdate(c, g)
        BY <1>1
    <2>2. \A d \in Clients : pc[d] = "reset" => pc'[d] = "reset"
        BY <1>0, <2>1 DEF BeginUpdate, Goto
    <2>3. \A d \in Clients : ResetDue(d) => ResetDue(d)'
        BY <1>0, <2>1 DEF BeginUpdate, Goto, ResetDue
    <2> QED BY <2>1, <2>2, <2>3, ForkUndisturbed DEF BeginUpdate
<1>2. CASE FinishUpdate(c)
    <2>1. \A d \in Clients : d # c => pc'[d] = pc[d] /\ flags'[d] = flags[d]
        BY <1>0, <1>2 DEF FinishUpdate, Goto
    <2>2. head' = head /\ pending' = pending /\ pc[c] = "update"
        BY <1>2 DEF FinishUpdate
    <2>3. ChainOK(f)'
        BY <1>0, <2>1, <2>2 DEF ChainOK
    <2>4. \A d \in Clients : d # c => /\ Status(d)' = Status(d)
                                      /\ ResetDue(d)' = ResetDue(d)
        BY <2>1, <2>2 DEF Status, ResetDue
    <2>5. Status(c) = "online" \/ ResetDue(c)
             => Status(c)' = "online" \/ ResetDue(c)'
        <3>1. flags'[c] = pending[c]
            BY <1>0, <1>2 DEF FinishUpdate
        <3>2. CASE StatusOf(flags[c]) # StatusOf(pending[c])
            <4>1. pc'[c] = "reset"
                BY <1>0, <1>2, <3>2 DEF FinishUpdate, Goto
            <4> QED BY <4>1 DEF ResetDue
        <3>3. CASE StatusOf(flags[c]) = StatusOf(pending[c])
            BY <2>2, <3>1, <3>3 DEF ResetDue, Status
        <3> QED BY <3>2, <3>3
    <2>6. ReadyOK(f)'
        BY <1>0, <2>4, <2>5 DEF ReadyOK
    <2> QED BY <2>3, <2>6
<1>3. CASE MoveHead(c)
    <2>1. \A d \in Clients : d # c => pc'[d] = pc[d] /\ head'[d] = head[d]
        BY <1>0, <1>3 DEF MoveHead, Goto
    <2>2. pc'[c] = "reset" /\ flags' = flags /\ pending' = pending
        BY <1>0, <1>3 DEF MoveHead, Goto
    <2>3. ChainOK(f)'
        BY <1>0, <2>1, <2>2 DEF ChainOK
    <2>4. \A d \in Clients : /\ Status(d)' = Status(d)
                             /\ ResetDue(d) => ResetDue(d)'
        BY <2>1, <2>2 DEF Status, ResetDue
    <2>5. ReadyOK(f)'
        BY <1>0, <2>4 DEF ReadyOK
    <2> QED BY <2>3, <2>5
<1>4. CASE /\ UNCHANGED <<flags, pending, head>>
           /\ pc[c] \notin {"update", "reset"}
           /\ \E at \in ClientPCs : Goto(c, at)
    <2>1. \A d \in Clients : d # c => pc'[d] = pc[d]
        BY <1>0, <1>4 DEF Goto
    <2>2. \A d \in Clients : pc[d] = "reset" => pc'[d] = "reset"
        BY <1>4, <2>1
    <2>3. \A d \in Clients : ResetDue(d) => ResetDue(d)'
        BY <1>4, <2>1 DEF ResetDue
    <2> QED BY <1>4, <2>2, <2>3, ForkUndisturbed
<1> QED
    <2>1. ASSUME NEW r \in Roots, BlockEvent(c, r) \/ PollHead(c, r)
          PROVE  ChainOK(f)' /\ ReadyOK(f)'
        BY <1>4, <2>1 DEF BlockEvent, PollHead, ClientPCs
    <2>2. CASE HeaderKnown(c) \/ FetchHeader(c) \/ HeaderFetched(c)
        BY <1>4, <2>2 DEF HeaderKnown, FetchHeader, HeaderFetched, ClientPCs
    <2>3. CASE FetchFails(c) \/ StorePolled(c) \/ KeepHead(c)
        BY <1>4, <2>3 DEF FetchFails, StorePolled, KeepHead, ClientPCs
    <2> QED BY <1>1, <1>2, <1>3, <2>1, <2>2, <2>3 DEF ClientStep

LEMMA ClientForksInv ==
    ASSUME TypeOK, ForksInv, NEW c \in Clients, ClientStep(c)
    PROVE  ForksInv'
<1>1. \A d \in Clients : pc'[d] # "update" => pending'[d] = flags'[d]
    <2> USE DEF TypeOK, ForksInv, Goto
    <2>1. CASE \E g \in FlagValues : BeginUpdate(c, g)
        BY <2>1 DEF BeginUpdate
    <2>2. CASE FinishUpdate(c)
        BY <2>2 DEF FinishUpdate
    <2>3. CASE \E r \in Roots : BlockEvent(c, r) \/ PollHead(c, r)
        BY <2>3 DEF BlockEvent, PollHead
    <2>4. CASE HeaderKnown(c) \/ FetchHeader(c) \/ HeaderFetched(c)
        BY <2>4 DEF HeaderKnown, FetchHeader, HeaderFetched
    <2>5. CASE FetchFails(c) \/ StorePolled(c) \/ KeepHead(c)
        BY <2>5 DEF FetchFails, StorePolled, KeepHead
    <2>6. CASE MoveHead(c) \/ Reset(c)
        BY <2>6 DEF MoveHead, Reset
    <2> QED BY <2>1, <2>2, <2>3, <2>4, <2>5, <2>6 DEF ClientStep
<1>2. CASE Reset(c)
    <2>1. forks' = <<>> /\ forkCache' = <<>>
        BY <1>2 DEF Reset, ForksInv
    <2> QED BY <1>1, <2>1 DEF ForksInv
<1>3. CASE ~Reset(c)
    <2>1. UNCHANGED forkVars
        BY <1>3 DEF ClientStep, BeginUpdate, FinishUpdate, BlockEvent, PollHead,
                    HeaderKnown, FetchHeader, HeaderFetched, FetchFails,
                    StorePolled, KeepHead, MoveHead
    <2>2. \A i \in DOMAIN forks : forks[i] \in Fork
        BY DEF TypeOK
    <2>3. \A i \in DOMAIN forkCache : forkCache[i] \in Fork
        BY DEF TypeOK
    <2>4. ASSUME NEW f \in Fork, ChainOK(f), ReadyOK(f)
          PROVE  ChainOK(f)' /\ ReadyOK(f)'
        BY <1>3, <2>4, ClientKeepsFork
    <2>5. \A i \in DOMAIN forks : (ChainOK(forks[i]) /\ ReadyOK(forks[i]))'
        BY <2>1, <2>2, <2>4 DEF ForksInv, forkVars
    <2>6. \A i \in DOMAIN forkCache :
             (ChainOK(forkCache[i]) /\ ReadyOK(forkCache[i]))'
        BY <2>1, <2>3, <2>4 DEF ForksInv, forkVars
    <2> QED BY <1>1, <2>1, <2>5, <2>6 DEF ForksInv, forkVars
<1> QED BY <1>2, <1>3

\* What a walk finds is an ancestor, or the block itself.
LEMMA ReachesIsAncestry ==
    ASSUME NEW b, NEW h, Reaches(b, h)
    PROVE  b = h \/ <<b, h>> \in Before
BY DEF Reaches

\* The computation alone never disturbs a fork.
LEMMA ComputeKeepsFork ==
    ASSUME UNCHANGED clientVars, NEW f, ChainOK(f), ReadyOK(f)
    PROVE  ChainOK(f)' /\ ReadyOK(f)'
BY DEF clientVars, ChainOK, ReadyOK, Status, ResetDue

\* A client that joins a fork, and the ones already there, are on the chain of
\* the root that results: ancestry is transitive.
LEMMA JoinKeepsChain ==
    ASSUME TypeOK, NEW c \in Clients, NEW f \in Fork, ChainOK(f), ReadyOK(f),
           ForkTakes(f, head[c])
    PROVE  ChainOK(Join(f, c)) /\ ReadyOK(Join(f, c))
<1> DEFINE g == Join(f, c)
<1>1. /\ g.all = f.all \cup {c} /\ g.ready = f.ready
      /\ g.root = IF OnFork(f, head[c]) THEN f.root ELSE head[c]
    BY DEF Join
<1> HIDE DEF g
<1>2. ReadyOK(g)
    BY <1>1 DEF ReadyOK
<1>3. CASE OnFork(f, head[c])
    <2>1. head[c] = f.root \/ <<head[c], f.root>> \in Before
        BY <1>3, ReachesIsAncestry DEF OnFork
    <2>2. ChainOK(g)
        BY <1>1, <1>3, <2>1 DEF ChainOK
    <2> QED BY <1>2, <2>2 DEF g
<1>4. CASE ~OnFork(f, head[c])
    <2>1. f.root = head[c] \/ <<f.root, head[c]>> \in Before
        BY <1>4, ReachesIsAncestry DEF ForkTakes
    <2>2. \A d \in f.all : head[d] = f.root => head[d] = head[c]
                                               \/ <<head[d], head[c]>> \in Before
        BY <2>1
    <2>3. \A d \in f.all : <<head[d], f.root>> \in Before
                              => <<head[d], head[c]>> \in Before
        BY <2>1, ChainAssumption
    <2>4. ChainOK(g)
        BY <1>1, <1>4, <2>2, <2>3 DEF ChainOK
    <2> QED BY <1>2, <2>4 DEF g
<1> QED BY <1>3, <1>4

LEMMA ComputeForksInv ==
    ASSUME TypeOK, ForksInv, StartCompute \/ Compute
    PROVE  ForksInv'
<1>0. /\ UNCHANGED clientVars
      /\ UNCHANGED forkCache \/ Publish
    BY DEF StartCompute, Compute, OpenFork, JoinFork, CheckReady, Publish
<1>1. \A d \in Clients : pc'[d] # "update" => pending'[d] = flags'[d]
    BY <1>0 DEF clientVars, ForksInv
<1>2. \A f : ChainOK(f) /\ ReadyOK(f) => ChainOK(f)' /\ ReadyOK(f)'
    BY <1>0, ComputeKeepsFork
<1>3. UNCHANGED forkCache =>
         \A i \in DOMAIN forkCache' :
            (ChainOK(forkCache[i]) /\ ReadyOK(forkCache[i]))'
    BY <1>2 DEF ForksInv
<1>4. CASE StartCompute
    BY <1>1, <1>3, <1>4 DEF StartCompute, ForksInv
<1>5. ASSUME NEW c \in Clients, OpenFork(c) PROVE ForksInv'
    <2> DEFINE f == [root |-> head[c], all |-> {c}, ready |-> {}]
    <2>1. ChainOK(f) /\ ReadyOK(f)
        BY DEF ChainOK, ReadyOK
    <2>2. forks' = Append(forks, f) /\ phase' # "none"
        BY <1>5 DEF OpenFork, GroupDone
    <2>3. \A i \in DOMAIN forks' : forks'[i] = f \/ \E j \in DOMAIN forks : forks'[i] = forks[j]
        <3> HIDE DEF f
        <3> QED BY <2>2 DEF TypeOK
    <2>4. \A i \in DOMAIN forks' : ChainOK(forks'[i]) /\ ReadyOK(forks'[i])
        BY <2>1, <2>3 DEF ForksInv
    <2>5. \A i \in DOMAIN forks' : (ChainOK(forks[i]) /\ ReadyOK(forks[i]))'
        BY <1>2, <2>4
    <2> QED BY <1>1, <1>3, <1>5, <2>2, <2>5 DEF ForksInv, OpenFork
<1>6. ASSUME NEW c \in Clients, JoinFork(c) PROVE ForksInv'
    <2>1. PICK i \in DOMAIN forks :
             /\ ForkTakes(forks[i], head[c])
             /\ forks' = [forks EXCEPT ![i] = Join(forks[i], c)]
        BY <1>6 DEF JoinFork
    <2>2. forks[i] \in Fork
        BY DEF TypeOK
    <2>3. ChainOK(Join(forks[i], c)) /\ ReadyOK(Join(forks[i], c))
        BY <2>1, <2>2, JoinKeepsChain DEF ForksInv
    <2>4. /\ DOMAIN forks' = DOMAIN forks
          /\ \A j \in DOMAIN forks : forks'[j] = IF j = i THEN Join(forks[i], c) ELSE forks[j]
        BY <2>1 DEF TypeOK
    <2>5. \A j \in DOMAIN forks' : ChainOK(forks'[j]) /\ ReadyOK(forks'[j])
        BY <2>3, <2>4 DEF ForksInv
    <2>6. \A j \in DOMAIN forks' : (ChainOK(forks[j]) /\ ReadyOK(forks[j]))'
        BY <1>2, <2>5
    <2>7. phase' # "none"
        BY <1>6 DEF JoinFork, GroupDone
    <2> QED BY <1>1, <1>3, <1>6, <2>6, <2>7 DEF ForksInv, JoinFork
<1>7. ASSUME NEW i \in DOMAIN forks, NEW c \in Clients, CheckReady(i, c)
      PROVE  ForksInv'
    <2>1. PICK status \in StatusReads(c) :
             forks' = [forks EXCEPT ![i] = Checked(forks[i], c, status)]
        BY <1>7 DEF CheckReady
    <2> DEFINE f == forks[i]
               g == Checked(f, c, status)
    <2>2. g.root = f.root /\ g.all = f.all
          /\ g.ready = f.ready \cup (IF IsReady(c, f, status) THEN {c} ELSE {})
        BY DEF Checked
    <2>3. ChainOK(f) /\ ReadyOK(f)
        BY DEF ForksInv
    <2> HIDE DEF g
    <2>4. IsReady(c, f, status) => Status(c) = "online" \/ ResetDue(c)
        BY TornStatusRead DEF IsReady
    <2>5. ChainOK(g) /\ ReadyOK(g)
        BY <2>2, <2>3, <2>4 DEF ChainOK, ReadyOK
    <2>6. /\ DOMAIN forks' = DOMAIN forks
          /\ \A j \in DOMAIN forks : forks'[j] = IF j = i THEN g ELSE forks[j]
        BY <2>1 DEF TypeOK, g
    <2>7. \A j \in DOMAIN forks' : ChainOK(forks'[j]) /\ ReadyOK(forks'[j])
        BY <2>5, <2>6 DEF ForksInv
    <2>8. \A j \in DOMAIN forks' : (ChainOK(forks[j]) /\ ReadyOK(forks[j]))'
        BY <1>2, <2>7
    <2>9. phase' # "none"
        BY <1>7 DEF CheckReady
    <2> QED BY <1>1, <1>3, <1>7, <2>8, <2>9 DEF ForksInv, CheckReady
<1>8. CASE Publish
    <2>1. PICK order \in [DOMAIN forks -> DOMAIN forks] :
             forkCache' = [i \in 1 .. Len(forks) |-> forks[order[i]]]
        BY <1>8 DEF Publish
    <2>2. \A i \in DOMAIN forkCache' :
             \E j \in DOMAIN forks : forkCache'[i] = forks[j]
        BY <2>1 DEF TypeOK
    <2>3. \A i \in DOMAIN forkCache' : ChainOK(forkCache'[i]) /\ ReadyOK(forkCache'[i])
        BY <2>2 DEF ForksInv
    <2>4. \A i \in DOMAIN forkCache' : (ChainOK(forkCache[i]) /\ ReadyOK(forkCache[i]))'
        BY <1>2, <2>3
    <2> QED BY <1>1, <1>8, <2>4 DEF ForksInv, Publish
<1> QED BY <1>4, <1>5, <1>6, <1>7, <1>8 DEF Compute

LEMMA NextForksInv == TypeOK /\ ForksInv /\ [Next]_vars => ForksInv'
<1> SUFFICES ASSUME TypeOK, ForksInv, [Next]_vars PROVE ForksInv'
    OBVIOUS
<1>1. CASE CleanupCache \/ UNCHANGED vars
    BY <1>1 DEF CleanupCache, vars, clientVars, forkVars, ForksInv, ChainOK,
                ReadyOK, Status, ResetDue
<1> QED BY <1>1, ClientForksInv, ComputeForksInv DEF Next

LEMMA InitForksInv == Init => ForksInv
BY DEF Init, ForksInv

LEMMA ForksInvariant == Spec => []ForksInv
BY InitForksInv, NextForksInv, Types, PTL DEF Spec

\* No client is listed as ready that is not online, except until its own reset
\* of the fork cache, for any number of clients, any flags and any torn read.
THEOREM ReadyAreOnlineAlways == Spec => []ReadyAreOnline
<1>1. ForksInv => ReadyAreOnline
    BY DEF ForksInv, ReadyOK, ReadyAreOnline
<1> QED BY <1>1, ForksInvariant, PTL

\* No fork ever has members on two branches of the chain.
THEOREM MembersOnChainAlways == Spec => []MembersOnChain
<1>1. ForksInv => MembersOnChain
    BY DEF ForksInv, ChainOK, MembersOnChain
<1> QED BY <1>1, ForksInvariant, PTL

-----------------------------------------------------------------------------
(* Headers of heads *)

\* A block is cached with its header, or it is too old to be cached at all.
KnownOrOld(h) ==
    h \in Roots => \/ h \in rootMap /\ h \in header
                   \/ h \notin rootMap /\ TooOld(SlotOf[h])

\* The strengthening of HeadHasHeader: what a client is about to make its head
\* satisfies it too, and what it fetches a header for has been allocated.
HeadInv ==
    /\ \A c \in Clients : KnownOrOld(head[c])
    /\ \A c \in Clients : pc[c] \in {"setHead", "swap"} => KnownOrOld(blk[c])
    /\ \A c \in Clients : pc[c] \in {"ensure", "fetch", "store"} => blk[c] \in objects

\* No step of the block cache changes that.
LEMMA KnownOrOldKept ==
    ASSUME CacheInv, [CacheNext]_cacheVars, NEW h, KnownOrOld(h)
    PROVE  KnownOrOld(h)'
<1> SUFFICES ASSUME h \in Roots
             PROVE  \/ h \in rootMap' /\ h \in header'
                    \/ h \notin rootMap' /\ TooOld(SlotOf[h])'
    BY DEF KnownOrOld
<1>0. CacheInv' /\ SlotOf[h] \in Nat
    BY NextCacheInv, ChainAssumption
<1>1. CASE h \in rootMap /\ h \in header
    <2>1. h \in objects' /\ h \in header'
        <3>1. h \in objects
            BY <1>1 DEF CacheInv, WindowBounds
        <3>2. ASSUME NEW r \in Roots, Insert(r) PROVE h \in objects' /\ h \in header'
            BY <1>1, <3>1, <3>2 DEF Insert
        <3>3. ASSUME NEW r \in Roots, StoreHeader(r) PROVE h \in objects' /\ h \in header'
            BY <1>1, <3>1, <3>3 DEF StoreHeader
        <3>4. CASE Cleanup \/ UNCHANGED cacheVars
            BY <1>1, <3>1, <3>4 DEF Cleanup, cacheVars
        <3> QED BY <3>2, <3>3, <3>4 DEF CacheNext, AddBlock
    <2>2. h \in rootMap' \/ TooOld(SlotOf[h])'
        BY <1>0, <2>1 DEF CacheInv, EvictedAreOld
    <2> QED BY <2>1, <2>2
<1>2. CASE h \notin rootMap /\ TooOld(SlotOf[h])
    <2>1. TooOld(SlotOf[h])'
        BY <1>0, <1>2, OldStaysOld DEF CacheInv
    <2>2. h \notin rootMap'
        <3>1. ASSUME NEW r \in Roots, Insert(r) PROVE h \notin rootMap'
            BY <1>2, <3>1 DEF Insert
        <3>2. ASSUME NEW r \in Roots, StoreHeader(r) PROVE h \notin rootMap'
            BY <1>2, <3>2 DEF StoreHeader
        <3>3. CASE Cleanup \/ UNCHANGED cacheVars
            BY <1>2, <3>3 DEF Cleanup, cacheVars
        <3> QED BY <3>1, <3>2, <3>3 DEF CacheNext, AddBlock
    <2> QED BY <2>1, <2>2
<1> QED BY <1>1, <1>2 DEF KnownOrOld

\* AddBlock either allocates the block, or finds it allocated, or refuses it.
LEMMA AddBlockResult ==
    ASSUME CacheInv, NEW r \in Roots, AddBlock(r)
    PROVE  /\ Refused(r) => KnownOrOld(r)
           /\ ~Refused(r) => r \in objects'
<1>1. Refused(r) => KnownOrOld(r)
    BY DEF Refused, KnownOrOld
<1>2. ~Refused(r) => r \in objects'
    BY DEF AddBlock, Insert, Refused, CacheInv, WindowBounds, cacheVars
<1> QED BY <1>1, <1>2

\* An allocated block with a header is one whose state is settled.
LEMMA HeaderMakesKnown ==
    ASSUME CacheInv, NEW r \in objects, r \in header
    PROVE  KnownOrOld(r)
BY DEF CacheInv, EvictedAreOld, KnownOrOld

LEMMA NextHeadInv ==
    ASSUME TypeOK, CacheInv, HeadInv, [Next]_vars
    PROVE  HeadInv'
<1>0. [CacheNext]_cacheVars /\ CacheInv' /\ objects \subseteq objects'
    <2>1. [CacheNext]_cacheVars
        BY NextIsCacheNext
    <2>2. objects \subseteq objects'
        BY <2>1 DEF CacheNext, AddBlock, Insert, StoreHeader, Cleanup, cacheVars
    <2> QED BY <2>1, <2>2, NextCacheInv
<1>1. \A h : KnownOrOld(h) => KnownOrOld(h)'
    BY <1>0, KnownOrOldKept
<1>2. ASSUME NEW c \in Clients, ClientStep(c)
      PROVE  HeadInv'
    <2>0. /\ \A d \in Clients : d # c => /\ head'[d] = head[d]
                                         /\ pc'[d] = pc[d]
                                         /\ blk'[d] = blk[d]
          /\ c \in DOMAIN pc /\ c \in DOMAIN head /\ c \in DOMAIN blk
        BY <1>2 DEF TypeOK, ClientStep, BeginUpdate, FinishUpdate, BlockEvent,
                    PollHead, HeaderKnown, FetchHeader, HeaderFetched, FetchFails,
                    StorePolled, KeepHead, MoveHead, Reset, Goto
    <2>1. SUFFICES /\ KnownOrOld(head[c])'
                   /\ pc'[c] \in {"setHead", "swap"} => KnownOrOld(blk[c])'
                   /\ pc'[c] \in {"ensure", "fetch", "store"} => blk'[c] \in objects'
        BY <1>0, <1>1, <2>0 DEF HeadInv
    <2>2. KnownOrOld(head[c])'
        <3>1. CASE head' = head
            BY <1>1, <3>1 DEF HeadInv
        <3>2. CASE MoveHead(c)
            BY <1>1, <2>0, <3>2 DEF MoveHead, HeadInv
        <3> QED BY <1>2, <3>1, <3>2
                DEF ClientStep, BeginUpdate, FinishUpdate, BlockEvent, PollHead,
                    HeaderKnown, FetchHeader, HeaderFetched, FetchFails,
                    StorePolled, KeepHead, Reset
    <2>3. pc'[c] \in {"setHead", "swap"} => KnownOrOld(blk[c])'
        <3>1. ASSUME NEW r \in Roots, BlockEvent(c, r) \/ PollHead(c, r)
              PROVE  pc'[c] \in {"setHead", "swap"} => KnownOrOld(blk[c])'
            <4>1. blk'[c] = r /\ AddBlock(r)
                  /\ (pc'[c] \in {"setHead", "swap"} => Refused(r))
                BY <2>0, <3>1 DEF BlockEvent, PollHead, Goto
            <4> QED BY <1>1, <4>1, AddBlockResult
        <3>2. CASE HeaderKnown(c)
            <4>1. KnownOrOld(blk[c]) /\ blk' = blk
                BY <3>2, HeaderMakesKnown DEF HeaderKnown, HeadInv
            <4> QED BY <1>1, <4>1
        <3>3. CASE HeaderFetched(c) \/ StorePolled(c)
            <4>1. blk' = blk /\ blk[c] \in objects' /\ blk[c] \in header'
                BY <3>3 DEF HeaderFetched, StorePolled, StoreHeader
            <4>2. KnownOrOld(blk[c])'
                BY <1>0, <4>1 DEF CacheInv, EvictedAreOld, KnownOrOld
            <4> QED BY <4>2
        <3>4. CASE pc'[c] \notin {"setHead", "swap"}
            BY <3>4
        <3> QED BY <1>2, <2>0, <3>1, <3>2, <3>3, <3>4
                DEF ClientStep, BeginUpdate, FinishUpdate, FetchHeader, FetchFails,
                    KeepHead, MoveHead, Reset, Goto
    <2>4. pc'[c] \in {"ensure", "fetch", "store"} => blk'[c] \in objects'
        <3>1. ASSUME NEW r \in Roots, BlockEvent(c, r) \/ PollHead(c, r)
              PROVE  pc'[c] \in {"ensure", "fetch", "store"} => blk'[c] \in objects'
            <4>1. blk'[c] = r /\ AddBlock(r)
                  /\ (pc'[c] \in {"ensure", "fetch", "store"} => ~Refused(r))
                BY <2>0, <3>1 DEF BlockEvent, PollHead, Goto
            <4> QED BY <4>1, AddBlockResult
        <3>2. CASE FetchHeader(c)
            BY <1>0, <3>2 DEF FetchHeader, HeadInv
        <3>3. CASE pc'[c] \notin {"ensure", "fetch", "store"}
            BY <3>3
        <3> QED BY <1>2, <2>0, <3>1, <3>2, <3>3
                DEF ClientStep, BeginUpdate, FinishUpdate, HeaderKnown,
                    HeaderFetched, FetchFails, StorePolled, KeepHead, MoveHead,
                    Reset, Goto
    <2> QED BY <2>2, <2>3, <2>4
<1>3. CASE UNCHANGED clientVars
    BY <1>0, <1>1, <1>3 DEF clientVars, HeadInv
<1> QED BY <1>2, <1>3 DEF Next, StartCompute, Compute, OpenFork, JoinFork,
                          CheckReady, Publish, CleanupCache, vars

LEMMA InitHeadInv == Init => HeadInv
BY PoolAssumption DEF Init, HeadInv, KnownOrOld

\* A head that is cached has its header, whoever fetched it and however the
\* window has moved since.
THEOREM HeadHasHeaderAlways == Spec => []HeadHasHeader
<1>1. TypeOK /\ CacheInv /\ HeadInv => HeadHasHeader
    BY DEF HeadInv, HeadHasHeader, KnownOrOld, TypeOK, CacheTypeOK
<1>2. Spec => []CacheInv
    BY PoolUsesCache, CacheInvariant, PTL
<1> QED BY <1>1, <1>2, InitHeadInv, NextHeadInv, Types, PTL DEF Spec

-----------------------------------------------------------------------------
(* The forks implement the list of ready clients *)

Online == {c \in Clients : Status(c) = "online"}
Due == {c \in Clients : ResetDue(c)}
Listed == {c \in Clients : ListedReady(c)}

\* A computation runs only while the fork cache is empty.
EmptyMeanwhile == phase # "none" => forkCache = <<>>

LEMMA NothingListed == forkCache = <<>> => Listed = {}
BY DEF Listed, ListedReady

LEMMA NextEmptyMeanwhile == EmptyMeanwhile /\ [Next]_vars => EmptyMeanwhile'
<1> SUFFICES ASSUME EmptyMeanwhile, [Next]_vars PROVE EmptyMeanwhile'
    OBVIOUS
<1> USE DEF EmptyMeanwhile
<1>1. ASSUME NEW c \in Clients, ClientStep(c) PROVE EmptyMeanwhile'
    BY <1>1 DEF ClientStep, BeginUpdate, FinishUpdate, BlockEvent, PollHead, HeaderKnown,
                FetchHeader, HeaderFetched, FetchFails, StorePolled, KeepHead, MoveHead,
                Reset, forkVars
<1>2. CASE StartCompute \/ Publish
    BY <1>2 DEF StartCompute, Publish
<1>3. ASSUME NEW c \in Clients, OpenFork(c) \/ JoinFork(c) PROVE EmptyMeanwhile'
    BY <1>3 DEF OpenFork, JoinFork, GroupDone
<1>4. ASSUME NEW i, NEW c \in Clients, CheckReady(i, c) PROVE EmptyMeanwhile'
    BY <1>4 DEF CheckReady
<1>5. CASE CleanupCache \/ UNCHANGED vars
    BY <1>5 DEF CleanupCache, vars, forkVars
<1> QED BY <1>1, <1>2, <1>3, <1>4, <1>5 DEF Next, Compute

\* What a client does, as the list sees it.
LEMMA ClientStepList ==
    ASSUME TypeOK, ForksInv, NEW c \in Clients, ClientStep(c)
    PROVE  \/ UNCHANGED <<Online, Due, Listed>>
           \/ Due' = Due \cup {c} /\ UNCHANGED <<Online, Listed>>
           \/ c \in Due /\ Online' \in {Online \cup {c}, Online \ {c}} /\ UNCHANGED <<Due, Listed>>
           \/ c \in Due /\ Due' = Due \ {c} /\ Listed' = {} /\ UNCHANGED Online
<1>0. c \in DOMAIN pc /\ c \in DOMAIN flags /\ c \in DOMAIN pending
    BY DEF TypeOK
<1>1. CASE Reset(c)
    <2>1. /\ Online' = Online
          /\ c \in Due /\ ~ResetDue(c)'
          /\ \A d \in Clients : d # c => ResetDue(d)' = ResetDue(d)
        BY <1>0, <1>1 DEF Reset, Goto, Online, Due, Status, ResetDue
    <2>2. Listed' = {}
        BY <1>1 DEF Reset, Listed, ListedReady
    <2> QED BY <2>1, <2>2 DEF Due
<1>2. ASSUME NEW f \in FlagValues, BeginUpdate(c, f)
      PROVE  \/ UNCHANGED <<Online, Due, Listed>>
             \/ Due' = Due \cup {c} /\ UNCHANGED <<Online, Listed>>
    <2>1. UNCHANGED <<Online, Listed>>
        BY <1>2 DEF BeginUpdate, Online, Status, Listed, ListedReady, forkVars
    <2>2. \A d \in Clients : d # c => ResetDue(d)' = ResetDue(d)
        BY <1>0, <1>2 DEF BeginUpdate, Goto, ResetDue
    <2>3. ~ResetDue(c)
        BY <1>2 DEF BeginUpdate, ResetDue
    <2> QED BY <2>1, <2>2, <2>3 DEF Due
<1>3. CASE FinishUpdate(c)
    <2>1. /\ Listed' = Listed
          /\ flags' = [flags EXCEPT ![c] = pending[c]]
          /\ pc[c] = "update"
        BY <1>3 DEF FinishUpdate, Listed, ListedReady, forkVars
    <2>2. ResetDue(c)' = ResetDue(c)
        BY <1>0, <1>3, <2>1 DEF FinishUpdate, Goto, ResetDue
    <2>3. \A d \in Clients : d # c => ResetDue(d)' = ResetDue(d) /\ Status(d)' = Status(d)
        BY <1>0, <1>3, <2>1 DEF FinishUpdate, Goto, ResetDue, Status
    <2>4. Due' = Due
        BY <2>2, <2>3 DEF Due
    <2>5. CASE StatusOf(flags[c]) = StatusOf(pending[c])
        <3>1. Status(c)' = Status(c)
            BY <1>0, <2>1, <2>5 DEF Status
        <3> QED BY <2>1, <2>3, <2>4, <3>1 DEF Online
    <2>6. CASE StatusOf(flags[c]) # StatusOf(pending[c])
        <3>1. c \in Due
            BY <2>1, <2>6 DEF Due, ResetDue
        <3>2. Online' \in {Online \cup {c}, Online \ {c}}
            BY <2>3 DEF Online
        <3> QED BY <2>1, <2>4, <3>1, <3>2
    <2> QED BY <2>5, <2>6
<1>4. CASE MoveHead(c)
    <2>1. UNCHANGED <<Online, Listed>>
        BY <1>4 DEF MoveHead, Online, Status, Listed, ListedReady, forkVars
    <2>2. \A d \in Clients : d # c => ResetDue(d)' = ResetDue(d)
        BY <1>0, <1>4 DEF MoveHead, Goto, ResetDue
    <2>3. ~ResetDue(c) /\ ResetDue(c)'
        <3>1. pc[c] \notin {"reset", "update"} /\ pc'[c] = "reset"
            BY <1>0, <1>4 DEF MoveHead, Goto
        <3> QED BY <3>1 DEF ResetDue
    <2> QED BY <2>1, <2>2, <2>3 DEF Due
<1>5. ASSUME \/ \E r \in Roots : BlockEvent(c, r) \/ PollHead(c, r)
             \/ HeaderKnown(c) \/ FetchHeader(c) \/ HeaderFetched(c)
             \/ FetchFails(c) \/ StorePolled(c) \/ KeepHead(c)
      PROVE  UNCHANGED <<Online, Due, Listed>>
    <2>a. ASSUME NEW r \in Roots, BlockEvent(c, r) \/ PollHead(c, r)
          PROVE  /\ UNCHANGED <<flags, pending, forkVars>> /\ pc[c] = "idle"
                 /\ \E at \in {"setHead", "ensure", "swap", "store"} : Goto(c, at)
        BY <2>a DEF BlockEvent, PollHead
    <2>b. ASSUME HeaderKnown(c) \/ FetchHeader(c) \/ HeaderFetched(c)
                 \/ FetchFails(c) \/ StorePolled(c) \/ KeepHead(c)
          PROVE  /\ UNCHANGED <<flags, pending, forkVars>>
                 /\ pc[c] \notin {"update", "reset"}
                 /\ \E at \in {"setHead", "fetch", "idle", "swap"} : Goto(c, at)
        <3>1. CASE HeaderKnown(c)
            BY <3>1 DEF HeaderKnown
        <3>2. CASE FetchHeader(c)
            BY <3>2 DEF FetchHeader
        <3>3. CASE HeaderFetched(c)
            BY <3>3 DEF HeaderFetched
        <3>4. CASE FetchFails(c)
            BY <3>4 DEF FetchFails
        <3>5. CASE StorePolled(c)
            BY <3>5 DEF StorePolled
        <3>6. CASE KeepHead(c)
            BY <3>6 DEF KeepHead
        <3> QED BY <2>b, <3>1, <3>2, <3>3, <3>4, <3>5, <3>6
    <2>1. /\ UNCHANGED <<flags, pending, forkVars>>
          /\ pc[c] \notin {"update", "reset"} /\ pc'[c] \notin {"update", "reset"}
          /\ \A d \in Clients : d # c => pc'[d] = pc[d]
        <3>1. ASSUME NEW at \in {"setHead", "ensure", "swap", "store", "fetch", "idle"},
                     Goto(c, at)
              PROVE  /\ pc'[c] \notin {"update", "reset"}
                     /\ \A d \in Clients : d # c => pc'[d] = pc[d]
            BY <1>0, <3>1 DEF Goto
        <3>2. CASE \E r \in Roots : BlockEvent(c, r) \/ PollHead(c, r)
            BY <2>a, <3>1, <3>2
        <3>3. CASE HeaderKnown(c) \/ FetchHeader(c) \/ HeaderFetched(c)
                   \/ FetchFails(c) \/ StorePolled(c) \/ KeepHead(c)
            BY <2>b, <3>1, <3>3
        <3> QED BY <1>5, <3>2, <3>3
    <2>2. \A d \in Clients : ResetDue(d)' = ResetDue(d) /\ Status(d)' = Status(d)
        BY <2>1 DEF ResetDue, Status
    <2> QED BY <2>1, <2>2 DEF Online, Due, Listed, ListedReady, forkVars
<1> QED BY <1>1, <1>2, <1>3, <1>4, <1>5 DEF ClientStep

\* What the computation does: only Publish shows, and ForksInv vouches for it.
LEMMA ComputeList ==
    ASSUME EmptyMeanwhile, ForksInv', StartCompute \/ Compute \/ CleanupCache
    PROVE  /\ UNCHANGED <<Online, Due>>
           /\ Listed' = Listed \/ (Listed = {} /\ Listed' \subseteq Online \cup Due)
<1>1. UNCHANGED <<Online, Due>>
    BY DEF StartCompute, Compute, OpenFork, JoinFork, CheckReady, Publish, CleanupCache,
           clientVars, Online, Due, Status, ResetDue
<1>2. CASE forkCache' = forkCache
    BY <1>1, <1>2 DEF Listed, ListedReady
<1>3. CASE Publish
    <2>1. Listed = {}
        BY <1>3, NothingListed DEF Publish, EmptyMeanwhile
    <2>2. Listed' \subseteq Online' \cup Due'
        BY DEF ForksInv, ReadyOK, Listed, ListedReady, Online, Due
    <2> QED BY <1>1, <2>1, <2>2
<1> QED BY <1>2, <1>3 DEF StartCompute, Compute, OpenFork, JoinFork, CheckReady,
                          CleanupCache, forkVars

\* The published forks implement the register that ReadyList specifies: the
\* list of ready clients lags behind them by at most the resets they owe.
THEOREM ImplementsReadyList == Spec => List!ListSpec
<1>1. Init => List!ListInit
    <2> SUFFICES ASSUME Init PROVE Online = {} /\ Due = {} /\ Listed = {}
        BY DEF List!ListInit, Online, Due, Listed
    <2>1. \A c \in Clients : Status(c) # "online" /\ ~ResetDue(c)
        BY DEF Init, Status, StatusOf, AllDown, ResetDue
    <2>2. Listed = {}
        BY NothingListed DEF Init
    <2> QED BY <2>1, <2>2 DEF Online, Due
<1>2. ASSUME TypeOK, ForksInv, ForksInv', EmptyMeanwhile, [Next]_vars
      PROVE  [List!ListNext]_(List!listVars)
    <2>1. ASSUME NEW c \in Clients, ClientStep(c) PROVE [List!ListNext]_(List!listVars)
        BY <1>2, <2>1, ClientStepList
           DEF List!ListNext, List!listVars, List!Owe, List!Change, List!Clear,
               Online, Due, Listed
    <2>2. CASE StartCompute \/ Compute \/ CleanupCache
        BY <1>2, <2>2, ComputeList
           DEF List!ListNext, List!listVars, List!Fill, Online, Due, Listed
    <2>3. CASE UNCHANGED vars
        BY <2>3 DEF vars, clientVars, forkVars, List!listVars, Status, ResetDue, ListedReady
    <2> QED BY <1>2, <2>1, <2>2, <2>3 DEF Next
<1>3. Init => EmptyMeanwhile
    BY DEF Init, EmptyMeanwhile
<1> QED BY <1>1, <1>2, <1>3, NextEmptyMeanwhile, Types, ForksInvariant, PTL
        DEF Spec, List!ListSpec

-----------------------------------------------------------------------------
(* Each client is in one fork *)

\* The clients S are in one fork of F each, and nobody else is in any.
OnceIn(F, S) ==
    /\ \A i \in DOMAIN F : F[i].all \subseteq S
    /\ \A c \in S : \E i \in DOMAIN F : c \in F[i].all
    /\ \A i, j \in DOMAIN F : i # j => F[i].all \cap F[j].all = {}

\* The first loop has put the clients it has visited into forks, and neither
\* the second one nor the sorting takes any of them out again.
PartitionInv ==
    /\ phase = "group" => OnceIn(forks, Clients \ todo)
    /\ phase \in {"ready", "sort"} => OnceIn(forks, Clients)
    /\ forkCache # <<>> => OnceIn(forkCache, Clients)

\* What is published is the forks in another order, none left out: an order
\* that repeats none of them cannot.
LEMMA PublishPermutes ==
    ASSUME TypeOK, Publish
    PROVE  \E order \in Bijection(DOMAIN forks, DOMAIN forks) :
              forkCache' = [i \in DOMAIN forks |-> forks[order[i]]]
<1>1. DOMAIN forks = 1 .. Len(forks) /\ Len(forks) \in Nat
    BY DEF TypeOK
<1>2. PICK order \in [DOMAIN forks -> DOMAIN forks] :
         /\ \A i, j \in DOMAIN forks : i < j => order[i] # order[j]
         /\ forkCache' = [i \in DOMAIN forks |-> forks[order[i]]]
    BY <1>1 DEF Publish
<1>3. order \in Injection(DOMAIN forks, DOMAIN forks)
    <2>1. ASSUME NEW i \in DOMAIN forks, NEW j \in DOMAIN forks, order[i] = order[j]
          PROVE  i = j
        BY <1>1, <1>2, <2>1
    <2> QED BY <2>1 DEF Injection, IsInjective
<1>4. IsFiniteSet(DOMAIN forks)
    BY <1>1, FS_Interval
<1>5. order \in Surjection(DOMAIN forks, DOMAIN forks)
    BY <1>3, <1>4, FS_Injection
<1> QED BY <1>2, <1>3, <1>5 DEF Bijection

LEMMA PermutedOnce ==
    ASSUME NEW F, NEW S, OnceIn(F, S), NEW order \in Bijection(DOMAIN F, DOMAIN F)
    PROVE  OnceIn([i \in DOMAIN F |-> F[order[i]]], S)
<1> DEFINE G == [i \in DOMAIN F |-> F[order[i]]]
<1>1. /\ order \in [DOMAIN F -> DOMAIN F]
      /\ \A j \in DOMAIN F : \E i \in DOMAIN F : order[i] = j
      /\ \A i, j \in DOMAIN F : i # j => order[i] # order[j]
    BY DEF Bijection, Injection, Surjection, IsInjective
<1>2. DOMAIN G = DOMAIN F /\ \A i \in DOMAIN F : G[i] = F[order[i]]
    OBVIOUS
<1> HIDE DEF G
<1>3. ASSUME NEW c \in S PROVE \E i \in DOMAIN G : c \in G[i].all
    <2>1. PICK j \in DOMAIN F : c \in F[j].all
        BY DEF OnceIn
    <2>2. PICK i \in DOMAIN F : order[i] = j
        BY <1>1
    <2> QED BY <1>2, <2>1, <2>2
<1>4. OnceIn(G, S)
    BY <1>1, <1>2, <1>3 DEF OnceIn
<1> QED BY <1>4 DEF G

\* The first loop, for a client that is in no fork yet.
LEMMA OpenForkOnce ==
    ASSUME TypeOK, PartitionInv, NEW c \in Clients, OpenFork(c)
    PROVE  OnceIn(forks', (Clients \ todo) \cup {c})
<1> DEFINE f == [root |-> head[c], all |-> {c}, ready |-> {}]
           n == Len(forks) + 1
<1>1. f.all = {c}
    OBVIOUS
<1> HIDE DEF f
<1>2. OnceIn(forks, Clients \ todo) /\ c \in todo
    BY DEF OpenFork, IsNext, PartitionInv
<1>3. forks' = Append(forks, f)
    BY DEF OpenFork, f
<1>4. /\ DOMAIN forks' = DOMAIN forks \cup {n} /\ n \notin DOMAIN forks
      /\ forks'[n] = f
      /\ \A i \in DOMAIN forks : forks'[i] = forks[i]
    BY <1>3 DEF TypeOK
<1>5. \A i \in DOMAIN forks : c \notin forks[i].all
    BY <1>2 DEF OnceIn
<1> HIDE DEF n
<1>6. ASSUME NEW d \in (Clients \ todo) \cup {c}
      PROVE  \E i \in DOMAIN forks' : d \in forks'[i].all
    <2>1. CASE d = c
        BY <1>1, <1>4, <2>1
    <2>2. CASE d # c
        BY <1>2, <1>4, <2>2 DEF OnceIn
    <2> QED BY <2>1, <2>2
<1>7. \A i \in DOMAIN forks' : forks'[i].all \subseteq (Clients \ todo) \cup {c}
    BY <1>1, <1>2, <1>4 DEF OnceIn
<1>8. \A i, j \in DOMAIN forks' : i # j => forks'[i].all \cap forks'[j].all = {}
    BY <1>1, <1>2, <1>4, <1>5 DEF OnceIn
<1> QED BY <1>6, <1>7, <1>8 DEF OnceIn

LEMMA JoinForkOnce ==
    ASSUME TypeOK, PartitionInv, NEW c \in Clients, JoinFork(c)
    PROVE  OnceIn(forks', (Clients \ todo) \cup {c})
<1>1. OnceIn(forks, Clients \ todo) /\ c \in todo
    BY DEF JoinFork, IsNext, PartitionInv
<1>2. PICK i \in DOMAIN forks : forks' = [forks EXCEPT ![i] = Join(forks[i], c)]
    BY DEF JoinFork
<1>3. Join(forks[i], c).all = forks[i].all \cup {c}
    BY DEF Join
<1>4. /\ DOMAIN forks' = DOMAIN forks
      /\ \A j \in DOMAIN forks :
            forks'[j].all = forks[j].all \cup (IF j = i THEN {c} ELSE {})
    BY <1>2, <1>3 DEF TypeOK
<1>5. \A j \in DOMAIN forks : c \notin forks[j].all
    BY <1>1 DEF OnceIn
<1>6. \A d \in (Clients \ todo) \cup {c} : \E j \in DOMAIN forks' : d \in forks'[j].all
    BY <1>1, <1>4 DEF OnceIn
<1>7. \A j \in DOMAIN forks' : forks'[j].all \subseteq (Clients \ todo) \cup {c}
    BY <1>1, <1>4 DEF OnceIn
<1>8. \A j, k \in DOMAIN forks' : j # k => forks'[j].all \cap forks'[k].all = {}
    BY <1>1, <1>4, <1>5 DEF OnceIn
<1> QED BY <1>6, <1>7, <1>8 DEF OnceIn

LEMMA NextPartitionInv ==
    ASSUME TypeOK, PartitionInv, [Next]_vars
    PROVE  PartitionInv'
<1>1. CASE UNCHANGED forkVars
    BY <1>1 DEF PartitionInv, OnceIn, forkVars, Clients
<1>2. ASSUME NEW c \in Clients, Reset(c) PROVE PartitionInv'
    BY <1>2 DEF Reset, PartitionInv
<1>3. CASE StartCompute
    BY <1>3 DEF StartCompute, PartitionInv, OnceIn
<1>4. ASSUME NEW c \in Clients, OpenFork(c) \/ JoinFork(c) PROVE PartitionInv'
    <2>1. OnceIn(forks', (Clients \ todo) \cup {c})
        BY <1>4, OpenForkOnce, JoinForkOnce
    <2>2. forkCache' = forkCache /\ c \in todo /\ phase = "group"
        BY <1>4 DEF OpenFork, JoinFork, IsNext
    <2>3. \/ todo = {c} /\ phase' = "ready"
          \/ todo' = todo \ {c} /\ phase' = "group"
        BY <1>4, <2>2 DEF OpenFork, JoinFork, GroupDone
    <2>4. CASE todo = {c} /\ phase' = "ready"
        <3>1. (Clients \ todo) \cup {c} = Clients
            BY <2>4
        <3> QED BY <2>1, <2>2, <2>4, <3>1 DEF PartitionInv
    <2>5. CASE todo' = todo \ {c} /\ phase' = "group"
        <3>1. (Clients \ todo) \cup {c} = Clients \ todo'
            BY <2>5
        <3> QED BY <2>1, <2>2, <2>5, <3>1 DEF PartitionInv
    <2> QED BY <2>3, <2>4, <2>5
<1>5. ASSUME NEW i \in DOMAIN forks, NEW c \in Clients, CheckReady(i, c)
      PROVE  PartitionInv'
    <2>1. PICK status \in StatusReads(c) :
             forks' = [forks EXCEPT ![i] = Checked(forks[i], c, status)]
        BY <1>5 DEF CheckReady
    <2>2. Checked(forks[i], c, status).all = forks[i].all
        BY DEF Checked
    <2>3. /\ DOMAIN forks' = DOMAIN forks
          /\ \A j \in DOMAIN forks : forks'[j].all = forks[j].all
        BY <2>1, <2>2 DEF TypeOK
    <2>4. OnceIn(forks, Clients)
        BY <1>5 DEF CheckReady, PartitionInv
    <2>5. OnceIn(forks', Clients)
        BY <2>3, <2>4 DEF OnceIn
    <2>6. phase' \in {"ready", "sort"} /\ forkCache' = forkCache
        BY <1>5 DEF CheckReady
    <2> QED BY <2>5, <2>6 DEF PartitionInv
<1>6. CASE Publish
    <2>1. OnceIn(forks, Clients)
        BY <1>6 DEF Publish, PartitionInv
    <2>2. OnceIn(forkCache', Clients)
        BY <1>6, <2>1, PublishPermutes, PermutedOnce
    <2>3. phase' = "none"
        BY <1>6 DEF Publish
    <2> QED BY <2>2, <2>3 DEF PartitionInv
<1>7. ASSUME NEW c \in Clients, ClientStep(c), ~Reset(c) PROVE UNCHANGED forkVars
    BY <1>7 DEF ClientStep, BeginUpdate, FinishUpdate, BlockEvent, PollHead,
                HeaderKnown, FetchHeader, HeaderFetched, FetchFails, StorePolled,
                KeepHead, MoveHead
<1> QED BY <1>1, <1>2, <1>3, <1>4, <1>5, <1>6, <1>7
        DEF Next, Compute, CleanupCache, vars

\* Every client is counted once, in any order the forks end in, for any number
\* of clients and whatever their heads do during the computation.
THEOREM ForksPartitionAlways == Spec => []ForksPartition
<1>1. Init => PartitionInv
    BY DEF Init, PartitionInv
<1>2. TypeOK /\ PartitionInv /\ [Next]_vars => PartitionInv'
    BY NextPartitionInv
<1>3. PartitionInv => ForksPartition
    <2> SUFFICES ASSUME PartitionInv, forkCache # <<>>, NEW c \in Clients
                 PROVE  \E i \in DOMAIN forkCache :
                           /\ c \in forkCache[i].all
                           /\ \A j \in DOMAIN forkCache : c \in forkCache[j].all => i = j
        BY DEF ForksPartition
    <2>1. OnceIn(forkCache, Clients)
        BY DEF PartitionInv
    <2> QED BY <2>1 DEF OnceIn
<1> QED BY <1>1, <1>2, <1>3, Types, PTL DEF Spec

-----------------------------------------------------------------------------
(* What walks find, put together *)

LEMMA ReachesTransitive ==
    ASSUME NEW a, NEW b, NEW h, Reaches(a, b), Reaches(b, h)
    PROVE  Reaches(a, h)
<1>1. CASE a = b \/ b = h
    BY <1>1 DEF Reaches
<1>2. CASE a # b /\ b # h
    <2>1. <<a, b>> \in Before /\ <<b, h>> \in Before /\ a \in rootMap
        BY <1>2 DEF Reaches
    <2>2. a \in Roots /\ b \in Roots /\ h \in Roots
        BY <2>1, ChainAssumption
    <2>3. <<a, h>> \in Before
        BY <2>1, <2>2, ChainAssumption
    <2>4. Between(a, h) \subseteq Between(a, b) \cup Between(b, h)
        <3> SUFFICES ASSUME NEW x \in Between(a, h)
                     PROVE  x \in Between(a, b) \cup Between(b, h)
            OBVIOUS
        <3>1. x \in Roots /\ <<a, x>> \in Before /\ (x = h \/ <<x, h>> \in Before)
            BY DEF Between
        <3>2. x = b \/ <<x, b>> \in Before \/ <<b, x>> \in Before
            BY <2>1, <2>2, <3>1, ChainAssumption
        <3> QED BY <3>1, <3>2 DEF Between
    <2> QED BY <1>2, <2>1, <2>3, <2>4 DEF Reaches
<1> QED BY <1>1, <1>2

\* Two blocks from which walks lead to the same head are on one chain, and the
\* walks have visited all that is between them.
LEMMA ReachesLinear ==
    ASSUME NEW a, NEW b, NEW h, Reaches(a, h), Reaches(b, h)
    PROVE  Reaches(a, b) \/ Reaches(b, a)
<1>1. CASE a = h \/ b = h
    BY <1>1 DEF Reaches
<1>2. CASE a # h /\ b # h
    <2>1. /\ <<a, h>> \in Before /\ <<b, h>> \in Before
          /\ a \in rootMap /\ b \in rootMap
        BY <1>2 DEF Reaches
    <2>2. a \in Roots /\ b \in Roots /\ h \in Roots
        BY <2>1, ChainAssumption
    <2>3. a = b \/ <<a, b>> \in Before \/ <<b, a>> \in Before
        BY <2>1, <2>2, ChainAssumption
    <2>4. ASSUME NEW x, NEW y, <<y, h>> \in Before, y \in Roots
          PROVE  Between(x, y) \subseteq Between(x, h)
        BY <2>2, <2>4, ChainAssumption DEF Between
    <2> QED BY <1>2, <2>1, <2>2, <2>3, <2>4 DEF Reaches
<1> QED BY <1>1, <1>2

-----------------------------------------------------------------------------
(* News reaches the forks *)

\* The client has learned of a block, or of its parent, and has yet to
\* invalidate the fork cache on account of it.
BringsNews(c) ==
    \/ pc[c] \in {"setHead", "reset"}
    \/ pc[c] = "swap" /\ head[c] # blk[c]

\* The roots of forks have been heads.
RootsKnown(F) == \A i \in DOMAIN F : KnownOrOld(F[i].root)

\* No two forks of F are known to be one.
Unrelated(F) == \A i, j \in DOMAIN F : i # j => ~Reaches(F[i].root, F[j].root)

\* No ready member of a fork of F is known to lag too far.
Near(F) ==
    \A i \in DOMAIN F : \A c \in F[i].ready :
       BlockDistance(head[c], F[i].root) <= MaxHeadDistance

\* The forks under construction and the published ones agree with the cache as
\* it is now, except while somebody brings news, whose reset is then still to
\* come: what is not known now will never be known without it.
NewsInv ==
    /\ RootsKnown(forks) /\ RootsKnown(forkCache)
    /\ phase = "group" => \A i \in DOMAIN forks : forks[i].ready = {}
    /\ (\A c \in Clients : ~BringsNews(c)) =>
          /\ Unrelated(forks) /\ Unrelated(forkCache)
          /\ Near(forks) /\ Near(forkCache)

\* Walks between blocks that are known or too old.
NoNewWalk ==
    \A b, h : KnownOrOld(b) /\ KnownOrOld(h) /\ Reaches(b, h)' => Reaches(b, h)

\* A block enters the cache without its header, so that no walk passes it yet;
\* and none ends at it, for nobody has had it as a head.
LEMMA InsertFindsNothing ==
    ASSUME CacheInv, NEW r \in Roots, AddBlock(r)
    PROVE  NoNewWalk
<1>1. CASE UNCHANGED cacheVars
    BY <1>1 DEF NoNewWalk, Reaches, Between, cacheVars
<1>2. CASE Insert(r)
    <2>1. /\ rootMap' = rootMap \cup {r} /\ header' = header \ {r}
          /\ r \notin rootMap /\ ~TooOld(SlotOf[r])
        BY <1>2 DEF Insert
    <2>2. \A b : KnownOrOld(b) /\ b \in rootMap' => b \in rootMap
        BY <2>1 DEF KnownOrOld
    <2>3. rootMap' \cap header' \subseteq rootMap \cap header
        BY <2>1
    <2> QED BY <2>2, <2>3 DEF NoNewWalk, Reaches, Between
<1> QED BY <1>1, <1>2 DEF AddBlock

\* The header of a block that has one, or is too old to be cached, tells
\* nothing new.
LEMMA KnownHeaderFindsNothing ==
    ASSUME CacheInv, NEW r \in Roots, KnownOrOld(r), StoreHeader(r)
    PROVE  NoNewWalk
<1>1. rootMap' = rootMap /\ header' = header \cup {r}
    BY DEF StoreHeader
<1>2. rootMap' \cap header' = rootMap \cap header
    BY <1>1 DEF KnownOrOld
<1> QED BY <1>1, <1>2 DEF NoNewWalk, Reaches, Between

\* A cleanup only forgets.
LEMMA CleanupFindsNothing == Cleanup => NoNewWalk
BY DEF Cleanup, NoNewWalk, Reaches, Between

\* A step of a client after which nobody brings news has moved no head and has
\* told the cache nothing that walks could use.
LEMMA NoNewsIsOldNews ==
    ASSUME TypeOK, CacheInv, HeadInv, NEW c \in Clients, ClientStep(c), ~Reset(c),
           \A d \in Clients : ~BringsNews(d)'
    PROVE  /\ \A d \in Clients : ~BringsNews(d)
           /\ head' = head
           /\ NoNewWalk
<1>0. /\ pc \in [Clients -> ClientPCs] /\ head \in [Clients -> Heads]
      /\ blk \in [Clients -> Heads]
    BY DEF TypeOK
<1>1. /\ \A d \in Clients : d # c => /\ head'[d] = head[d]
                                     /\ pc'[d] = pc[d]
                                     /\ blk'[d] = blk[d]
    BY <1>0 DEF ClientStep, BeginUpdate, FinishUpdate, BlockEvent, PollHead,
                HeaderKnown, FetchHeader, HeaderFetched, FetchFails,
                StorePolled, KeepHead, MoveHead, Reset, Goto
<1>2. ~MoveHead(c)
    BY <1>0 DEF MoveHead, Goto, BringsNews
<1>3. head' = head
    BY <1>2 DEF ClientStep, BeginUpdate, FinishUpdate, BlockEvent, PollHead,
                HeaderKnown, FetchHeader, HeaderFetched, FetchFails,
                StorePolled, KeepHead, Reset
<1>4. ~BringsNews(c)
    <2>1. pc[c] \notin {"setHead", "reset"}
        BY <1>2 DEF ClientStep, BeginUpdate, FinishUpdate, BlockEvent, PollHead,
                    HeaderKnown, FetchHeader, HeaderFetched, FetchFails,
                    StorePolled, KeepHead
    <2>2. pc[c] = "swap" => head[c] = blk[c]
        BY <1>2 DEF ClientStep, BeginUpdate, FinishUpdate, BlockEvent, PollHead,
                    HeaderKnown, FetchHeader, HeaderFetched, FetchFails,
                    StorePolled, KeepHead
    <2> QED BY <2>1, <2>2 DEF BringsNews
<1>5. \A d \in Clients : ~BringsNews(d)
    BY <1>1, <1>4 DEF BringsNews
<1>6. NoNewWalk
    <2>1. ASSUME NEW r \in Roots, BlockEvent(c, r) \/ PollHead(c, r)
          PROVE  NoNewWalk
        BY <2>1, InsertFindsNothing DEF BlockEvent, PollHead
    <2>2. ~HeaderFetched(c)
        BY <1>0 DEF HeaderFetched, Goto, BringsNews
    <2>3. CASE StorePolled(c)
        <3>1. pc'[c] = "swap" /\ blk'[c] = blk[c] /\ StoreHeader(blk[c])
            BY <1>0, <2>3 DEF StorePolled, Goto
        <3>2. head[c] = blk[c]
            BY <1>3, <3>1 DEF BringsNews
        <3>3. KnownOrOld(blk[c])
            BY <3>2 DEF HeadInv
        <3>4. blk[c] \in Roots
            BY <3>1 DEF StoreHeader, TypeOK, CacheTypeOK
        <3> QED BY <3>1, <3>3, <3>4, KnownHeaderFindsNothing
    <2>4. CASE UNCHANGED cacheVars
        BY <2>4 DEF NoNewWalk, Reaches, Between, cacheVars
    <2> QED BY <1>2, <2>1, <2>2, <2>3, <2>4
            DEF ClientStep, BeginUpdate, FinishUpdate, HeaderKnown, FetchHeader,
                FetchFails, KeepHead
<1> QED BY <1>3, <1>5, <1>6

\* Then the forks are as unrelated, and the ready clients as near, as before.
LEMMA OldNewsKeeps ==
    ASSUME HeadInv, NoNewWalk, head' = head, NEW F \in Seq(Fork), RootsKnown(F),
           Unrelated(F), Near(F)
    PROVE  Unrelated(F)' /\ Near(F)'
<1>1. Unrelated(F)'
    BY DEF Unrelated, RootsKnown, NoNewWalk
<1>2. ASSUME NEW i \in DOMAIN F, NEW c \in F[i].ready
      PROVE  BlockDistance(head[c], F[i].root)' <= MaxHeadDistance
    <2>0. F[i] \in Fork /\ c \in Clients
        <3>1. F[i] \in Fork
            OBVIOUS
        <3> QED BY <3>1 DEF Fork
    <2>1. KnownOrOld(head[c]) /\ KnownOrOld(F[i].root)
        BY <2>0 DEF HeadInv, RootsKnown
    <2>2. BlockDistance(head[c], F[i].root) <= MaxHeadDistance
        BY DEF Near
    <2>3. CASE Reaches(head[c], F[i].root)'
        <3>1. Reaches(head[c], F[i].root)
            BY <2>1, <2>3 DEF NoNewWalk
        <3> QED BY <2>2, <2>3, <3>1 DEF BlockDistance, Between
    <2>4. CASE ~Reaches(head[c], F[i].root)'
        BY <2>4, PoolAssumption DEF BlockDistance
    <2> QED BY <2>3, <2>4
<1> QED BY <1>1, <1>2 DEF Near

\* A step that moves no head and tells the cache nothing.
LEMMA QuietlyTheSame ==
    ASSUME UNCHANGED <<cacheVars, clientVars>>
    PROVE  /\ \A c : BringsNews(c)' = BringsNews(c)
           /\ \A b, h : Reaches(b, h)' = Reaches(b, h)
           /\ \A b, h : BlockDistance(b, h)' = BlockDistance(b, h)
           /\ \A h : KnownOrOld(h)' = KnownOrOld(h)
           /\ head' = head
<1>1. \A b, h : Reaches(b, h)' = Reaches(b, h)
    BY DEF Reaches, Between, cacheVars
<1>2. \A b, h : BlockDistance(b, h)' = BlockDistance(b, h)
    BY <1>1 DEF BlockDistance, Between
<1>3. \A h : KnownOrOld(h)' = KnownOrOld(h)
    BY DEF KnownOrOld, TooOld, MinSlot, cacheVars
<1>4. \A c : BringsNews(c)' = BringsNews(c)
    BY DEF BringsNews, clientVars
<1> QED BY <1>1, <1>2, <1>3, <1>4 DEF clientVars

\* A fork that is opened is related to none of the others: they would have
\* taken its head.
LEMMA OpenForkNews ==
    ASSUME TypeOK, HeadInv, NewsInv, NEW c \in Clients, OpenFork(c)
    PROVE  /\ RootsKnown(forks')
           /\ \A i \in DOMAIN forks' : forks'[i].ready = {}
           /\ (\A d \in Clients : ~BringsNews(d)) => Unrelated(forks')
<1> DEFINE f == [root |-> head[c], all |-> {c}, ready |-> {}]
           n == Len(forks) + 1
<1>1. f.root = head[c] /\ f.ready = {}
    OBVIOUS
<1> HIDE DEF f
<1>2. forks' = Append(forks, f) /\ phase = "group"
    BY DEF OpenFork, f
<1>3. /\ DOMAIN forks' = DOMAIN forks \cup {n} /\ n \notin DOMAIN forks
      /\ forks'[n] = f
      /\ \A i \in DOMAIN forks : forks'[i] = forks[i]
    BY <1>2 DEF TypeOK
<1> HIDE DEF n
<1>4. RootsKnown(forks')
    BY <1>1, <1>3 DEF NewsInv, HeadInv, RootsKnown
<1>5. \A i \in DOMAIN forks' : forks'[i].ready = {}
    BY <1>1, <1>2, <1>3 DEF NewsInv
<1>6. ASSUME \A d \in Clients : ~BringsNews(d)
      PROVE  Unrelated(forks')
    <2>1. Unrelated(forks)
        BY <1>6 DEF NewsInv
    <2>2. \A i \in DOMAIN forks : /\ ~Reaches(head[c], forks[i].root)
                                  /\ ~Reaches(forks[i].root, head[c])
        BY DEF OpenFork, ForkTakes, OnFork
    <2> QED BY <1>1, <1>3, <2>1, <2>2 DEF Unrelated
<1> QED BY <1>4, <1>5, <1>6

\* A root that moves forward to a head is related to no other root: one above
\* the head would be above the old root too, and one below it on one chain with
\* the old root.
LEMMA JoinForkNews ==
    ASSUME TypeOK, HeadInv, NewsInv, NEW c \in Clients, JoinFork(c)
    PROVE  /\ RootsKnown(forks')
           /\ \A i \in DOMAIN forks' : forks'[i].ready = {}
           /\ (\A d \in Clients : ~BringsNews(d)) => Unrelated(forks')
<1>1. PICK i \in DOMAIN forks : /\ ForkTakes(forks[i], head[c])
                                /\ forks' = [forks EXCEPT ![i] = Join(forks[i], c)]
    BY DEF JoinFork
<1> DEFINE f == Join(forks[i], c)
<1>2. /\ f.ready = forks[i].ready
      /\ \/ f.root = forks[i].root
         \/ f.root = head[c] /\ Reaches(forks[i].root, head[c])
    BY <1>1 DEF Join, ForkTakes
<1> HIDE DEF f
<1>3. /\ DOMAIN forks' = DOMAIN forks
      /\ forks'[i] = f
      /\ \A j \in DOMAIN forks : j # i => forks'[j] = forks[j]
    BY <1>1 DEF TypeOK, f
<1>4. RootsKnown(forks')
    BY <1>2, <1>3 DEF NewsInv, HeadInv, RootsKnown
<1>5. \A j \in DOMAIN forks' : forks'[j].ready = {}
    <2>1. phase = "group"
        BY DEF JoinFork
    <2> QED BY <1>2, <1>3, <2>1 DEF NewsInv
<1>6. ASSUME \A d \in Clients : ~BringsNews(d)
      PROVE  Unrelated(forks')
    <2>1. Unrelated(forks)
        BY <1>6 DEF NewsInv
    <2>2. ASSUME NEW j \in DOMAIN forks, j # i
          PROVE  ~Reaches(f.root, forks[j].root) /\ ~Reaches(forks[j].root, f.root)
        <3>1. /\ ~Reaches(forks[i].root, forks[j].root)
              /\ ~Reaches(forks[j].root, forks[i].root)
            BY <2>1, <2>2 DEF Unrelated
        <3>2. CASE f.root = forks[i].root
            BY <3>1, <3>2
        <3>3. CASE f.root = head[c] /\ Reaches(forks[i].root, head[c])
            BY <3>1, <3>3, ReachesTransitive, ReachesLinear
        <3> QED BY <1>2, <3>2, <3>3
    <2> QED BY <1>3, <2>1, <2>2 DEF Unrelated
<1> QED BY <1>4, <1>5, <1>6

\* The second loop adds a member that is near, and touches nothing else.
LEMMA CheckReadyNews ==
    ASSUME TypeOK, NewsInv, NEW i \in DOMAIN forks, NEW c \in Clients, CheckReady(i, c)
    PROVE  /\ RootsKnown(forks')
           /\ (\A d \in Clients : ~BringsNews(d)) =>
                 /\ Unrelated(forks')
                 /\ \A j \in DOMAIN forks' : \A d \in forks'[j].ready :
                       BlockDistance(head[d], forks'[j].root) <= MaxHeadDistance
<1>1. PICK status \in StatusReads(c) :
         forks' = [forks EXCEPT ![i] = Checked(forks[i], c, status)]
    BY DEF CheckReady
<1> DEFINE f == Checked(forks[i], c, status)
<1>2. /\ f.root = forks[i].root
      /\ \A d \in f.ready : d \in forks[i].ready \/ (d = c /\ IsReady(c, forks[i], status))
    BY DEF Checked
<1> HIDE DEF f
<1>3. /\ DOMAIN forks' = DOMAIN forks
      /\ forks'[i] = f
      /\ \A j \in DOMAIN forks : j # i => forks'[j] = forks[j]
    BY <1>1 DEF TypeOK, f
<1>4. RootsKnown(forks')
    BY <1>2, <1>3 DEF NewsInv, RootsKnown
<1>5. ASSUME \A d \in Clients : ~BringsNews(d)
      PROVE  /\ Unrelated(forks')
             /\ \A j \in DOMAIN forks' : \A d \in forks'[j].ready :
                   BlockDistance(head[d], forks'[j].root) <= MaxHeadDistance
    <2>1. Unrelated(forks) /\ Near(forks)
        BY <1>5 DEF NewsInv
    <2>2. Unrelated(forks')
        BY <1>2, <1>3, <2>1 DEF Unrelated
    <2>3. ASSUME NEW j \in DOMAIN forks, NEW d \in forks'[j].ready
          PROVE  BlockDistance(head[d], forks'[j].root) <= MaxHeadDistance
        BY <1>2, <1>3, <2>1, <2>3 DEF Near, IsReady
    <2> QED BY <1>3, <2>2, <2>3
<1> QED BY <1>4, <1>5

\* Sorting neither relates two forks nor moves a member away.
LEMMA PermutedNews ==
    ASSUME NEW F, NEW order \in Bijection(DOMAIN F, DOMAIN F),
           NEW G, G = [i \in DOMAIN F |-> F[order[i]]]
    PROVE  /\ RootsKnown(F) => RootsKnown(G)
           /\ Unrelated(F) => Unrelated(G)
           /\ Near(F) => Near(G)
<1>1. /\ order \in [DOMAIN F -> DOMAIN F]
      /\ \A i, j \in DOMAIN F : i # j => order[i] # order[j]
    BY DEF Bijection, Injection, IsInjective
<1>2. DOMAIN G = DOMAIN F /\ \A i \in DOMAIN F : G[i] = F[order[i]]
    OBVIOUS
<1> QED BY <1>1, <1>2 DEF RootsKnown, Unrelated, Near

\* The steps of a client, except its reset, leave the forks alone.  Either
\* somebody brings news after them, or what they did is no news.
LEMMA ClientNewsInv ==
    ASSUME TypeOK, CacheInv, HeadInv, NewsInv, NEW c \in Clients, ClientStep(c),
           ~Reset(c)
    PROVE  NewsInv'
<1>1. UNCHANGED forkVars
    BY DEF ClientStep, BeginUpdate, FinishUpdate, BlockEvent, PollHead,
           HeaderKnown, FetchHeader, HeaderFetched, FetchFails, StorePolled,
           KeepHead, MoveHead
<1>2. \A h : KnownOrOld(h) => KnownOrOld(h)'
    <2>1. [CacheNext]_cacheVars
        BY NextIsCacheNext DEF Next
    <2> QED BY <2>1, KnownOrOldKept
<1>3. RootsKnown(forks)' /\ RootsKnown(forkCache)'
    BY <1>1, <1>2 DEF NewsInv, RootsKnown, forkVars
<1>4. phase' = "group" => \A i \in DOMAIN forks' : forks'[i].ready = {}
    BY <1>1 DEF NewsInv, forkVars
<1>5. ASSUME \A d \in Clients : ~BringsNews(d)'
      PROVE  /\ Unrelated(forks)' /\ Unrelated(forkCache)'
             /\ Near(forks)' /\ Near(forkCache)'
    <2>1. /\ \A d \in Clients : ~BringsNews(d)
          /\ head' = head
          /\ NoNewWalk
        BY <1>5, NoNewsIsOldNews
    <2>2. ASSUME NEW F \in Seq(Fork), RootsKnown(F), Unrelated(F), Near(F)
          PROVE  Unrelated(F)' /\ Near(F)'
        BY <2>1, <2>2, OldNewsKeeps
    <2>3. forks \in Seq(Fork) /\ forkCache \in Seq(Fork)
        BY DEF TypeOK
    <2>4. /\ RootsKnown(forks) /\ Unrelated(forks) /\ Near(forks)
          /\ RootsKnown(forkCache) /\ Unrelated(forkCache) /\ Near(forkCache)
        BY <2>1 DEF NewsInv
    <2>5. Unrelated(forks)' /\ Near(forks)'
        BY <1>1, <2>2, <2>3, <2>4 DEF Unrelated, Near, forkVars
    <2>6. Unrelated(forkCache)' /\ Near(forkCache)'
        BY <1>1, <2>2, <2>3, <2>4 DEF Unrelated, Near, forkVars
    <2> QED BY <2>5, <2>6
<1> QED BY <1>3, <1>4, <1>5 DEF NewsInv

LEMMA ComputeNewsInv ==
    ASSUME TypeOK, HeadInv, NewsInv, StartCompute \/ Compute
    PROVE  NewsInv'
<1>0. UNCHANGED <<cacheVars, clientVars>>
    BY DEF StartCompute, Compute, OpenFork, JoinFork, CheckReady, Publish
<1>1. /\ \A c : BringsNews(c)' = BringsNews(c)
      /\ \A b, h : Reaches(b, h)' = Reaches(b, h)
      /\ \A b, h : BlockDistance(b, h)' = BlockDistance(b, h)
      /\ \A h : KnownOrOld(h)' = KnownOrOld(h)
      /\ head' = head
    BY <1>0, QuietlyTheSame
<1> DEFINE nobody == \A d \in Clients : ~BringsNews(d)
<1>2. ASSUME /\ RootsKnown(forks') /\ RootsKnown(forkCache')
             /\ phase' = "group" => \A i \in DOMAIN forks' : forks'[i].ready = {}
             /\ nobody => /\ Unrelated(forks') /\ Unrelated(forkCache')
                          /\ Near(forks') /\ Near(forkCache')
      PROVE  NewsInv'
    BY <1>1, <1>2 DEF NewsInv, RootsKnown, Unrelated, Near
<1>3. CASE StartCompute
    <2>1. forks' = <<>> /\ forkCache' = <<>>
        BY <1>3 DEF StartCompute
    <2> QED BY <2>1, <1>2 DEF RootsKnown, Unrelated, Near
<1>4. ASSUME NEW c \in Clients, OpenFork(c) \/ JoinFork(c) PROVE NewsInv'
    <2>1. /\ RootsKnown(forks')
          /\ \A i \in DOMAIN forks' : forks'[i].ready = {}
          /\ nobody => Unrelated(forks')
        BY <1>4, OpenForkNews, JoinForkNews
    <2>2. Near(forks')
        BY <2>1 DEF Near
    <2>3. forkCache' = forkCache
        BY <1>4 DEF OpenFork, JoinFork
    <2>4. /\ RootsKnown(forkCache')
          /\ nobody => Unrelated(forkCache') /\ Near(forkCache')
        BY <2>3 DEF NewsInv
    <2> QED BY <1>2, <2>1, <2>2, <2>4
<1>5. ASSUME NEW i \in DOMAIN forks, NEW c \in Clients, CheckReady(i, c)
      PROVE  NewsInv'
    <2>1. /\ RootsKnown(forks')
          /\ nobody => Unrelated(forks') /\ Near(forks')
        BY <1>5, CheckReadyNews DEF Near
    <2>2. forkCache' = forkCache /\ phase' # "group"
        BY <1>5 DEF CheckReady
    <2>3. /\ RootsKnown(forkCache')
          /\ nobody => Unrelated(forkCache') /\ Near(forkCache')
        BY <2>2 DEF NewsInv
    <2> QED BY <1>2, <2>1, <2>2, <2>3
<1>6. CASE Publish
    <2>1. PICK order \in Bijection(DOMAIN forks, DOMAIN forks) :
             forkCache' = [i \in DOMAIN forks |-> forks[order[i]]]
        BY <1>6, PublishPermutes
    <2>2. /\ RootsKnown(forkCache')
          /\ nobody => Unrelated(forkCache') /\ Near(forkCache')
        BY <2>1, PermutedNews DEF NewsInv
    <2>3. forks' = <<>> /\ phase' = "none"
        BY <1>6 DEF Publish
    <2> QED BY <2>2, <2>3, <1>2 DEF RootsKnown, Unrelated, Near
<1> QED BY <1>3, <1>4, <1>5, <1>6 DEF Compute

LEMMA NextNewsInv ==
    ASSUME TypeOK, ForksInv, CacheInv, HeadInv, NewsInv, [Next]_vars
    PROVE  NewsInv'
<1>1. ASSUME NEW c \in Clients, Reset(c) PROVE NewsInv'
    <2>1. forks' = <<>> /\ forkCache' = <<>>
        BY <1>1 DEF Reset, ForksInv
    <2> QED BY <2>1 DEF NewsInv, RootsKnown, Unrelated, Near
<1>2. CASE CleanupCache
    <2>1. NoNewWalk /\ head' = head /\ UNCHANGED forkVars
        BY <1>2, CleanupFindsNothing DEF CleanupCache, clientVars
    <2>2. \A h : KnownOrOld(h) => KnownOrOld(h)'
        BY <1>2, KnownOrOldKept DEF CleanupCache, CacheNext
    <2>3. \A d : BringsNews(d)' = BringsNews(d)
        BY <1>2 DEF CleanupCache, BringsNews, clientVars
    <2>4. ASSUME NEW F \in Seq(Fork), RootsKnown(F), Unrelated(F), Near(F)
          PROVE  Unrelated(F)' /\ Near(F)'
        BY <2>1, <2>4, OldNewsKeeps
    <2>5. forks \in Seq(Fork) /\ forkCache \in Seq(Fork)
        BY DEF TypeOK
    <2>6. RootsKnown(forks)' /\ RootsKnown(forkCache)'
        BY <2>1, <2>2 DEF NewsInv, RootsKnown, forkVars
    <2>7. ASSUME \A d \in Clients : ~BringsNews(d)'
          PROVE  /\ Unrelated(forks)' /\ Unrelated(forkCache)'
                 /\ Near(forks)' /\ Near(forkCache)'
        <3>1. /\ RootsKnown(forks) /\ Unrelated(forks) /\ Near(forks)
              /\ RootsKnown(forkCache) /\ Unrelated(forkCache) /\ Near(forkCache)
            BY <2>3, <2>7 DEF NewsInv
        <3>2. Unrelated(forks)' /\ Near(forks)'
            BY <2>1, <2>4, <2>5, <3>1 DEF Unrelated, Near, forkVars
        <3>3. Unrelated(forkCache)' /\ Near(forkCache)'
            BY <2>1, <2>4, <2>5, <3>1 DEF Unrelated, Near, forkVars
        <3> QED BY <3>2, <3>3
    <2>8. phase' = "group" => \A i \in DOMAIN forks' : forks'[i].ready = {}
        BY <2>1 DEF NewsInv, forkVars
    <2> QED BY <2>6, <2>7, <2>8 DEF NewsInv
<1>3. CASE UNCHANGED vars
    <2>1. UNCHANGED <<cacheVars, clientVars>> /\ forks' = forks
          /\ forkCache' = forkCache /\ phase' = phase
        BY <1>3 DEF vars, forkVars
    <2>2. /\ \A c : BringsNews(c)' = BringsNews(c)
          /\ \A b, h : Reaches(b, h)' = Reaches(b, h)
          /\ \A b, h : BlockDistance(b, h)' = BlockDistance(b, h)
          /\ \A h : KnownOrOld(h)' = KnownOrOld(h)
          /\ head' = head
        BY <2>1, QuietlyTheSame
    <2> QED BY <2>1, <2>2 DEF NewsInv, RootsKnown, Unrelated, Near
<1> QED BY <1>1, <1>2, <1>3, ClientNewsInv, ComputeNewsInv DEF Next

LEMMA NewsInvariant == Spec => []NewsInv
<1>1. Init => NewsInv
    BY DEF Init, NewsInv, RootsKnown, Unrelated, Near
<1>2. Spec => []CacheInv
    BY PoolUsesCache, CacheInvariant, PTL
<1>3. Spec => []HeadInv
    BY <1>2, InitHeadInv, NextHeadInv, Types, PTL DEF Spec
<1> QED BY <1>1, <1>2, <1>3, NextNewsInv, Types, ForksInvariant, PTL DEF Spec

\* When everything has settled, the clients of one chain are in one fork, in
\* whatever order their nodes announced its blocks and fetched the headers.
THEOREM ForksUnrelatedAlways == Spec => []ForksUnrelated
<1>1. NewsInv => ForksUnrelated
    BY DEF NewsInv, ForksUnrelated, Settled, BringsNews, Unrelated
<1> QED BY <1>1, NewsInvariant, PTL

\* When everything has settled, no request goes to a client that the cache
\* knows to lag too far behind its fork.
THEOREM NoKnownLaggardAlways == Spec => []NoKnownLaggard
<1>1. NewsInv => NoKnownLaggard
    BY DEF NewsInv, NoKnownLaggard, Settled, BringsNews, Near
<1> QED BY <1>1, NewsInvariant, PTL

=============================================================================
