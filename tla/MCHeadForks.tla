----------------------------- MODULE MCHeadForks -----------------------------
(* A chain of three blocks whose newest is late enough for the cleanup to     *)
(* drop the oldest; the one between them may be unknown for a while.          *)
EXTENDS HeadForks, BlockWalk

MCRoots == 1..3
MCSlotOf == <<1, 2, 4>>
MCBefore == {<<1, 2>>, <<1, 3>>, <<2, 3>>}

\* A second fork next to it, with its first block in the slot of block 2.
ForkRoots == 1..5
ForkSlotOf == <<1, 2, 4, 2, 5>>
ForkBefore == MCBefore \cup {<<1, 4>>, <<1, 5>>, <<4, 5>>}

\* A chain of two blocks, for the run about statuses.
PairRoots == 1..2
PairSlotOf == <<1, 2>>
PairBefore == {<<1, 2>>}

Up == [AllDown EXCEPT !.online = TRUE]
OnlyUp == {Up}
SomeFlags ==
    {AllDown, Up, [Up EXCEPT !.syncing = TRUE], [Up EXCEPT !.optimistic = TRUE]}

-----------------------------------------------------------------------------
(* The cache fills while the clients know no head, then they all have one,    *)
(* any, and stay with it: the cache and the computation by themselves.        *)

NoHeads == phase = "none" /\ forkCache = <<>> /\ head = [c \in Clients |-> NoRoot]

CacheFills == NoHeads /\ CacheNext /\ UNCHANGED <<clientVars, forkVars>>

ClientsSettle ==
    /\ NoHeads
    /\ UNCHANGED <<cacheVars, pc, blk, forkVars>>
    /\ head' \in [Clients -> Roots]
    /\ HeadHasHeader'
    /\ flags' = [c \in Clients |-> Up]
    /\ pending' = flags'

SettledNext == CacheFills \/ ClientsSettle \/ StartCompute \/ Compute

SettledSpec == Init /\ [][SettledNext]_vars

=============================================================================
