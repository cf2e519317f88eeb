----------------------------- MODULE BlockCache -----------------------------
(***************************************************************************)
(* The block cache of a pool (src/pool/blockcache.go) and the header of    *)
(* its entries (src/pool/cachedblock.go).  It remembers the blocks that    *)
(* the connected nodes have announced, indexed by root and by slot,        *)
(* forgets the ones that fall out of a window behind the newest slot, and  *)
(* answers whether one block is an ancestor of another.                    *)
(*                                                                         *)
(* The tree of blocks is a constant: SlotOf gives each root its slot and   *)
(* Before is the relation "is a strict ancestor of".  A block's header,    *)
(* once stored, gives the true parent.                                     *)
(***************************************************************************)
EXTENDS Integers, FiniteSets

CONSTANTS
    Roots,          \* the roots of the blocks that exist
    SlotOf,         \* the slot of each root
    Before,         \* <<a, b>> : a is a strict ancestor of b
    FollowDistance  \* slots that are kept behind the newest one

\* The constructor refuses a follow distance of zero.
ASSUME FollowAssumption == FollowDistance \in Nat \ {0}

\* Blocks form a forest in which slots grow from parent to child.
ASSUME ChainAssumption ==
    /\ IsFiniteSet(Roots)
    /\ SlotOf \in [Roots -> Nat]
    /\ Before \subseteq Roots \X Roots
    /\ \A a, b \in Roots : <<a, b>> \in Before => SlotOf[a] < SlotOf[b]
    /\ \A a, b, c \in Roots :
          <<a, b>> \in Before /\ <<b, c>> \in Before => <<a, c>> \in Before
    /\ \A a, b, c \in Roots :
          <<a, c>> \in Before /\ <<b, c>> \in Before
             => a = b \/ <<a, b>> \in Before \/ <<b, a>> \in Before

VARIABLES
    rootMap,     \* the roots of the cached blocks
    slotMap,     \* the cached blocks of each slot ({} : no entry)
    maxSlotIdx,  \* the newest slot seen
    objects,     \* roots for which a CachedBlock was allocated, cached or not
    header       \* roots whose CachedBlock carries its header

cacheVars == <<rootMap, slotMap, maxSlotIdx, objects, header>>

Slots == {SlotOf[r] : r \in Roots}

CacheTypeOK ==
    /\ rootMap \subseteq Roots
    /\ slotMap \in [Slots -> SUBSET Roots]
    /\ maxSlotIdx \in Nat
    /\ objects \subseteq Roots
    /\ header \subseteq objects

\* Mutant: the newest slot starts below zero, as AddBlock allows for.
CacheInitNoSlot ==
    /\ rootMap = {}
    /\ slotMap = [s \in Slots |-> {}]
    /\ maxSlotIdx = -1
    /\ objects = {}
    /\ header = {}

CacheInit ==
    /\ rootMap = {}
    /\ slotMap = [s \in Slots |-> {}]
    /\ maxSlotIdx = 0
    /\ objects = {}
    /\ header = {}

-----------------------------------------------------------------------------
(* The window *)

\* Mutant: the window is put ahead of the newest slot.
MinSlotAhead == maxSlotIdx + FollowDistance

\* The first slot of the window.
MinSlot == maxSlotIdx - FollowDistance

\* A slot that AddBlock refuses and that cleanupCache drops.
TooOld(s) == MinSlot > 0 /\ s < MinSlot

\* AddBlock returns nil: nothing is known of the block and it is too old.
Refused(r) == r \notin rootMap /\ TooOld(SlotOf[r])

-----------------------------------------------------------------------------
(* Operations *)

\* Mutant: the slot entry is overwritten where it should be appended to.
InsertReplacingSlot(r) ==
    /\ r \notin rootMap
    /\ ~TooOld(SlotOf[r])
    /\ rootMap' = rootMap \cup {r}
    /\ slotMap' = [slotMap EXCEPT ![SlotOf[r]] = {r}]
    /\ maxSlotIdx' = IF SlotOf[r] > maxSlotIdx THEN SlotOf[r] ELSE maxSlotIdx
    /\ objects' = objects \cup {r}
    /\ header' = header \ {r}

\* Mutant: the cut-off of old blocks is missing.
InsertAnyAge(r) ==
    /\ r \notin rootMap
    /\ rootMap' = rootMap \cup {r}
    /\ slotMap' = [slotMap EXCEPT ![SlotOf[r]] = @ \cup {r}]
    /\ maxSlotIdx' = IF SlotOf[r] > maxSlotIdx THEN SlotOf[r] ELSE maxSlotIdx
    /\ objects' = objects \cup {r}
    /\ header' = header \ {r}

\* A new block enters both indexes, with no header yet.
Insert(r) ==
    /\ r \notin rootMap
    /\ ~TooOld(SlotOf[r])
    /\ rootMap' = rootMap \cup {r}
    /\ slotMap' = [slotMap EXCEPT ![SlotOf[r]] = @ \cup {r}]
    /\ maxSlotIdx' = IF SlotOf[r] > maxSlotIdx THEN SlotOf[r] ELSE maxSlotIdx
    /\ objects' = objects \cup {r}
    /\ header' = header \ {r}

\* A known block is returned as it is, an unknown old one is refused.
AddBlock(r) ==
    \/ Insert(r)
    \/ (r \in rootMap \/ Refused(r)) /\ UNCHANGED cacheVars

\* The header of a block is stored; whoever stores it got the block from
\* AddBlock, possibly before a cleanup removed it from the cache.
StoreHeader(r) ==
    /\ r \in objects
    /\ header' = header \cup {r}
    /\ UNCHANGED <<rootMap, slotMap, maxSlotIdx, objects>>

\* Mutant: the cleanup also drops the first slot of the window.
CleanupOneSlotMore ==
    /\ MinSlot > 0
    /\ LET stale == {s \in Slots : s <= MinSlot}
       IN  /\ rootMap' = rootMap \ UNION {slotMap[s] : s \in stale}
           /\ slotMap' = [s \in Slots |-> IF s \in stale THEN {} ELSE slotMap[s]]
    /\ UNCHANGED <<maxSlotIdx, objects, header>>

\* The periodic cleanup walks the slot index and drops every slot below the
\* window from both indexes.
Cleanup ==
    /\ MinSlot > 0
    /\ LET stale == {s \in Slots : s < MinSlot}
       IN  /\ rootMap' = rootMap \ UNION {slotMap[s] : s \in stale}
           /\ slotMap' = [s \in Slots |-> IF s \in stale THEN {} ELSE slotMap[s]]
    /\ UNCHANGED <<maxSlotIdx, objects, header>>

CacheNext ==
    \/ \E r \in Roots : AddBlock(r) \/ StoreHeader(r)
    \/ Cleanup

CacheSpec == CacheInit /\ [][CacheNext]_cacheVars

-----------------------------------------------------------------------------
(* Ancestry *)

\* The blocks that a walk from h down to its ancestor b visits.
Between(b, h) ==
    {x \in Roots : <<b, x>> \in Before /\ (x = h \/ <<x, h>> \in Before)}

\* Mutant: the walk does not notice a missing header.
ReachesAnyHeader(b, h) ==
    \/ b = h
    \/ b \in rootMap /\ <<b, h>> \in Before /\ Between(b, h) \subseteq rootMap

\* GetBlockDistance finds b below h: both are cached, and so is every block
\* on the way, with the header that names its parent.
Reaches(b, h) ==
    \/ b = h
    \/ /\ b \in rootMap
       /\ <<b, h>> \in Before
       /\ Between(b, h) \subseteq rootMap \cap header

\* The distance GetBlockDistance returns; zero also where it finds no path.
BlockDistance(b, h) ==
    IF b # h /\ Reaches(b, h) THEN Cardinality(Between(b, h)) ELSE 0

-----------------------------------------------------------------------------
(* Properties *)

\* The two indexes always hold the same blocks, each under its own slot, so
\* that a cleanup driven by the slot index leaves nothing behind in rootMap.
IndexesAgree ==
    \A s \in Slots : slotMap[s] = {r \in rootMap : SlotOf[r] = s}

\* The newest slot is one that is still cached: however old the cleanup
\* runs, it never drops the block that defines the window.
NewestIsCached ==
    maxSlotIdx > 0 => \E r \in rootMap : SlotOf[r] = maxSlotIdx

\* A block that left the cache never comes back: there is one CachedBlock per
\* root, so a client still holding an evicted one cannot write to a stale twin
\* of a cached block.
OneObjectPerRoot ==
    [][\A r \in objects : r \notin rootMap => r \notin rootMap']_cacheVars

\* Ancestry that was found stays found for as long as the ancestor is inside
\* the window: no cleanup, late announcement or header store breaks a chain in
\* its middle.
KnownChainsKept ==
    [][\A b, h \in Roots :
          Reaches(b, h) /\ ~TooOld(SlotOf[b])' => Reaches(b, h)']_cacheVars

=============================================================================
