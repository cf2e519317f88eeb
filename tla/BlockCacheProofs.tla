-------------------------- MODULE BlockCacheProofs --------------------------
(***************************************************************************)
(* Theorems about the block cache, for every forest of blocks and every    *)
(* follow distance.                                                        *)
(***************************************************************************)
EXTENDS BlockWalk, FiniteSetTheorems, WellFoundedInduction, TLAPS

\* An allocated block is cached, or it is too old to be cached again.  This
\* is what makes OneObjectPerRoot inductive: the window only moves forward.
EvictedAreOld == \A r \in objects : r \in rootMap \/ TooOld(SlotOf[r])

\* No cached block is newer than the newest slot, and all are allocated.
WindowBounds ==
    /\ rootMap \subseteq objects
    /\ \A r \in rootMap : SlotOf[r] <= maxSlotIdx

\* The inductive invariant.
CacheInv ==
    /\ CacheTypeOK
    /\ IndexesAgree
    /\ EvictedAreOld
    /\ WindowBounds
    /\ NewestIsCached

\* A cleanup removes from rootMap exactly the cached blocks below the window.
LEMMA CleanupDropsOld ==
    ASSUME CacheTypeOK, IndexesAgree, Cleanup
    PROVE  /\ rootMap' = {r \in rootMap : ~TooOld(SlotOf[r])}
           /\ \A s \in Slots :
                 slotMap'[s] = IF s < MinSlot THEN {} ELSE slotMap[s]
<1> DEFINE stale == {s \in Slots : s < MinSlot}
<1>1. rootMap' = rootMap \ UNION {slotMap[s] : s \in stale}
    BY DEF Cleanup
<1>2. ASSUME NEW r \in rootMap
      PROVE  r \in UNION {slotMap[s] : s \in stale} <=> TooOld(SlotOf[r])
    <2>1. SlotOf[r] \in Slots
        BY DEF CacheTypeOK, Slots
    <2>2. \A s \in Slots : r \in slotMap[s] <=> s = SlotOf[r]
        BY DEF IndexesAgree
    <2>3. r \in UNION {slotMap[s] : s \in stale} <=> SlotOf[r] \in stale
        BY <2>1, <2>2
    <2>4. MinSlot > 0
        BY DEF Cleanup
    <2> QED BY <2>1, <2>3, <2>4 DEF TooOld
<1>3. slotMap' = [s \in Slots |-> IF s \in stale THEN {} ELSE slotMap[s]]
    BY DEF Cleanup
<1> QED BY <1>1, <1>2, <1>3

\* The window never moves back.
LEMMA WindowAdvances ==
    ASSUME CacheTypeOK, [CacheNext]_cacheVars
    PROVE  maxSlotIdx' \in Nat /\ maxSlotIdx <= maxSlotIdx'
<1> USE ChainAssumption
<1>1. ASSUME NEW r \in Roots, AddBlock(r)
      PROVE  maxSlotIdx' \in Nat /\ maxSlotIdx <= maxSlotIdx'
    BY <1>1 DEF AddBlock, Insert, CacheTypeOK, cacheVars
<1>2. ASSUME NEW r \in Roots, StoreHeader(r)
      PROVE  maxSlotIdx' \in Nat /\ maxSlotIdx <= maxSlotIdx'
    BY <1>2 DEF StoreHeader, CacheTypeOK
<1>3. CASE Cleanup
    BY <1>3 DEF Cleanup, CacheTypeOK
<1>4. CASE UNCHANGED cacheVars
    BY <1>4 DEF cacheVars, CacheTypeOK
<1> QED BY <1>1, <1>2, <1>3, <1>4 DEF CacheNext

\* What is too old stays too old.
LEMMA OldStaysOld ==
    ASSUME CacheTypeOK, [CacheNext]_cacheVars, NEW s \in Nat, TooOld(s)
    PROVE  TooOld(s)'
BY WindowAdvances, FollowAssumption DEF TooOld, MinSlot, CacheTypeOK

\* A slot past one that is still in the window is in the window as well.
LEMMA LaterIsInside ==
    ASSUME maxSlotIdx' \in Nat, NEW s \in Nat, NEW t \in Nat, s < t,
           ~TooOld(s)'
    PROVE  ~TooOld(t)'
<1>1. TooOld(s)' <=> MinSlot' > 0 /\ s < MinSlot'
    BY DEF TooOld
<1>2. TooOld(t)' <=> MinSlot' > 0 /\ t < MinSlot'
    BY DEF TooOld
<1>3. MinSlot' \in Int
    BY FollowAssumption DEF MinSlot
<1> QED BY <1>1, <1>2, <1>3

LEMMA InitCacheInv == CacheInit => CacheInv
BY DEF CacheInit, CacheInv, CacheTypeOK, IndexesAgree, EvictedAreOld,
       WindowBounds, NewestIsCached

LEMMA InsertCacheInv ==
    ASSUME CacheInv, NEW r \in Roots, Insert(r)
    PROVE  CacheInv'
<1> USE ChainAssumption DEF CacheInv
<1>0. SlotOf[r] \in Slots /\ SlotOf[r] \in Nat
    BY DEF Slots
<1>1. CacheTypeOK'
    BY <1>0 DEF CacheTypeOK, Insert
<1>2. IndexesAgree'
    <2> SUFFICES ASSUME NEW s \in Slots
                 PROVE  slotMap'[s] = {x \in rootMap' : SlotOf[x] = s}
        BY DEF IndexesAgree
    <2>1. slotMap[s] = {x \in rootMap : SlotOf[x] = s}
        BY DEF IndexesAgree
    <2>2. slotMap'[s] = IF s = SlotOf[r] THEN slotMap[s] \cup {r} ELSE slotMap[s]
        BY <1>0 DEF Insert, CacheTypeOK
    <2>3. rootMap' = rootMap \cup {r}
        BY DEF Insert
    <2> QED BY <2>1, <2>2, <2>3
<1>3. EvictedAreOld'
    <2>1. [CacheNext]_cacheVars
        BY DEF CacheNext, AddBlock
    <2>2. \A x \in objects : x \in rootMap' \/ TooOld(SlotOf[x])'
        BY <2>1, OldStaysOld DEF EvictedAreOld, CacheTypeOK, Insert
    <2> QED BY <2>2 DEF EvictedAreOld, Insert
<1>4. WindowBounds'
    BY <1>0 DEF WindowBounds, Insert, CacheTypeOK
<1>5. NewestIsCached'
    BY <1>0 DEF NewestIsCached, Insert, CacheTypeOK
<1> QED BY <1>1, <1>2, <1>3, <1>4, <1>5

LEMMA CleanupCacheInv ==
    ASSUME CacheInv, Cleanup
    PROVE  CacheInv'
<1> USE ChainAssumption, FollowAssumption DEF CacheInv
<1>1. rootMap' = {r \in rootMap : ~TooOld(SlotOf[r])}
    BY CleanupDropsOld
<1>2. \A s \in Slots : slotMap'[s] = IF s < MinSlot THEN {} ELSE slotMap[s]
    BY CleanupDropsOld
<1>3. UNCHANGED <<maxSlotIdx, objects, header>> /\ MinSlot > 0
    BY DEF Cleanup
<1>4. \A s : TooOld(s)' <=> TooOld(s)
    BY <1>3 DEF TooOld, MinSlot
<1>5. CacheTypeOK'
    <2>1. slotMap' \in [Slots -> SUBSET Roots]
        BY DEF Cleanup, CacheTypeOK
    <2> QED BY <1>1, <1>3, <2>1 DEF CacheTypeOK
<1>6. IndexesAgree'
    BY <1>1, <1>2, <1>3 DEF IndexesAgree, TooOld, CacheTypeOK
<1>7. EvictedAreOld'
    BY <1>1, <1>3, <1>4 DEF EvictedAreOld
<1>8. WindowBounds'
    BY <1>1, <1>3 DEF WindowBounds
<1>9. NewestIsCached'
    <2> SUFFICES ASSUME maxSlotIdx > 0
                 PROVE  \E r \in rootMap' : SlotOf[r] = maxSlotIdx
        BY <1>3 DEF NewestIsCached
    <2>1. PICK r \in rootMap : SlotOf[r] = maxSlotIdx
        BY DEF NewestIsCached
    <2>2. ~TooOld(SlotOf[r])
        BY <2>1 DEF TooOld, MinSlot, CacheTypeOK
    <2> QED BY <2>1, <2>2, <1>1
<1> QED BY <1>5, <1>6, <1>7, <1>8, <1>9

\* Every step of the cache keeps the inductive invariant.
LEMMA NextCacheInv == CacheInv /\ [CacheNext]_cacheVars => CacheInv'
<1> SUFFICES ASSUME CacheInv, [CacheNext]_cacheVars PROVE CacheInv'
    OBVIOUS
<1>1. ASSUME NEW r \in Roots, Insert(r) PROVE CacheInv'
    BY <1>1, InsertCacheInv
<1>2. CASE UNCHANGED cacheVars
    BY <1>2 DEF CacheInv, CacheTypeOK, IndexesAgree, EvictedAreOld, TooOld,
                MinSlot, WindowBounds, NewestIsCached, cacheVars
<1>3. ASSUME NEW r \in Roots, StoreHeader(r) PROVE CacheInv'
    BY <1>3 DEF StoreHeader, CacheInv, CacheTypeOK, IndexesAgree, EvictedAreOld,
                TooOld, MinSlot, WindowBounds, NewestIsCached
<1>4. CASE Cleanup
    BY <1>4, CleanupCacheInv
<1> QED BY <1>1, <1>2, <1>3, <1>4 DEF CacheNext, AddBlock

LEMMA CacheInvariant == CacheSpec => []CacheInv
BY InitCacheInv, NextCacheInv, PTL DEF CacheSpec

-----------------------------------------------------------------------------

\* The cache's variables keep their types.
THEOREM CacheTypes == CacheSpec => []CacheTypeOK
<1>1. CacheInv => CacheTypeOK
    BY DEF CacheInv
<1> QED BY <1>1, CacheInvariant, PTL

\* rootMap and slotMap index the same blocks at all times.
THEOREM IndexAgreement == CacheSpec => []IndexesAgree
<1>1. CacheInv => IndexesAgree
    BY DEF CacheInv
<1> QED BY <1>1, CacheInvariant, PTL

\* The block that defines the window is always cached.
THEOREM NewestKept == CacheSpec => []NewestIsCached
<1>1. CacheInv => NewestIsCached
    BY DEF CacheInv
<1> QED BY <1>1, CacheInvariant, PTL

\* A step never brings an evicted block back.
LEMMA NoComeback ==
    ASSUME CacheInv, [CacheNext]_cacheVars, NEW r \in objects, r \notin rootMap
    PROVE  r \notin rootMap'
<1> USE ChainAssumption DEF CacheInv
<1>1. TooOld(SlotOf[r])
    BY DEF EvictedAreOld
<1>2. ASSUME NEW x \in Roots, Insert(x) PROVE r \notin rootMap'
    BY <1>1, <1>2 DEF Insert
<1>3. CASE UNCHANGED cacheVars
    BY <1>3 DEF cacheVars
<1>4. ASSUME NEW x \in Roots, StoreHeader(x) PROVE r \notin rootMap'
    BY <1>4 DEF StoreHeader
<1>5. CASE Cleanup
    BY <1>5, CleanupDropsOld
<1> QED BY <1>2, <1>3, <1>4, <1>5 DEF CacheNext, AddBlock

\* There is never a second CachedBlock for a root.
THEOREM SingleObject == CacheSpec => OneObjectPerRoot
<1>1. CacheInv /\ [CacheNext]_cacheVars =>
         [\A r \in objects : r \notin rootMap => r \notin rootMap']_cacheVars
    BY NoComeback
<1> QED BY <1>1, CacheInvariant, PTL DEF CacheSpec, OneObjectPerRoot

\* A step keeps every cached block of the window, with its header.
LEMMA WindowKept ==
    ASSUME CacheInv, [CacheNext]_cacheVars,
           NEW r \in rootMap, ~TooOld(SlotOf[r])'
    PROVE  r \in rootMap' /\ (r \in header => r \in header')
<1> USE ChainAssumption DEF CacheInv
<1>0. SlotOf[r] \in Nat
    BY DEF CacheTypeOK
<1>1. ASSUME NEW x \in Roots, Insert(x)
      PROVE  r \in rootMap' /\ (r \in header => r \in header')
    BY <1>1 DEF Insert
<1>2. CASE UNCHANGED cacheVars
    BY <1>2 DEF cacheVars
<1>3. ASSUME NEW x \in Roots, StoreHeader(x)
      PROVE  r \in rootMap' /\ (r \in header => r \in header')
    BY <1>3 DEF StoreHeader
<1>4. CASE Cleanup
    <2>1. ~TooOld(SlotOf[r])
        BY <1>0, OldStaysOld
    <2>2. r \in rootMap'
        BY <1>4, <2>1, CleanupDropsOld
    <2> QED BY <1>4, <2>2 DEF Cleanup
<1> QED BY <1>1, <1>2, <1>3, <1>4 DEF CacheNext, AddBlock

\* Inside the window the cache never forgets an ancestry it has found.
THEOREM ChainsKept == CacheSpec => KnownChainsKept
<1>1. ASSUME CacheInv, [CacheNext]_cacheVars, NEW b \in Roots, NEW h \in Roots,
             Reaches(b, h), ~TooOld(SlotOf[b])'
      PROVE  Reaches(b, h)'
    <2> USE ChainAssumption
    <2>1. CASE b = h
        BY <2>1 DEF Reaches
    <2>2. CASE b # h
        <3>1. /\ b \in rootMap
              /\ <<b, h>> \in Before
              /\ Between(b, h) \subseteq rootMap \cap header
            BY <1>1, <2>2 DEF Reaches
        <3>2. b \in rootMap'
            BY <1>1, <3>1, WindowKept
        <3>3. ASSUME NEW x \in Between(b, h)
              PROVE  x \in rootMap' \cap header'
            <4>1. x \in Roots /\ SlotOf[b] < SlotOf[x] /\ SlotOf[x] \in Nat
                  /\ SlotOf[b] \in Nat
                BY DEF Between
            <4>2. maxSlotIdx' \in Nat
                BY <1>1, WindowAdvances DEF CacheInv
            <4>3. ~TooOld(SlotOf[b])'
                BY <1>1
            <4>4. ~TooOld(SlotOf[x])'
                BY <4>1, <4>2, <4>3, LaterIsInside
            <4> QED BY <1>1, <3>1, <4>4, WindowKept
        <3> QED BY <3>1, <3>2, <3>3 DEF Reaches, Between
    <2> QED BY <2>1, <2>2
<1>2. CacheInv /\ [CacheNext]_cacheVars =>
         [\A b, h \in Roots :
             Reaches(b, h) /\ ~TooOld(SlotOf[b])' => Reaches(b, h)']_cacheVars
    BY <1>1
<1> QED BY <1>2, CacheInvariant, PTL DEF CacheSpec, KnownChainsKept

-----------------------------------------------------------------------------
(* The loop of GetBlockDistance *)

\* A set of naturals has a least element.
LEMMA HasLeast ==
    ASSUME NEW S \in SUBSET Nat, S # {}
    PROVE  \E m \in S : \A n \in S : m <= n
<1> DEFINE R == {ss \in Nat \X Nat : ss[1] < ss[2]}
<1>1. IsWellFoundedOn(R, Nat)
    BY NatLessThanWellFounded DEF OpToRel
<1>2. PICK m \in S : \A n \in S : <<n, m>> \notin R
    <2> HIDE DEF R
    <2> QED BY <1>1, WFMin
<1>3. ASSUME NEW n \in S PROVE m <= n
    <2>1. \A x, y \in Nat : x < y => <<x, y>> \in R
        OBVIOUS
    <2> HIDE DEF R
    <2>2. n \in Nat /\ m \in Nat
        OBVIOUS
    <2>3. ~(n < m)
        BY <1>2, <2>1, <2>2
    <2> QED BY <2>2, <2>3
<1> QED BY <1>3

\* A block with an ancestor has a parent: the ancestor with the newest slot,
\* which all the others are ancestors of.
LEMMA ParentIsNearest ==
    ASSUME NEW h \in Roots, Ancestors(h) # {}
    PROVE  /\ ParentRoot(h) \in Roots
           /\ <<ParentRoot(h), h>> \in Before
           /\ \A x \in Roots : <<x, h>> \in Before
                 => x = ParentRoot(h) \/ <<x, ParentRoot(h)>> \in Before
<1> DEFINE gap(a) == SlotOf[h] - SlotOf[a]
           gaps == {gap(a) : a \in Ancestors(h)}
<1>0. /\ \A m, n \in Nat : m < n => n - m \in Nat
      /\ \A k, m, n \in Nat : n - m <= n - k => k <= m
    OBVIOUS
<1>1. \A a \in Ancestors(h) : /\ a \in Roots /\ <<a, h>> \in Before
                              /\ SlotOf[a] \in Nat /\ SlotOf[h] \in Nat
                              /\ SlotOf[a] < SlotOf[h]
    BY ChainAssumption DEF Ancestors
<1>2. ASSUME NEW a \in Ancestors(h) PROVE gap(a) \in Nat
    <2>1. SlotOf[a] \in Nat /\ SlotOf[h] \in Nat /\ SlotOf[a] < SlotOf[h]
        BY <1>1
    <2> QED BY <2>1, <1>0
<1>3. PICK a \in Ancestors(h) : \A x \in Ancestors(h) : gap(a) <= gap(x)
    <2> HIDE DEF gap
    <2>1. gaps \in SUBSET Nat /\ gaps # {}
        BY <1>2
    <2>2. PICK g \in gaps : \A k \in gaps : g <= k
        <3> HIDE DEF gaps
        <3> QED BY <2>1, HasLeast
    <2> QED BY <2>2
<1>4. ASSUME NEW x \in Ancestors(h) PROVE SlotOf[x] <= SlotOf[a]
    <2>1. SlotOf[x] \in Nat /\ SlotOf[a] \in Nat /\ SlotOf[h] \in Nat
        BY <1>1
    <2>2. SlotOf[h] - SlotOf[a] <= SlotOf[h] - SlotOf[x]
        BY <1>3
    <2> QED BY <2>1, <2>2, <1>0
<1>5. /\ ParentRoot(h) \in Ancestors(h)
      /\ \A x \in Ancestors(h) : SlotOf[x] <= SlotOf[ParentRoot(h)]
    BY <1>4 DEF ParentRoot
<1>6. ParentRoot(h) \in Roots /\ <<ParentRoot(h), h>> \in Before
    BY <1>1, <1>5
<1>7. ASSUME NEW x \in Roots, <<x, h>> \in Before, x # ParentRoot(h)
      PROVE  <<x, ParentRoot(h)>> \in Before
    <2>1. x \in Ancestors(h)
        BY <1>7 DEF Ancestors
    <2>2. \/ <<x, ParentRoot(h)>> \in Before
          \/ <<ParentRoot(h), x>> \in Before
        BY <1>6, <1>7, ChainAssumption
    <2>3. <<ParentRoot(h), x>> \in Before => SlotOf[ParentRoot(h)] < SlotOf[x]
        BY <1>6, ChainAssumption
    <2>4. /\ SlotOf[x] <= SlotOf[ParentRoot(h)]
          /\ SlotOf[x] \in Nat /\ SlotOf[ParentRoot(h)] \in Nat
        BY <1>1, <1>5, <2>1
    <2> QED BY <2>2, <2>3, <2>4
<1> QED BY <1>6, <1>7

\* What a walk down from h finds, at its start and after each of its turns.
Found(b, h) == b # h /\ Reaches(b, h)
Answer(b, h, d) ==
    IF Found(b, h) THEN <<TRUE, d + Cardinality(Between(b, h))>> ELSE <<FALSE, 0>>

\* The walk from h finds what the walk from its parent finds, one block further
\* on.
LEMMA OneBlockFurther ==
    ASSUME CacheTypeOK, NEW b \in rootMap, NEW h \in rootMap \cap header,
           Ancestors(h) # {}
    PROVE  /\ ParentRoot(h) = b => Found(b, h) /\ Between(b, h) = {h}
           /\ ParentRoot(h) # b =>
                 /\ Found(b, h) <=> Found(b, ParentRoot(h))
                 /\ Found(b, h) => /\ Between(b, h) = Between(b, ParentRoot(h)) \cup {h}
                                   /\ h \notin Between(b, ParentRoot(h))
<1> DEFINE p == ParentRoot(h)
<1>0. b \in Roots /\ h \in Roots
    BY DEF CacheTypeOK
<1>1. /\ p \in Roots /\ <<p, h>> \in Before
      /\ \A x \in Roots : <<x, h>> \in Before => x = p \/ <<x, p>> \in Before
    BY <1>0, ParentIsNearest
<1> HIDE DEF p
<1>2. ASSUME NEW x \in Roots, NEW y \in Roots, <<x, y>> \in Before
      PROVE  <<y, x>> \notin Before /\ x # y
    <2>1. SlotOf[x] \in Nat /\ SlotOf[y] \in Nat /\ SlotOf[x] < SlotOf[y]
        BY <1>2, ChainAssumption
    <2>2. <<y, x>> \in Before => SlotOf[y] < SlotOf[x]
        BY ChainAssumption
    <2> QED BY <2>1, <2>2
<1>3. \A x, y, z \in Roots : <<x, y>> \in Before /\ <<y, z>> \in Before
                               => <<x, z>> \in Before
    BY ChainAssumption
<1>4. CASE p = b
    <2>1. Between(b, h) = {h}
        BY <1>0, <1>1, <1>2, <1>4 DEF Between
    <2>2. Reaches(b, h) /\ b # h
        BY <1>0, <1>1, <1>2, <1>4, <2>1 DEF Reaches
    <2> QED BY <1>4, <2>1, <2>2 DEF Found, p
<1>5. CASE p # b
    <2>1. <<b, h>> \in Before <=> <<b, p>> \in Before
        BY <1>0, <1>1, <1>3, <1>5
    <2>2. ASSUME <<b, p>> \in Before
          PROVE  /\ Between(b, h) = Between(b, p) \cup {h}
                 /\ h \notin Between(b, p)
        <3>1. \A x \in Roots : <<x, h>> \in Before <=> x = p \/ <<x, p>> \in Before
            BY <1>0, <1>1, <1>3
        <3>2. <<h, p>> \notin Before /\ h # p
            BY <1>0, <1>1, <1>2
        <3>3. \A x \in Roots : <<b, x>> \in Before /\ (x = h \/ <<x, h>> \in Before)
                 <=> x = h \/ (<<b, x>> \in Before /\ (x = p \/ <<x, p>> \in Before))
            BY <1>0, <2>1, <2>2, <3>1
        <3>4. h \notin Between(b, p)
            BY <3>2 DEF Between
        <3>5. Between(b, h) = Between(b, p) \cup {h}
            BY <1>0, <3>3 DEF Between
        <3> QED BY <3>4, <3>5
    <2>3. b # h /\ <<b, h>> \in Before <=> b # p /\ <<b, p>> \in Before
        BY <1>0, <1>2, <1>5, <2>1
    <2>4. Found(b, h) <=> Found(b, p)
        BY <2>2, <2>3 DEF Found, Reaches
    <2>5. Found(b, h) => <<b, p>> \in Before
        BY <2>3 DEF Found, Reaches
    <2> QED BY <1>5, <2>2, <2>4, <2>5 DEF p
<1> QED BY <1>4, <1>5

\* A walk that is cut off finds nothing.
LEMMA CutOff ==
    ASSUME CacheTypeOK, NEW b \in Roots, NEW h \in Roots,
           \/ h \notin rootMap \cap header
           \/ SlotOf[h] < SlotOf[b]
           \/ Ancestors(h) = {}
    PROVE  ~Found(b, h)
<1> SUFFICES ASSUME Found(b, h) PROVE FALSE
    OBVIOUS
<1>1. <<b, h>> \in Before /\ Between(b, h) \subseteq rootMap \cap header
    BY DEF Found, Reaches
<1>2. h \in rootMap \cap header
    BY <1>1 DEF Between
<1>3. SlotOf[b] < SlotOf[h] /\ SlotOf[b] \in Nat /\ SlotOf[h] \in Nat
    BY <1>1, ChainAssumption
<1>4. b \in Ancestors(h)
    BY <1>1 DEF Ancestors
<1> QED BY <1>2, <1>3, <1>4

\* What the loop does at h after d steps, in terms of what it would find.
Turn(b, h, d, further) ==
    IF \/ h \notin rootMap \cap header
       \/ SlotOf[h] < SlotOf[b]
       \/ Ancestors(h) = {}
    THEN <<FALSE, 0>>
    ELSE IF ParentRoot(h) = b THEN <<TRUE, d + 1>>
    ELSE further

\* The answer satisfies the equation of the loop.
LEMMA AnswerOfTurn ==
    ASSUME CacheTypeOK, NEW b \in rootMap, NEW h \in Roots, NEW d \in Nat
    PROVE  Answer(b, h, d) = Turn(b, h, d, Answer(b, ParentRoot(h), d + 1))
<1> DEFINE p == ParentRoot(h)
<1>0. b \in Roots
    BY DEF CacheTypeOK
<1>1. CASE \/ h \notin rootMap \cap header
           \/ SlotOf[h] < SlotOf[b]
           \/ Ancestors(h) = {}
    <2>1. ~Found(b, h)
        BY <1>0, <1>1, CutOff
    <2> QED BY <1>1, <2>1 DEF Answer, Turn
<1>2. CASE /\ h \in rootMap \cap header
           /\ ~(SlotOf[h] < SlotOf[b])
           /\ Ancestors(h) # {}
    <2>1. CASE p = b
        <3>1. Found(b, h) /\ Between(b, h) = {h}
            BY <1>2, <2>1, OneBlockFurther
        <3>2. Cardinality({h}) = 1
            BY FS_Singleton
        <3>3. Answer(b, h, d) = <<TRUE, d + 1>>
            BY <3>1, <3>2 DEF Answer
        <3> QED BY <1>2, <2>1, <3>3 DEF Turn
    <2>2. CASE p # b
        <3>1. Turn(b, h, d, Answer(b, p, d + 1)) = Answer(b, p, d + 1)
            BY <1>2, <2>2 DEF Turn
        <3>2. /\ Found(b, h) <=> Found(b, p)
              /\ Found(b, h) => /\ Between(b, h) = Between(b, p) \cup {h}
                                /\ h \notin Between(b, p)
            BY <1>2, <2>2, OneBlockFurther
        <3>3. CASE ~Found(b, h)
            BY <3>1, <3>2, <3>3 DEF Answer
        <3>4. CASE Found(b, h)
            <4>1. IsFiniteSet(Between(b, p))
                <5>1. Between(b, p) \subseteq Roots
                    BY DEF Between
                <5>2. IsFiniteSet(Roots)
                    BY ChainAssumption
                <5> QED BY <5>1, <5>2, FS_Subset
            <4>2. /\ Cardinality(Between(b, p)) \in Nat
                  /\ Cardinality(Between(b, p) \cup {h}) = Cardinality(Between(b, p)) + 1
                BY <3>2, <3>4, <4>1, FS_AddElement, FS_CardinalityType
            <4>3. Between(b, h) = Between(b, p) \cup {h}
                BY <3>2, <3>4
            <4>4. d + Cardinality(Between(b, h)) = (d + 1) + Cardinality(Between(b, p))
                <5> HIDE DEF p
                <5> QED BY <4>2, <4>3
            <4> HIDE DEF p
            <4>5. Answer(b, h, d) = <<TRUE, d + Cardinality(Between(b, h))>>
                BY <3>4 DEF Answer
            <4>6. Answer(b, p, d + 1) = <<TRUE, (d + 1) + Cardinality(Between(b, p))>>
                BY <3>2, <3>4 DEF Answer
            <4>7. Answer(b, h, d) = Turn(b, h, d, Answer(b, p, d + 1))
                BY <3>1, <4>4, <4>5, <4>6
            <4> QED BY <4>7 DEF p
        <3> QED BY <3>3, <3>4
    <2> QED BY <2>1, <2>2
<1> QED BY <1>1, <1>2

\* Some function satisfies the equation that defines Walk, so Walk does.
LEMMA WalkTurns ==
    ASSUME CacheTypeOK, NEW b \in rootMap
    PROVE  Walk(b) = [h \in Roots |-> [d \in Nat |->
                        Turn(b, h, d, Walk(b)[ParentRoot(h)][d + 1])]]
<1> DEFINE F == [h \in Roots |-> [d \in Nat |-> Answer(b, h, d)]]
           Step(G) == [h \in Roots |-> [d \in Nat |->
                         Turn(b, h, d, G[ParentRoot(h)][d + 1])]]
<1>1. ASSUME NEW h \in Roots, NEW d \in Nat
      PROVE  Answer(b, h, d) = Turn(b, h, d, F[ParentRoot(h)][d + 1])
    <2>1. CASE Ancestors(h) = {}
        BY <2>1, AnswerOfTurn DEF Turn
    <2>2. CASE Ancestors(h) # {}
        <3>1. ParentRoot(h) \in Roots
            BY <2>2, ParentIsNearest
        <3>2. F[ParentRoot(h)][d + 1] = Answer(b, ParentRoot(h), d + 1)
            BY <3>1
        <3> HIDE DEF F
        <3> QED BY <3>2, AnswerOfTurn
    <2> QED BY <2>1, <2>2
<1>2. F = Step(F)
    BY <1>1
<1>3. \E G : G = Step(G)
    <2> HIDE DEF F, Step
    <2> QED BY <1>2
<1> QED BY <1>3 DEF Walk, Turn

\* One turn of the loop at h after d steps.
LEMMA WalkTurn ==
    ASSUME CacheTypeOK, NEW b \in rootMap, NEW h \in Roots, NEW d \in Nat
    PROVE  Walk(b)[h][d] = Turn(b, h, d, Walk(b)[ParentRoot(h)][d + 1])
<1> DEFINE next(k, e) == Turn(b, k, e, Walk(b)[ParentRoot(k)][e + 1])
<1>1. Walk(b) = [k \in Roots |-> [e \in Nat |-> next(k, e)]]
    BY WalkTurns
<1> HIDE DEF next
<1>2. Walk(b)[h][d] = next(h, d)
    BY <1>1
<1> QED BY <1>2 DEF next

\* The loop finds its answer: of the blocks where it would not, the one with
\* the oldest slot would have a parent where it does.
LEMMA WalkFinds ==
    ASSUME CacheTypeOK, NEW b \in rootMap
    PROVE  \A h \in Roots, d \in Nat : Walk(b)[h][d] = Answer(b, h, d)
<1> DEFINE Wrong == {h \in Roots : \E d \in Nat : Walk(b)[h][d] # Answer(b, h, d)}
           slots == {SlotOf[h] : h \in Wrong}
<1> SUFFICES ASSUME Wrong # {} PROVE FALSE
    OBVIOUS
<1>1. \A h \in Wrong : h \in Roots /\ SlotOf[h] \in Nat
    BY ChainAssumption
<1>2. PICK h \in Wrong : \A k \in Wrong : SlotOf[h] <= SlotOf[k]
    <2>1. slots \in SUBSET Nat /\ slots # {}
        BY <1>1
    <2>2. PICK m \in slots : \A n \in slots : m <= n
        <3> HIDE DEF slots
        <3> QED BY <2>1, HasLeast
    <2> HIDE DEF Wrong
    <2> QED BY <2>2
<1>3. PICK d \in Nat : Walk(b)[h][d] # Answer(b, h, d)
    OBVIOUS
<1>4. h \in Roots
    BY <1>1
<1>5. CASE Ancestors(h) = {}
    <2>1. Walk(b)[h][d] = Turn(b, h, d, Walk(b)[ParentRoot(h)][d + 1])
        BY <1>4, WalkTurn
    <2>2. Answer(b, h, d) = Turn(b, h, d, Answer(b, ParentRoot(h), d + 1))
        BY <1>4, AnswerOfTurn
    <2> QED BY <1>3, <1>5, <2>1, <2>2 DEF Turn
<1>6. CASE Ancestors(h) # {}
    <2>1. ParentRoot(h) \in Roots /\ <<ParentRoot(h), h>> \in Before
        BY <1>4, <1>6, ParentIsNearest
    <2>2. /\ SlotOf[ParentRoot(h)] < SlotOf[h]
          /\ SlotOf[ParentRoot(h)] \in Nat /\ SlotOf[h] \in Nat
        BY <1>4, <2>1, ChainAssumption
    <2>3. ParentRoot(h) \notin Wrong
        <3> HIDE DEF Wrong
        <3>1. ParentRoot(h) \in Wrong => SlotOf[h] <= SlotOf[ParentRoot(h)]
            BY <1>2
        <3> QED BY <2>2, <3>1
    <2>4. Walk(b)[ParentRoot(h)][d + 1] = Answer(b, ParentRoot(h), d + 1)
        <3>1. d + 1 \in Nat
            OBVIOUS
        <3> QED BY <2>1, <2>3, <3>1
    <2>5. Walk(b)[h][d] = Turn(b, h, d, Walk(b)[ParentRoot(h)][d + 1])
        BY <1>4, WalkTurn
    <2>6. Answer(b, h, d) = Turn(b, h, d, Answer(b, ParentRoot(h), d + 1))
        BY <1>4, AnswerOfTurn
    <2> QED BY <1>3, <2>4, <2>5, <2>6
<1> QED BY <1>5, <1>6

\* In every state of the cache the loop of GetBlockDistance says that one block
\* is an ancestor of another exactly when the cache holds, with their headers,
\* all the blocks between them, and it counts these blocks: whichever blocks
\* are missing, evicted, lack their header or lie on another fork.
THEOREM WalkAgreesAlways == CacheSpec => []WalkAgrees
<1>1. CacheTypeOK => WalkAgrees
    <2> SUFFICES ASSUME CacheTypeOK, NEW b \in Roots, NEW h \in Roots
                 PROVE  GetBlockDistance(b, h) = <<Reaches(b, h), BlockDistance(b, h)>>
        BY DEF WalkAgrees
    <2>1. CASE b = h
        BY <2>1 DEF GetBlockDistance, Reaches, BlockDistance
    <2>2. CASE b # h /\ b \notin rootMap
        <3>1. Reaches(b, h) = FALSE
            BY <2>2 DEF Reaches
        <3>2. BlockDistance(b, h) = 0
            BY <3>1 DEF BlockDistance
        <3>3. GetBlockDistance(b, h) = <<FALSE, 0>>
            BY <2>2 DEF GetBlockDistance
        <3> QED BY <3>1, <3>2, <3>3
    <2>3. CASE b # h /\ b \in rootMap
        <3>1. GetBlockDistance(b, h) = Answer(b, h, 0)
            BY <2>3, WalkFinds DEF GetBlockDistance
        <3>2. 0 + Cardinality(Between(b, h)) = Cardinality(Between(b, h))
            <4>1. Between(b, h) \subseteq Roots /\ IsFiniteSet(Roots)
                BY ChainAssumption DEF Between
            <4>2. Cardinality(Between(b, h)) \in Nat
                BY <4>1, FS_Subset, FS_CardinalityType
            <4> QED BY <4>2
        <3>3. CASE Reaches(b, h)
            <4>1. GetBlockDistance(b, h) = <<TRUE, Cardinality(Between(b, h))>>
                BY <2>3, <3>1, <3>2, <3>3 DEF Answer, Found
            <4>2. BlockDistance(b, h) = Cardinality(Between(b, h))
                BY <2>3, <3>3 DEF BlockDistance
            <4>3. Reaches(b, h) = TRUE
                BY <3>3 DEF Reaches
            <4> QED BY <4>1, <4>2, <4>3
        <3>4. CASE ~Reaches(b, h)
            <4>1. GetBlockDistance(b, h) = <<FALSE, 0>>
                BY <3>1, <3>4 DEF Answer, Found
            <4>2. BlockDistance(b, h) = 0
                BY <3>4 DEF BlockDistance
            <4>3. Reaches(b, h) = FALSE
                BY <3>4 DEF Reaches
            <4> QED BY <4>1, <4>2, <4>3
        <3> QED BY <3>3, <3>4
    <2> QED BY <2>1, <2>2, <2>3
<1>2. CacheInv => CacheTypeOK
    BY DEF CacheInv
<1> QED BY <1>1, <1>2, CacheInvariant, PTL

=============================================================================
