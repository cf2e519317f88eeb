------------------------------ MODULE BlockWalk ------------------------------
(***************************************************************************)
(* GetBlockDistance of src/pool/blockcache.go as the loop it is: a walk    *)
(* from the head over the parent roots of the cached headers.  BlockCache  *)
(* states what the walk finds; this module shows that the loop finds it,   *)
(* in every state of the cache.                                            *)
(***************************************************************************)
EXTENDS BlockCache

Ancestors(h) == {a \in Roots : <<a, h>> \in Before}

\* The parent root that the header of h names, when the parent is among Roots.
ParentRoot(h) ==
    CHOOSE a \in Ancestors(h) : \A x \in Ancestors(h) : SlotOf[x] <= SlotOf[a]

\* The loop in search of b, at block h after d steps.  A parent that is not
\* among Roots is not cached either, so that the next turn would end the loop.
Walk(b) ==
    LET from[h \in Roots] ==
          [d \in Nat |->
             IF \/ h \notin rootMap \cap header
                \/ SlotOf[h] < SlotOf[b]
                \/ Ancestors(h) = {}
             THEN <<FALSE, 0>>
             ELSE IF ParentRoot(h) = b THEN <<TRUE, d + 1>>
             ELSE from[ParentRoot(h)][d + 1]]
    IN from

GetBlockDistance(b, h) ==
    IF b = h THEN <<TRUE, 0>>
    ELSE IF b \notin rootMap THEN <<FALSE, 0>>
    ELSE Walk(b)[h][0]

\* The loop answers exactly what Reaches and BlockDistance say of the cache,
\* whichever blocks are missing, lack their header or lie on another fork.
WalkAgrees ==
    \A b, h \in Roots :
       GetBlockDistance(b, h) = <<Reaches(b, h), BlockDistance(b, h)>>

=============================================================================
