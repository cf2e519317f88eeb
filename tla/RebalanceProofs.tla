--------------------------- MODULE RebalanceProofs ---------------------------
(***************************************************************************)
(* Proofs about Rebalance, for any sessions, endpoints and thresholds.     *)
(***************************************************************************)
EXTENDS Rebalance, FiniteSetTheorems, WellFoundedInduction, TLAPS

Triples == Sessions \X (DOMAIN totals) \X (DOMAIN totals)

\* No session is counted twice, so that no total gets above their number.
CountInv ==
    /\ phase \in {"asleep", "lock"} =>
          total = 0 /\ \A e \in DOMAIN totals : totals[e] = 0
    /\ phase = "count" =>
          /\ total + Cardinality(checked) + Cardinality(unseen)
                <= Cardinality(Sessions)
          /\ \A e \in DOMAIN totals : totals[e] <= total
    /\ phase # "count" => unseen = {} /\ checked = {}

\* A move that was chosen goes to an endpoint with fewer sessions, unless it is
\* to nil, and is there only between the choice and its application.
MoveIsDownhill ==
    /\ phase = "apply" =>
          /\ move \in Triples
          /\ move[3] # NoEndpoint => totals[move[3]] < totals[move[2]]
    /\ phase # "apply" => move = NoMove

\* The sweep limit has not been reached where a move is still to come.
SweepLeft ==
    /\ phase \in {"asleep", "lock", "count"} => count = 0
    /\ phase \in {"choose", "apply"} /\ MaxSweep > 0 => count < MaxSweep

RunInv == TypeOK /\ CountInv /\ MoveIsDownhill /\ SweepLeft

-----------------------------------------------------------------------------

LEMMA SessionsAreFinite ==
  IsFiniteSet(Sessions) /\ Cardinality(Sessions) \in Nat
  BY RebalanceAssumption, FS_CardinalityType

LEMMA CountsAreNaturals ==
  ASSUME NEW S \in SUBSET Sessions
  PROVE  IsFiniteSet(S) /\ Cardinality(S) \in 0 .. Cardinality(Sessions)
<1>1. /\ IsFiniteSet(S)
      /\ Cardinality(S) <= Cardinality(Sessions)
  BY SessionsAreFinite, FS_Subset
<1>2. Cardinality(S) \in Nat /\ Cardinality(Sessions) \in Nat
  BY <1>1, SessionsAreFinite, FS_CardinalityType
<1> QED
  BY <1>1, <1>2

LEMMA EmptyHasNone == Cardinality({}) = 0
  BY FS_EmptySet

\* Every move that rebalanceOne may choose is downhill, or to nil.
LEMMA MovesAreDownhill ==
  ASSUME NEW rank, NEW src \in DOMAIN totals, NEW m \in Moves(rank, src)
  PROVE  m \in Triples /\ (m[3] # NoEndpoint => totals[m[3]] < totals[m[2]])
<1>1. \A p : Oldest(src, p) \subseteq Sessions
  BY DEF Oldest, SessionsOn
<1>2. ASSUME NEW E, m[3] \in LastBehind(rank, src, E), NEW p,
             m \in Oldest(src, p) \X {src} \X LastBehind(rank, src, E),
             \A e \in E : e \in DOMAIN totals /\ (e # NoEndpoint => e \in Fewer(src))
      PROVE  m \in Triples /\ (m[3] # NoEndpoint => totals[m[3]] < totals[m[2]])
  <2>1. m[3] \in DOMAIN totals /\ (m[3] # NoEndpoint => totals[m[3]] < totals[src])
    BY <1>2 DEF LastBehind, Fewer
  <2>2. m[2] = src /\ m[1] \in Sessions /\ m = <<m[1], m[2], m[3]>>
    BY <1>1, <1>2
  <2> QED
    BY <2>1, <2>2 DEF Triples
<1>3. CASE m \in MainMoves(rank, src)
  <2>1. /\ m[3] \in LastBehind(rank, src, Fewer(src))
        /\ m \in Oldest(src, AnyType) \X {src} \X LastBehind(rank, src, Fewer(src))
    BY <1>3 DEF MainMoves
  <2>2. Fewer(src) \subseteq DOMAIN totals
    BY DEF Fewer
  <2> QED
    BY <1>2, <2>1, <2>2
<1>4. ASSUME NEW s \in SessionsOn(src), m \in TypedMoves(rank, src, Prefix[s])
      PROVE  m \in Triples /\ (m[3] # NoEndpoint => totals[m[3]] < totals[m[2]])
  <2> DEFINE E == {e \in Fewer(src) \ {NoEndpoint} : TypeOf[e] = Prefix[s]}
                     \cup {e \in DOMAIN totals : e = NoEndpoint /\ rank[src] < rank[e]}
  <2>1. \A e \in E : e \in DOMAIN totals /\ (e # NoEndpoint => e \in Fewer(src))
    BY DEF Fewer
  <2>2. m \in Oldest(src, Prefix[s]) \X {src} \X LastBehind(rank, src, E)
    BY <1>4 DEF TypedMoves
  <2> HIDE DEF E
  <2>3. m[3] \in LastBehind(rank, src, E)
    BY <2>2
  <2> QED
    BY <1>2, <2>1, <2>2, <2>3
<1> QED
  BY <1>3, <1>4 DEF Moves

LEMMA RunInit == Init => RunInv
<1> SUFFICES ASSUME Init PROVE RunInv
  OBVIOUS
<1>1. 0 \in 0 .. Cardinality(Sessions) /\ Cardinality({}) <= 1
  BY SessionsAreFinite, EmptyHasNone
<1>2. TypeOK
  BY <1>1, RebalanceAssumption DEF Init, TypeOK, Keys
<1>3. CountInv /\ MoveIsDownhill /\ SweepLeft
  BY DEF Init, CountInv, MoveIsDownhill, SweepLeft
<1> QED
  BY <1>2, <1>3 DEF RunInv

-----------------------------------------------------------------------------
(* The steps *)

\* The pool and the calls do not touch the run.
LEMMA OutsideKeepsRun ==
  ASSUME RunInv,
         \/ \E R \in SUBSET Endpoints : ReadyChanges(R)
         \/ \E s \in Sessions : OpenCall(s)
         \/ \E s \in Sessions, e \in Keys : Call(s, e)
         \/ UNCHANGED vars
  PROVE  RunInv'
<1>1. UNCHANGED runVars
  BY DEF ReadyChanges, OpenCall, Call, vars
<1>2. UNCHANGED <<phase, clients, unseen, checked, totals, total, move, count>>
  BY <1>1 DEF runVars, countVars
<1>3. (CountInv /\ MoveIsDownhill /\ SweepLeft)'
  BY <1>2 DEF RunInv, CountInv, MoveIsDownhill, SweepLeft, Triples
<1>4. /\ last' \in [Sessions -> Keys]
      /\ ready' \subseteq Endpoints
      /\ open' \subseteq Sessions
  BY DEF RunInv, TypeOK, ReadyChanges, OpenCall, Call, vars
<1>5. TypeOK'
  BY <1>2, <1>4 DEF RunInv, TypeOK
<1> QED
  BY <1>3, <1>5 DEF RunInv

LEMMA FinishKeeps ==
  ASSUME RunInv, Finish, last' \in [Sessions -> Keys], UNCHANGED <<ready, open>>
  PROVE  RunInv'
<1>1. 0 \in 0 .. Cardinality(Sessions) /\ Cardinality({}) <= 1
  BY SessionsAreFinite, EmptyHasNone
<1>2. TypeOK'
  BY <1>1, RebalanceAssumption DEF RunInv, TypeOK, Finish
<1>3. (CountInv /\ MoveIsDownhill /\ SweepLeft)'
  BY DEF Finish, CountInv, MoveIsDownhill, SweepLeft
<1> QED
  BY <1>2, <1>3 DEF RunInv

LEMMA WakeKeeps ==
  ASSUME RunInv, Wake
  PROVE  RunInv'
<1>1. 0 \in 0 .. Cardinality(Sessions)
  BY SessionsAreFinite
<1>2. totals' = [e \in ready |-> 0] /\ clients' = ready /\ ready \subseteq Keys
  BY DEF Wake, RunInv, TypeOK, Keys
<1>3. totals' \in [DOMAIN totals' -> 0 .. Cardinality(Sessions)] /\ DOMAIN totals' = ready
  BY <1>1, <1>2
<1>4. move' = NoMove /\ count' = 0 /\ unseen' = {} /\ checked' = {} /\ total' = 0
  BY DEF Wake, RunInv, CountInv, MoveIsDownhill, SweepLeft, countVars
<1>5. TypeOK'
  BY <1>1, <1>2, <1>3, <1>4, EmptyHasNone, RebalanceAssumption DEF Wake, RunInv, TypeOK
<1>6. (CountInv /\ MoveIsDownhill /\ SweepLeft)'
  BY <1>2, <1>4 DEF Wake, CountInv, MoveIsDownhill, SweepLeft
<1> QED
  BY <1>5, <1>6 DEF RunInv

LEMMA MutexKeeps ==
  ASSUME RunInv, TakeMutex
  PROVE  RunInv'
<1>1. /\ total = 0 /\ checked = {} /\ move = NoMove /\ count = 0
      /\ \A e \in DOMAIN totals : totals[e] = 0
  BY DEF TakeMutex, RunInv, CountInv, MoveIsDownhill, SweepLeft
<1>2. TypeOK'
  BY DEF TakeMutex, RunInv, TypeOK
<1>3. CountInv'
  <2>1. Cardinality({}) = 0 /\ Cardinality(Sessions) \in Nat
    BY SessionsAreFinite, EmptyHasNone
  <2>2. 0 + Cardinality({}) + Cardinality(Sessions) <= Cardinality(Sessions)
    BY <2>1
  <2> QED
    BY <1>1, <2>2 DEF TakeMutex, CountInv
<1>4. (MoveIsDownhill /\ SweepLeft)'
  BY <1>1 DEF TakeMutex, MoveIsDownhill, SweepLeft
<1> QED
  BY <1>2, <1>3, <1>4 DEF RunInv

LEMMA CheckSessionKeeps ==
  ASSUME RunInv, NEW s \in Sessions, CheckSession(s)
  PROVE  RunInv'
<1>1. checked = {} /\ (checked' = {} \/ checked' = {s})
  BY DEF CheckSession
<1>2. Cardinality(checked) = 0 /\ Cardinality(checked') \in {0, 1}
  BY <1>1, EmptyHasNone, FS_Singleton
<1>3. /\ Cardinality(unseen') = Cardinality(unseen) - 1
      /\ Cardinality(unseen) \in Nat
  <2>1. IsFiniteSet(unseen)
    BY CountsAreNaturals DEF RunInv, TypeOK
  <2> QED
    BY <2>1, FS_RemoveElement, FS_CardinalityType DEF CheckSession
<1>4. TypeOK'
  <2>1. checked' \subseteq Sessions /\ unseen' \subseteq Sessions
    BY <1>1 DEF CheckSession, RunInv, TypeOK
  <2>2. Cardinality(checked') <= 1
    BY <1>2
  <2> QED
    BY <2>1, <2>2 DEF CheckSession, RunInv, TypeOK
<1>5. CountInv'
  <2>1. total + Cardinality(checked') + Cardinality(unseen') <= Cardinality(Sessions)
    <3>1. total + Cardinality(checked) + Cardinality(unseen) <= Cardinality(Sessions)
      BY DEF CheckSession, RunInv, CountInv
    <3>2. total \in Nat /\ Cardinality(Sessions) \in Nat
      BY SessionsAreFinite DEF RunInv, TypeOK
    <3> QED
      BY <1>2, <1>3, <3>1, <3>2
  <2> QED
    BY <2>1 DEF CheckSession, RunInv, CountInv
<1>6. (MoveIsDownhill /\ SweepLeft)'
  BY DEF CheckSession, RunInv, MoveIsDownhill, SweepLeft
<1> QED
  BY <1>4, <1>5, <1>6 DEF RunInv

LEMMA CountSessionKeeps ==
  ASSUME RunInv, NEW s \in Sessions, CountSession(s)
  PROVE  RunInv'
<1> DEFINE N == Cardinality(Sessions)
<1>1. Cardinality(checked) = 1
  <2>1. IsFiniteSet(checked) /\ checked # {} /\ Cardinality(checked) <= 1
    BY CountsAreNaturals DEF CountSession, RunInv, TypeOK
  <2>2. Cardinality(checked) \in Nat /\ Cardinality(checked) # 0
    BY <2>1, FS_CardinalityType, FS_EmptySet
  <2> QED
    BY <2>1, <2>2
<1>2. /\ total' = total + 1 /\ checked' = {} /\ unseen' = unseen
      /\ phase = "count" /\ phase' = "count" /\ clients' = clients
      /\ UNCHANGED <<last, ready, open, move, count>>
  BY DEF CountSession
<1>3. /\ total \in Nat /\ N \in Nat /\ Cardinality(unseen) \in Nat
      /\ total + 1 + Cardinality(unseen) <= N
  BY <1>1, SessionsAreFinite, CountsAreNaturals
     DEF CountSession, RunInv, CountInv, TypeOK
<1>4. last[s] \in Keys
  BY DEF RunInv, TypeOK
<1>5. /\ DOMAIN totals' = DOMAIN totals \cup {last[s]}
      /\ \A e \in DOMAIN totals' : totals'[e] \in Nat /\ totals'[e] <= total + 1
  <2>1. totals' = [e \in DOMAIN totals \cup {last[s]} |->
                     (IF e \in DOMAIN totals THEN totals[e] ELSE 0)
                        + (IF e = last[s] THEN 1 ELSE 0)]
    BY DEF CountSession
  <2>2. \A e \in DOMAIN totals : totals[e] \in Nat /\ totals[e] <= total
    BY <1>2, SessionsAreFinite DEF RunInv, TypeOK, CountInv
  <2> QED
    BY <1>3, <2>1, <2>2
<1>6. /\ totals' \in [DOMAIN totals' -> 0 .. N] /\ total' \in 0 .. N
      /\ \A e \in DOMAIN totals' : totals'[e] <= total'
  <2>1. \A e \in DOMAIN totals' : totals'[e] \in 0 .. N
    BY <1>3, <1>5
  <2>2. totals' = [e \in DOMAIN totals' |-> totals'[e]]
    BY DEF CountSession
  <2> HIDE DEF N
  <2> QED
    BY <1>2, <1>3, <1>5, <2>1, <2>2
<1>7. move' = NoMove /\ count' = 0
  BY <1>2 DEF RunInv, MoveIsDownhill, SweepLeft
<1>8. TypeOK'
  <2>1. clients' \subseteq DOMAIN totals' /\ DOMAIN totals' \subseteq Keys
    BY <1>2, <1>4, <1>5 DEF RunInv, TypeOK
  <2>2. Cardinality(checked') <= 1
    BY <1>2, EmptyHasNone
  <2> QED
    BY <1>2, <1>6, <1>7, <2>1, <2>2 DEF RunInv, TypeOK
<1>9. CountInv'
  <2>1. total' + Cardinality(checked') + Cardinality(unseen') <= N
    BY <1>2, <1>3, EmptyHasNone
  <2> QED
    BY <1>2, <1>6, <2>1 DEF CountInv
<1>10. (MoveIsDownhill /\ SweepLeft)'
  BY <1>2, <1>7 DEF MoveIsDownhill, SweepLeft
<1> QED
  BY <1>8, <1>9, <1>10 DEF RunInv

LEMMA CountDoneKeeps ==
  ASSUME RunInv, CountDone
  PROVE  RunInv'
<1>1. last' \in [Sessions -> Keys] /\ UNCHANGED <<ready, open>>
  BY DEF CountDone, RunInv, TypeOK
<1>2. CASE Finish
  BY <1>1, <1>2, FinishKeeps
<1>3. CASE ~Finish
  <2>1. /\ phase = "count" /\ phase' = "choose" /\ unseen = {} /\ checked = {}
        /\ UNCHANGED <<clients, countVars, totals, total, move, count, last>>
    BY <1>3 DEF CountDone
  <2>2. move' = NoMove /\ count' = 0
    BY <2>1 DEF RunInv, MoveIsDownhill, SweepLeft
  <2>3. TypeOK'
    BY <1>1, <2>1, <2>2 DEF RunInv, TypeOK, countVars
  <2>4. (CountInv /\ MoveIsDownhill /\ SweepLeft)'
    BY <2>1, <2>2 DEF CountInv, MoveIsDownhill, SweepLeft, countVars
  <2> QED
    BY <2>3, <2>4 DEF RunInv
<1> QED
  BY <1>2, <1>3

LEMMA ChooseKeeps ==
  ASSUME RunInv, Choose
  PROVE  RunInv'
<1>1. PICK rank \in Orders, src \in DOMAIN totals : move' \in Moves(rank, src)
  BY DEF Choose, Sources
<1>2. move' \in Triples /\ (move'[3] # NoEndpoint => totals[move'[3]] < totals[move'[2]])
  BY <1>1, MovesAreDownhill
<1>3. /\ phase = "choose" /\ phase' = "apply"
      /\ UNCHANGED <<last, ready, open, clients, unseen, checked, totals, total, count>>
  BY DEF Choose, countVars
<1>4. TypeOK'
  BY <1>2, <1>3 DEF RunInv, TypeOK, Triples
<1>5. (CountInv /\ MoveIsDownhill)'
  BY <1>2, <1>3 DEF RunInv, CountInv, MoveIsDownhill, Triples
<1>6. SweepLeft'
  BY <1>3 DEF RunInv, SweepLeft
<1> QED
  BY <1>4, <1>5, <1>6 DEF RunInv

\* What a move does to the totals.
LEMMA TotalsAfter ==
  ASSUME RunInv, Apply
  PROVE  \E src, to \in DOMAIN totals :
            /\ totals[to] < totals[src]
            /\ totals' = [e \in DOMAIN totals |->
                             IF e = to THEN totals[to] + 1
                             ELSE IF e = src THEN totals[src] - 1
                             ELSE totals[e]]
<1>1. move[2] \in DOMAIN totals /\ move[3] \in DOMAIN totals
  BY DEF RunInv, MoveIsDownhill, Apply, Triples
<1>2. totals[move[3]] < totals[move[2]]
  BY DEF RunInv, MoveIsDownhill, Apply
<1>3. totals \in [DOMAIN totals -> 0 .. Cardinality(Sessions)]
  BY DEF RunInv, TypeOK
<1>4. Cardinality(Sessions) \in Nat
  BY SessionsAreFinite
<1>5. move[2] # move[3]
  BY <1>1, <1>2, <1>3, <1>4
<1>6. totals' = [totals EXCEPT ![move[2]] = totals[move[2]] - 1,
                               ![move[3]] = totals[move[3]] + 1]
  BY <1>1, <1>3, <1>5 DEF Apply
<1> QED
  BY <1>1, <1>2, <1>3, <1>5, <1>6

LEMMA ApplyKeeps ==
  ASSUME RunInv, Apply
  PROVE  RunInv'
<1>1. Cardinality(Sessions) \in Nat
  BY SessionsAreFinite
<1>2. totals \in [DOMAIN totals -> 0 .. Cardinality(Sessions)]
  BY DEF RunInv, TypeOK
<1>3. PICK src, to \in DOMAIN totals :
         /\ totals[to] < totals[src]
         /\ totals' = [e \in DOMAIN totals |->
                          IF e = to THEN totals[to] + 1
                          ELSE IF e = src THEN totals[src] - 1
                          ELSE totals[e]]
  BY TotalsAfter
<1>4. /\ totals[src] \in 0 .. Cardinality(Sessions)
      /\ totals[to] \in 0 .. Cardinality(Sessions)
  BY <1>2
<1>5. /\ totals[to] + 1 \in 0 .. Cardinality(Sessions)
      /\ totals[src] - 1 \in 0 .. Cardinality(Sessions)
  BY <1>1, <1>3, <1>4
<1>6. DOMAIN totals' = DOMAIN totals
  BY <1>3
<1>7. totals' \in [DOMAIN totals' -> 0 .. Cardinality(Sessions)]
  BY <1>2, <1>3, <1>5
<1>8. move \in Triples
  BY DEF RunInv, MoveIsDownhill, Apply
<1>9. last' \in [Sessions -> Keys]
  BY <1>8 DEF RunInv, TypeOK, Apply, Triples
<1>10. count' \in Nat /\ (MaxSweep > 0 => count' <= MaxSweep)
  BY RebalanceAssumption DEF RunInv, TypeOK, SweepLeft, Apply
<1>11. TypeOK'
  BY <1>6, <1>7, <1>9, <1>10 DEF RunInv, TypeOK, Apply, countVars
<1>12. (CountInv /\ MoveIsDownhill /\ SweepLeft)'
  BY DEF Apply, RunInv, CountInv, MoveIsDownhill, SweepLeft, countVars
<1> QED
  BY <1>11, <1>12 DEF RunInv

LEMMA PanicKeeps ==
  ASSUME RunInv, ApplyPanics
  PROVE  RunInv'
<1>1. move \in Triples /\ DOMAIN totals \subseteq Keys
  BY DEF RunInv, TypeOK, MoveIsDownhill, ApplyPanics
<1>2. last' \in [Sessions -> Keys]
  BY <1>1 DEF RunInv, TypeOK, ApplyPanics, Triples
<1> QED
  BY <1>2, FinishKeeps DEF ApplyPanics

LEMMA CheckKeeps ==
  ASSUME RunInv, Check
  PROVE  RunInv'
<1>1. CASE Finish
  BY <1>1, FinishKeeps DEF Check, RunInv, TypeOK
<1>2. CASE ~Finish
  <2>1. /\ phase = "check" /\ phase' = "choose"
        /\ MaxSweep = 0 \/ count < MaxSweep
        /\ UNCHANGED <<clients, unseen, checked, totals, total, move, count, last,
                       ready, open>>
    BY <1>2 DEF Check, countVars
  <2>2. TypeOK'
    BY <2>1 DEF RunInv, TypeOK
  <2>3. (CountInv /\ MoveIsDownhill /\ SweepLeft)'
    BY <2>1 DEF RunInv, CountInv, MoveIsDownhill, SweepLeft
  <2> QED
    BY <2>2, <2>3 DEF RunInv
<1> QED
  BY <1>1, <1>2

LEMMA StepKeeps == RunInv /\ [Next]_vars => RunInv'
<1> SUFFICES ASSUME RunInv, [Next]_vars PROVE RunInv'
  OBVIOUS
<1>1. CASE NothingToMove
  BY <1>1, FinishKeeps DEF NothingToMove, RunInv, TypeOK
<1> QED
  BY <1>1, OutsideKeepsRun, WakeKeeps, MutexKeeps, CheckSessionKeeps,
     CountSessionKeeps, CountDoneKeeps, ChooseKeeps, ApplyKeeps, PanicKeeps,
     CheckKeeps DEF Next, Run

LEMMA RunInvariant == Spec => []RunInv
  BY RunInit, StepKeeps, PTL DEF Spec

-----------------------------------------------------------------------------

\* There is a total for each ready client, and what other keys a race of the
\* count with a call may add are endpoints or nil; no total is negative or above
\* the number of sessions, and the sweep limit is kept, whatever calls change
\* while a run is under way.
THEOREM RebalanceTypes == Spec => []TypeOK
  BY RunInvariant, PTL DEF RunInv

\* No run makes the spread of its totals larger, for any sessions, endpoints,
\* thresholds and concurrent calls.
THEOREM SpreadNeverGrows == Spec => SpreadShrinks
<1> DEFINE Within == \A e \in DOMAIN totals :
              /\ \E d \in DOMAIN totals : totals'[e] <= totals[d]
              /\ \E d \in DOMAIN totals : totals'[e] >= totals[d]
<1>1. ASSUME RunInv, [Next]_vars, phase = "apply", phase' = "check" PROVE Within
  <2>1. \A e \in DOMAIN totals : totals[e] \in Int
    <3>1. Cardinality(Sessions) \in Nat
      BY SessionsAreFinite
    <3>2. totals \in [DOMAIN totals -> 0 .. Cardinality(Sessions)]
      BY <1>1 DEF RunInv, TypeOK
    <3> QED
      BY <3>1, <3>2
  <2>2. Apply
    BY <1>1 DEF Next, Run, ReadyChanges, OpenCall, Call, Wake, TakeMutex,
       CheckSession, CountSession, CountDone, Choose, NothingToMove, ApplyPanics,
       Finish, Check, runVars, vars
  <2>3. PICK src, to \in DOMAIN totals :
           /\ totals[to] < totals[src]
           /\ totals' = [e \in DOMAIN totals |->
                            IF e = to THEN totals[to] + 1
                            ELSE IF e = src THEN totals[src] - 1
                            ELSE totals[e]]
    BY <1>1, <2>2, TotalsAfter
  <2> SUFFICES ASSUME NEW e \in DOMAIN totals
               PROVE  /\ \E d \in DOMAIN totals : totals'[e] <= totals[d]
                      /\ \E d \in DOMAIN totals : totals'[e] >= totals[d]
    OBVIOUS
  <2>4. CASE e = to
    <3>1. totals'[e] = totals[to] + 1
      BY <2>3, <2>4
    <3> QED
      BY <2>1, <2>3, <3>1
  <2>5. CASE e # to /\ e = src
    <3>1. totals'[e] = totals[src] - 1
      BY <2>3, <2>5
    <3> QED
      BY <2>1, <2>3, <3>1
  <2>6. CASE e # to /\ e # src
    <3>1. totals'[e] = totals[e]
      BY <2>3, <2>6
    <3> QED
      BY <2>1, <3>1
  <2> QED
    BY <2>4, <2>5, <2>6
<1>2. RunInv /\ [Next]_vars => [phase = "apply" /\ phase' = "check" => Within]_vars
  BY <1>1
<1> QED
  BY RunInvariant, <1>2, PTL DEF Spec, SpreadShrinks

-----------------------------------------------------------------------------
(* The sum of the totals, as the size of a set *)

\* One token for each session that the totals t count, so that the sum of the
\* totals is the number of tokens.
Tokens(t) == UNION {{e} \X (1 .. t[e]) : e \in DOMAIN t}

\* The totals sum up to total, whichever endpoints a race has had counted and
\* whatever has moved: as there are no fewer of them than ready clients, their
\* average is at most the ideal total.  That is why the least loaded endpoint is
\* below it, which the target of a main session's move has to be.
SumInv ==
    /\ Locked => Cardinality(Tokens(totals)) = total
    /\ phase = "apply" /\ Prefix[move[1]] = AnyType
          => totals[move[3]] * Cardinality(clients) < total

LEMMA TokenParts ==
  ASSUME NEW t, NEW p \in Tokens(t)
  PROVE  p = <<p[1], p[2]>> /\ p[1] \in DOMAIN t /\ p[2] \in 1 .. t[p[1]]
  BY DEF Tokens

LEMMA IsToken ==
  ASSUME NEW t, NEW e \in DOMAIN t, NEW k \in 1 .. t[e]
  PROVE  <<e, k>> \in Tokens(t)
  BY DEF Tokens

LEMMA KeysAreFinite ==
  ASSUME TypeOK
  PROVE  /\ IsFiniteSet(DOMAIN totals) /\ IsFiniteSet(clients)
         /\ Cardinality(DOMAIN totals) \in Nat
         /\ Cardinality(clients) \in Nat
         /\ Cardinality(clients) <= Cardinality(DOMAIN totals)
         /\ Cardinality(Sessions) \in Nat
         /\ \A e \in DOMAIN totals :
               totals[e] \in Nat /\ totals[e] \in 0 .. Cardinality(Sessions)
<1>1. IsFiniteSet(Keys)
  BY RebalanceAssumption, FS_AddElement DEF Keys
<1>2. DOMAIN totals \subseteq Keys /\ clients \subseteq DOMAIN totals
  BY DEF TypeOK
<1>3. IsFiniteSet(DOMAIN totals)
  BY <1>1, <1>2, FS_Subset
<1>4. IsFiniteSet(clients) /\ Cardinality(clients) <= Cardinality(DOMAIN totals)
  BY <1>2, <1>3, FS_Subset
<1>5. Cardinality(Sessions) \in Nat
  BY SessionsAreFinite
<1>6. \A e \in DOMAIN totals : totals[e] \in 0 .. Cardinality(Sessions)
  BY DEF TypeOK
<1> QED
  BY <1>3, <1>4, <1>5, <1>6, FS_CardinalityType

\* The first n tokens of each key.
LEMMA Block ==
  ASSUME TypeOK, NEW n \in 0 .. Cardinality(Sessions)
  PROVE  /\ IsFiniteSet((DOMAIN totals) \X (1 .. n))
         /\ Cardinality((DOMAIN totals) \X (1 .. n)) = n * Cardinality(DOMAIN totals)
<1>1. Cardinality(Sessions) \in Nat /\ n \in Nat
  BY KeysAreFinite
<1>2. IsFiniteSet(1 .. n) /\ Cardinality(1 .. n) = n
  BY <1>1, FS_Interval
<1>3. IsFiniteSet(DOMAIN totals) /\ Cardinality(DOMAIN totals) \in Nat
  BY KeysAreFinite
<1>4. /\ IsFiniteSet((DOMAIN totals) \X (1 .. n))
      /\ Cardinality((DOMAIN totals) \X (1 .. n)) = Cardinality(DOMAIN totals) * n
  BY <1>2, <1>3, FS_Product
<1> QED
  BY <1>1, <1>3, <1>4

LEMMA TokensInBlock ==
  ASSUME TypeOK, NEW n \in 0 .. Cardinality(Sessions),
         \A e \in DOMAIN totals : totals[e] <= n
  PROVE  Tokens(totals) \subseteq (DOMAIN totals) \X (1 .. n)
<1> SUFFICES ASSUME NEW p \in Tokens(totals) PROVE p \in (DOMAIN totals) \X (1 .. n)
  OBVIOUS
<1>1. p = <<p[1], p[2]>> /\ p[1] \in DOMAIN totals /\ p[2] \in 1 .. totals[p[1]]
  BY TokenParts
<1>2. n \in Nat /\ totals[p[1]] \in Nat /\ totals[p[1]] <= n
  BY <1>1, KeysAreFinite
<1>3. p[2] \in 1 .. n
  BY <1>1, <1>2
<1> QED
  BY <1>1, <1>3

LEMMA BlockInTokens ==
  ASSUME TypeOK, NEW n \in 0 .. Cardinality(Sessions),
         \A e \in DOMAIN totals : n <= totals[e]
  PROVE  (DOMAIN totals) \X (1 .. n) \subseteq Tokens(totals)
<1> SUFFICES ASSUME NEW e \in DOMAIN totals, NEW k \in 1 .. n
             PROVE  <<e, k>> \in Tokens(totals)
  OBVIOUS
<1>1. n \in Nat /\ totals[e] \in Nat /\ n <= totals[e]
  BY KeysAreFinite
<1>2. k \in 1 .. totals[e]
  BY <1>1
<1> QED
  BY <1>2, IsToken

LEMMA TokensAreFinite ==
  ASSUME TypeOK
  PROVE  IsFiniteSet(Tokens(totals)) /\ Cardinality(Tokens(totals)) \in Nat
<1> DEFINE C == Cardinality(Sessions)
<1>1. C \in 0 .. C /\ \A e \in DOMAIN totals : totals[e] <= C
  BY KeysAreFinite
<1>2. Tokens(totals) \subseteq (DOMAIN totals) \X (1 .. C)
  BY <1>1, TokensInBlock
<1>3. IsFiniteSet((DOMAIN totals) \X (1 .. C))
  BY <1>1, Block
<1>4. IsFiniteSet(Tokens(totals))
  BY <1>2, <1>3, FS_Subset
<1> QED
  BY <1>4, FS_CardinalityType

\* What every total reaches, the average reaches, and exceeds when one of the
\* totals does.
LEMMA AverageAbove ==
  ASSUME TypeOK, NEW n \in 0 .. Cardinality(Sessions),
         \A e \in DOMAIN totals : n <= totals[e]
  PROVE  /\ n * Cardinality(DOMAIN totals) <= Cardinality(Tokens(totals))
         /\ (\E e \in DOMAIN totals : n < totals[e])
               => n * Cardinality(DOMAIN totals) < Cardinality(Tokens(totals))
<1> DEFINE B == (DOMAIN totals) \X (1 .. n)
<1>1. B \subseteq Tokens(totals) /\ IsFiniteSet(Tokens(totals))
  BY BlockInTokens, TokensAreFinite
<1>2. Cardinality(B) = n * Cardinality(DOMAIN totals)
  BY Block
<1>3. /\ Cardinality(B) <= Cardinality(Tokens(totals))
      /\ Cardinality(Tokens(totals)) = Cardinality(B) => Tokens(totals) = B
  BY <1>1, FS_Subset
<1>4. ASSUME NEW e \in DOMAIN totals, n < totals[e] PROVE Tokens(totals) # B
  <2>1. n \in Nat /\ totals[e] \in Nat
    BY KeysAreFinite
  <2>2. totals[e] \in 1 .. totals[e] /\ totals[e] \notin 1 .. n
    BY <1>4, <2>1
  <2>3. <<e, totals[e]>> \in Tokens(totals)
    BY <2>2, IsToken
  <2> QED
    BY <2>2, <2>3
<1>5. Cardinality(B) \in Nat /\ Cardinality(Tokens(totals)) \in Nat
  BY Block, TokensAreFinite, FS_CardinalityType
<1> HIDE DEF B
<1> QED
  BY <1>2, <1>3, <1>4, <1>5

\* What no total exceeds, the average does not exceed, and reaches only when
\* all totals do.
LEMMA AverageBelow ==
  ASSUME TypeOK, NEW n \in 0 .. Cardinality(Sessions),
         \A e \in DOMAIN totals : totals[e] <= n
  PROVE  /\ Cardinality(Tokens(totals)) <= n * Cardinality(DOMAIN totals)
         /\ Cardinality(Tokens(totals)) = n * Cardinality(DOMAIN totals)
               => \A e \in DOMAIN totals : totals[e] = n
<1> DEFINE B == (DOMAIN totals) \X (1 .. n)
<1>1. Tokens(totals) \subseteq B /\ IsFiniteSet(B)
  BY TokensInBlock, Block
<1>2. Cardinality(B) = n * Cardinality(DOMAIN totals)
  BY Block
<1>3. /\ Cardinality(Tokens(totals)) <= Cardinality(B)
      /\ Cardinality(B) = Cardinality(Tokens(totals)) => B = Tokens(totals)
  BY <1>1, FS_Subset
<1>4. ASSUME B = Tokens(totals), NEW e \in DOMAIN totals PROVE totals[e] = n
  <2>1. n \in Nat /\ totals[e] \in Nat /\ totals[e] <= n
    BY KeysAreFinite
  <2>2. CASE n = 0
    BY <2>1, <2>2
  <2>3. CASE n # 0
    <3>1. n \in 1 .. n
      BY <2>1, <2>3
    <3>2. <<e, n>> \in Tokens(totals)
      BY <1>4, <3>1
    <3>3. <<e, n>>[1] = e /\ <<e, n>>[2] = n
      OBVIOUS
    <3>4. n \in 1 .. totals[e]
      BY <3>2, <3>3, TokenParts
    <3> QED
      BY <2>1, <3>4
  <2> QED
    BY <2>2, <2>3
<1> HIDE DEF B
<1> QED
  BY <1>2, <1>3, <1>4

\* A session that is counted adds the next token of the endpoint it has by then.
LEMMA CountAddsToken ==
  ASSUME TypeOK, NEW s \in Sessions, CountSession(s)
  PROVE  Cardinality(Tokens(totals')) = Cardinality(Tokens(totals)) + 1
<1> DEFINE T == Tokens(totals)
           key == last[s]
           n == IF key \in DOMAIN totals THEN totals[key] ELSE 0
           new == <<key, n + 1>>
<1>1. totals' = [e \in DOMAIN totals \cup {key} |->
                    (IF e \in DOMAIN totals THEN totals[e] ELSE 0)
                       + (IF e = key THEN 1 ELSE 0)]
  BY DEF CountSession
<1>2. \A e \in DOMAIN totals : totals[e] \in Nat
  BY KeysAreFinite
<1>3. n \in Nat
  BY <1>2
<1>4. /\ DOMAIN totals' = DOMAIN totals \cup {key}
      /\ totals'[key] = n + 1
      /\ \A e \in DOMAIN totals : e # key => totals'[e] = totals[e]
  BY <1>1, <1>2, <1>3
<1>5. /\ key \in DOMAIN totals => n = totals[key]
      /\ key \notin DOMAIN totals => n = 0
  OBVIOUS
<1> HIDE DEF n, key
<1>6. new \notin T
  <2>1. new[1] = key /\ new[2] = n + 1
    OBVIOUS
  <2>2. n + 1 \notin 1 .. n
    BY <1>3
  <2> QED
    BY <1>5, <2>1, <2>2, TokenParts
<1>7. Tokens(totals') = T \cup {new}
  <2>1. ASSUME NEW e \in DOMAIN totals', NEW k
        PROVE  <<e, k>> \in Tokens(totals') <=> <<e, k>> \in T \cup {new}
    <3>1. <<e, k>> \in Tokens(totals') <=> k \in 1 .. totals'[e]
      BY IsToken DEF Tokens
    <3>2. <<e, k>> \in T <=> e \in DOMAIN totals /\ k \in 1 .. totals[e]
      BY IsToken DEF Tokens
    <3>3. <<e, k>> = new <=> e = key /\ k = n + 1
      OBVIOUS
    <3> HIDE DEF new, T
    <3>4. CASE e = key
      <4>1. 1 .. totals'[e] = (1 .. n) \cup {n + 1}
        BY <1>3, <1>4, <3>4
      <4>2. <<e, k>> \in T <=> k \in 1 .. n
        <5>1. 1 .. 0 = {}
          OBVIOUS
        <5> QED
          BY <1>5, <3>2, <3>4, <5>1
      <4> QED
        BY <3>1, <3>3, <3>4, <4>1, <4>2
    <3>5. CASE e # key
      <4>1. e \in DOMAIN totals /\ totals'[e] = totals[e]
        BY <1>4, <3>5
      <4> QED
        BY <3>1, <3>2, <3>3, <3>5, <4>1
    <3> QED
      BY <3>4, <3>5
  <2>2. \A p \in Tokens(totals') : p = <<p[1], p[2]>> /\ p[1] \in DOMAIN totals'
    BY TokenParts
  <2>3. \A p \in T \cup {new} : p = <<p[1], p[2]>> /\ p[1] \in DOMAIN totals'
    BY <1>4, TokenParts
  <2> HIDE DEF new, T
  <2> QED
    BY <2>1, <2>2, <2>3
<1>8. IsFiniteSet(T)
  BY TokensAreFinite
<1> HIDE DEF new, T
<1>9. Cardinality(T \cup {new}) = Cardinality(T) + 1
  BY <1>6, <1>8, FS_AddElement
<1> QED
  BY <1>7, <1>9 DEF T

\* A move takes the last token of its source and gives its target one more.
LEMMA MoveKeepsSum ==
  ASSUME RunInv, Apply
  PROVE  Cardinality(Tokens(totals')) = Cardinality(Tokens(totals))
<1>1. PICK src, to \in DOMAIN totals :
         /\ totals[to] < totals[src]
         /\ totals' = [e \in DOMAIN totals |->
                          IF e = to THEN totals[to] + 1
                          ELSE IF e = src THEN totals[src] - 1
                          ELSE totals[e]]
  BY TotalsAfter
<1> DEFINE T == Tokens(totals)
           old == <<src, totals[src]>>
           new == <<to, totals[to] + 1>>
<1>2. TypeOK /\ DOMAIN totals' = DOMAIN totals
  BY <1>1 DEF RunInv
<1>3. /\ \A e \in DOMAIN totals : totals[e] \in Nat
      /\ src # to
  BY <1>1, <1>2, KeysAreFinite
<1>4. old \in T
  <2>1. totals[src] \in 1 .. totals[src]
    BY <1>1, <1>3
  <2> QED
    BY <1>2, <2>1, IsToken
<1>5. new \notin T
  <2>1. new[1] = to /\ new[2] = totals[to] + 1
    OBVIOUS
  <2>2. totals[to] + 1 \notin 1 .. totals[to]
    BY <1>3
  <2> QED
    BY <2>1, <2>2, TokenParts
<1>6. Tokens(totals') = (T \ {old}) \cup {new}
  <2>1. ASSUME NEW e \in DOMAIN totals, NEW k
        PROVE  <<e, k>> \in Tokens(totals') <=> <<e, k>> \in (T \ {old}) \cup {new}
    <3>1. <<e, k>> \in Tokens(totals') <=> k \in 1 .. totals'[e]
      BY <1>2, IsToken DEF Tokens
    <3>2. <<e, k>> \in T <=> k \in 1 .. totals[e]
      BY <1>2, IsToken DEF Tokens
    <3>3. /\ <<e, k>> = old <=> e = src /\ k = totals[src]
          /\ <<e, k>> = new <=> e = to /\ k = totals[to] + 1
      OBVIOUS
    <3> HIDE DEF old, new, T
    <3>4. CASE e = to
      <4>1. 1 .. totals'[e] = (1 .. totals[to]) \cup {totals[to] + 1}
        BY <1>1, <1>3, <3>4
      <4> QED
        BY <1>3, <3>1, <3>2, <3>3, <3>4, <4>1
    <3>5. CASE e = src
      <4>1. 1 .. totals'[e] = (1 .. totals[src]) \ {totals[src]}
        BY <1>1, <1>3, <3>5
      <4> QED
        BY <1>3, <3>1, <3>2, <3>3, <3>5, <4>1
    <3>6. CASE e # to /\ e # src
      <4>1. totals'[e] = totals[e]
        BY <1>1, <3>6
      <4> QED
        BY <3>1, <3>2, <3>3, <3>6, <4>1
    <3> QED
      BY <3>4, <3>5, <3>6
  <2>2. \A p \in Tokens(totals') : p = <<p[1], p[2]>> /\ p[1] \in DOMAIN totals
    BY <1>2, TokenParts
  <2>3. \A p \in (T \ {old}) \cup {new} : p = <<p[1], p[2]>> /\ p[1] \in DOMAIN totals
    BY <1>2, TokenParts
  <2> HIDE DEF old, new, T
  <2> QED
    BY <2>1, <2>2, <2>3
<1>7. IsFiniteSet(T) /\ Cardinality(T) \in Nat
  BY <1>2, TokensAreFinite
<1> HIDE DEF old, new, T
<1>8. IsFiniteSet(T \ {old}) /\ Cardinality(T \ {old}) = Cardinality(T) - 1
  BY <1>4, <1>7, FS_RemoveElement
<1>9. new \notin T \ {old}
  BY <1>5
<1>10. Cardinality((T \ {old}) \cup {new}) = Cardinality(T \ {old}) + 1
  BY <1>8, <1>9, FS_AddElement
<1>11. Cardinality(Tokens(totals')) = Cardinality(T)
  BY <1>6, <1>7, <1>8, <1>10
<1> QED
  BY <1>11 DEF T

\* A main session's target has the fewest sessions of all, whatever the order of
\* equals, and fewer than the source.
LEMMA MainTargetLeast ==
  ASSUME TypeOK, NEW rank \in Orders, NEW src \in DOMAIN totals,
         NEW m \in MainMoves(rank, src)
  PROVE  /\ m[1] \in Sessions /\ m[2] = src /\ m[3] \in DOMAIN totals
         /\ totals[m[3]] < totals[src]
         /\ \A d \in DOMAIN totals : totals[m[3]] <= totals[d]
<1>1. m[3] \in LastBehind(rank, src, Fewer(src)) /\ m[2] = src
  BY DEF MainMoves
<1>2. m[1] \in Sessions
  <2>1. Oldest(src, AnyType) \subseteq Sessions
    BY DEF Oldest, SessionsOn
  <2> QED
    BY <2>1 DEF MainMoves
<1>3. PICK to \in DOMAIN totals :
         /\ to = m[3] /\ totals[to] < totals[src]
         /\ \A d \in Fewer(src) : rank[d] <= rank[to]
  BY <1>1 DEF LastBehind, Fewer
<1>4. \A d \in DOMAIN totals : totals[d] \in Nat
  BY KeysAreFinite
<1>5. ASSUME NEW d \in DOMAIN totals, totals[d] < totals[to] PROVE FALSE
  <2>1. totals[d] < totals[src]
    BY <1>3, <1>4, <1>5
  <2>2. rank[d] <= rank[to]
    BY <1>3, <2>1 DEF Fewer
  <2>3. rank[to] < rank[d]
    BY <1>5 DEF Orders
  <2>4. rank[to] \in Int /\ rank[d] \in Int
    BY KeysAreFinite DEF Orders
  <2> QED
    BY <2>2, <2>3, <2>4
<1>6. \A d \in DOMAIN totals : totals[to] <= totals[d]
  BY <1>4, <1>5
<1> QED
  BY <1>1, <1>2, <1>3, <1>6

\* That is below the average of the totals.
LEMMA MainTargetBelow ==
  ASSUME TypeOK, NEW rank \in Orders, NEW src \in DOMAIN totals,
         NEW m \in Moves(rank, src), Prefix[m[1]] = AnyType
  PROVE  totals[m[3]] * Cardinality(clients) < Cardinality(Tokens(totals))
<1> DEFINE R == Cardinality(clients)
           D == Cardinality(DOMAIN totals)
<1>1. m \in MainMoves(rank, src)
  <2>1. ASSUME NEW s \in SessionsOn(src), Prefix[s] # AnyType,
               m \in TypedMoves(rank, src, Prefix[s])
        PROVE  FALSE
    <3>1. m[1] \in Oldest(src, Prefix[s])
      BY <2>1 DEF TypedMoves
    <3> QED
      BY <2>1, <3>1 DEF Oldest
  <2> QED
    BY <2>1 DEF Moves
<1>2. PICK to \in DOMAIN totals :
         /\ to = m[3] /\ totals[to] < totals[src]
         /\ \A d \in DOMAIN totals : totals[to] <= totals[d]
  BY <1>1, MainTargetLeast
<1>3. totals[to] \in 0 .. Cardinality(Sessions)
  BY KeysAreFinite
<1>4. totals[to] * D < Cardinality(Tokens(totals))
  BY <1>2, <1>3, AverageAbove
<1>5. totals[to] \in Nat /\ R \in Nat /\ D \in Nat /\ R <= D
  BY KeysAreFinite
<1>6. totals[to] * R <= totals[to] * D
  <2>1. \A n, r, d \in Nat : r <= d => n * r <= n * d
    OBVIOUS
  <2> HIDE DEF R, D
  <2> QED
    BY <1>5, <2>1
<1>7. /\ totals[to] * R \in Nat /\ totals[to] * D \in Nat
      /\ Cardinality(Tokens(totals)) \in Nat
  <2> HIDE DEF R, D
  <2> QED
    BY <1>5, TokensAreFinite
<1> HIDE DEF D
<1>8. totals[to] * R < Cardinality(Tokens(totals))
  BY <1>4, <1>6, <1>7
<1> QED
  BY <1>2, <1>8

\* Nothing has been counted when a run takes the mutex.
LEMMA NothingCounted ==
  ASSUME RunInv, phase = "lock"
  PROVE  Cardinality(Tokens(totals)) = total
<1>1. total = 0 /\ \A e \in DOMAIN totals : totals[e] = 0
  BY DEF RunInv, CountInv
<1>2. Tokens(totals) = {}
  <2> SUFFICES ASSUME NEW p \in Tokens(totals) PROVE FALSE
    OBVIOUS
  <2>1. p[1] \in DOMAIN totals /\ p[2] \in 1 .. totals[p[1]]
    BY TokenParts
  <2>2. p[2] \in 1 .. 0
    BY <1>1, <2>1
  <2> QED
    BY <2>2
<1> QED
  BY <1>1, <1>2, EmptyHasNone

LEMMA StepKeepsSum ==
  ASSUME RunInv, SumInv, [Next]_vars
  PROVE  SumInv'
<1> USE DEF SumInv, Locked
<1>1. CASE UNCHANGED runVars
  BY <1>1 DEF runVars
<1>2. CASE Wake \/ Finish
  BY <1>2 DEF Wake, Finish
<1>3. CASE TakeMutex
  BY <1>3, NothingCounted DEF TakeMutex
<1>4. CASE \E s \in Sessions : CheckSession(s)
  BY <1>4 DEF CheckSession
<1>5. ASSUME NEW s \in Sessions, CountSession(s) PROVE SumInv'
  <2>1. Cardinality(Tokens(totals')) = Cardinality(Tokens(totals)) + 1
    BY <1>5, CountAddsToken DEF RunInv
  <2> QED
    BY <1>5, <2>1 DEF CountSession
<1>6. CASE (CountDone \/ Check) /\ ~Finish
  BY <1>6 DEF CountDone, Check
<1>7. CASE Choose
  <2>1. PICK rank \in Orders, src \in DOMAIN totals : move' \in Moves(rank, src)
    BY <1>7 DEF Choose, Sources
  <2>2. UNCHANGED <<clients, totals, total>> /\ phase = "choose"
    BY <1>7 DEF Choose
  <2>3. Cardinality(Tokens(totals)) = total
    BY <2>2
  <2>4. Prefix[move'[1]] = AnyType
           => totals[move'[3]] * Cardinality(clients) < total
    BY <2>1, <2>3, MainTargetBelow DEF RunInv
  <2> QED
    BY <2>2, <2>3, <2>4
<1>8. CASE Apply
  <2>1. Cardinality(Tokens(totals')) = Cardinality(Tokens(totals))
    BY <1>8, MoveKeepsSum
  <2> QED
    BY <1>8, <2>1 DEF Apply
<1> QED
  BY <1>1, <1>2, <1>3, <1>4, <1>5, <1>6, <1>7, <1>8
     DEF Next, Run, ReadyChanges, OpenCall, Call, NothingToMove, ApplyPanics, vars

\* A main session only moves to an endpoint below the ideal total, also when
\* calls have made the totals stale or have added to their keys: they are then
\* wrong one by one, but their sum is still the one the count has come to.
THEOREM MainMovesGoBelowIdeal == Spec => MainToUnderloaded
<1>1. Init => SumInv
  BY DEF Init, SumInv, Locked
<1>2. RunInv /\ SumInv /\ [Next]_vars => SumInv'
  BY StepKeepsSum
<1>3. SumInv => [phase = "apply" /\ Prefix[move[1]] = AnyType
                    => totals[move[3]] * Cardinality(clients) < total]_vars
  BY DEF SumInv
<1> QED
  BY <1>1, <1>2, <1>3, RunInvariant, PTL DEF Spec, MainToUnderloaded

-----------------------------------------------------------------------------
(* The rebalancer by itself *)

\* Without calls the session of a move is where the run has seen it.
MoveIsCurrent == phase = "apply" => last[move[1]] = move[2]

\* The sessions of ready clients that the count is done with.
Counted == {s \in Sessions : last[s] \in clients} \ (unseen \cup checked)

\* Without calls the totals are those of the sessions that have been counted,
\* and have no other keys than the ready clients.
CountTrue ==
    /\ phase \in {"lock", "count"} => DOMAIN totals = clients
    /\ phase = "count" =>
          /\ \A s \in checked : /\ s \notin unseen /\ last[s] \in clients
                                /\ checked = {s}
          /\ \A e \in clients : totals[e] = Cardinality(SessionsOn(e) \cap Counted)
          /\ total = Cardinality(Counted)

LEMMA CountedIsFinite ==
  /\ IsFiniteSet(Counted)
  /\ \A e : IsFiniteSet(SessionsOn(e) \cap Counted)
<1>1. Counted \subseteq Sessions
  BY DEF Counted
<1>2. \A e : SessionsOn(e) \cap Counted \subseteq Sessions
  BY <1>1
<1> QED
  BY <1>1, <1>2, SessionsAreFinite, FS_Subset

LEMMA MutexKeepsCountTrue ==
  ASSUME RunInv, CountTrue, TakeMutex
  PROVE  CountTrue'
<1>1. Counted' = {}
  BY DEF TakeMutex, Counted
<1>2. /\ total = 0 /\ checked = {}
      /\ \A e \in DOMAIN totals : totals[e] = 0
  BY DEF TakeMutex, RunInv, CountInv
<1>3. DOMAIN totals = clients /\ UNCHANGED <<clients, totals, total, checked, last>>
  BY DEF TakeMutex, CountTrue
<1>4. \A e \in clients' : totals'[e] = Cardinality(SessionsOn(e)' \cap Counted')
  BY <1>1, <1>2, <1>3, EmptyHasNone
<1>5. total' = Cardinality(Counted')
  BY <1>1, <1>2, <1>3, EmptyHasNone
<1> QED
  BY <1>2, <1>3, <1>4, <1>5 DEF CountTrue

\* A session that is looked at is still to be counted, or is on no ready client.
LEMMA CheckKeepsCountTrue ==
  ASSUME CountTrue, NEW s \in Sessions, CheckSession(s)
  PROVE  CountTrue'
<1>1. /\ checked = {} /\ unseen' = unseen \ {s} /\ s \in unseen
      /\ checked' = {r \in {s} : last[r] \in clients}
      /\ phase = "count" /\ phase' = "count"
      /\ UNCHANGED <<clients, totals, total, last>>
  BY DEF CheckSession
<1>2. Counted' = Counted
  BY <1>1 DEF Counted
<1>3. \A e : SessionsOn(e)' = SessionsOn(e)
  BY <1>1 DEF SessionsOn
<1>4. \A r \in checked' : r \notin unseen' /\ last'[r] \in clients' /\ checked' = {r}
  BY <1>1
<1> QED
  BY <1>1, <1>2, <1>3, <1>4 DEF CountTrue

LEMMA CountKeepsCountTrue ==
  ASSUME RunInv, CountTrue, NEW s \in Sessions, CountSession(s)
  PROVE  CountTrue'
<1>1. /\ phase = "count" /\ phase' = "count" /\ checked' = {} /\ total' = total + 1
      /\ UNCHANGED <<clients, unseen, last>>
  BY DEF CountSession
<1>2. /\ s \notin unseen /\ last[s] \in clients /\ checked = {s}
      /\ DOMAIN totals = clients
  BY DEF CountSession, CountTrue
<1>3. Counted' = Counted \cup {s} /\ s \notin Counted
  BY <1>1, <1>2 DEF Counted
<1>4. Cardinality(Counted') = Cardinality(Counted) + 1
  BY <1>3, CountedIsFinite, FS_AddElement
<1>5. /\ DOMAIN totals' = clients
      /\ totals'[last[s]] = totals[last[s]] + 1
      /\ \A e \in clients : e # last[s] => totals'[e] = totals[e]
  <2>1. \A e \in clients : totals[e] \in Nat
    BY <1>2, KeysAreFinite DEF RunInv
  <2> QED
    BY <1>2, <2>1 DEF CountSession
<1>6. ASSUME NEW e \in clients
      PROVE  totals'[e] = Cardinality(SessionsOn(e)' \cap Counted')
  <2>1. totals[e] = Cardinality(SessionsOn(e) \cap Counted)
    BY <1>1 DEF CountTrue
  <2>2. SessionsOn(e)' = SessionsOn(e) /\ (s \in SessionsOn(e) <=> e = last[s])
    BY <1>1 DEF SessionsOn
  <2>3. CASE e = last[s]
    <3>1. SessionsOn(e)' \cap Counted' = (SessionsOn(e) \cap Counted) \cup {s}
      BY <1>3, <2>2, <2>3
    <3>2. s \notin SessionsOn(e) \cap Counted
      BY <1>3
    <3>3. Cardinality((SessionsOn(e) \cap Counted) \cup {s})
             = Cardinality(SessionsOn(e) \cap Counted) + 1
      BY <3>2, CountedIsFinite, FS_AddElement
    <3> QED
      BY <1>5, <2>1, <2>3, <3>1, <3>3
  <2>4. CASE e # last[s]
    <3>1. SessionsOn(e)' \cap Counted' = SessionsOn(e) \cap Counted
      BY <1>3, <2>2, <2>4
    <3> QED
      BY <1>5, <2>1, <2>4, <3>1
  <2> QED
    BY <2>3, <2>4
<1>7. total' = Cardinality(Counted')
  BY <1>1, <1>4 DEF CountTrue
<1> QED
  BY <1>1, <1>2, <1>5, <1>6, <1>7 DEF CountTrue

\* When all have been counted the totals are those of all.
LEMMA CountDoneIsTrue ==
  ASSUME CountTrue, CountDone, ~Finish
  PROVE  TotalsTrue'
<1>1. /\ phase = "count" /\ unseen = {} /\ checked = {}
      /\ UNCHANGED <<clients, totals, total, last>>
  BY DEF CountDone
<1>2. Counted = {s \in Sessions : last[s] \in clients}
  BY <1>1 DEF Counted
<1>3. \A e \in clients : SessionsOn(e) \cap Counted = SessionsOn(e)
  BY <1>2 DEF SessionsOn
<1>4. /\ DOMAIN totals = clients
      /\ \A e \in clients : totals[e] = Cardinality(SessionsOn(e))
      /\ total = Cardinality({s \in Sessions : last[s] \in clients})
  BY <1>1, <1>2, <1>3 DEF CountTrue
<1>5. \A e : SessionsOn(e)' = SessionsOn(e)
  BY <1>1 DEF SessionsOn
<1> QED
  BY <1>1, <1>4, <1>5 DEF TotalsTrue

LEMMA QuietInit ==
  PlacedInit => RunInv /\ SumInv /\ CountTrue /\ TotalsTrue /\ MoveIsCurrent
<1> SUFFICES ASSUME PlacedInit
             PROVE  RunInv /\ SumInv /\ CountTrue /\ TotalsTrue /\ MoveIsCurrent
  OBVIOUS
<1>1. 0 \in 0 .. Cardinality(Sessions) /\ Cardinality({}) <= 1
  BY SessionsAreFinite, EmptyHasNone
<1>2. TypeOK
  BY <1>1, RebalanceAssumption DEF PlacedInit, TypeOK
<1>3. CountInv /\ MoveIsDownhill /\ SweepLeft
  BY DEF PlacedInit, CountInv, MoveIsDownhill, SweepLeft
<1>4. SumInv /\ CountTrue /\ TotalsTrue /\ MoveIsCurrent
  BY DEF PlacedInit, SumInv, CountTrue, TotalsTrue, MoveIsCurrent, Locked
<1> QED
  BY <1>2, <1>3, <1>4 DEF RunInv

\* Without calls no run panics: it moves between ready clients only.
LEMMA QuietMove ==
  ASSUME RunInv, TotalsTrue, phase = "apply"
  PROVE  /\ move[1] \in Sessions /\ move[2] \in clients /\ move[3] \in clients
         /\ NoEndpoint \notin {move[2], move[3]}
         /\ totals[move[3]] < totals[move[2]]
<1>1. DOMAIN totals = clients
  BY DEF TotalsTrue
<1>2. move[1] \in Sessions /\ move[2] \in clients /\ move[3] \in clients
  BY <1>1 DEF RunInv, MoveIsDownhill, Triples
<1>3. NoEndpoint \notin clients
  BY RebalanceAssumption DEF RunInv, TypeOK
<1> QED
  BY <1>2, <1>3 DEF RunInv, MoveIsDownhill

\* A move takes its session from the source's and adds it to the target's.
LEMMA ApplyKeepsTotalsTrue ==
  ASSUME RunInv, TotalsTrue, MoveIsCurrent, Apply
  PROVE  TotalsTrue'
<1> DEFINE s == move[1]
           src == move[2]
           to == move[3]
<1>1. /\ s \in Sessions /\ src \in clients /\ to \in clients
      /\ totals[to] < totals[src]
  BY QuietMove DEF Apply
<1>2. /\ DOMAIN totals = clients
      /\ totals \in [clients -> 0 .. Cardinality(Sessions)]
      /\ Cardinality(Sessions) \in Nat
      /\ last \in [Sessions -> Keys]
  BY KeysAreFinite DEF RunInv, TypeOK, TotalsTrue, Apply
<1>3. \A e \in clients : totals[e] \in Nat /\ totals[e] = Cardinality(SessionsOn(e))
  BY <1>2 DEF Apply, TotalsTrue
<1>4. src # to /\ last[s] = src
  BY <1>1, <1>3 DEF Apply, MoveIsCurrent
<1> HIDE DEF s, src, to
<1>5. /\ last' = [last EXCEPT ![s] = to]
      /\ totals' = [totals EXCEPT ![src] = totals[src] - 1, ![to] = totals[to] + 1]
      /\ DOMAIN totals' = clients
      /\ UNCHANGED <<clients, total>>
  BY <1>1, <1>2, <1>4 DEF Apply, s, src, to
<1>6. ASSUME NEW e \in clients
      PROVE  totals'[e] = Cardinality(SessionsOn(e)')
  <2>1. IsFiniteSet(SessionsOn(e))
    BY RebalanceAssumption, FS_Subset DEF SessionsOn
  <2>2. CASE e = src
    <3>1. SessionsOn(e)' = SessionsOn(e) \ {s} /\ s \in SessionsOn(e)
      BY <1>1, <1>2, <1>4, <1>5, <2>2 DEF SessionsOn
    <3>2. totals'[e] = totals[e] - 1
      BY <1>2, <1>4, <1>5, <2>2
    <3> QED
      BY <1>3, <2>1, <3>1, <3>2, FS_RemoveElement
  <2>3. CASE e = to
    <3>1. SessionsOn(e)' = SessionsOn(e) \cup {s} /\ s \notin SessionsOn(e)
      BY <1>1, <1>2, <1>4, <1>5, <2>3 DEF SessionsOn
    <3>2. totals'[e] = totals[e] + 1
      BY <1>2, <1>4, <1>5, <2>3
    <3> QED
      BY <1>3, <2>1, <3>1, <3>2, FS_AddElement
  <2>4. CASE e # src /\ e # to
    <3>1. SessionsOn(e)' = SessionsOn(e)
      BY <1>1, <1>2, <1>4, <1>5, <2>4 DEF SessionsOn
    <3>2. totals'[e] = totals[e]
      BY <1>2, <1>5, <2>4
    <3> QED
      BY <1>3, <3>1, <3>2
  <2> QED
    BY <2>2, <2>3, <2>4
<1>7. {r \in Sessions : last'[r] \in clients} = {r \in Sessions : last[r] \in clients}
  BY <1>1, <1>2, <1>4, <1>5
<1> QED
  BY <1>2, <1>5, <1>6, <1>7 DEF TotalsTrue, Apply

LEMMA QuietStep ==
  ASSUME RunInv, SumInv, CountTrue, TotalsTrue, MoveIsCurrent, [QuietNext]_vars
  PROVE  RunInv' /\ SumInv' /\ CountTrue' /\ TotalsTrue' /\ MoveIsCurrent'
<1>1. RunInv' /\ SumInv'
  <2>1. [Next]_vars
    BY DEF QuietNext, Next
  <2> QED
    BY <2>1, StepKeeps, StepKeepsSum
<1>2. CountTrue'
  <2>1. CASE Wake
    BY <2>1 DEF Wake, CountTrue
  <2>2. CASE phase' \notin {"lock", "count"}
    BY <2>2 DEF CountTrue
  <2>3. CASE UNCHANGED vars
    BY <2>3 DEF CountTrue, Counted, SessionsOn, vars, runVars, countVars
  <2> QED
    BY <2>1, <2>2, <2>3, MutexKeepsCountTrue, CheckKeepsCountTrue, CountKeepsCountTrue
       DEF QuietNext, Run, CountDone, Choose, NothingToMove, Apply, ApplyPanics,
           Check, Finish
<1>3. TotalsTrue'
  <2>1. CASE /\ UNCHANGED <<last, clients, totals, total>>
             /\ phase \in {"choose", "apply", "check"}
    BY <2>1 DEF TotalsTrue, SessionsOn
  <2>2. CASE phase' \notin {"choose", "apply", "check"}
    BY <2>2 DEF TotalsTrue
  <2>3. CASE UNCHANGED vars
    BY <2>3 DEF TotalsTrue, SessionsOn, vars, runVars
  <2> QED
    BY <2>1, <2>2, <2>3, CountDoneIsTrue, ApplyKeepsTotalsTrue
       DEF QuietNext, Run, Wake, TakeMutex, CheckSession, CountSession, CountDone,
           Choose, NothingToMove, ApplyPanics, Check, Finish
<1>4. MoveIsCurrent'
  <2>1. CASE Choose
    <3>1. PICK rank \in Orders, src \in DOMAIN totals : move' \in Moves(rank, src)
      BY <2>1 DEF Choose, Sources
    <3>2. \A p : \A s \in Oldest(src, p) : last[s] = src
      BY DEF Oldest, SessionsOn
    <3>3. \/ move' \in MainMoves(rank, src)
          \/ \E s : move' \in TypedMoves(rank, src, Prefix[s])
      BY <3>1 DEF Moves
    <3>4. move'[2] = src /\ \E p : move'[1] \in Oldest(src, p)
      BY <3>3 DEF MainMoves, TypedMoves
    <3>5. last[move'[1]] = move'[2]
      BY <3>2, <3>4
    <3> QED
      BY <2>1, <3>5 DEF Choose, MoveIsCurrent
  <2>2. CASE phase' # "apply"
    BY <2>2 DEF MoveIsCurrent
  <2>3. CASE UNCHANGED vars
    BY <2>3 DEF vars, runVars, MoveIsCurrent
  <2> QED
    BY <2>1, <2>2, <2>3
       DEF QuietNext, Run, Wake, TakeMutex, CheckSession, CountSession, CountDone,
           NothingToMove, Apply, ApplyPanics, Check, Finish
<1> QED
  BY <1>1, <1>2, <1>3, <1>4

\* While no call changes a session's endpoint, the totals of a run are at all
\* times the sessions that the endpoints have: no move is counted twice, or
\* counted and not made.
THEOREM QuietTotalsTrue == QuietSpec => []TotalsTrue
  BY QuietInit, QuietStep, PTL DEF QuietSpec

\* A set of naturals has a least element.
LEMMA HasLeast ==
  ASSUME NEW S \in SUBSET Nat, S # {}
  PROVE  \E m \in S : \A n \in S : m <= n
<1> DEFINE R == {ss \in Nat \X Nat : ss[1] < ss[2]}
<1>1. IsWellFoundedOn(R, Nat)
  BY NatLessThanWellFounded DEF OpToRel
<1>2. PICK m \in S : \A n \in S : <<n, m>> \notin R
  <2> HIDE DEF R
  <2> QED
    BY <1>1, WFMin
<1>3. ASSUME NEW n \in S PROVE m <= n
  <2>1. \A x, y \in Nat : x < y => <<x, y>> \in R
    OBVIOUS
  <2> HIDE DEF R
  <2>2. n \in Nat /\ m \in Nat
    OBVIOUS
  <2>3. ~(n < m)
    BY <1>2, <2>1, <2>2
  <2> QED
    BY <2>2, <2>3
<1> QED
  BY <1>3

\* An endpoint with too many main sessions has an oldest one to give away, and
\* somebody is below it to take it.
LEMMA OverloadedMoves ==
  ASSUME RunInv, SumInv, TotalsTrue, phase = "choose",
         \A s \in Sessions : Prefix[s] = AnyType,
         NEW rank \in Orders, NEW e \in clients, Overloaded(e)
  PROVE  Moves(rank, e) # {}
<1>1. /\ TypeOK /\ Cardinality(Tokens(totals)) = total
      /\ DOMAIN totals = clients
      /\ \A d \in clients : totals[d] = Cardinality(SessionsOn(d))
  BY DEF RunInv, SumInv, TotalsTrue, Locked
<1>2. /\ \A d \in clients : /\ totals[d] \in Nat
                            /\ totals[d] \in 0 .. Cardinality(Sessions)
      /\ Cardinality(clients) \in Nat /\ total \in Nat
  BY <1>1, KeysAreFinite DEF TypeOK
<1>3. totals[e] * Cardinality(clients) > total
  BY DEF Overloaded
<1>4. PICK s : s \in Oldest(e, AnyType)
  <2>1. SessionsOn(e) # {}
    <3>1. totals[e] # 0
      BY <1>2, <1>3
    <3> QED
      BY <1>1, <3>1, FS_EmptySet
  <2>2. SessionsOn(e) \in SUBSET Nat
    BY RebalanceAssumption DEF SessionsOn
  <2>3. PICK s \in SessionsOn(e) : \A r \in SessionsOn(e) : s <= r
    BY <2>1, <2>2, HasLeast
  <2>4. s \in Oldest(e, AnyType)
    BY <2>3 DEF Oldest, SessionsOn
  <2> QED
    BY <2>4
<1>5. PICK d \in Fewer(e) : TRUE
  <2>1. CASE \A d \in clients : totals[e] <= totals[d]
    BY <1>1, <1>2, <1>3, <2>1, AverageAbove
  <2> QED
    BY <1>1, <1>2, <2>1 DEF Fewer
<1>6. PICK to \in Fewer(e) : \A c \in Fewer(e) : rank[c] <= rank[to]
  <2> DEFINE D == Cardinality(DOMAIN totals)
             behind == {D - rank[c] : c \in Fewer(e)}
  <2>1. D \in Nat
    BY <1>1, KeysAreFinite
  <2>2. \A c \in Fewer(e) : rank[c] \in 1 .. D
    BY DEF Orders, Fewer
  <2> HIDE DEF D
  <2>3. behind \in SUBSET Nat /\ D - rank[d] \in behind
    BY <1>5, <2>1, <2>2
  <2>4. PICK k \in behind : \A n \in behind : k <= n
    <3> HIDE DEF behind
    <3> QED
      BY <2>3, HasLeast
  <2>5. PICK to \in Fewer(e) : k = D - rank[to]
    BY <2>4
  <2>6. ASSUME NEW c \in Fewer(e) PROVE rank[c] <= rank[to]
    <3>1. D - rank[to] <= D - rank[c]
      BY <2>4, <2>5
    <3>2. rank[c] \in 1 .. D /\ rank[to] \in 1 .. D
      BY <2>2
    <3> QED
      BY <2>1, <3>1, <3>2
  <2> QED
    BY <2>6
<1>7. rank[e] < rank[to]
  BY <1>1, <1>2 DEF Orders, Fewer
<1>8. to # NoEndpoint
  BY <1>1, RebalanceAssumption DEF TypeOK, Fewer
<1>9. <<s, e, to>> \in MainMoves(rank, e)
  BY <1>4, <1>6, <1>7, <1>8 DEF MainMoves, LastBehind
<1> QED
  BY <1>9 DEF Moves

\* Nobody is overloaded only when all endpoints have the same total.
LEMMA NoneOverloaded ==
  ASSUME RunInv, SumInv, phase = "choose", DOMAIN totals = clients,
         \A e \in clients : ~Overloaded(e)
  PROVE  \A e \in clients : totals[e] * Cardinality(clients) = total
<1> SUFFICES ASSUME NEW e0 \in clients
             PROVE  totals[e0] * Cardinality(clients) = total
  OBVIOUS
<1> DEFINE C == Cardinality(Sessions)
           bounds == {n \in 0 .. C : \A e \in clients : totals[e] <= n}
<1>1. TypeOK /\ Cardinality(Tokens(totals)) = total
  BY DEF RunInv, SumInv, Locked
<1>2. /\ \A d \in clients : totals[d] \in Nat /\ totals[d] \in 0 .. C
      /\ Cardinality(clients) \in Nat /\ total \in Nat /\ C \in Nat
  BY <1>1, KeysAreFinite DEF TypeOK
<1>3. \A d \in clients : totals[d] * Cardinality(clients) <= total
  BY <1>2 DEF Overloaded
<1>4. PICK M \in bounds : \A n \in bounds : M <= n
  <2>1. C \in bounds /\ bounds \in SUBSET Nat
    BY <1>2
  <2> HIDE DEF bounds
  <2> QED
    BY <2>1, HasLeast
<1>5. M \in 0 .. C /\ M \in Nat /\ \A d \in clients : totals[d] <= M
  BY <1>2, <1>4
<1>6. PICK d \in clients : totals[d] = M
  <2>1. CASE \A d \in clients : totals[d] # M
    <3>1. \A d \in clients : totals[d] <= M - 1
      BY <1>2, <1>5, <2>1
    <3>2. M - 1 \in 0 .. C
      <4>1. totals[e0] <= M - 1 /\ totals[e0] \in Nat
        BY <1>2, <3>1
      <4> QED
        BY <1>2, <1>5, <4>1
    <3>3. M - 1 \in bounds
      BY <3>1, <3>2
    <3>4. M <= M - 1
      BY <1>4, <3>3
    <3> QED
      BY <1>5, <3>4
  <2> QED
    BY <2>1
<1>7. M * Cardinality(clients) <= total
  BY <1>3, <1>6
<1>8. /\ total <= M * Cardinality(clients)
      /\ total = M * Cardinality(clients) => \A e \in clients : totals[e] = M
  BY <1>1, <1>5, AverageBelow
<1>9. total = M * Cardinality(clients)
  BY <1>2, <1>5, <1>7, <1>8
<1>10. totals[e0] = M
  BY <1>8, <1>9
<1> QED
  BY <1>9, <1>10

\* Endpoints with the ideal total each need no run.
LEMMA BalancedIsEnough ==
  ASSUME TypeOK, DOMAIN totals = clients,
         \A e \in clients : totals[e] * Cardinality(clients) = total
  PROVE  ~NeedsRebalance(totals, total)
<1>1. total \in Nat
  BY KeysAreFinite DEF TypeOK
<1>2. \A e \in DOMAIN totals : Distance(totals[e] * Cardinality(clients), total) = 0
  BY <1>1 DEF Distance
<1>3. ~(0 * Den > Num * total)
  <2>1. Num * total \in Nat /\ 0 * Den = 0
    BY <1>1, RebalanceAssumption
  <2> QED
    BY <2>1
<1> QED
  BY <1>1, <1>2, <1>3 DEF NeedsRebalance

\* A run over main sessions, without calls, does not give up early: when it
\* ends the endpoints are balanced, or it has used up its sweep limit, for any
\* number of sessions and endpoints and any thresholds.
THEOREM QuietRunsBalance ==
  ASSUME \A s \in Sessions : Prefix[s] = AnyType
  PROVE  QuietSpec => RunBalances
<1> DEFINE QuietInv == RunInv /\ SumInv /\ CountTrue /\ TotalsTrue /\ MoveIsCurrent
<1>1. ASSUME QuietInv, [QuietNext]_vars, Locked, ~Locked'
      PROVE  \/ ~NeedsRebalance(totals, total)
             \/ MaxSweep > 0 /\ count = MaxSweep
  <2>1. CASE CountDone
    <3>1. ~(total > 0 /\ NeedsRebalance(totals, total)) /\ phase = "count"
      BY <1>1, <2>1 DEF CountDone, Locked
    <3>2. CASE ~(total > 0)
      <4>1. /\ TypeOK /\ DOMAIN totals = clients
            /\ \A e \in DOMAIN totals : totals[e] <= total
        BY <1>1, <3>1 DEF RunInv, CountInv, CountTrue
      <4>2. total \in Nat /\ Cardinality(clients) \in Nat
        BY <4>1, KeysAreFinite DEF TypeOK
      <4>3. \A e \in clients : totals[e] \in Nat
        BY <4>1, KeysAreFinite
      <4>4. total = 0 /\ \A e \in clients : totals[e] = 0
        BY <3>2, <4>1, <4>2, <4>3
      <4>5. \A e \in clients : totals[e] * Cardinality(clients) = total
        BY <4>2, <4>4
      <4> QED
        BY <4>1, <4>5, BalancedIsEnough
    <3> QED
      BY <3>1, <3>2
  <2>2. CASE Check
    <3>1. \/ ~NeedsRebalance(totals, total)
          \/ MaxSweep # 0 /\ ~(count < MaxSweep)
      BY <1>1, <2>2 DEF Check, Locked
    <3>2. MaxSweep \in Nat /\ count \in Nat /\ (MaxSweep > 0 => count <= MaxSweep)
      BY <1>1, RebalanceAssumption DEF RunInv, TypeOK
    <3> QED
      BY <3>1, <3>2
  <2>3. CASE NothingToMove
    <3>1. PICK rank \in Orders : Sources(rank) = {}
      BY <2>3 DEF NothingToMove
    <3>2. phase = "choose" /\ DOMAIN totals = clients
      BY <1>1, <2>3 DEF NothingToMove, TotalsTrue
    <3>3. \A e \in clients : ~Overloaded(e)
      BY <1>1, <3>1, <3>2, OverloadedMoves DEF Sources
    <3> QED
      BY <1>1, <3>2, <3>3, NoneOverloaded, BalancedIsEnough DEF RunInv
  <2>4. ~ApplyPanics
    BY <1>1, QuietMove DEF ApplyPanics
  <2> QED
    BY <1>1, <2>1, <2>2, <2>3, <2>4
       DEF QuietNext, Run, Wake, TakeMutex, CheckSession, CountSession, Choose, Apply,
           Locked, vars, runVars
<1>2. QuietInv /\ [QuietNext]_vars
         => [Locked /\ ~Locked'
               => \/ ~NeedsRebalance(totals, total)
                  \/ MaxSweep > 0 /\ count = MaxSweep]_vars
  BY <1>1
<1>3. PlacedInit => QuietInv
  BY QuietInit
<1>4. QuietInv /\ [QuietNext]_vars => QuietInv'
  BY QuietStep
<1> HIDE DEF QuietInv
<1> QED
  BY <1>2, <1>3, <1>4, PTL DEF QuietSpec, RunBalances

-----------------------------------------------------------------------------
(* Why a run ends: the pairs of sessions that share an endpoint *)

\* A run that looks for a move has an endpoint that is off the ideal total by
\* more than the threshold, so that the move it chooses goes at least two
\* sessions down.
MoveIsSteep ==
    /\ phase = "choose" => NeedsRebalance(totals, total)
    /\ phase = "apply" => totals[move[3]] + 2 <= totals[move[2]]

LEMMA Cancel ==
  ASSUME NEW a \in Nat, NEW b \in Nat, NEW r \in Nat, a * r < b * r
  PROVE  a < b
<1> SUFFICES ASSUME b <= a PROVE FALSE
  OBVIOUS
<1>1. a - b \in Nat /\ (a - b) * r = a * r - b * r
  OBVIOUS
<1>2. (a - b) * r \in Nat
  BY <1>1
<1> QED
  BY <1>1, <1>2

\* An endpoint that makes a run go on is at least one whole session off.
LEMMA OffByOne ==
  ASSUME TypeOK, DOMAIN totals = clients, NeedsRebalance(totals, total)
  PROVE  \E e \in clients :
            \/ total + Cardinality(clients) <= totals[e] * Cardinality(clients)
            \/ totals[e] * Cardinality(clients) + Cardinality(clients) <= total
<1> DEFINE R == Cardinality(clients)
<1>1. PICK e \in clients : Distance(totals[e] * R, total) \div R > AbsThreshold
  BY DEF NeedsRebalance
<1>2. totals[e] \in Nat /\ total \in Nat /\ R \in Nat /\ AbsThreshold \in Nat
  BY KeysAreFinite, RebalanceAssumption DEF TypeOK
<1>3. R # 0
  BY KeysAreFinite, FS_EmptySet
<1> HIDE DEF R
<1>4. totals[e] * R \in Nat
  BY <1>2
<1>5. Distance(totals[e] * R, total) \in Nat
  BY <1>2, <1>4 DEF Distance
<1>6. R <= Distance(totals[e] * R, total)
  <2>1. \A x, r \in Nat : r # 0 /\ x < r => x \div r = 0
    OBVIOUS
  <2>2. Distance(totals[e] * R, total) \div R # 0
    BY <1>1, <1>2
  <2> HIDE DEF Distance
  <2> QED
    BY <1>2, <1>3, <1>5, <2>1, <2>2
<1>7. \/ total + R <= totals[e] * R
      \/ totals[e] * R + R <= total
  BY <1>2, <1>4, <1>6 DEF Distance
<1> QED
  BY <1>7 DEF R

LEMMA ChoiceIsSteep ==
  ASSUME RunInv, SumInv, TotalsTrue, MoveIsSteep, Choose,
         \A s \in Sessions : Prefix[s] = AnyType
  PROVE  totals[move'[3]] + 2 <= totals[move'[2]]
<1> DEFINE R == Cardinality(clients)
<1>1. /\ TypeOK /\ phase = "choose" /\ Cardinality(Tokens(totals)) = total
      /\ NeedsRebalance(totals, total) /\ DOMAIN totals = clients
  BY DEF Choose, RunInv, SumInv, TotalsTrue, Locked, MoveIsSteep
<1>2. PICK e \in clients : \/ total + R <= totals[e] * R
                           \/ totals[e] * R + R <= total
  BY <1>1, OffByOne
<1>3. PICK rank \in Orders, src \in DOMAIN totals :
         /\ src \in Sources(rank)
         /\ \A d \in Sources(rank) : rank[src] <= rank[d]
         /\ move' \in Moves(rank, src)
  BY DEF Choose, Sources
<1>4. src \in clients /\ Overloaded(src)
  BY <1>1, <1>3 DEF Sources
<1>5. move' \in MainMoves(rank, src)
  <2>1. SessionsOn(src) \subseteq Sessions
    BY DEF SessionsOn
  <2> QED
    BY <1>3, <2>1 DEF Moves
<1>6. /\ move'[2] = src /\ move'[1] \in Sessions /\ move'[3] \in clients
      /\ \A d \in clients : totals[move'[3]] <= totals[d]
  BY <1>1, <1>4, <1>5, MainTargetLeast
<1>7. PICK to \in clients : to = move'[3]
  BY <1>6
<1>8. /\ \A d \in clients : totals[d] \in Nat
      /\ R \in Nat /\ total \in Nat
  BY <1>1, KeysAreFinite DEF TypeOK
<1>9. totals[to] * R < total
  BY <1>1, <1>3, <1>4, <1>6, <1>7, MainTargetBelow
<1>10. totals[src] * R > total
  BY <1>4 DEF Overloaded
<1>11. CASE total + R <= totals[e] * R
  <2>1. totals[e] <= totals[src]
    <3>1. Overloaded(e)
      <4>1. R # 0
        BY <1>1, KeysAreFinite, FS_EmptySet
      <4>2. totals[e] * R \in Nat
        BY <1>8
      <4>3. totals[e] * R > total
        <5> HIDE DEF R
        <5> QED
          BY <1>8, <1>11, <4>1, <4>2
      <4> QED
        BY <4>3 DEF Overloaded
    <3>2. e \in Sources(rank)
      BY <1>1, <3>1, OverloadedMoves DEF Sources
    <3>3. rank[src] <= rank[e] /\ rank[src] \in Int /\ rank[e] \in Int
      BY <1>1, <1>3, <1>4, <3>2, KeysAreFinite DEF Orders
    <3>4. ~(totals[e] > totals[src])
      BY <1>1, <1>4, <3>3 DEF Orders
    <3> QED
      BY <1>4, <1>8, <3>4
  <2>2. (totals[to] + 1) * R < totals[e] * R
    <3> HIDE DEF R
    <3>1. (totals[to] + 1) * R = totals[to] * R + R
      BY <1>8
    <3>2. totals[to] * R \in Nat /\ totals[e] * R \in Nat
      BY <1>8
    <3> QED
      BY <1>8, <1>9, <1>11, <3>1, <3>2
  <2>3. totals[to] + 1 < totals[e]
    <3> HIDE DEF R
    <3>1. totals[to] + 1 \in Nat
      BY <1>8
    <3> QED
      BY <1>8, <2>2, <3>1, Cancel
  <2> QED
    BY <1>6, <1>7, <1>8, <1>4, <2>1, <2>3
<1>12. CASE totals[e] * R + R <= total
  <2>1. totals[to] <= totals[e]
    BY <1>6, <1>7
  <2>2. (totals[e] + 1) * R < totals[src] * R
    <3> HIDE DEF R
    <3>1. (totals[e] + 1) * R = totals[e] * R + R
      BY <1>8
    <3>2. totals[src] * R \in Nat /\ totals[e] * R \in Nat
      BY <1>4, <1>8
    <3> QED
      BY <1>8, <1>10, <1>12, <3>1, <3>2
  <2>3. totals[e] + 1 < totals[src]
    <3> HIDE DEF R
    <3>1. totals[e] + 1 \in Nat /\ totals[src] \in Nat
      BY <1>4, <1>8
    <3> QED
      BY <1>8, <2>2, <3>1, Cancel
  <2> QED
    BY <1>4, <1>6, <1>7, <1>8, <2>1, <2>3
<1> QED
  BY <1>2, <1>11, <1>12

\* The pairs of z with itself and with the members of S.
PairsWith(z, S) == ({z} \X (S \cup {z})) \cup (S \X {z})

LEMMA PairsWithCount ==
  ASSUME NEW S, IsFiniteSet(S), NEW z, z \notin S
  PROVE  /\ IsFiniteSet(PairsWith(z, S))
         /\ Cardinality(PairsWith(z, S)) = 2 * Cardinality(S) + 1
<1> DEFINE P == {z} \X (S \cup {z})
           Q == S \X {z}
<1>1. Cardinality(S) \in Nat
  BY FS_CardinalityType
<1>2. IsFiniteSet({z}) /\ Cardinality({z}) = 1
  BY FS_Singleton
<1>3. IsFiniteSet(S \cup {z}) /\ Cardinality(S \cup {z}) = Cardinality(S) + 1
  BY FS_AddElement
<1>4. IsFiniteSet(P) /\ Cardinality(P) = 1 * (Cardinality(S) + 1)
  BY <1>2, <1>3, FS_Product
<1>5. IsFiniteSet(Q) /\ Cardinality(Q) = Cardinality(S) * 1
  BY <1>2, FS_Product
<1>6. P \cap Q = {}
  OBVIOUS
<1> HIDE DEF P, Q
<1>7. Cardinality({}) = 0
  BY FS_EmptySet
<1>8. /\ IsFiniteSet(P \cup Q)
      /\ Cardinality(P \cup Q) = Cardinality(P) + Cardinality(Q) - 0
  BY <1>4, <1>5, <1>6, <1>7, FS_Union
<1> QED
  BY <1>1, <1>4, <1>5, <1>8 DEF PairsWith, P, Q

\* The pairs that a move of s leaves together.
PairsWithout(s) ==
  UNION {(SessionsOn(e) \ {s}) \X (SessionsOn(e) \ {s}) : e \in clients}

LEMMA SharedSplit ==
  ASSUME NEW e \in clients, NEW s \in SessionsOn(e)
  PROVE  /\ SharedPairs = PairsWithout(s) \cup PairsWith(s, SessionsOn(e) \ {s})
         /\ PairsWithout(s) \cap PairsWith(s, SessionsOn(e) \ {s}) = {}
<1>1. \A d \in clients : s \in SessionsOn(d) => d = e
  BY DEF SessionsOn
<1>2. ASSUME NEW x, NEW y
      PROVE  /\ <<x, y>> \in SharedPairs
                   <=> \E d \in clients : x \in SessionsOn(d) /\ y \in SessionsOn(d)
             /\ <<x, y>> \in PairsWithout(s)
                   <=> /\ x # s /\ y # s
                       /\ \E d \in clients : x \in SessionsOn(d) /\ y \in SessionsOn(d)
             /\ <<x, y>> \in PairsWith(s, SessionsOn(e) \ {s})
                   <=> \/ x = s /\ y \in SessionsOn(e)
                       \/ y = s /\ x \in SessionsOn(e)
  BY DEF SharedPairs, PairsWithout, PairsWith
<1>3. ASSUME NEW p
      PROVE  /\ p \in SharedPairs => p = <<p[1], p[2]>>
             /\ p \in PairsWithout(s) => p = <<p[1], p[2]>>
             /\ p \in PairsWith(s, SessionsOn(e) \ {s}) => p = <<p[1], p[2]>>
  BY DEF SharedPairs, PairsWithout, PairsWith
<1>4. ASSUME NEW x, NEW y
      PROVE  /\ <<x, y>> \in SharedPairs
                   <=> \/ <<x, y>> \in PairsWithout(s)
                       \/ <<x, y>> \in PairsWith(s, SessionsOn(e) \ {s})
             /\ ~ /\ <<x, y>> \in PairsWithout(s)
                  /\ <<x, y>> \in PairsWith(s, SessionsOn(e) \ {s})
  BY <1>1, <1>2
<1> QED
  BY <1>3, <1>4

LEMMA SharedCount ==
  ASSUME NEW e \in clients, NEW s \in SessionsOn(e),
         IsFiniteSet(SharedPairs), IsFiniteSet(SessionsOn(e))
  PROVE  /\ IsFiniteSet(PairsWithout(s)) /\ Cardinality(PairsWithout(s)) \in Nat
         /\ Cardinality(SharedPairs)
               = Cardinality(PairsWithout(s)) + (2 * Cardinality(SessionsOn(e)) - 1)
<1> DEFINE S == SessionsOn(e) \ {s}
<1>1. /\ IsFiniteSet(S) /\ Cardinality(S) = Cardinality(SessionsOn(e)) - 1
      /\ Cardinality(SessionsOn(e)) \in Nat
  BY FS_RemoveElement, FS_CardinalityType
<1>2. s \notin S
  OBVIOUS
<1>3. /\ SharedPairs = PairsWithout(s) \cup PairsWith(s, S)
      /\ PairsWithout(s) \cap PairsWith(s, S) = {}
  BY SharedSplit
<1> HIDE DEF S
<1>4. /\ IsFiniteSet(PairsWith(s, S))
      /\ Cardinality(PairsWith(s, S)) = 2 * Cardinality(S) + 1
  BY <1>1, <1>2, PairsWithCount
<1>5. IsFiniteSet(PairsWithout(s)) /\ Cardinality(PairsWithout(s)) \in Nat
  <2>1. PairsWithout(s) \subseteq SharedPairs
    BY <1>3
  <2> QED
    BY <2>1, FS_Subset, FS_CardinalityType
<1>6. Cardinality(SharedPairs)
         = Cardinality(PairsWithout(s)) + Cardinality(PairsWith(s, S)) - 0
  BY <1>3, <1>4, <1>5, FS_Union, FS_EmptySet
<1> QED
  BY <1>1, <1>4, <1>5, <1>6

\* After a move of s to an endpoint it was not on.
LEMMA SharedAfter ==
  ASSUME RunInv, NEW s \in Sessions, NEW to \in clients, last[s] # to,
         last' = [last EXCEPT ![s] = to], clients' = clients
  PROVE  /\ SharedPairs' = PairsWithout(s) \cup PairsWith(s, SessionsOn(to))
         /\ PairsWithout(s) \cap PairsWith(s, SessionsOn(to)) = {}
<1>1. last \in [Sessions -> Keys]
  BY DEF RunInv, TypeOK
<1>2. /\ SessionsOn(to)' = SessionsOn(to) \cup {s}
      /\ s \notin SessionsOn(to)
      /\ \A d \in clients : d # to => SessionsOn(d)' = SessionsOn(d) \ {s}
  BY <1>1 DEF SessionsOn
<1>3. \A c, d \in clients : \A x : x \in SessionsOn(c) /\ x \in SessionsOn(d) => c = d
  BY DEF SessionsOn
<1>4. SharedPairs' = UNION {SessionsOn(d)' \X SessionsOn(d)' : d \in clients}
  BY DEF SharedPairs
<1>5. ASSUME NEW x, NEW y
      PROVE  /\ <<x, y>> \in SharedPairs'
                   <=> \E d \in clients : x \in SessionsOn(d)' /\ y \in SessionsOn(d)'
             /\ <<x, y>> \in PairsWithout(s)
                   <=> /\ x # s /\ y # s
                       /\ \E d \in clients : x \in SessionsOn(d) /\ y \in SessionsOn(d)
             /\ <<x, y>> \in PairsWith(s, SessionsOn(to))
                   <=> \/ x = s /\ (y = s \/ y \in SessionsOn(to))
                       \/ y = s /\ x \in SessionsOn(to)
  BY <1>4 DEF PairsWithout, PairsWith
<1>6. ASSUME NEW p
      PROVE  /\ p \in SharedPairs' => p = <<p[1], p[2]>>
             /\ p \in PairsWithout(s) => p = <<p[1], p[2]>>
             /\ p \in PairsWith(s, SessionsOn(to)) => p = <<p[1], p[2]>>
  BY <1>4 DEF PairsWithout, PairsWith
<1>7. ASSUME NEW d \in clients, NEW x
      PROVE  x \in SessionsOn(d)' <=> IF x = s THEN d = to ELSE x \in SessionsOn(d)
  BY <1>2
<1>8. ASSUME NEW x, NEW y
      PROVE  /\ <<x, y>> \in SharedPairs'
                   <=> \/ <<x, y>> \in PairsWithout(s)
                       \/ <<x, y>> \in PairsWith(s, SessionsOn(to))
             /\ ~ /\ <<x, y>> \in PairsWithout(s)
                  /\ <<x, y>> \in PairsWith(s, SessionsOn(to))
  <2>1. CASE x # s /\ y # s
    BY <1>5, <1>7, <2>1
  <2>2. CASE x = s
    BY <1>5, <1>7, <2>2
  <2>3. CASE y = s
    BY <1>5, <1>7, <2>3
  <2> QED
    BY <2>1, <2>2, <2>3
<1> QED
  BY <1>6, <1>8

LEMMA SharedIsFinite == IsFiniteSet(SharedPairs)
<1>1. SharedPairs \subseteq Sessions \X Sessions
  BY DEF SharedPairs, SessionsOn
<1>2. IsFiniteSet(Sessions \X Sessions)
  BY RebalanceAssumption, FS_Product
<1> QED
  BY <1>1, <1>2, FS_Subset

\* A move takes its session away from the others on its source, and adds it to
\* those on its target.
LEMMA MoveCount ==
  ASSUME RunInv, TotalsTrue, MoveIsCurrent, Apply
  PROVE  /\ totals[move[2]] \in Nat /\ totals[move[3]] \in Nat
         /\ Cardinality(SharedPairs) \in Nat
         /\ Cardinality(SharedPairs')
               = Cardinality(SharedPairs)
                    - 2 * (totals[move[2]] - totals[move[3]] - 1)
<1>1. PICK s \in Sessions, src \in clients, to \in clients :
         s = move[1] /\ src = move[2] /\ to = move[3]
  BY QuietMove DEF Apply
<1>2. /\ last[s] = src /\ totals[to] < totals[src]
      /\ last' = [last EXCEPT ![s] = to] /\ clients' = clients
  BY <1>1, QuietMove DEF Apply, MoveIsCurrent
<1>3. ASSUME NEW e \in clients
      PROVE  /\ totals[e] \in Nat /\ totals[e] = Cardinality(SessionsOn(e))
             /\ IsFiniteSet(SessionsOn(e))
  <2>1. IsFiniteSet(SessionsOn(e))
    BY RebalanceAssumption, FS_Subset DEF SessionsOn
  <2>2. totals[e] = Cardinality(SessionsOn(e))
    BY DEF Apply, TotalsTrue
  <2> QED
    BY <2>1, <2>2, FS_CardinalityType
<1>4. src # to
  BY <1>2, <1>3
<1>5. s \in SessionsOn(src) /\ s \notin SessionsOn(to)
  BY <1>2, <1>4 DEF SessionsOn
<1>6. /\ IsFiniteSet(PairsWithout(s)) /\ Cardinality(PairsWithout(s)) \in Nat
      /\ Cardinality(SharedPairs)
            = Cardinality(PairsWithout(s)) + (2 * totals[src] - 1)
  BY <1>3, <1>5, SharedIsFinite, SharedCount
<1>7. /\ IsFiniteSet(PairsWith(s, SessionsOn(to)))
      /\ Cardinality(PairsWith(s, SessionsOn(to))) = 2 * totals[to] + 1
  BY <1>3, <1>5, PairsWithCount
<1>8. /\ SharedPairs' = PairsWithout(s) \cup PairsWith(s, SessionsOn(to))
      /\ PairsWithout(s) \cap PairsWith(s, SessionsOn(to)) = {}
  BY <1>2, <1>4, SharedAfter
<1>9. Cardinality(SharedPairs')
         = Cardinality(PairsWithout(s)) + Cardinality(PairsWith(s, SessionsOn(to))) - 0
  <2> DEFINE K == PairsWithout(s)
             P == PairsWith(s, SessionsOn(to))
  <2>1. IsFiniteSet(K) /\ IsFiniteSet(P) /\ K \cap P = {} /\ SharedPairs' = K \cup P
    BY <1>6, <1>7, <1>8
  <2> HIDE DEF K, P
  <2>2. Cardinality(K \cup P) = Cardinality(K) + Cardinality(P) - Cardinality({})
    BY <2>1, FS_Union
  <2>3. Cardinality({}) = 0
    BY FS_EmptySet
  <2> QED
    BY <2>1, <2>2, <2>3 DEF K, P
<1>10. totals[src] \in Nat /\ totals[to] \in Nat
  BY <1>3
<1>11. Cardinality(SharedPairs) \in Nat
  BY SharedIsFinite, FS_CardinalityType
<1>12. Cardinality(SharedPairs')
          = Cardinality(SharedPairs) - 2 * (totals[src] - totals[to] - 1)
  <2>1. Cardinality(SharedPairs')
           = Cardinality(PairsWithout(s)) + (2 * totals[to] + 1) - 0
    BY <1>7, <1>9
  <2>2. \A k, m, n \in Nat :
           k + (2 * n + 1) - 0 = (k + (2 * m - 1)) - 2 * (m - n - 1)
    OBVIOUS
  <2> QED
    BY <1>6, <1>10, <2>1, <2>2
<1> QED
  BY <1>1, <1>10, <1>11, <1>12

\* While no call changes a session's endpoint, no move ever crowds the sessions,
\* of whatever prefixes: a run that does not end, as one over prefixed sessions
\* may, moves to and fro between placements that are equally crowded.
THEOREM QuietMovesNeverCrowd ==
  QuietSpec => [][phase = "apply"
                    => Cardinality(SharedPairs') <= Cardinality(SharedPairs)]_vars
<1> DEFINE QuietInv == RunInv /\ SumInv /\ CountTrue /\ TotalsTrue /\ MoveIsCurrent
<1>1. QuietInv /\ [QuietNext]_vars
        => [phase = "apply"
              => Cardinality(SharedPairs') <= Cardinality(SharedPairs)]_vars
  <2> SUFFICES ASSUME QuietInv, QuietNext, phase = "apply"
               PROVE  Cardinality(SharedPairs') <= Cardinality(SharedPairs)
    OBVIOUS
  <2>1. Apply
    BY QuietMove DEF QuietNext, Run, Wake, TakeMutex, CheckSession, CountSession,
       CountDone, Choose, NothingToMove, ApplyPanics, Check
  <2>2. totals[move[3]] < totals[move[2]]
    BY QuietMove
  <2> DEFINE a == totals[move[2]]
             b == totals[move[3]]
             old == Cardinality(SharedPairs)
             new == Cardinality(SharedPairs')
  <2>3. a \in Nat /\ b \in Nat /\ old \in Nat /\ new = old - 2 * (a - b - 1)
    BY <2>1, MoveCount
  <2> HIDE DEF a, b, old, new
  <2>4. b < a => new <= old
    BY <2>3
  <2> QED
    BY <2>2, <2>4 DEF a, b, old, new
<1>2. PlacedInit => QuietInv
  BY QuietInit
<1>3. QuietInv /\ [QuietNext]_vars => QuietInv'
  BY QuietStep
<1> HIDE DEF QuietInv
<1> QED
  BY <1>1, <1>2, <1>3, PTL DEF QuietSpec

\* Without calls, each move of a run over main sessions leaves fewer pairs of
\* sessions on a common endpoint: the run ends after finitely many, with or
\* without a sweep limit, for any numbers and thresholds.
THEOREM QuietMovesSeparate ==
  ASSUME \A s \in Sessions : Prefix[s] = AnyType
  PROVE  QuietSpec => MovesSeparate
<1> DEFINE QuietInv == /\ RunInv /\ SumInv /\ CountTrue /\ TotalsTrue
                       /\ MoveIsCurrent /\ MoveIsSteep
<1>1. PlacedInit => QuietInv
  <2>1. PlacedInit => MoveIsSteep
    BY DEF PlacedInit, MoveIsSteep
  <2> QED
    BY <2>1, QuietInit
<1>2. QuietInv /\ [QuietNext]_vars => QuietInv'
  <2> SUFFICES ASSUME QuietInv, [QuietNext]_vars PROVE MoveIsSteep'
    BY QuietStep
  <2>1. CASE Choose
    BY <2>1, ChoiceIsSteep DEF Choose, MoveIsSteep
  <2>2. CASE (CountDone \/ Check) /\ ~Finish
    BY <2>2 DEF CountDone, Check, MoveIsSteep, NeedsRebalance
  <2>3. CASE phase' \notin {"choose", "apply"}
    BY <2>3 DEF MoveIsSteep
  <2>4. CASE UNCHANGED vars
    BY <2>4 DEF MoveIsSteep, NeedsRebalance, vars, runVars
  <2> QED
    BY <2>1, <2>2, <2>3, <2>4
       DEF QuietNext, Run, Wake, TakeMutex, CheckSession, CountSession, Finish,
           NothingToMove, Apply, ApplyPanics
<1>3. QuietInv /\ [QuietNext]_vars
        => [phase = "apply"
              => Cardinality(SharedPairs') < Cardinality(SharedPairs)]_vars
  <2> SUFFICES ASSUME QuietInv, QuietNext, phase = "apply"
               PROVE  Cardinality(SharedPairs') < Cardinality(SharedPairs)
    OBVIOUS
  <2>1. Apply
    BY QuietMove DEF QuietNext, Run, Wake, TakeMutex, CheckSession, CountSession,
       CountDone, Choose, NothingToMove, ApplyPanics, Check
  <2>2. totals[move[3]] + 2 <= totals[move[2]]
    BY DEF MoveIsSteep
  <2> DEFINE a == totals[move[2]]
             b == totals[move[3]]
             old == Cardinality(SharedPairs)
             new == Cardinality(SharedPairs')
  <2>3. a \in Nat /\ b \in Nat /\ old \in Nat /\ new = old - 2 * (a - b - 1)
    BY <2>1, MoveCount
  <2> HIDE DEF a, b, old, new
  <2>4. b + 2 <= a => new < old
    BY <2>3
  <2> QED
    BY <2>2, <2>4 DEF a, b, old, new
<1> HIDE DEF QuietInv
<1> QED
  BY <1>1, <1>2, <1>3, PTL DEF QuietSpec, MovesSeparate

=============================================================================
