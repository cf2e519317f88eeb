--------------------------- MODULE SchedulerProofs ---------------------------
(***************************************************************************)
(* Theorems about the round robin, for any number of clients and requests, *)
(* any types and any custody groups.                                       *)
(***************************************************************************)
EXTENDS Scheduler, TLAPS

\* Scanning the indexes behind last and then from the start, c comes before d.
ComesBefore(last, c, d) ==
    \/ c > last /\ (d <= last \/ c < d)
    \/ c <= last /\ d <= last /\ c < d

\* The inductive invariant: nobody is overtaken twice, and the clients that
\* have overtaken c since it was last picked come after it in the scan that
\* starts behind the client picked last.
FairInv ==
    \A k \in Keys : \A c, d \in Clients :
       /\ waited[k][c][d] <= 1
       /\ waited[k][c][d] = 1 => ComesBefore(rrLastIndexes[k], c, d)

-----------------------------------------------------------------------------

\* The client that is picked precedes all others that could be picked.
LEMMA FirstIsFirst ==
    ASSUME NEW E \in SUBSET Clients, NEW last \in Nat,
           NEW p \in FirstBehind(E, last), NEW c \in E, c # p
    PROVE  ComesBefore(last, p, c)
BY SchedulerAssumption DEF FirstBehind, ComesBefore, Clients

\* After p was picked nothing else has changed its place in the scan.
LEMMA OrderKept ==
    ASSUME NEW last \in Nat, NEW p \in Clients, NEW c \in Clients, NEW d \in Clients,
           ComesBefore(last, p, c), ComesBefore(last, c, d)
    PROVE  ComesBefore(p, c, d)
BY SchedulerAssumption DEF ComesBefore, Clients

\* The scan reaches the client that was just picked last of all.
LEMMA PickedIsLast ==
    ASSUME NEW p \in Clients, NEW c \in Clients, c # p
    PROVE  ComesBefore(p, c, p)
BY SchedulerAssumption DEF ComesBefore, Clients

LEMMA ComesBeforeIsStrict ==
    ASSUME NEW last \in Nat, NEW c \in Clients, NEW d \in Clients,
           ComesBefore(last, c, d)
    PROVE  ~ComesBefore(last, d, c)
BY SchedulerAssumption DEF ComesBefore, Clients

-----------------------------------------------------------------------------

LEMMA InitTypeOK == Init => TypeOK
BY DEF Init, TypeOK

\* What Pick does, for some client p.
LEMMA PickStep ==
    ASSUME TypeOK, NEW q \in Requests, Pick(q)
    PROVE  \E k \in Keys, E \in SUBSET Clients, p \in Clients :
              /\ p \in FirstBehind(E, rrLastIndexes[k])
              /\ rrLastIndexes' = [rrLastIndexes EXCEPT ![k] = p]
              /\ waited' = [waited EXCEPT ![k] = Waited(waited[k], E, p)]
<1> DEFINE k == calls[q].key
           E == Eligible(calls[q])
<1>1. calls[q] \in Call
    BY DEF Pick, TypeOK
<1>2. k \in Keys /\ E \in SUBSET Clients
    BY <1>1 DEF Call, Eligible
<1>3. PICK p \in FirstBehind(E, rrLastIndexes[k]) :
         /\ rrLastIndexes' = [rrLastIndexes EXCEPT ![k] = p]
         /\ waited' = [waited EXCEPT ![k] = Waited(waited[k], E, p)]
    BY DEF Pick
<1>4. p \in Clients
    BY <1>2 DEF FirstBehind
<1> HIDE DEF k, E
<1> QED BY <1>2, <1>3, <1>4

LEMMA NextTypeOK == TypeOK /\ [Next]_vars => TypeOK'
<1> SUFFICES ASSUME TypeOK, [Next]_vars PROVE TypeOK'
    OBVIOUS
<1>1. ASSUME NEW R \in SUBSET Clients, ReadyChanges(R) PROVE TypeOK'
    BY <1>1 DEF ReadyChanges, TypeOK
<1>2. ASSUME NEW q \in Requests, NEW k \in Keys, NEW m \in MinCgcs, ReadFork(q, k, m)
      PROVE  TypeOK'
    BY <1>2 DEF ReadFork, TypeOK, Call
<1>3. ASSUME NEW q \in Requests, Pick(q) PROVE TypeOK'
    <2>1. PICK k \in Keys, E \in SUBSET Clients, p \in Clients :
             /\ rrLastIndexes' = [rrLastIndexes EXCEPT ![k] = p]
             /\ waited' = [waited EXCEPT ![k] = Waited(waited[k], E, p)]
        BY <1>3, PickStep
    <2>2. rrLastIndexes' \in [Keys -> Nat]
        BY <2>1 DEF TypeOK, Clients
    <2>3. Waited(waited[k], E, p) \in [Clients -> [Clients -> 0 .. 2]]
        <3>1. waited[k] \in [Clients -> [Clients -> 0 .. 2]]
            BY DEF TypeOK
        <3>2. \A c, d \in Clients :
                 (IF c = p \/ c \notin E THEN 0
                  ELSE IF d = p /\ waited[k][c][d] < 2 THEN waited[k][c][d] + 1
                  ELSE waited[k][c][d]) \in 0 .. 2
            BY <3>1
        <3> QED BY <3>2 DEF Waited
    <2>4. waited' \in [Keys -> [Clients -> [Clients -> 0 .. 2]]]
        BY <2>1, <2>3 DEF TypeOK
    <2> QED BY <1>3, <2>2, <2>4 DEF Pick, TypeOK
<1>4. ASSUME NEW q \in Requests, PickNone(q) PROVE TypeOK'
    BY <1>4 DEF PickNone, TypeOK
<1>5. CASE UNCHANGED vars
    BY <1>5 DEF vars, TypeOK
<1> QED BY <1>1, <1>2, <1>3, <1>4, <1>5 DEF Next

\* The scheduler's variables keep their types.
THEOREM SchedulerTypes == Spec => []TypeOK
BY InitTypeOK, NextTypeOK, PTL DEF Spec

LEMMA InitFairInv == Init => FairInv
BY DEF Init, FairInv

LEMMA PickFairInv ==
    ASSUME TypeOK, FairInv, NEW q \in Requests, Pick(q)
    PROVE  FairInv'
<1>1. PICK k \in Keys, E \in SUBSET Clients, p \in Clients :
         /\ p \in FirstBehind(E, rrLastIndexes[k])
         /\ rrLastIndexes' = [rrLastIndexes EXCEPT ![k] = p]
         /\ waited' = [waited EXCEPT ![k] = Waited(waited[k], E, p)]
    BY PickStep
<1> DEFINE last == rrLastIndexes[k]
<1>2. last \in Nat /\ waited[k] \in [Clients -> [Clients -> 0 .. 2]]
    BY DEF TypeOK
<1>3. ASSUME NEW c \in Clients, NEW d \in Clients
      PROVE  /\ waited'[k][c][d] <= 1
             /\ waited'[k][c][d] = 1 => ComesBefore(p, c, d)
    <2>1. waited'[k][c][d] = IF c = p \/ c \notin E THEN 0
                             ELSE IF d = p /\ waited[k][c][d] < 2
                                  THEN waited[k][c][d] + 1
                             ELSE waited[k][c][d]
        BY <1>1 DEF Waited, TypeOK
    <2>2. /\ waited[k][c][d] \in 0 .. 1
          /\ waited[k][c][d] = 1 => ComesBefore(last, c, d)
        BY <1>2 DEF FairInv
    <2>3. CASE c = p \/ c \notin E
        BY <2>1, <2>3
    <2>4. CASE c # p /\ c \in E /\ d = p
        <3>1. ComesBefore(last, p, c)
            BY <1>1, <1>2, <2>4, FirstIsFirst
        <3>2. waited[k][c][d] = 0
            BY <1>2, <2>2, <2>4, <3>1, ComesBeforeIsStrict
        <3>3. ComesBefore(p, c, d)
            BY <2>4, PickedIsLast
        <3> QED BY <2>1, <2>4, <3>2, <3>3
    <2>5. CASE c # p /\ c \in E /\ d # p
        <3>1. ComesBefore(last, p, c)
            BY <1>1, <1>2, <2>5, FirstIsFirst
        <3>2. waited[k][c][d] = 1 => ComesBefore(p, c, d)
            BY <1>2, <2>2, <3>1, OrderKept
        <3> QED BY <2>1, <2>2, <2>5, <3>2
    <2> QED BY <2>3, <2>4, <2>5
<1>4. ASSUME NEW x \in Keys, x # k
      PROVE  waited'[x] = waited[x] /\ rrLastIndexes'[x] = rrLastIndexes[x]
    BY <1>1, <1>4 DEF TypeOK
<1>5. rrLastIndexes'[k] = p
    BY <1>1 DEF TypeOK
<1> QED BY <1>3, <1>4, <1>5 DEF FairInv

LEMMA NextFairInv == TypeOK /\ FairInv /\ [Next]_vars => FairInv'
<1> SUFFICES ASSUME TypeOK, FairInv, [Next]_vars PROVE FairInv'
    OBVIOUS
<1>1. CASE UNCHANGED <<rrLastIndexes, waited>>
    BY <1>1 DEF FairInv
<1> QED BY <1>1, PickFairInv DEF Next, ReadyChanges, ReadFork, PickNone, vars

\* Nobody that each request could have picked is overtaken twice by the same
\* client, for any number of clients and of concurrent requests.
THEOREM RoundRobinIsFair == Spec => []NoDoubleOvertaking
<1>1. FairInv => NoDoubleOvertaking
    BY DEF FairInv, NoDoubleOvertaking
<1> QED BY <1>1, InitFairInv, NextFairInv, SchedulerTypes, PTL DEF Spec

=============================================================================
