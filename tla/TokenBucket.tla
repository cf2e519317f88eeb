----------------------------- MODULE TokenBucket -----------------------------
(***************************************************************************)
(* What a rate limit promises: each address has one bucket, from which     *)
(* each of its requests takes a token, or is refused when there is none,   *)
(* and which refills as time passes.                                       *)
(***************************************************************************)
EXTENDS Integers

CONSTANTS
    Addrs,  \* the addresses
    Rate,   \* tokens per tick
    Burst   \* tokens of a full bucket

VARIABLES
    level,  \* tokens in the bucket of each address
    answer  \* what the last request of each address was told

Filled(n) == IF n + Rate < Burst THEN n + Rate ELSE Burst

Init ==
    /\ level \in [Addrs -> 0 .. Burst]
    /\ answer \in [Addrs -> {"none", "admitted", "refused"}]

Admit(a) ==
    /\ level[a] > 0
    /\ level' = [level EXCEPT ![a] = @ - 1]
    /\ answer' = [answer EXCEPT ![a] = "admitted"]

Refuse(a) ==
    /\ level[a] = 0
    /\ answer' = [answer EXCEPT ![a] = "refused"]
    /\ UNCHANGED level

Refill ==
    /\ level' = [a \in Addrs |-> Filled(level[a])]
    /\ UNCHANGED answer

Next == (\E a \in Addrs : Admit(a) \/ Refuse(a)) \/ Refill

Spec == Init /\ [][Next]_<<level, answer>>

=============================================================================
