---------------------------- MODULE MCRequestPath ----------------------------
(* Two clients, of which one has another type and the custody groups that a   *)
(* blob request needs, and two concurrent requests.                           *)
EXTENDS RequestPath, TLC

CONSTANTS lighthouse, teku, main  \* client types, and the main session

MCTypes == {lighthouse, teku}
MCTypeOf == [c \in Clients |-> IF c = 1 THEN teku ELSE lighthouse]
MCCgc == [c \in Clients |-> IF c = 0 THEN 4 ELSE 128]
MCMinCgcs == {0, 64}
MCPrefix == [s \in Sessions |-> IF s = main THEN AnyType ELSE s]
SymmetricRequests == Permutations(Requests)

=============================================================================
