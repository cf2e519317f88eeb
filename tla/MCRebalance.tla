----------------------------- MODULE MCRebalance -----------------------------
(* Endpoints of two types with main and prefixed sessions.                    *)
EXTENDS Rebalance, TLC

CONSTANT TekuEndpoints  \* the others are of type lighthouse

TwoTypes ==
    [e \in Endpoints |-> IF e \in TekuEndpoints THEN "teku" ELSE "lighthouse"]

SymmetricEndpoints == Permutations(Endpoints \ TekuEndpoints)

\* Sessions of both kinds ...
MixedPrefix == [s \in Sessions |-> IF s % 2 = 0 THEN AnyType ELSE "lighthouse"]

\* ... prefixed ones only ...
TypedPrefix == [s \in Sessions |-> "lighthouse"]

\* ... and main ones only.
MainPrefix == [s \in Sessions |-> AnyType]

=============================================================================
