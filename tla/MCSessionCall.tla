---------------------------- MODULE MCSessionCall ----------------------------
(* A stream or a plain call of one prefix, and the requests that its address  *)
(* makes with this prefix and another one.                                    *)
EXTENDS SessionCall

CONSTANT ip

MCOwner == <<ip, "main">>

=============================================================================
