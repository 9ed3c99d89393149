----------------------------- MODULE MCGateway -----------------------------
(* The instances of Gateway that TLC checks. *)
EXTENDS Gateway
=============================================================================
