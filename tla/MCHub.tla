------------------------------- MODULE MCHub -------------------------------
(* The hub with two clients that publish and two connections.  One client   *)
(* makes two requests, the first of which also notifies a member.           *)
(* Liveness is checked, hence no symmetry.                                  *)
EXTENDS Hub

CONSTANTS p1, p2, g, u      \* two publishers, a group topic, a user topic

Requests == [p \in Publishers |-> IF p = p1 THEN <<g, u, g>> ELSE <<g>>]
=============================================================================
