-------------------------- MODULE MCSessionGateway --------------------------
(* SessionGateway with the requests interchangeable.                       *)
EXTENDS SessionGateway, TLC

RequestSymmetry == Permutations(Requests)
=============================================================================
