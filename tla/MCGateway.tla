---- MODULE MCGateway ----
(***************************************************************************)
(* A small instance of Gateway: one operator whose stamp rotates once, two *)
(* requests, entries of the cache that live one unit of time and reads     *)
(* that take at most one.                                                  *)
(***************************************************************************)
EXTENDS Gateway, TLC

Symmetry == Permutations(HttpRequests)
====
