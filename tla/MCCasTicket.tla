----------------------------- MODULE MCCasTicket -----------------------------
(* A small instance of CasTicket: three threads, so that one call of Issue can *)
(* be overtaken by two others, and a counter that wraps within the bound.      *)
EXTENDS CasTicket, TLC

Symmetry == Permutations(Threads) \cup Permutations(Users)
=============================================================================
