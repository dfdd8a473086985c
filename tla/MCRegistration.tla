--------------------------- MODULE MCRegistration ---------------------------
(* A small instance of Registration: two browsers, up to two users.            *)
EXTENDS Registration, TLC

Symmetry == Permutations(Browsers) \cup Permutations(Names) \cup Permutations(Nicks)
              \cup Permutations(ExternalAccounts)
=============================================================================
