--------------------------- MODULE MCPasswordReset ---------------------------
(* A small instance of PasswordReset: one user, who has a telephone and a      *)
(* mailbox, and two requests at a time.                                        *)
EXTENDS PasswordReset, TLC

Symmetry == Permutations(Threads)
=============================================================================
