----------------------------- MODULE MCCasServer -----------------------------
(* A small instance of CasServer: two logins and two validations that can      *)
(* overlap, a client that is configured and one that is not.                 *)
EXTENDS CasServer, TLC

Symmetry == Permutations(LoginThreads) \cup Permutations(ValidateThreads)

MCRequested ==
    {[page |-> p, jsessionid |-> FALSE] : p \in Services \cup {NoService}}
        \cup {[page |-> p, jsessionid |-> TRUE] : p \in ClientList}
=============================================================================
