------------------- MODULE MCCentralAuthenticationService -------------------
(* Small instances of CentralAuthenticationService: two request threads and    *)
(* the cleaner, a service with single sign-on and proxying, one without.       *)
EXTENDS CentralAuthenticationService, TLC

Symmetry == Permutations(Threads)
=============================================================================
