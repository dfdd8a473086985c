-------------------------- MODULE MCServicesManager --------------------------
(* A small instance of ServicesManager: one configured service and two threads *)
(* on which administrators register, edit, delete and reload.                  *)
EXTENDS ServicesManager, TLC

Symmetry == Permutations(Threads)
=============================================================================
