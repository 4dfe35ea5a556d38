-------------------------- MODULE MCEventQueues --------------------------
(* Symmetry for TLC. *)
EXTENDS EventQueues, TLC

Symmetry == Permutations(Accounts) \cup Permutations(Contacts)
=============================================================================
