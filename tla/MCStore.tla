------------------------------ MODULE MCStore ------------------------------
(* Model checking of SystemStore. *)
EXTENDS SystemStore, TLC

MCSymmetry == Permutations(Clients)

=============================================================================
