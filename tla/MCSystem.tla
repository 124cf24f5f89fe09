------------------------------ MODULE MCSystem ------------------------------
(* Model checking of System. *)
EXTENDS System, TLC

MCSymmetry == Permutations(Clients)

=============================================================================
