------------------------------- MODULE Powers -------------------------------
(***************************************************************************)
(* Powers, and modular powers, which mpz_powm is to compute, by their      *)
(* definitions.                                                            *)
(***************************************************************************)
EXTENDS Naturals

Power(b, e) ==
    LET power[n \in 0 .. e] == IF n = 0 THEN 1 ELSE power[n - 1] * b
    IN  power[e]

PowM(b, e, m) ==
    LET power[n \in 0 .. e] == IF n = 0 THEN 1 % m ELSE (power[n - 1] * b) % m
    IN  power[e]

=============================================================================
