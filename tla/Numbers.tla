------------------------------ MODULE Numbers ------------------------------
(***************************************************************************)
(* What the functions of GMP that the programs call compute, as arithmetic *)
(* on numbers.  GmpBytes and GmpPowm show that GMP's code computes it.     *)
(*                                                                         *)
(* mpz_export writes the digits of a number without leading zeros to the   *)
(* front of a buffer of WIDTH digits and leaves the rest of the buffer as  *)
(* it was; mpz_import, as it is called, always reads all WIDTH digits.     *)
(***************************************************************************)
EXTENDS Powers, FiniteSets

CONSTANTS
    BASE,    \* values of a digit: 256 in the code
    WIDTH    \* digits of a buffer: DH_KEY_SIZE

ASSUME NumbersAssumption == BASE \in Nat \ {0, 1} /\ WIDTH \in Nat \ {0}

\* The value of a 1 in front of k digits: BASE ^ k.
Weight == [k \in 0 .. WIDTH |-> Power(BASE, k)]

BufferValues == 0 .. Weight[WIDTH] - 1

Short(n) == n < Weight[WIDTH - 1]

\* Digits of a buffer that mpz_export of n does not write.
Unwritten(n) == Cardinality({k \in 0 .. WIDTH - 1 : n < Weight[k]})

\* Mutant: one digit more than the buffer has is written.
Mut_Export(n, old) == n * Power(BASE, Unwritten(n) + 1)

\* mpz_export of n to a buffer that held old.
Export(n, old) ==
    (n * Weight[Unwritten(n)]) + (old % Weight[Unwritten(n)])

\* mpz_import of a whole buffer.
Import(buffer) == buffer

=============================================================================
