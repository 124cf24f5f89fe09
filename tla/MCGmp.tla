------------------------------- MODULE MCGmp -------------------------------
(***************************************************************************)
(* Model checking of the functions of GMP: a behaviour is one call, of     *)
(* mpz_export and mpz_import (GmpBytes), of mpz_powm (GmpPowm) or of       *)
(* mpz_nextprime (GmpPrime).                                               *)
(***************************************************************************)
EXTENDS GmpPrime, Numbers

CONSTANTS
    BYTE_BITS, LIMB_BITS, ExportInputs,
    WindowLimits, Bases, Exponents, Moduli

VARIABLES
    bpc, z, held, data, dp, zp, limb, lbits, result,   \* of GmpBytes
    wpc, b, e, m, mp, pp, rp, ebi, rodd                \* of GmpPowm

Bytes == INSTANCE GmpBytes WITH pc <- bpc
Powm  == INSTANCE GmpPowm WITH pc <- wpc

ASSUME MCGmpAssumption == Bytes!BytesAssumption /\ Powm!PowmAssumption

\* All numbers of up to three bytes, and every fifth of those that fill the buffer.
MCExportInputs == {k \in 0 .. BASE ^ WIDTH - 1 : k < BASE ^ (WIDTH - 1) \/ k % 5 = 0}

(***************************************************************************)
(* Limbs of three bits, moduli of up to three limbs, windows of up to      *)
(* three bits.                                                             *)
(***************************************************************************)
MCWindowLimits == <<3, 6>>
MCBases == {0, 1, 2, 3, 5, 6, 8, 12, 63, 70, 200}
MCExponents == {0, 1, 2, 3, 5, 6, 7, 8, 11, 13, 22, 47, 64, 93, 127}
MCModuli == (1 .. 72) \cup {96, 121, 192, 255, 256, 257, 320, 384, 441, 509, 510, 511}

(***************************************************************************)
(* The ways of mpz_nextprime part at 167 and 512 instead of 310243 and     *)
(* 2 ^ 202, and a segment of the sieve has four numbers.  Among the inputs *)
(* are numbers just below strong pseudoprimes to base 2 (2047, 3277, 4033, *)
(* 4681, 8321), below strong Lucas pseudoprimes (5459, 5777, 10877) and    *)
(* below primes for which the search for D is a long one.                  *)
(***************************************************************************)
MCInputs ==
    (0 .. 260) \cup (480 .. 560)
    \cup UNION {x - 4 .. x : x \in {2047, 3277, 4033, 4681, 5459, 5777, 8321, 10877}}
    \cup UNION {x - 3 .. x - 1 : x \in {1171, 7459, 8191, 10651, 13381}}

MCRandomBases == {3, 10, 77}

\* The functions that are not called.
NoBytes ==
    /\ bpc = "idle"
    /\ z = 0 /\ held = 0 /\ data = << >> /\ dp = 0 /\ zp = 0
    /\ limb = 0 /\ lbits = 0 /\ result = 0

NoPowm ==
    /\ wpc = "idle"
    /\ b = 0 /\ e = 0 /\ m = 1
    /\ mp = 0 /\ pp = << >> /\ rp = 0 /\ ebi = 0 /\ rodd = 0

NoPrime ==
    /\ pc = "idle"
    /\ n = 0 /\ p = 0 /\ composite = {} /\ incr = 0 /\ difference = 0

MCInit ==
    \/ Bytes!Init /\ NoPowm /\ NoPrime
    \/ Powm!Init /\ NoBytes /\ NoPrime
    \/ Init /\ NoBytes /\ NoPowm

bytesvars == <<bpc, z, held, data, dp, zp, limb, lbits, result>>
powmvars == <<wpc, b, e, m, mp, pp, rp, ebi, rodd>>

MCNext ==
    \/ Bytes!Next /\ UNCHANGED <<powmvars, vars>>
    \/ Powm!Next /\ UNCHANGED <<bytesvars, vars>>
    \/ Next /\ UNCHANGED <<bytesvars, powmvars>>

MCvars == <<bytesvars, powmvars, vars>>

\* The process that searches for a prime runs.
MCSpec == MCInit /\ [][MCNext]_MCvars /\ WF_vars(Next)

-----------------------------------------------------------------------------
\* mpz_powm computes the power, for every way it may take.
PowerAgrees == Powm!PowerAgrees

\* The loops of mpn_powm hold the power of the bits they have seen.
PowerOfSeenBits == Powm!PowerOfSeenBits

\* The export loop of mpz_export writes what Numbers says.
ExportAgrees == Bytes!ExportAgrees

\* While it runs, no bit of the number is lost or written twice.
NothingLost == Bytes!NothingLost

\* The import loop of mpz_import reads the number that the whole buffer stands for.
ImportAgrees == Bytes!ImportAgrees

=============================================================================
