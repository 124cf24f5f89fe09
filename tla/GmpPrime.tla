------------------------------ MODULE GmpPrime ------------------------------
(***************************************************************************)
(* mpz_nextprime of GMP, which turns the random number of the initiator    *)
(* into the prime of the exchange.  A small number is stepped through by   *)
(* trial division.  For others, odd numbers are sieved in segments, with   *)
(* as many primes as the size of the number calls for, and those that are  *)
(* left are tested: a strong test to base 2, a strong Lucas test (by way   *)
(* of Fibonacci numbers where 5 is not a square) and, beyond the numbers   *)
(* for which these are known to be enough, one test to a random base.      *)
(*                                                                         *)
(* The sizes at which the code changes its ways are constants, so that     *)
(* small numbers meet all of them.                                         *)
(***************************************************************************)
EXTENDS Powers, Integers, FiniteSets

CONSTANTS
    LAST_PRIME,       \* of primegap_small; 557 in the code
    NP_SMALL_LIMIT,   \* the greatest prime below LAST_PRIME ^ 2
    SIEVE_LIMIT,      \* calculate_sievelimit
    OddsInSieve,      \* odds_in_composite_sieve
    BPSW_LIMIT,       \* numbers below are prime if they pass the first two tests
    RandomBases,      \* what mpz_urandomm may choose from
    Inputs

IsPrime(k) == k > 1 /\ \A d \in 2 .. k - 1 : d * d > k \/ k % d # 0

OddPrimes(k) == {d \in 3 .. k : IsPrime(d)}
NUMBER_OF_PRIMES == Cardinality(OddPrimes(LAST_PRIME)) - 1

\* The sieve only goes beyond the table for numbers that are greater by far.
ASSUME PrimeAssumption ==
    /\ LAST_PRIME \in Nat /\ LAST_PRIME >= 7
    /\ NP_SMALL_LIMIT \in LAST_PRIME + 1 .. LAST_PRIME * LAST_PRIME
    /\ IsPrime(LAST_PRIME) /\ IsPrime(NP_SMALL_LIMIT)
    /\ \A k \in NP_SMALL_LIMIT + 1 .. LAST_PRIME * LAST_PRIME : ~IsPrime(k)
    /\ SIEVE_LIMIT \in 1 .. Power(2, 2 * NUMBER_OF_PRIMES + 1) - 1
    /\ OddsInSieve \in Nat \ {0}
    /\ BPSW_LIMIT \in Nat
    /\ RandomBases \subseteq Nat
    /\ Inputs \subseteq Nat

VARIABLES
    pc,
    n,          \* the argument
    p,          \* the candidate, and in the end the result
    composite,  \* indices of the segment that are known to be composite
    incr,       \* index of the segment that the loop is at
    difference  \* from p to the number of this index

vars == <<pc, n, p, composite, incr, difference>>

Bits(k) == CHOOSE j \in 0 .. k : k < Power(2, j) /\ (j = 0 \/ k >= Power(2, j - 1))
Bit(k, j) == (k \div 2 ^ j) % 2
MakeOdd(k) == IF k % 2 = 0 THEN k + 1 ELSE k

-----------------------------------------------------------------------------
(***************************************************************************)
(* mpz_powm, the power that GmpPowm shows it to compute.                   *)
(***************************************************************************)
mpz_powm(b, e, m) ==
    LET square[y \in 0 .. m - 1] == (y * y) % m
        power[i \in 0 .. Bits(e)] ==  \* for the first i bits of e
            IF i = 0 THEN 1 % m
            ELSE (square[power[i - 1]]
                    * (IF Bit(e, Bits(e) - i) = 1 THEN b % m ELSE 1)) % m
    IN  power[Bits(e)]

(***************************************************************************)
(* millerrabin: the strong test of x to base a.                            *)
(***************************************************************************)
TwosOf(k) == CHOOSE j \in 0 .. Bits(k) : k % 2 ^ j = 0 /\ k % 2 ^ (j + 1) # 0

millerrabin(x, a) ==
    LET k == TwosOf(x - 1)
        y[i \in 0 .. k - 1] ==
            IF i = 0 THEN mpz_powm(a, (x - 1) \div 2 ^ k, x) ELSE mpz_powm(y[i - 1], 2, x)
    IN  y[0] = 1 \/ \E i \in 0 .. k - 1 : y[i] = x - 1

Pairs(x) == (0 .. x - 1) \X (0 .. x - 1)

(***************************************************************************)
(* mpn_strongfibo.  With x + 1 = 2 ^ b0 * k for an odd k, x passes if it   *)
(* divides F[k] or one of L[k], L[2k], ... L[2 ^ (b0 - 1) * k].  mpn_fib2m *)
(* has the pair F[k], F[k - 1] from doubling along the bits of k.          *)
(***************************************************************************)
mpn_fib2m(k, x) ==
    LET \* from F[q], F[q - 1], with the next bit of k
        double[q \in 0 .. k, bit \in 0 .. 1, f \in Pairs(x)] ==
            LET low  == f[1] * f[1] + f[2] * f[2]  \* F[2q - 1]
                high == 4 * f[1] * f[1] - f[2] * f[2] + (IF q % 2 = 1 THEN -2 ELSE 2)
            IN  IF bit = 1 THEN <<high % x, (high - low) % x>>
                ELSE <<(high - low) % x, low % x>>
        pair[j \in 0 .. Bits(k)] ==
            IF j = 0 THEN <<0, 1>>
            ELSE double[k \div 2 ^ (Bits(k) - j + 1), Bit(k, Bits(k) - j), pair[j - 1]]
    IN  pair[Bits(k)]

mpn_strongfibo(x) ==
    LET b0  == TwosOf(x + 1)
        fib == mpn_fib2m((x + 1) \div 2 ^ b0, x)
        square[l \in 0 .. x - 1] == l * l
        L[i \in 0 .. b0 - 1] ==
            IF i = 0 THEN (fib[1] + 2 * fib[2]) % x
            ELSE (square[L[i - 1]] + (IF i = 1 THEN 2 ELSE -2)) % x
    IN  fib[1] = 0 \/ \E i \in 0 .. b0 - 1 : L[i] = 0

(***************************************************************************)
(* mpz_lucas_mod and the loop that follows: the same with the sequences U  *)
(* and V for P = 1 and Q, from squares only.                               *)
(***************************************************************************)
mpz_lucas_mod(x, Q, b0) ==
    LET top == Bits(x) - 2
        \* from U[k], U[k + 1], with the next bit of x
        double[bit \in 0 .. 1, u \in Pairs(x)] ==
            LET even == u[2] * u[2] - (u[1] - u[2]) * (u[1] - u[2])  \* U[2k]
                odd  == u[2] * u[2] - Q * (u[1] * u[1])              \* U[2k + 1]
            IN  IF bit = 1 THEN <<odd % x, (odd - Q * (even % x)) % x>>
                ELSE <<even % x, odd % x>>
        U[bs \in b0 - 1 .. top] ==  \* for the bits of x above bs
            IF bs = top THEN <<1, 1>> ELSE double[Bit(x, bs + 1), U[bs + 1]]
        last[u \in Pairs(x)] ==
            [zero |-> u[2] = 0 \/ (u[2] - 2 * Q * u[1]) % x = 0,
             V    |-> (u[2] - 2 * Q * u[1]) % x,
             \* (V ^ 2 - U ^ 2) / 4 + Q * U ^ 2
             Qk   |-> (((Q * u[1]) % x) * ((Q * u[1] - u[2]) % x)
                         + Q * ((u[2] * u[2]) % x)) % x]
    IN  IF top < b0 THEN [zero |-> FALSE, V |-> 1, Qk |-> Q % x]
        ELSE last[U[b0 - 1]]

StrongLucasFor(x, D) ==
    LET Q  == IF D % 4 >= 2 THEN D \div 4 + 1 ELSE -(D \div 4)
        b0 == TwosOf(x + 1)
        r  == mpz_lucas_mod(x, Q, b0)
        double[v \in Pairs(x)] == <<(v[1] * v[1] - 2 * v[2]) % x, (v[2] * v[2]) % x>>
        VQ[i \in 0 .. b0 - 1] == IF i = 0 THEN <<r.V, r.Qk>> ELSE double[VQ[i - 1]]
    IN  r.zero \/ \E i \in 1 .. b0 - 1 : VQ[i][1] = 0

(***************************************************************************)
(* mpz_stronglucas looks for a D of which x is not a square.               *)
(***************************************************************************)
\* The Jacobi symbol, by the parity of the permutation that a is modulo D.
Jacobi(a, D) ==
    LET swapped == {ij \in (0 .. D - 1) \X (0 .. D - 1) :
                        /\ ij[1] < ij[2]
                        /\ ((a % D) * ij[1]) % D > ((a % D) * ij[2]) % D}
    IN  CASE \E d \in 2 .. D : D % d = 0 /\ a % d = 0 -> 0
          [] OTHER -> IF Cardinality(swapped) % 2 = 0 THEN 1 ELSE -1

limb_apprsqrt(x) ==
    LET s == Bits(x) \div 2
    IN  2 ^ (s - 1) + (x \div 2) \div 2 ^ s

IsSquare(x) == \E r \in 0 .. 2 ^ (Bits(x) \div 2 + 1) : r * r = x

\* The search goes through the numbers that 2 and 3 do not divide, for x of one
\* limb, which has maxD = limb_apprsqrt(x); larger numbers have other bounds.
SearchD(x) ==
    LET search[D \in 19 .. limb_apprsqrt(x) + 23] ==
            CASE Jacobi(x, D) = -1 -> StrongLucasFor(x, D)
              [] Jacobi(x, D) = 0 -> FALSE
              [] OTHER -> \/ D >= limb_apprsqrt(x)
                          \/ search[D + (IF D % 3 = 1 THEN 4 ELSE 2)]
    IN  search[19]

\* The first numbers are tried by remainders; 9 is a square, and x is no multiple of 3.
IsNonResidue(x, D) ==
    CASE D = 5  -> x % 5 \in {2, 3}
      [] D = 7  -> x % 7 \in {3, 5, 6}
      [] D = 11 -> Jacobi(x, 11) = -1
      [] D = 13 -> x % 13 \in {2, 5, 6, 7, 8, 11}
      [] D = 15 -> x % 3 = 2
      [] D = 17 -> x % 17 \in {3, 5, 6, 7, 10, 11, 12, 14}

FirstDs == {5, 7, 11, 13, 15, 17}

\* Mutant: the Lucas test is left out.
Mut_mpz_stronglucas(x) == TRUE

mpz_stronglucas(x) ==
    LET found == {D \in FirstDs : IsNonResidue(x, D)}
    IN  \/ /\ found = {}
           /\ ~(x % 8 = 1 /\ IsSquare(x))
           /\ SearchD(x)
        \/ \E D \in found :
              /\ \A f \in found : D <= f
              /\ IF D = 5 THEN mpn_strongfibo(x) ELSE StrongLucasFor(x, D)

\* mpz_millerrabin with 25 repetitions, for one of the random bases.
mpz_millerrabin(x, a) ==
    /\ millerrabin(x, 2)
    /\ mpz_stronglucas(x)
    /\ x >= BPSW_LIMIT => millerrabin(x, a)

-----------------------------------------------------------------------------
(***************************************************************************)
(* The primes to sieve with: as many as half the bits of the number, from  *)
(* the table; beyond the table as many as there are from 5 to SIEVE_LIMIT. *)
(***************************************************************************)
SievePrimes(x) ==
    LET half  == Bits(x) \div 2
        table == half <= NUMBER_OF_PRIMES
        limit == IF table THEN half ELSE Cardinality(OddPrimes(SIEVE_LIMIT) \ {3})
        all   == OddPrimes(IF table THEN LAST_PRIME ELSE SIEVE_LIMIT)
    IN  {d \in all : Cardinality({f \in all : f < d}) < limit}

\* The index of the first odd multiple of d.
\* Mutant: the distance to an even multiple is not corrected.
Mut_FirstMultiple(x, d) == ((-x) % d) \div 2

FirstMultiple(x, d) ==
    LET m == (-x) % d
    IN  (IF m % 2 = 1 THEN m + d ELSE m) \div 2

-----------------------------------------------------------------------------
Init ==
    /\ n \in Inputs
    /\ pc = "start"
    /\ p = 0 /\ composite = {} /\ incr = 0 /\ difference = 0

StartSmall ==
    LET t == IF n > 0 THEN n ELSE 1
    IN
    /\ pc = "start"
    /\ n < NP_SMALL_LIMIT
    /\ p' = IF t = 1 THEN 2 ELSE MakeOdd(t + 1)
    /\ pc' = "small"
    /\ UNCHANGED <<n, composite, incr, difference>>

\* findnext_small: odd primes are tried up to the square root.
SmallStep ==
    LET divides == {d \in OddPrimes(LAST_PRIME) : p \div d >= d /\ p % d = 0}
    IN
    /\ pc = "small"
    /\ \/ divides = {} /\ pc' = "done" /\ UNCHANGED p
       \/ divides # {} /\ p' = p + 2 /\ UNCHANGED pc
    /\ UNCHANGED <<n, composite, incr, difference>>

StartLarge ==
    /\ pc = "start"
    /\ n >= NP_SMALL_LIMIT
    /\ p' = MakeOdd(n + 1)
    /\ pc' = "sieve"
    /\ UNCHANGED <<n, composite, incr, difference>>

\* findnext: a segment is sieved.  The primes are chosen once, by the size of n + 1.
Sieve ==
    /\ pc = "sieve"
    /\ composite' = {i \in 0 .. OddsInSieve - 1 :
                        \E d \in SievePrimes(n + 1) :
                            /\ i >= FirstMultiple(p, d)
                            /\ (i - FirstMultiple(p, d)) % d = 0}
    /\ incr' = 0
    /\ difference' = 0
    /\ pc' = "scan"
    /\ UNCHANGED <<n, p>>

Skip ==
    /\ pc = "scan"
    /\ incr < OddsInSieve
    /\ incr \in composite
    /\ incr' = incr + 1
    /\ difference' = difference + 2
    /\ UNCHANGED <<pc, n, p, composite>>

TestCandidate ==
    LET x == p + difference
    IN
    /\ pc = "scan"
    /\ incr < OddsInSieve
    /\ incr \notin composite
    /\ p' = x
    /\ \E a \in {r \in RandomBases : r >= 3 /\ 2 * r < x} :
          \/ /\ mpz_millerrabin(x, a)
             /\ pc' = "done"
             /\ difference' = 0
             /\ UNCHANGED incr
          \/ /\ ~mpz_millerrabin(x, a)
             /\ incr' = incr + 1
             /\ difference' = 2
             /\ UNCHANGED pc
    /\ UNCHANGED <<n, composite>>

\* The end of a segment, from which the code sieves the next one ("very rare").
\* Mutant: p stays at the last number that was tested.
Mut_NextSegment ==
    /\ pc = "scan"
    /\ incr = OddsInSieve
    /\ difference' = 0
    /\ pc' = "sieve"
    /\ UNCHANGED <<n, p, composite, incr>>

NextSegment ==
    /\ pc = "scan"
    /\ incr = OddsInSieve
    /\ p' = p + difference
    /\ difference' = 0
    /\ pc' = "sieve"
    /\ UNCHANGED <<n, composite, incr>>

Next ==
    \/ StartSmall
    \/ SmallStep
    \/ StartLarge
    \/ Sieve
    \/ Skip
    \/ TestCandidate
    \/ NextSegment

Spec == Init /\ [][Next]_vars /\ WF_vars(Next)

-----------------------------------------------------------------------------
\* mpz_nextprime ends with a prime, whichever tests the candidates go through.
ResultIsPrime == pc = "done" => IsPrime(p)

(***************************************************************************)
(* The search of findnext and findnext_small passes no prime over: all     *)
(* numbers between the argument and the place that it is at are composite, *)
(* and so are all that the sieve has marked.                               *)
(***************************************************************************)
NoPrimeSkipped ==
    /\ pc # "start" => \A k \in n + 1 .. p + difference - 1 : ~IsPrime(k)
    /\ pc = "scan" => \A i \in composite : i >= incr => ~IsPrime(p + difference + 2 * (i - incr))

\* The search ends (there is always a prime that the tests let pass).
SearchEnds == pc = "start" ~> pc = "done"

=============================================================================
