------------------------------ MODULE GmpPowm ------------------------------
(***************************************************************************)
(* mpz_powm of GMP, with which all numbers of the key exchange are made:   *)
(* the early returns, the split of an even modulus into its odd part and a *)
(* power of two, the Montgomery powers with a sliding window (mpn_powm),   *)
(* the powers of two by doubling (mpn_2powm, used by the search for a      *)
(* prime), the powers modulo a power of two (mpn_powlo) and the putting    *)
(* together of the two.  A number whose buffer was read with stale bytes   *)
(* behind it may well be even, so an exchange can reach all of it.         *)
(*                                                                         *)
(* Limbs have LIMB_BITS bits.  REDC_2 and REDC_N, for moduli of many limbs,*)
(* are taken to reduce as REDC_1 does.                                     *)
(***************************************************************************)
EXTENDS Powers, Sequences, FiniteSets

CONSTANTS
    LIMB_BITS,
    WindowLimits,            \* the table of win_size
    Bases, Exponents, Moduli \* the arguments

LIMB == Power(2, LIMB_BITS)

\* MPN_SIZEINBASE_2EXP, limbs of a number, count_trailing_zeros (mpn_scan1).
Bits(n) == CHOOSE k \in 0 .. n : n < Power(2, k) /\ (k = 0 \/ n >= Power(2, k - 1))
Limbs(n) == (Bits(n) + LIMB_BITS - 1) \div LIMB_BITS
TrailingZeros(n) ==
    CHOOSE k \in 0 .. n : n % Power(2, k) = 0 /\ n % Power(2, k + 1) # 0

\* The zero bits at the end of a modulus are counted in a limb.
PowmAssumption ==
    /\ LIMB_BITS \in Nat \ {0}
    /\ WindowLimits \in Seq(Nat)
    /\ \A k \in 1 .. Len(WindowLimits) : WindowLimits[k] >= k
    /\ Bases \subseteq Nat
    /\ Exponents \subseteq Nat
    /\ Moduli \subseteq Nat \ {0}
    /\ \A k \in Moduli : TrailingZeros(k) <= LIMB

VARIABLES
    pc,
    b, e, m,  \* the arguments
    mp,       \* the odd part of m
    pp,       \* odd powers of b, in the form that the loop works with
    rp,       \* the result so far
    ebi,      \* bits of e that are left
    rodd      \* the power modulo the odd part

vars == <<pc, b, e, m, mp, pp, rp, ebi, rodd>>

\* 2 ^ twos is what m has besides its odd part; it takes ncnt limbs.
twos == TrailingZeros(m)
ncnt == (twos + LIMB_BITS - 1) \div LIMB_BITS
RLow == Power(LIMB, ncnt)

n == Limbs(mp)
R == Power(LIMB, n)

\* getbit and getbits: the nbits bits of e that start with bit bi.
getbit(bi) == (e \div Power(2, bi - 1)) % 2
getbits(bi, nbits) ==
    IF bi <= nbits THEN e % Power(2, bi)
    ELSE (e \div Power(2, bi - nbits)) % Power(2, nbits)

win_size(eb) == 1 + Cardinality({k \in 1 .. Len(WindowLimits) : eb > WindowLimits[k]})

(***************************************************************************)
(* MPN_REDC_1: u / R modulo mp, for u < R * R.  Each of the n turns adds   *)
(* the multiple of mp that clears the lowest limb.  The result is below R, *)
(* not always below mp: mp is subtracted only if there is a carry.         *)
(***************************************************************************)
NegInverse == CHOOSE i \in 0 .. LIMB - 1 : (i * mp) % LIMB = LIMB - 1
Inverse(mod) == CHOOSE i \in 0 .. mod - 1 : (i * mp) % mod = 1 % mod

\* Mutant: the carry of the last addition is lost.
Mut_Redc1(u) ==
    LET up[j \in 0 .. n] ==
            IF j = 0 THEN u
            ELSE (up[j - 1] + (((up[j - 1] % LIMB) * NegInverse) % LIMB) * mp) \div LIMB
    IN  up[n] % R

Redc1(u) ==
    LET up[j \in 0 .. n] ==
            IF j = 0 THEN u
            ELSE (up[j - 1] + (((up[j - 1] % LIMB) * NegInverse) % LIMB) * mp) \div LIMB
    IN  IF up[n] >= R THEN up[n] - mp ELSE up[n]

\* MPN_REDC_0, for a modulus of one limb: by subtraction.
Redc0(u) ==
    LET p1 == (mp * (((u % LIMB) * Inverse(LIMB)) % LIMB)) \div LIMB
        u1 == u \div LIMB
    IN  IF u1 < p1 THEN u1 + mp - p1 ELSE u1 - p1

MpnReduce(u) == IF n = 1 THEN Redc0(u) ELSE Redc1(u)

redcify(u) == (u * R) % mp

\* The loops of mpn_powm and mpn_powlo differ in what they reduce with.
Reduce(u) == IF pc \in {"even", "lo"} THEN u % RLow ELSE MpnReduce(u)

Subtracted(u) == IF u >= mp THEN u - mp ELSE u

-----------------------------------------------------------------------------
NoTable == << >>

Init ==
    /\ pc = "start"
    /\ b \in Bases /\ e \in Exponents /\ m \in Moduli
    /\ mp = 0 /\ pp = NoTable /\ rp = 0 /\ ebi = 0 /\ rodd = 0

\* mpz_powm up to the call of mpn_powm.
Return(r) ==
    /\ pc' = "done"
    /\ rp' = r
    /\ UNCHANGED <<b, e, m, mp, pp, ebi, rodd>>

Early ==
    /\ pc = "start"
    /\ \/ e = 0 /\ Return(IF m = 1 THEN 0 ELSE 1)
       \/ e # 0 /\ b = 0 /\ Return(0)
       \/ e = 1 /\ b # 0 /\ Return(b % m)

Split ==
    /\ pc = "start"
    /\ e > 1 /\ b # 0
    /\ mp' = m \div Power(2, twos)
    /\ pc' = IF b = 2 THEN "table2" ELSE "table"
    /\ UNCHANGED <<b, e, m, pp, rp, ebi, rodd>>

(***************************************************************************)
(* The table of odd powers: first, and the factor from each to the next.   *)
(* The loop starts with the first window of e, for which the power is in   *)
(* the table, up to the zeros at its end.                                  *)
(***************************************************************************)
Table(first, square) ==
    LET w == win_size(Bits(e))
        table[i \in 0 .. Power(2, w - 1) - 1] ==
            IF i = 0 THEN first ELSE Reduce(table[i - 1] * square)
    IN  table

StartLoop(table) ==
    LET w == win_size(Bits(e))
        expbits == getbits(Bits(e), w)
        cnt == TrailingZeros(expbits)
    IN
    /\ pp' = table
    /\ ebi' = Bits(e) - w + cnt
    /\ rp' = table[(expbits \div Power(2, cnt)) \div 2]

MakeTable ==
    /\ pc = "table"
    /\ StartLoop(Table(redcify(b), Redc1(redcify(b) * redcify(b))))
    /\ pc' = "odd"
    /\ UNCHANGED <<b, e, m, mp, rodd>>

Squared(r, k) ==
    LET square[i \in 0 .. k] ==
            IF i = 0 THEN r ELSE Reduce(square[i - 1] * square[i - 1])
    IN  square[k]

\* INNERLOOP: a zero bit of e.
SquareStep ==
    /\ pc \in {"odd", "lo"}
    /\ ebi # 0
    /\ getbit(ebi) = 0
    /\ rp' = Squared(rp, 1)
    /\ ebi' = ebi - 1
    /\ UNCHANGED <<pc, b, e, m, mp, pp, rodd>>

\* INNERLOOP: a window that starts and ends with a one.
\* A window at the end of e may be shorter than the others.
ThisWindow(w) == IF ebi < w THEN ebi ELSE w

WindowStep ==
    LET w == win_size(Bits(e))
        expbits == getbits(ebi, w)
        cnt == TrailingZeros(expbits)
        this_windowsize == ThisWindow(w) - cnt
    IN
    /\ pc \in {"odd", "lo"}
    /\ ebi # 0
    /\ getbit(ebi) = 1
    /\ rp' = Reduce(Squared(rp, this_windowsize)
                    * pp[(expbits \div Power(2, cnt)) \div 2])
    /\ ebi' = ebi - this_windowsize
    /\ UNCHANGED <<pc, b, e, m, mp, pp, rodd>>

\* mpz_powm goes on with the other part of an even modulus, or is done.
AfterOdd(r) ==
    /\ rodd' = r
    /\ rp' = r
    /\ pc' = IF twos = 0 THEN "done" ELSE "even"
    /\ UNCHANGED <<b, e, m, mp, pp, ebi>>

FinishOdd ==
    /\ pc = "odd"
    /\ ebi = 0
    /\ AfterOdd(Subtracted(Redc1(rp)))

(***************************************************************************)
(* mpn_2powm.  The first bits of e give a power of two that is a shift; if *)
(* that is all of e, it is the result.                                     *)
(***************************************************************************)
Shift ==
    LET mbi == Bits(mp)
        count == Bits(mbi)
        tbi == getbits(Bits(e), count)
    IN
    /\ pc = "table2"
    /\ \/ /\ tbi < mbi
          /\ Bits(e) <= count
          /\ AfterOdd(Power(2, tbi))
       \/ /\ tbi >= mbi \/ Bits(e) > count
          /\ rp' = redcify(Power(2, IF tbi >= mbi THEN tbi \div 2 ELSE tbi))
          /\ ebi' = Bits(e) - (IF tbi >= mbi THEN count - 1 ELSE count)
          /\ pc' = "two"
          /\ UNCHANGED <<b, e, m, mp, pp, rodd>>

\* INNERLOOP2, and its form for a modulus of one limb.
Doubled(r) ==
    IF n = 1 THEN (IF r > mp \div 2 THEN 2 * r - mp ELSE 2 * r)
    ELSE IF r < Power(2, Bits(mp) - 1) THEN 2 * r ELSE 2 * r - mp

DoubleStep ==
    LET square == MpnReduce(rp * rp)
        r == IF n = 1 THEN square ELSE Subtracted(square)
    IN
    /\ pc = "two"
    /\ ebi # 0
    /\ rp' = IF getbit(ebi) = 1 THEN Doubled(r) ELSE r
    /\ ebi' = ebi - 1
    /\ UNCHANGED <<pc, b, e, m, mp, pp, rodd>>

FinishTwo ==
    /\ pc = "two"
    /\ ebi = 0
    /\ AfterOdd(IF n = 1 THEN Redc0(rp) ELSE Subtracted(Redc1(rp)))

(***************************************************************************)
(* The even modulus: mpn_powlo, unless b has so many factors of two that   *)
(* the power is zero; then the two results are put together.  LowZeros is  *)
(* the number of zero bits at the end of b, up to 3.                       *)
(***************************************************************************)
\* Mutant: a base with two zero bits is taken to have three.
Mut_LowZeros == IF b % 4 = 0 THEN 3 ELSE 1

LowZeros == CASE b % 8 = 0 -> 3 [] b % 8 = 4 -> 2 [] OTHER -> 1

IsZeroLow == b % 2 = 0 /\ (Limbs(e) > 1 \/ (e * LowZeros) % LIMB >= twos)

StartLo ==
    LET low == b % RLow IN
    /\ pc = "even"
    /\ \/ /\ IsZeroLow
          /\ pc' = "combine"
          /\ rp' = 0
          /\ UNCHANGED <<pp, ebi>>
       \/ /\ ~IsZeroLow
          /\ pc' = "lo"
          /\ StartLoop(Table(low, Reduce(low * low)))
    /\ UNCHANGED <<b, e, m, mp, rodd>>

FinishLo ==
    /\ pc = "lo"
    /\ ebi = 0
    /\ pc' = "combine"
    /\ UNCHANGED <<b, e, m, mp, pp, rp, ebi, rodd>>

Combine ==
    LET mod  == RLow
        diff == (rp + mod - (rodd % mod)) % mod
        xp   == ((Inverse(mod) * diff) % mod) % Power(2, twos)
    IN
    /\ pc = "combine"
    /\ rp' = xp * mp + rodd
    /\ pc' = "done"
    /\ UNCHANGED <<b, e, m, mp, pp, ebi, rodd>>

Next ==
    \/ Early
    \/ Split
    \/ MakeTable
    \/ SquareStep
    \/ WindowStep
    \/ FinishOdd
    \/ Shift
    \/ DoubleStep
    \/ FinishTwo
    \/ StartLo
    \/ FinishLo
    \/ Combine

Spec == Init /\ [][Next]_vars

-----------------------------------------------------------------------------
\* mpz_powm computes the power, for every way it may take.
PowerAgrees == pc = "done" => rp = PowM(b, e, m)

(***************************************************************************)
(* The loops keep the power of the bits they have seen: after all but ebi  *)
(* bits of e, rp is the power by these bits, in Montgomery form (times R   *)
(* modulo the odd part) or modulo the power of two.  It always fits the n  *)
(* limbs it is stored in, though it may be as large as the modulus.        *)
(***************************************************************************)
Seen == e \div Power(2, ebi)

PowerOfSeenBits ==
    /\ pc \in {"odd", "two"} =>
           /\ rp < R
           /\ rp % mp = (PowM(b, Seen, mp) * R) % mp
    /\ pc = "lo" => rp = PowM(b, Seen, RLow)

=============================================================================
