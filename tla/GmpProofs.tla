----------------------------- MODULE GmpProofs -----------------------------
(***************************************************************************)
(* Proofs about the functions of GMP, for limbs and bytes of any width and *)
(* buffers of any length.                                                  *)
(***************************************************************************)
EXTENDS MCGmp, Arithmetic

(***************************************************************************)
(* mpz_export and mpz_import.  T(k) is 2 ^ k, and W(k) the weight of the   *)
(* digit (the byte) of a number that has k digits behind it.               *)
(***************************************************************************)
T(k) == Power(2, k)
W(k) == T(BYTE_BITS * k)
Digit(x, k) == (x \div W(k)) % BASE

\* The widths.
LEMMA Widths ==
    /\ BYTE_BITS \in Nat \ {0} /\ LIMB_BITS \in Nat \ {0} /\ BYTE_BITS <= LIMB_BITS
    /\ WIDTH \in Nat \ {0} /\ BASE \in Nat \ {0, 1} /\ BASE = T(BYTE_BITS)
<1>1. Bytes!Power(2, BYTE_BITS) = Power(2, BYTE_BITS)
  BY DEF Bytes!Power, Power
<1> QED
  BY <1>1, MCGmpAssumption, NumbersAssumption DEF Bytes!BytesAssumption, T

\* Powers of two.
LEMMA Twos ==
    /\ T(0) = 1
    /\ \A j \in Nat : T(j) \in Nat \ {0}
    /\ \A j, k \in Nat : T(j + k) = T(j) * T(k)
  BY PowerRecursion, PowerPositive, PowerSum DEF T

\* Weights.
LEMMA Weights ==
    /\ W(0) = 1 /\ W(1) = BASE
    /\ \A j \in Nat : W(j) \in Nat \ {0}
    /\ \A j, k \in Nat : W(j + k) = W(j) * W(k)
<1>1. BYTE_BITS * 0 = 0 /\ BYTE_BITS * 1 = BYTE_BITS
  BY Widths
<1>2. \A j, k \in Nat : BYTE_BITS * (j + k) = (BYTE_BITS * j) + (BYTE_BITS * k)
  BY Widths
<1>3. \A j \in Nat : BYTE_BITS * j \in Nat
  BY Widths
<1>4. W(0) = 1 /\ W(1) = BASE
  BY <1>1, Twos, Widths DEF W
<1>5. \A j \in Nat : W(j) \in Nat \ {0}
  BY <1>3, Twos DEF W
<1>6. ASSUME NEW j \in Nat, NEW k \in Nat
      PROVE  W(j + k) = W(j) * W(k)
  <2>1. T((BYTE_BITS * j) + (BYTE_BITS * k)) = T(BYTE_BITS * j) * T(BYTE_BITS * k)
    BY <1>3, Twos
  <2> QED
    BY <1>2, <2>1 DEF W
<1> QED
  BY <1>4, <1>5, <1>6

\* The names that the models have for these numbers.
LEMMA WeightIs == \A k \in 0 .. WIDTH : Bytes!Weight[k] = W(k)
<1> SUFFICES ASSUME NEW k \in 0 .. WIDTH PROVE Bytes!Weight[k] = W(k)
  OBVIOUS
<1>1. Bytes!Power(BASE, k) = Power(BASE, k)
  BY DEF Bytes!Power, Power
<1>2. Power(BASE, k) = T(BYTE_BITS * k)
  BY Widths, PowerProduct DEF T
<1> QED
  BY <1>1, <1>2 DEF Bytes!Weight, W

\* A limb.
LEMMA LimbIs ==
    /\ Bytes!LIMB = T(LIMB_BITS)
    /\ \A k \in Nat : Bytes!Power(Bytes!LIMB, k) = T(LIMB_BITS * k)
    /\ \A k \in Nat : Bytes!Power(2, k) = T(k)
<1>1. \A x, k : Bytes!Power(x, k) = Power(x, k)
  BY DEF Bytes!Power, Power
<1>2. Bytes!LIMB = T(LIMB_BITS)
  BY <1>1 DEF Bytes!LIMB, T
<1>3. \A k \in Nat : Power(T(LIMB_BITS), k) = T(LIMB_BITS * k)
  BY Widths, PowerProduct DEF T
<1> QED
  BY <1>1, <1>2, <1>3 DEF T

\* Digits are below BASE, and a number is its last digits and the others.
LEMMA Digits ==
    ASSUME NEW x \in Nat, NEW k \in Nat
    PROVE  /\ Digit(x, k) \in 0 .. BASE - 1
           /\ x % W(k) \in 0 .. W(k) - 1
           /\ x \div W(k) \in Nat
           /\ x \div W(k) = (BASE * (x \div W(k + 1))) + Digit(x, k)
           /\ x % W(k + 1) = (W(k) * Digit(x, k)) + (x % W(k))
<1>1. W(k) \in Nat \ {0} /\ BASE \in Nat \ {0} /\ W(k + 1) = W(k) * BASE
  BY Weights, Widths
<1>2. PICK q \in Nat : q = x \div W(k)
  BY <1>1, Remainder
<1>3. q % BASE \in 0 .. BASE - 1 /\ q = (BASE * (q \div BASE)) + (q % BASE)
  BY <1>1, Remainder
<1>4. /\ x \div W(k + 1) = q \div BASE
      /\ x % W(k + 1) = (W(k) * (q % BASE)) + (x % W(k))
  <2>1. /\ x \div (W(k) * BASE) = (x \div W(k)) \div BASE
        /\ x % (W(k) * BASE) = (W(k) * ((x \div W(k)) % BASE)) + (x % W(k))
    BY ONLY <1>1, x \in Nat, DivideTwice
  <2> QED
    BY <1>1, <1>2, <2>1, Zenon
<1>5. x % W(k) \in 0 .. W(k) - 1
  BY <1>1, Remainder
<1> QED
  BY <1>2, <1>3, <1>4, <1>5 DEF Digit

\* A number has the same digits as its last k ones, and then zeros.
LEMMA LastDigits ==
    ASSUME NEW x \in Nat, NEW k \in Nat, NEW j \in Nat
    PROVE  Digit(x % W(k), j) = IF j < k THEN Digit(x, j) ELSE 0
<1>1. W(k) \in Nat \ {0} /\ W(j) \in Nat \ {0} /\ BASE \in Nat \ {0}
  BY Weights, Widths
<1>2. PICK r \in 0 .. W(k) - 1 : r = x % W(k)
  BY <1>1, Remainder
<1>3. CASE j < k
  <2>1. PICK i \in Nat : k = j + (1 + i)
    <3>1. k - j - 1 \in Nat /\ k = j + (1 + (k - j - 1))
      BY <1>3
    <3> QED
      BY <3>1
  <2>2. PICK w \in Nat \ {0} : w = W(i)
    BY Weights
  <2>3. W(k) = W(j) * (BASE * w)
    <3>1. 1 \in Nat /\ 1 + i \in Nat
      OBVIOUS
    <3>2. W(j + (1 + i)) = W(j) * W(1 + i) /\ W(1 + i) = W(1) * W(i) /\ W(1) = BASE
      BY <3>1, Weights, Zenon
    <3> QED
      BY <2>1, <2>2, <3>2, Zenon
  <2>4. BASE * w \in Nat \ {0}
    BY <1>1
  <2>5. r \div W(j) = (x \div W(j)) % (BASE * w)
    <3>1. PICK v \in Nat \ {0}, y \in Nat \ {0} : v = W(j) /\ y = BASE * w
      BY <1>1, <2>4
    <3>2. (x % (v * y)) \div v = (x \div v) % y
      BY DivideRemainder
    <3> QED
      BY <1>2, <2>3, <3>1, <3>2
  <2>6. x \div W(j) \in Nat
    BY <1>1, Remainder
  <2>7. ((x \div W(j)) % (BASE * w)) % BASE = (x \div W(j)) % BASE
    BY <1>1, <2>6, DivideRemainder
  <2> QED
    BY <1>2, <1>3, <2>5, <2>7 DEF Digit
<1>4. CASE ~(j < k)
  <2>1. W(k) <= W(j)
    <3>1. BYTE_BITS * k \in Nat /\ BYTE_BITS * j \in Nat /\ BYTE_BITS * k <= BYTE_BITS * j
      BY <1>4, Widths
    <3> QED
      BY <3>1, PowerMonotone DEF W, T
  <2>2. r \in 0 .. W(j) - 1
    BY <1>1, <2>1
  <2>3. r \div W(j) = 0 /\ 0 % BASE = 0
    BY <1>1, <2>2, BelowDivisor
  <2> QED
    BY <1>2, <1>4, <2>3 DEF Digit
<1> QED
  BY <1>3, <1>4

\* The digits of a number that is written in front of another.
LEMMA ShiftedDigits ==
    ASSUME NEW x \in Nat, NEW k \in Nat, NEW y \in 0 .. W(k) - 1, NEW j \in Nat
    PROVE  Digit((W(k) * x) + y, j) = IF j < k THEN Digit(y, j) ELSE Digit(x, j - k)
<1>1. PICK v \in Nat \ {0} : v = W(k)
  BY Weights
<1>2. PICK u \in Nat : u = (v * x) + y
  BY <1>1
<1>3. u \div v = x /\ u % v = y
  BY <1>1, <1>2, Quotient
<1>4. CASE j < k
  BY <1>1, <1>2, <1>3, <1>4, LastDigits
<1>5. CASE ~(j < k)
  <2>1. PICK i \in Nat : i = j - k /\ j = k + i
    BY <1>5
  <2>2. PICK w \in Nat \ {0} : w = W(i)
    BY Weights
  <2>3. W(j) = v * w
    BY <1>1, <2>1, <2>2, Weights
  <2>4. u \div (v * w) = x \div w
    BY <1>3, DivideTwice
  <2> QED
    BY <1>1, <1>2, <1>5, <2>1, <2>2, <2>3, <2>4 DEF Digit
<1> QED
  BY <1>4, <1>5

\* A buffer that holds the digits of a number stands for it.
LEMMA ValueOfDigits ==
    ASSUME NEW x \in 0 .. W(WIDTH) - 1, NEW buffer,
           \A i \in 1 .. WIDTH : buffer[i] = Digit(x, WIDTH - i)
    PROVE  Bytes!ValueOf(buffer) = x
<1> DEFINE Rec(f) == f = [i \in 0 .. WIDTH |->
                             IF i = 0 THEN 0 ELSE (f[i - 1] * BASE) + buffer[i]]
           value[i \in 0 .. WIDTH] ==
               IF i = 0 THEN 0 ELSE (value[i - 1] * BASE) + buffer[i]
           known == [i \in 0 .. WIDTH |-> x \div W(WIDTH - i)]
           S == {i \in 0 .. WIDTH : value[i] = known[i]}
<1>1. WIDTH \in Nat \ {0} /\ BASE \in Nat \ {0} /\ W(WIDTH) \in Nat \ {0} /\ x \in Nat
  BY Widths, Weights
<1>2. ASSUME NEW i \in 1 .. WIDTH
      PROVE  known[i] = (known[i - 1] * BASE) + buffer[i]
  <2>1. PICK k \in Nat : k = WIDTH - i
    BY <1>1
  <2>2. /\ i \in 0 .. WIDTH /\ i - 1 \in 0 .. WIDTH
        /\ WIDTH - (i - 1) = k + 1
    BY <1>1, <2>1
  <2>3. known[i] = x \div W(k) /\ known[i - 1] = x \div W(k + 1)
    BY <2>1, <2>2
  <2>4. x \div W(k) = (BASE * (x \div W(k + 1))) + Digit(x, k) /\ x \div W(k + 1) \in Nat
    <3>1. k + 1 \in Nat
      OBVIOUS
    <3> QED
      BY <1>1, <3>1, Digits
  <2>5. BASE * (x \div W(k + 1)) = (x \div W(k + 1)) * BASE
    BY <1>1, <2>4
  <2> QED
    BY <2>1, <2>3, <2>4, <2>5
<1>3. known[0] = 0
  <2>1. x \div W(WIDTH) = 0
    BY <1>1, BelowDivisor
  <2> QED
    BY <1>1, <2>1
<1>4. Rec(known)
  <2>1. known = [i \in 0 .. WIDTH |-> known[i]]
    OBVIOUS
  <2> HIDE DEF known
  <2>2. \A i \in 0 .. WIDTH :
            known[i] = IF i = 0 THEN 0 ELSE (known[i - 1] * BASE) + buffer[i]
    BY <1>1, <1>2, <1>3
  <2> QED
    BY <2>1, <2>2
<1>5. Rec(value)
  <2> HIDE DEF known
  <2> QED
    BY <1>4, Zenon
<1>6. Bytes!ValueOf(buffer) = value[WIDTH]
  BY DEF Bytes!ValueOf
<1> HIDE DEF value, known
<1>7. 0 \in S
  <2>1. 0 \in 0 .. WIDTH
    BY <1>1
  <2>2. value[0] = 0
    BY <1>5, <2>1, Zenon
  <2> QED
    BY <1>3, <2>1, <2>2
<1>8. ASSUME NEW i \in 0 .. WIDTH - 1, i \in S PROVE i + 1 \in S
  <2>1. i + 1 \in 0 .. WIDTH /\ i + 1 \in 1 .. WIDTH /\ i + 1 # 0 /\ (i + 1) - 1 = i
    BY <1>1
  <2>2. value[i + 1] = (value[i] * BASE) + buffer[i + 1]
    BY <1>5, <2>1, Zenon
  <2>3. known[i + 1] = (known[i] * BASE) + buffer[i + 1]
    BY <1>2, <2>1, Zenon
  <2> QED
    BY <1>8, <2>1, <2>2, <2>3
<1> HIDE DEF S
<1>9. \A i \in 0 .. WIDTH : i \in S
  BY <1>1, <1>7, <1>8, UpToInduction
<1>10. known[WIDTH] = x
  <2>1. WIDTH \in 0 .. WIDTH /\ WIDTH - WIDTH = 0 /\ W(0) = 1
    BY <1>1, Weights
  <2>2. x \div 1 = x
    BY <1>1
  <2> QED
    BY <2>1, <2>2 DEF known
<1> QED
  BY <1>1, <1>6, <1>9, <1>10 DEF S

\* The numbers that fit a buffer.
LEMMA FitBuffer == Bytes!BufferValues = 0 .. W(WIDTH) - 1
<1>1. WIDTH \in 0 .. WIDTH
  BY Widths
<1>2. Bytes!Weight[WIDTH] = W(WIDTH)
  BY <1>1, WeightIs
<1> QED
  BY <1>2 DEF Bytes!BufferValues

\* The digits that mpz_export writes.
LEMMA Counted ==
    ASSUME NEW x \in Bytes!BufferValues
    PROVE  /\ Bytes!CountOf(x) \in 0 .. WIDTH
           /\ Bytes!Unwritten(x) = WIDTH - Bytes!CountOf(x)
           /\ x < W(Bytes!CountOf(x))
<1> DEFINE u == Bytes!Unwritten(x)
<1>1. BASE \in Nat \ {0} /\ WIDTH \in Nat
  BY Widths
<1>2. \A k \in Nat : Power(BASE, k) = W(k)
  BY Widths, PowerProduct DEF W, T
<1>3. x \in 0 .. Power(BASE, WIDTH) - 1
  BY <1>1, <1>2, FitBuffer
<1>4. u = Cardinality({k \in 0 .. WIDTH - 1 : x < Power(BASE, k)})
  <2>1. \A k \in 0 .. WIDTH - 1 : Bytes!Weight[k] = Power(BASE, k)
    BY <1>1, <1>2, WeightIs
  <2>2. {k \in 0 .. WIDTH - 1 : x < Bytes!Weight[k]}
            = {k \in 0 .. WIDTH - 1 : x < Power(BASE, k)}
    BY <2>1
  <2> QED
    BY <2>2, Zenon DEF Bytes!Unwritten, Bytes!Cardinality, Cardinality
<1> HIDE DEF u
<1>5. u \in 0 .. WIDTH /\ x < Power(BASE, WIDTH - u)
  BY <1>1, <1>3, <1>4, LeadingZeros
<1>6. Bytes!CountOf(x) = WIDTH - u
  BY DEF Bytes!CountOf, u
<1>7. WIDTH - u \in 0 .. WIDTH /\ u = WIDTH - (WIDTH - u)
  BY <1>1, <1>5
<1>8. Power(BASE, WIDTH - u) = W(WIDTH - u)
  BY <1>2, <1>7
<1> QED
  BY <1>5, <1>6, <1>7, <1>8 DEF u

\* What mpz_export is to write: the digits of x, and then those of y.
LEMMA ExportIs ==
    ASSUME NEW x \in Bytes!BufferValues, NEW y \in Bytes!BufferValues
    PROVE  /\ Bytes!Export(x, y) \in 0 .. W(WIDTH) - 1
           /\ \A i \in 1 .. WIDTH :
                  Digit(Bytes!Export(x, y), WIDTH - i) =
                      IF i <= Bytes!CountOf(x) THEN Digit(x, Bytes!CountOf(x) - i)
                      ELSE Digit(y, WIDTH - i)
<1>1. PICK c \in 0 .. WIDTH : c = Bytes!CountOf(x)
  BY Counted
<1>2. PICK k \in 0 .. WIDTH : k = WIDTH - c
  BY Widths
<1>3. PICK w \in Nat \ {0} : w = W(k)
  <2>1. k \in Nat
    BY Widths
  <2> QED
    BY <2>1, Weights
<1>4. x \in Nat /\ y \in Nat /\ WIDTH \in Nat
  BY FitBuffer, Weights, Widths
<1>5. PICK r \in 0 .. w - 1 : r = y % w
  BY <1>4, Remainder
<1>6. Bytes!Export(x, y) = (w * x) + r
  <2>1. Bytes!Weight[Bytes!Unwritten(x)] = w
    BY <1>1, <1>2, <1>3, Counted, WeightIs
  <2> QED
    BY <1>3, <1>4, <1>5, <2>1 DEF Bytes!Export
<1>7. (w * x) + r \in 0 .. W(WIDTH) - 1
  <2>1. PICK v \in Nat : v = W(c) /\ x + 1 <= v
    BY <1>1, <1>4, Widths, Weights, Counted
  <2>2. W(WIDTH) = w * v
    <3>1. WIDTH = k + c /\ k \in Nat /\ c \in Nat
      BY <1>2, <1>4
    <3> QED
      BY <1>3, <2>1, <3>1, Weights
  <2>3. w * (x + 1) <= w * v
    <3>1. \A h, i, j \in Nat : h <= i => j * h <= j * i
      OBVIOUS
    <3> QED
      BY <1>4, <2>1, <3>1
  <2>4. w * (x + 1) = (w * x) + w /\ w * x \in Nat
    BY <1>4
  <2> QED
    BY <2>2, <2>3, <2>4
<1>8. ASSUME NEW i \in 1 .. WIDTH
      PROVE  Digit((w * x) + r, WIDTH - i)
                 = IF i <= c THEN Digit(x, c - i) ELSE Digit(y, WIDTH - i)
  <2>1. PICK j \in Nat : j = WIDTH - i
    BY <1>4
  <2>2. j < k <=> ~(i <= c)
    BY <1>2, <1>4, <2>1
  <2>3. i <= c => j - k = c - i
    BY <1>2, <1>4, <2>1
  <2>4. Digit((w * x) + r, j) = IF j < k THEN Digit(r, j) ELSE Digit(x, j - k)
    <3>1. k \in Nat /\ r \in 0 .. W(k) - 1
      BY <1>2, <1>3
    <3> QED
      BY <1>3, <1>4, <3>1, ShiftedDigits
  <2>5. j < k => Digit(r, j) = Digit(y, j)
    BY <1>2, <1>3, <1>4, <1>5, LastDigits
  <2> QED
    BY <2>1, <2>2, <2>3, <2>4, <2>5
<1> QED
  BY <1>1, <1>6, <1>7, <1>8

-----------------------------------------------------------------------------
(***************************************************************************)
(* EXTRACT.  The rest x of the number is what waits in limb, l, with k     *)
(* bits, and in front of it y, the limbs that are not fetched yet.         *)
(***************************************************************************)
\* The byte is taken from limb.
LEMMA ExtractFromLimb ==
    ASSUME NEW k \in Nat, BYTE_BITS <= k, NEW l \in 0 .. T(k) - 1, NEW y \in Nat,
           NEW x, x = l + (T(k) * y)
    PROVE  /\ l % BASE = x % BASE
           /\ l \div BASE \in 0 .. T(k - BYTE_BITS) - 1
           /\ x \div BASE = (l \div BASE) + (T(k - BYTE_BITS) * y)
<1>1. PICK j \in Nat : j = k - BYTE_BITS /\ k = BYTE_BITS + j
  BY Widths
<1>2. PICK h \in Nat \ {0} : h = T(j)
  BY Twos
<1>3. BASE \in Nat \ {0} /\ T(k) = BASE * h
  BY <1>1, <1>2, Twos, Widths
<1>4. l \in Nat /\ l \in 0 .. (BASE * h) - 1
  BY <1>3
<1>5. PICK f \in Nat : f = h * y
  OBVIOUS
<1>6. x = l + (BASE * f)
  <2>1. (BASE * h) * y = BASE * (h * y)
    BY <1>3
  <2> QED
    BY <1>3, <1>5, <2>1
<1>7. x % BASE = l % BASE /\ x \div BASE = (l \div BASE) + f
  <2>1. (l + (BASE * f)) % BASE = l % BASE /\ (l + (BASE * f)) \div BASE = (l \div BASE) + f
    BY <1>3, <1>4, FrontDigits
  <2> QED
    BY <1>6, <2>1, Zenon
<1>8. l \div BASE \in 0 .. h - 1
  BY <1>3, <1>4, QuotientBelow
<1> QED
  BY <1>1, <1>2, <1>5, <1>7, <1>8

\* The byte needs bits of the next limb, g.
LEMMA ExtractFromNext ==
    ASSUME NEW k \in Nat, k < BYTE_BITS, NEW l \in 0 .. T(k) - 1, NEW y \in Nat,
           NEW x, x = l + (T(k) * y),
           NEW g, g = y % T(LIMB_BITS)
    PROVE  /\ (l + (g * T(k))) % BASE = x % BASE
           /\ g \div T(BYTE_BITS - k) \in 0 .. T((k + LIMB_BITS) - BYTE_BITS) - 1
           /\ x \div BASE = (g \div T(BYTE_BITS - k))
                   + (T((k + LIMB_BITS) - BYTE_BITS) * (y \div T(LIMB_BITS)))
<1>1. PICK i \in Nat, j \in Nat :
          /\ i = BYTE_BITS - k /\ BYTE_BITS = k + i
          /\ j = (k + LIMB_BITS) - BYTE_BITS /\ LIMB_BITS = i + j
  <2>1. /\ BYTE_BITS - k \in Nat /\ BYTE_BITS = k + (BYTE_BITS - k)
        /\ (k + LIMB_BITS) - BYTE_BITS \in Nat
        /\ LIMB_BITS = (BYTE_BITS - k) + ((k + LIMB_BITS) - BYTE_BITS)
    BY Widths
  <2> QED
    BY <2>1
<1>2. PICK t \in Nat \ {0}, u \in Nat \ {0}, v \in Nat \ {0} :
          t = T(k) /\ u = T(i) /\ v = T(j)
  BY Twos
<1>3. BASE = t * u /\ T(LIMB_BITS) = u * v
  BY <1>1, <1>2, Twos, Widths
<1>4. PICK q \in Nat : q = y \div T(LIMB_BITS) /\ y = ((u * v) * q) + g
  <2>1. T(LIMB_BITS) \in Nat \ {0}
    BY Twos, Widths
  <2> QED
    BY <1>3, <2>1, Remainder
<1>5. g \in 0 .. (u * v) - 1
  <2>1. T(LIMB_BITS) \in Nat \ {0}
    BY Twos, Widths
  <2> QED
    BY <1>3, <2>1, Remainder
<1>6. PICK s \in Nat : s = (t * g) + l
  BY <1>2, <1>5
<1>7. PICK f \in Nat : f = v * q
  OBVIOUS
<1>8. x = s + ((t * u) * f)
  <2>1. t * (((u * v) * q) + g) = (t * ((u * v) * q)) + (t * g)
    BY <1>5
  <2>2. t * ((u * v) * q) = (t * u) * (v * q)
    BY <1>4
  <2>3. x = l + (t * (((u * v) * q) + g))
    BY <1>2, <1>4
  <2>4. t * g \in Nat /\ (t * u) * f \in Nat /\ l \in Nat
    BY <1>2, <1>5
  <2> QED
    BY <1>6, <1>7, <2>1, <2>2, <2>3, <2>4
<1>9. t * u \in Nat \ {0}
  OBVIOUS
<1>10. x % (t * u) = s % (t * u) /\ x \div (t * u) = (s \div (t * u)) + f
  <2>1. PICK w \in Nat \ {0} : w = t * u
    BY <1>9
  <2>2. (s + (w * f)) % w = s % w /\ (s + (w * f)) \div w = (s \div w) + f
    BY FrontDigits
  <2> QED
    BY <1>8, <2>1, <2>2, Zenon
<1>11. s \div (t * u) = g \div u
  <2>1. g \in Nat /\ l \in 0 .. t - 1
    BY <1>2, <1>5
  <2>2. ((t * g) + l) \div t = g
    BY <2>1, Quotient
  <2>3. s \div (t * u) = (s \div t) \div u
    BY DivideTwice
  <2> QED
    BY <1>6, <2>2, <2>3, Zenon
<1>12. g \div u \in 0 .. v - 1
  BY <1>5, QuotientBelow
<1>13. l + (g * T(k)) = s
  BY <1>2, <1>5, <1>6
<1> QED
  BY <1>1, <1>2, <1>3, <1>4, <1>7, <1>10, <1>11, <1>12, <1>13

(***************************************************************************)
(* ACCUMULATE.  Byte d goes on top of the k bits of l in limb.             *)
(***************************************************************************)
\* There is room for it.
LEMMA JoinToLimb ==
    ASSUME NEW k \in Nat, k + BYTE_BITS < LIMB_BITS,
           NEW l \in 0 .. T(k) - 1, NEW d \in 0 .. BASE - 1
    PROVE  /\ (l + (d * T(k))) % T(LIMB_BITS) = (T(k) * d) + l
           /\ (T(k) * d) + l \in 0 .. T(k + BYTE_BITS) - 1
<1>1. PICK t \in Nat \ {0} : t = T(k)
  BY Twos
<1>2. T(k + BYTE_BITS) = t * BASE /\ BASE \in Nat \ {0}
  BY <1>1, Twos, Widths
<1>3. PICK s \in Nat : s = (t * d) + l /\ s \in 0 .. T(k + BYTE_BITS) - 1
  <2>1. (t * d) + l \in 0 .. (t * BASE) - 1
    BY <1>1, <1>2, JoinedBelow
  <2> QED
    BY <1>2, <2>1
<1>4. T(k + BYTE_BITS) <= T(LIMB_BITS)
  BY Widths, PowerMonotone DEF T
<1>5. T(k + BYTE_BITS) \in Nat /\ T(LIMB_BITS) \in Nat \ {0}
  <2>1. k + BYTE_BITS \in Nat /\ LIMB_BITS \in Nat
    BY Widths
  <2> QED
    BY <2>1, Twos
<1>6. s \in 0 .. T(LIMB_BITS) - 1
  BY <1>3, <1>4, <1>5
<1>7. s % T(LIMB_BITS) = s
  BY <1>5, <1>6, BelowDivisor
<1>8. l + (d * T(k)) = s
  BY <1>1, <1>3
<1> QED
  BY <1>1, <1>3, <1>7, <1>8

\* It fills the limb, and the rest of it begins the next one.
LEMMA JoinOver ==
    ASSUME NEW k \in Nat, k <= LIMB_BITS, k + BYTE_BITS >= LIMB_BITS,
           NEW l \in 0 .. T(k) - 1, NEW d \in 0 .. BASE - 1,
           NEW s, s = l + (d * T(k))
    PROVE  /\ s % T(LIMB_BITS) \in Nat
           /\ d \div T(BYTE_BITS - ((k + BYTE_BITS) - LIMB_BITS))
                  \in 0 .. T((k + BYTE_BITS) - LIMB_BITS) - 1
           /\ (s % T(LIMB_BITS))
                  + (T(LIMB_BITS) * (d \div T(BYTE_BITS - ((k + BYTE_BITS) - LIMB_BITS))))
                  = s
<1>1. PICK i \in Nat, j \in Nat :
          /\ i = BYTE_BITS - ((k + BYTE_BITS) - LIMB_BITS) /\ LIMB_BITS = k + i
          /\ j = (k + BYTE_BITS) - LIMB_BITS /\ BYTE_BITS = i + j
  <2>1. /\ BYTE_BITS - ((k + BYTE_BITS) - LIMB_BITS) \in Nat
        /\ LIMB_BITS = k + (BYTE_BITS - ((k + BYTE_BITS) - LIMB_BITS))
        /\ (k + BYTE_BITS) - LIMB_BITS \in Nat
        /\ BYTE_BITS = (BYTE_BITS - ((k + BYTE_BITS) - LIMB_BITS))
                           + ((k + BYTE_BITS) - LIMB_BITS)
    BY Widths
  <2> QED
    BY <2>1
<1>2. PICK t \in Nat \ {0}, u \in Nat \ {0}, v \in Nat \ {0} :
          t = T(k) /\ u = T(i) /\ v = T(j)
  BY Twos
<1>3. BASE = u * v /\ T(LIMB_BITS) = t * u
  BY <1>1, <1>2, Twos, Widths
<1>4. d \in 0 .. (u * v) - 1 /\ d \in Nat
  BY <1>3
<1>5. d \div u \in 0 .. v - 1
  BY <1>4, QuotientBelow
<1>6. s \in Nat /\ s = (t * d) + l
  BY <1>2, <1>4
<1>7. s \div t = d
  BY <1>2, <1>4, <1>6, Quotient
<1>8. s \div (t * u) = d \div u
  BY <1>6, <1>7, DivideTwice
<1>9. t * u \in Nat \ {0}
  OBVIOUS
<1>10. s % (t * u) \in Nat /\ s = ((t * u) * (s \div (t * u))) + (s % (t * u))
  <2>1. PICK w \in Nat \ {0} : w = t * u
    BY <1>9
  <2>2. PICK y \in Nat : y = s
    BY <1>6
  <2>3. y % w \in 0 .. w - 1 /\ y = (w * (y \div w)) + (y % w)
    BY Remainder
  <2>4. y % w \in Nat
    BY <2>3
  <2> QED
    BY <2>1, <2>2, <2>3, <2>4, Zenon
<1>11. (t * u) * (d \div u) \in Nat
  BY <1>5, <1>9
<1> QED
  BY <1>1, <1>2, <1>3, <1>5, <1>8, <1>10, <1>11

-----------------------------------------------------------------------------
(***************************************************************************)
(* The inductive invariant of mpz_export and mpz_import.                   *)
(*                                                                         *)
(* While z is exported, the bytes behind dp are its last digits, limb has  *)
(* the bits that come next, as many as make the bytes that are written a   *)
(* whole number of limbs, and what is not fetched comes in front of them.  *)
(***************************************************************************)
Count == Bytes!CountOf(z)
Goal == Bytes!Export(z, held)

ExportInv ==
    /\ dp \in 0 .. Count /\ zp \in Nat /\ lbits \in Nat
    /\ (BYTE_BITS * (Count - dp)) + lbits = LIMB_BITS * zp
    /\ limb \in 0 .. T(lbits) - 1
    /\ z \div W(Count - dp) = limb + (T(lbits) * (z \div T(LIMB_BITS * zp)))
    /\ \A i \in dp + 1 .. Count : data[i] = Digit(z, Count - i)
    /\ \A i \in Count + 1 .. WIDTH : data[i] = Digit(held, WIDTH - i)
    /\ result = 0

\* Then the buffer holds the digits of what it is to hold.
BufferInv == \A i \in 1 .. WIDTH : data[i] = Digit(Goal, WIDTH - i)

\* While it is imported, the limbs that are stored and the bits in limb are
\* the last digits of that.
ImportInv ==
    /\ dp \in 0 .. WIDTH /\ zp \in Nat /\ lbits \in 0 .. LIMB_BITS
    /\ BYTE_BITS * (WIDTH - dp) = (LIMB_BITS * zp) + lbits
    /\ limb \in 0 .. T(lbits) - 1
    /\ result \in Nat
    /\ result + (T(LIMB_BITS * zp) * limb) = Goal % W(WIDTH - dp)

BytesInv ==
    /\ bpc \in {"idle", "export", "import", "done"}
    /\ bpc # "idle" => /\ z \in Bytes!BufferValues /\ held \in Bytes!BufferValues
                       /\ DOMAIN data = 1 .. WIDTH
    /\ bpc = "export" => ExportInv
    /\ bpc \in {"import", "done"} => BufferInv
    /\ bpc = "import" => ImportInv
    /\ bpc = "done" => result = Goal

\* What the operators of the models are, for the numbers in a state.
LEMMA CountFacts ==
    ASSUME z \in Bytes!BufferValues
    PROVE  Count \in 0 .. WIDTH /\ Count \in Nat /\ z \in Nat /\ z < W(Count)
<1>1. WIDTH \in Nat /\ W(WIDTH) \in Nat
  BY Widths, Weights
<1> QED
  BY <1>1, Counted, FitBuffer DEF Count

\* The invariant of the byte loops holds at a call,
LEMMA InitBytes == Bytes!Init => BytesInv
<1> SUFFICES ASSUME Bytes!Init PROVE BytesInv
  OBVIOUS
<1>1. /\ z \in Bytes!BufferValues /\ held \in Bytes!BufferValues
      /\ bpc = "export" /\ data = Bytes!BufferOf(held) /\ dp = Count
      /\ zp = 0 /\ limb = 0 /\ lbits = 0 /\ result = 0
  BY MCGmpAssumption DEF Bytes!Init, Bytes!BytesAssumption, Count
<1>2. Count \in 0 .. WIDTH /\ Count \in Nat /\ z \in Nat /\ WIDTH \in Nat
  BY <1>1, CountFacts, Widths
<1>3. /\ DOMAIN data = 1 .. WIDTH
      /\ \A i \in 1 .. WIDTH : data[i] = Digit(held, WIDTH - i)
  <2>1. \A i \in 1 .. WIDTH : Bytes!Weight[WIDTH - i] = W(WIDTH - i)
    BY <1>2, WeightIs
  <2> QED
    BY <1>1, <2>1 DEF Bytes!BufferOf, Digit
<1>4. \A i \in Count + 1 .. WIDTH : data[i] = Digit(held, WIDTH - i)
  BY <1>2, <1>3
<1>5. z \div W(0) = 0 + (T(0) * (z \div T(LIMB_BITS * 0)))
  <2>1. LIMB_BITS * 0 = 0 /\ T(0) = 1 /\ W(0) = 1
    BY Widths, Twos, Weights
  <2>2. z \div 1 = z
    BY <1>2
  <2> QED
    BY <1>2, <2>1, <2>2
<1>6. ExportInv
  <2>1. Count - Count = 0 /\ (BYTE_BITS * 0) + 0 = LIMB_BITS * 0 /\ 0 \in 0 .. T(0) - 1
    BY <1>2, Widths, Twos
  <2>2. dp + 1 .. Count = {}
    BY <1>1, <1>2
  <2> QED
    BY <1>1, <1>2, <1>4, <1>5, <2>1, <2>2 DEF ExportInv
<1> QED
  BY <1>1, <1>3, <1>6 DEF BytesInv

\* A byte is written.
LEMMA ExtractBytes == BytesInv /\ Bytes!Extract => BytesInv'
<1> SUFFICES ASSUME BytesInv, Bytes!Extract PROVE BytesInv'
  OBVIOUS
<1>1. /\ bpc = "export" /\ ExportInv /\ dp # 0
      /\ z \in Bytes!BufferValues /\ held \in Bytes!BufferValues
      /\ DOMAIN data = 1 .. WIDTH
  BY DEF BytesInv, Bytes!Extract
<1>2. dp' = dp - 1 /\ UNCHANGED <<bpc, z, held, result>>
  BY DEF Bytes!Extract
<1>3. Count' = Count
  BY <1>2 DEF Count, Bytes!CountOf, Bytes!Unwritten
<1>4. Count \in 0 .. WIDTH /\ Count \in Nat /\ z \in Nat
  BY <1>1, CountFacts
<1>5. PICK k \in Nat : k = Count - dp /\ Count - dp' = k + 1
  BY <1>1, <1>2, <1>4 DEF ExportInv
<1>6. dp \in 1 .. WIDTH /\ dp' \in 0 .. Count
  BY <1>1, <1>2, <1>4, Widths DEF ExportInv
<1>7. PICK x \in Nat, y \in Nat :
          /\ x = z \div W(k) /\ y = z \div T(LIMB_BITS * zp)
          /\ x = limb + (T(lbits) * y)
  <2>1. LIMB_BITS * zp \in Nat
    BY <1>1, Widths DEF ExportInv
  <2>2. W(k) \in Nat \ {0} /\ T(LIMB_BITS * zp) \in Nat \ {0}
    BY <2>1, Weights, Twos
  <2>3. z \div W(k) \in Nat /\ z \div T(LIMB_BITS * zp) \in Nat
    BY <1>4, <2>2, Remainder
  <2> QED
    BY <1>1, <1>5, <2>3 DEF ExportInv
<1>8. x \div BASE = z \div W(k + 1) /\ x % BASE = Digit(z, k)
  <2>1. PICK w \in Nat \ {0} : w = W(k) /\ W(k + 1) = w * BASE
    BY Weights
  <2>2. BASE \in Nat \ {0}
    BY Widths
  <2>3. z \div (w * BASE) = (z \div w) \div BASE
    BY <1>4, <2>2, DivideTwice
  <2> QED
    BY <1>7, <2>1, <2>3 DEF Digit
<1>9. ASSUME data' = [data EXCEPT ![dp] = x % BASE], zp' \in Nat, lbits' \in Nat,
             (BYTE_BITS * (k + 1)) + lbits' = LIMB_BITS * zp',
             limb' \in 0 .. T(lbits') - 1,
             x \div BASE = limb' + (T(lbits') * (z \div T(LIMB_BITS * zp')))
      PROVE  BytesInv'
  <2>1. DOMAIN data' = 1 .. WIDTH
    BY <1>1, <1>9
  <2>2. \A i \in dp' + 1 .. Count : data'[i] = Digit(z, Count - i)
    <3> TAKE i \in dp' + 1 .. Count
    <3>1. CASE i = dp
      <4>1. data'[i] = x % BASE
        BY <1>1, <1>6, <1>9, <3>1
      <4> QED
        BY <1>5, <1>8, <3>1, <4>1
    <3>2. CASE i # dp
      <4>1. i \in dp + 1 .. Count
        BY <1>2, <1>4, <1>6, <3>2
      <4>2. data'[i] = data[i]
        BY <1>1, <1>4, <1>6, <1>9, <3>2, Widths
      <4> QED
        BY <1>1, <4>1, <4>2 DEF ExportInv
    <3> QED
      BY <3>1, <3>2
  <2>3. \A i \in Count + 1 .. WIDTH : data'[i] = Digit(held, WIDTH - i)
    <3> TAKE i \in Count + 1 .. WIDTH
    <3>1. i # dp /\ i \in 1 .. WIDTH
      BY <1>1, <1>4, Widths DEF ExportInv
    <3>2. data'[i] = data[i]
      BY <1>1, <1>9, <3>1
    <3> QED
      BY <1>1, <3>2 DEF ExportInv
  <2>4. ExportInv'
    BY <1>1, <1>2, <1>3, <1>5, <1>6, <1>8, <1>9, <2>2, <2>3 DEF ExportInv
  <2> QED
    BY <1>1, <1>2, <2>1, <2>4 DEF BytesInv
<1>10. BYTE_BITS * (k + 1) = (BYTE_BITS * k) + BYTE_BITS /\ BYTE_BITS * k \in Nat
  BY Widths
<1>11. /\ zp \in Nat /\ lbits \in Nat /\ limb \in 0 .. T(lbits) - 1
       /\ (BYTE_BITS * k) + lbits = LIMB_BITS * zp
  BY <1>1, <1>5 DEF ExportInv
<1>12. CASE /\ lbits >= BYTE_BITS
            /\ data' = [data EXCEPT ![dp] = limb % BASE]
            /\ limb' = limb \div BASE
            /\ lbits' = lbits - BYTE_BITS
            /\ UNCHANGED zp
  <2>1. /\ limb % BASE = x % BASE
        /\ limb \div BASE \in 0 .. T(lbits - BYTE_BITS) - 1
        /\ x \div BASE = (limb \div BASE) + (T(lbits - BYTE_BITS) * y)
    BY <1>7, <1>11, <1>12, ExtractFromLimb
  <2>2. lbits' \in Nat /\ (BYTE_BITS * (k + 1)) + lbits' = LIMB_BITS * zp
    BY <1>10, <1>11, <1>12, Widths
  <2> QED
    BY <1>7, <1>9, <1>11, <1>12, <2>1, <2>2
<1>13. CASE /\ lbits < BYTE_BITS
            /\ data' = [data EXCEPT ![dp] = Bytes!ExtractByte.byte]
            /\ limb' = Bytes!ExtractByte.rest
            /\ lbits' = lbits + LIMB_BITS - BYTE_BITS
            /\ zp' = zp + 1
  <2> DEFINE g == y % T(LIMB_BITS)
  <2>1. Bytes!LimbOf(z, zp) = g
    BY <1>7, <1>11, LimbIs DEF Bytes!LimbOf
  <2>2. BYTE_BITS - lbits \in Nat
    BY <1>11, <1>13, Widths
  <2>3. /\ Bytes!ExtractByte.byte = (limb + (g * T(lbits))) % BASE
        /\ Bytes!ExtractByte.rest = g \div T(BYTE_BITS - lbits)
    BY <1>11, <2>1, <2>2, LimbIs DEF Bytes!ExtractByte
  <2>4. y \div T(LIMB_BITS) = z \div T(LIMB_BITS * zp')
    <3>1. LIMB_BITS * zp' = (LIMB_BITS * zp) + LIMB_BITS /\ LIMB_BITS * zp \in Nat
      BY <1>11, <1>13, Widths
    <3>2. PICK t \in Nat \ {0}, u \in Nat \ {0} :
              /\ t = T(LIMB_BITS * zp) /\ u = T(LIMB_BITS)
              /\ T(LIMB_BITS * zp') = t * u
      <4>1. LIMB_BITS \in Nat
        BY Widths
      <4>2. /\ T(LIMB_BITS * zp) \in Nat \ {0} /\ T(LIMB_BITS) \in Nat \ {0}
            /\ T((LIMB_BITS * zp) + LIMB_BITS) = T(LIMB_BITS * zp) * T(LIMB_BITS)
        BY <3>1, <4>1, Twos
      <4> QED
        BY <3>1, <4>2
    <3>3. z \div (t * u) = (z \div t) \div u
      BY <1>4, DivideTwice
    <3> QED
      BY <1>7, <3>2, <3>3
  <2> HIDE DEF g
  <2>5. /\ (limb + (g * T(lbits))) % BASE = x % BASE
        /\ g \div T(BYTE_BITS - lbits) \in 0 .. T((lbits + LIMB_BITS) - BYTE_BITS) - 1
        /\ x \div BASE = (g \div T(BYTE_BITS - lbits))
               + (T((lbits + LIMB_BITS) - BYTE_BITS) * (y \div T(LIMB_BITS)))
    BY <1>7, <1>11, <1>13, ExtractFromNext DEF g
  <2>6. /\ zp' \in Nat /\ lbits' \in Nat /\ lbits' = (lbits + LIMB_BITS) - BYTE_BITS
        /\ (BYTE_BITS * (k + 1)) + lbits' = LIMB_BITS * zp'
    BY <1>10, <1>11, <1>13, Widths
  <2> QED
    BY <1>9, <1>13, <2>3, <2>4, <2>5, <2>6
<1> QED
  BY <1>12, <1>13 DEF Bytes!Extract

\* mpz_export returns, and mpz_import starts.
LEMMA ReturnBytes == BytesInv /\ Bytes!Return => BytesInv'
<1> SUFFICES ASSUME BytesInv, Bytes!Return PROVE BytesInv'
  OBVIOUS
<1>1. /\ bpc = "export" /\ ExportInv /\ dp = 0
      /\ z \in Bytes!BufferValues /\ held \in Bytes!BufferValues
      /\ DOMAIN data = 1 .. WIDTH
  BY DEF BytesInv, Bytes!Return
<1>2. /\ bpc' = "import" /\ dp' = WIDTH /\ zp' = 0 /\ limb' = 0 /\ lbits' = 0
      /\ UNCHANGED <<z, held, data, result>>
  BY DEF Bytes!Return
<1>3. Goal' = Goal
  BY <1>2 DEF Goal, Bytes!Export, Bytes!Unwritten
<1>4. Count \in 0 .. WIDTH /\ Count \in Nat /\ WIDTH \in Nat
  BY <1>1, CountFacts, Widths
<1>5. BufferInv
  <2> SUFFICES ASSUME NEW i \in 1 .. WIDTH
               PROVE  data[i] = Digit(Goal, WIDTH - i)
    BY DEF BufferInv
  <2>1. Digit(Goal, WIDTH - i)
            = IF i <= Count THEN Digit(z, Count - i) ELSE Digit(held, WIDTH - i)
    BY <1>1, ExportIs DEF Goal, Count
  <2>2. i \in dp + 1 .. Count \/ (i \in Count + 1 .. WIDTH /\ ~(i <= Count))
    BY <1>1, <1>4
  <2>3. i \in dp + 1 .. Count => i <= Count
    BY <1>4
  <2> QED
    BY <1>1, <2>1, <2>2, <2>3 DEF ExportInv
<1>6. BufferInv'
  BY <1>2, <1>3, <1>5 DEF BufferInv
<1>7. ImportInv'
  <2>1. Goal \in Nat
    <3>1. W(WIDTH) \in Nat
      BY <1>4, Weights
    <3> QED
      BY <1>1, <3>1, ExportIs DEF Goal
  <2>2. WIDTH - WIDTH = 0 /\ W(0) = 1 /\ T(0) = 1
    BY <1>4, Weights, Twos
  <2>3. Goal % 1 = 0 /\ result = 0
    BY <1>1, <2>1 DEF ExportInv
  <2>4. LIMB_BITS * 0 = 0 /\ BYTE_BITS * 0 = 0 /\ LIMB_BITS \in Nat
    BY Widths
  <2> QED
    BY <1>2, <1>3, <1>4, <2>2, <2>3, <2>4 DEF ImportInv
<1> QED
  BY <1>1, <1>2, <1>6, <1>7 DEF BytesInv

\* A byte is read.
LEMMA AccumulateBytes == BytesInv /\ Bytes!Accumulate => BytesInv'
<1> SUFFICES ASSUME BytesInv, Bytes!Accumulate PROVE BytesInv'
  OBVIOUS
<1>1. /\ bpc = "import" /\ ImportInv /\ BufferInv /\ dp # 0
      /\ z \in Bytes!BufferValues /\ held \in Bytes!BufferValues
      /\ DOMAIN data = 1 .. WIDTH
  BY DEF BytesInv, Bytes!Accumulate
<1>2. dp' = dp - 1 /\ UNCHANGED <<bpc, z, held, data>>
  BY DEF Bytes!Accumulate
<1>3. Goal' = Goal
  BY <1>2 DEF Goal, Bytes!Export, Bytes!Unwritten
<1>4. Goal \in Nat
  <2>1. W(WIDTH) \in Nat
    BY Widths, Weights
  <2> QED
    BY <1>1, <2>1, ExportIs DEF Goal
<1>5. PICK k \in Nat : k = WIDTH - dp /\ WIDTH - dp' = k + 1
  BY <1>1, <1>2, Widths DEF ImportInv
<1>6. dp' \in 0 .. WIDTH /\ dp \in 1 .. WIDTH
  BY <1>1, <1>2, Widths DEF ImportInv
<1>7. PICK d \in 0 .. BASE - 1 : d = data[dp] /\ d = Digit(Goal, k)
  BY <1>1, <1>4, <1>5, <1>6, Digits DEF BufferInv
<1>8. PICK t \in Nat \ {0}, u \in Nat \ {0} :
          t = T(LIMB_BITS * zp) /\ u = T(lbits) /\ W(k) = t * u
  <2>1. /\ LIMB_BITS * zp \in Nat /\ lbits \in Nat
        /\ BYTE_BITS * k = (LIMB_BITS * zp) + lbits
    BY <1>1, <1>5, Widths DEF ImportInv
  <2>2. /\ T(LIMB_BITS * zp) \in Nat \ {0} /\ T(lbits) \in Nat \ {0}
        /\ T((LIMB_BITS * zp) + lbits) = T(LIMB_BITS * zp) * T(lbits)
    BY <2>1, Twos
  <2> QED
    BY <2>1, <2>2 DEF W
<1>9. PICK s \in Nat : s = limb + (d * u) /\ Goal % W(k + 1) = result + (t * s)
  <2>1. limb \in Nat /\ result \in Nat /\ d \in Nat
    BY <1>1, <1>7, <1>8, Widths DEF ImportInv
  <2>2. Goal % W(k + 1) = ((t * u) * d) + (Goal % W(k))
    BY <1>4, <1>7, <1>8, Digits
  <2>3. Goal % W(k) = result + (t * limb)
    BY <1>1, <1>5, <1>8 DEF ImportInv
  <2>4. t * (limb + (d * u)) = (t * limb) + ((t * u) * d)
    BY <2>1
  <2>5. limb + (d * u) \in Nat /\ (t * u) * d \in Nat /\ t * limb \in Nat
    BY <2>1
  <2> QED
    BY <2>1, <2>2, <2>3, <2>4, <2>5
<1>10. ASSUME zp' \in Nat, lbits' \in 0 .. LIMB_BITS, result' \in Nat,
              BYTE_BITS * (k + 1) = (LIMB_BITS * zp') + lbits',
              limb' \in 0 .. T(lbits') - 1,
              result' + (T(LIMB_BITS * zp') * limb') = result + (t * s)
       PROVE  BytesInv'
  <2>1. ImportInv'
    BY <1>3, <1>5, <1>6, <1>9, <1>10 DEF ImportInv
  <2>2. BufferInv'
    BY <1>1, <1>2, <1>3 DEF BufferInv
  <2> QED
    BY <1>1, <1>2, <2>1, <2>2 DEF BytesInv
<1>11. BYTE_BITS * (k + 1) = (BYTE_BITS * k) + BYTE_BITS /\ BYTE_BITS * k \in Nat
  BY Widths
<1>12. /\ zp \in Nat /\ lbits \in 0 .. LIMB_BITS /\ lbits \in Nat /\ result \in Nat
       /\ limb \in 0 .. T(lbits) - 1
       /\ BYTE_BITS * k = (LIMB_BITS * zp) + lbits
  BY <1>1, <1>5, Widths DEF ImportInv
<1>13. Bytes!Joined(data[dp]) = s % T(LIMB_BITS)
  BY <1>7, <1>8, <1>9, <1>12, LimbIs DEF Bytes!Joined
<1>14. CASE /\ lbits + BYTE_BITS < LIMB_BITS
            /\ limb' = Bytes!Joined(data[dp])
            /\ lbits' = lbits + BYTE_BITS
            /\ UNCHANGED <<zp, result>>
  <2>1. /\ (limb + (d * T(lbits))) % T(LIMB_BITS) = (T(lbits) * d) + limb
        /\ (T(lbits) * d) + limb \in 0 .. T(lbits + BYTE_BITS) - 1
    BY <1>12, <1>14, JoinToLimb
  <2>2. (T(lbits) * d) + limb = s
    BY <1>7, <1>8, <1>9, <1>12
  <2>3. limb' = s /\ limb' \in 0 .. T(lbits') - 1
    BY <1>8, <1>9, <1>13, <1>14, <2>1, <2>2
  <2>4. /\ lbits' \in 0 .. LIMB_BITS
        /\ BYTE_BITS * (k + 1) = (LIMB_BITS * zp') + lbits'
    BY <1>11, <1>12, <1>14, Widths
  <2> QED
    BY <1>8, <1>10, <1>12, <1>14, <2>3, <2>4
<1>15. CASE /\ lbits + BYTE_BITS >= LIMB_BITS
            /\ result' = result + Bytes!Joined(data[dp]) * Bytes!Power(Bytes!LIMB, zp)
            /\ zp' = zp + 1
            /\ lbits' = (lbits + BYTE_BITS) - LIMB_BITS
            /\ limb' = data[dp] \div
                   Bytes!Power(2, BYTE_BITS - ((lbits + BYTE_BITS) - LIMB_BITS))
  <2> DEFINE j == BYTE_BITS - ((lbits + BYTE_BITS) - LIMB_BITS)
  <2>1. j \in Nat
    BY <1>12, <1>15, Widths
  <2> HIDE DEF j
  <2>2. limb' = d \div T(j)
    BY <1>7, <1>15, <2>1, LimbIs DEF j
  <2>3. result' = result + ((s % T(LIMB_BITS)) * t)
    BY <1>8, <1>12, <1>13, <1>15, LimbIs
  <2>4. /\ s % T(LIMB_BITS) \in Nat
        /\ d \div T(j) \in 0 .. T((lbits + BYTE_BITS) - LIMB_BITS) - 1
        /\ (s % T(LIMB_BITS)) + (T(LIMB_BITS) * (d \div T(j))) = s
    <3>1. s = limb + (d * T(lbits)) /\ lbits <= LIMB_BITS
      BY <1>8, <1>9, <1>12
    <3> QED
      BY <1>12, <1>15, <3>1, JoinOver DEF j
  <2>5. /\ zp' \in Nat /\ lbits' \in 0 .. LIMB_BITS
        /\ LIMB_BITS * zp' = (LIMB_BITS * zp) + LIMB_BITS /\ LIMB_BITS * zp \in Nat
        /\ BYTE_BITS * (k + 1) = (LIMB_BITS * zp') + lbits'
    BY <1>11, <1>12, <1>15, Widths
  <2>6. PICK v \in Nat \ {0} : v = T(LIMB_BITS) /\ T(LIMB_BITS * zp') = t * v
    <3>1. LIMB_BITS \in Nat
      BY Widths
    <3>2. /\ T(LIMB_BITS) \in Nat \ {0}
          /\ T((LIMB_BITS * zp) + LIMB_BITS) = T(LIMB_BITS * zp) * T(LIMB_BITS)
      BY <2>5, <3>1, Twos
    <3> QED
      BY <1>8, <2>5, <3>2
  <2>7. PICK f \in Nat, h \in Nat :
            /\ f = s % T(LIMB_BITS) /\ h = d \div T(j) /\ s = f + (v * h)
    <3>1. d \div T(j) \in Nat
      <4>1. T((lbits + BYTE_BITS) - LIMB_BITS) \in Nat
        BY <1>15, <2>5, Twos
      <4> QED
        BY <2>4, <4>1
    <3> QED
      BY <2>4, <2>6, <3>1
  <2>8. result' \in Nat /\ result' + ((t * v) * h) = result + (t * s)
    <3>1. t * (f + (v * h)) = (t * f) + ((t * v) * h)
      OBVIOUS
    <3>2. f * t = t * f /\ t * f \in Nat /\ (t * v) * h \in Nat
      OBVIOUS
    <3> QED
      BY <1>12, <2>3, <2>7, <3>1, <3>2
  <2> QED
    BY <1>10, <1>15, <2>2, <2>4, <2>5, <2>6, <2>7, <2>8
<1> QED
  BY <1>14, <1>15 DEF Bytes!Accumulate

\* The last limb is stored.
LEMMA FinishBytes == BytesInv /\ Bytes!Finish => BytesInv'
<1> SUFFICES ASSUME BytesInv, Bytes!Finish PROVE BytesInv'
  OBVIOUS
<1>1. /\ bpc = "import" /\ ImportInv /\ BufferInv /\ dp = 0
      /\ z \in Bytes!BufferValues /\ held \in Bytes!BufferValues
      /\ DOMAIN data = 1 .. WIDTH
  BY DEF BytesInv, Bytes!Finish
<1>2. bpc' = "done" /\ UNCHANGED <<z, held, data>>
  BY DEF Bytes!Finish
<1>3. Goal' = Goal
  BY <1>2 DEF Goal, Bytes!Export, Bytes!Unwritten
<1>4. BufferInv'
  BY <1>1, <1>2, <1>3 DEF BufferInv
<1>5. PICK t \in Nat : t = T(LIMB_BITS * zp) /\ Bytes!Power(Bytes!LIMB, zp) = t
  <2>1. zp \in Nat /\ LIMB_BITS * zp \in Nat
    BY <1>1, Widths DEF ImportInv
  <2> QED
    BY <2>1, Twos, LimbIs
<1>6. result' = result + (t * limb)
  <2>1. lbits \in Nat /\ limb \in 0 .. T(lbits) - 1 /\ T(lbits) \in Nat /\ result \in Nat
    BY <1>1, Widths, Twos DEF ImportInv
  <2>2. limb \in Nat /\ (lbits = 0 => limb = 0)
    BY <2>1, Twos
  <2>3. result' = result + IF lbits # 0 THEN limb * t ELSE 0
    BY <1>5 DEF Bytes!Finish
  <2> QED
    BY <2>1, <2>2, <2>3
<1>7. Goal % W(WIDTH) = Goal
  <2>1. W(WIDTH) \in Nat \ {0} /\ Goal \in 0 .. W(WIDTH) - 1
    BY <1>1, Widths, Weights, ExportIs DEF Goal
  <2> QED
    BY <2>1, BelowDivisor
<1>8. result' = Goal
  <2>1. WIDTH - 0 = WIDTH
    BY Widths
  <2> QED
    BY <1>1, <1>5, <1>6, <1>7, <2>1 DEF ImportInv
<1> QED
  BY <1>1, <1>2, <1>3, <1>4, <1>8 DEF BytesInv

\* Other calls leave the variables alone.
LEMMA StutterBytes == BytesInv /\ UNCHANGED bytesvars => BytesInv'
<1> SUFFICES ASSUME BytesInv, UNCHANGED bytesvars PROVE BytesInv'
  OBVIOUS
<1>1. UNCHANGED <<bpc, z, held, data, dp, zp, limb, lbits, result>>
  BY DEF bytesvars
<1>2. Count' = Count /\ Goal' = Goal
  BY <1>1 DEF Count, Goal, Bytes!CountOf, Bytes!Export, Bytes!Unwritten
<1>3. /\ ExportInv => ExportInv'
      /\ BufferInv => BufferInv'
      /\ ImportInv => ImportInv'
  BY <1>1, <1>2 DEF ExportInv, BufferInv, ImportInv
<1> QED
  BY <1>1, <1>2, <1>3 DEF BytesInv

\* and in all states.
LEMMA BytesHolds == MCSpec => []BytesInv
<1>1. MCInit => BytesInv
  <2>1. NoBytes => BytesInv
    BY DEF NoBytes, BytesInv
  <2> QED
    BY <2>1, InitBytes DEF MCInit
<1>2. BytesInv /\ [MCNext]_MCvars => BytesInv'
  <2>1. BytesInv /\ Bytes!Next => BytesInv'
    BY ExtractBytes, ReturnBytes, AccumulateBytes, FinishBytes DEF Bytes!Next
  <2>2. BytesInv /\ UNCHANGED MCvars => BytesInv'
    BY StutterBytes DEF MCvars
  <2> QED
    BY <2>1, <2>2, StutterBytes DEF MCNext
<1> QED
  BY <1>1, <1>2, PTL DEF MCSpec

\* The export loop writes what Numbers says, for every number that fits the
\* buffer, whatever the buffer held, bytes and limbs of any width: the code of
\* mpz_export behind what KeyExchange computes with.
THEOREM ExportLoopAgrees == MCSpec => []ExportAgrees
<1>1. BytesInv => ExportAgrees
  <2> SUFFICES ASSUME BytesInv, bpc = "import"
               PROVE  Bytes!ValueOf(data) = Bytes!Export(z, held)
    BY DEF ExportAgrees, Bytes!ExportAgrees
  <2>1. Goal \in 0 .. W(WIDTH) - 1
    BY ExportIs DEF BytesInv, Goal
  <2>2. \A i \in 1 .. WIDTH : data[i] = Digit(Goal, WIDTH - i)
    BY DEF BytesInv, BufferInv
  <2> QED
    BY <2>1, <2>2, ValueOfDigits DEF Goal
<1> QED
  BY <1>1, BytesHolds, PTL

\* At no time of the export loop is a bit of the number lost or written twice:
\* at its end nothing is left, as the assertion at the end of mpz_export says.
THEOREM ExportLosesNothing == MCSpec => []NothingLost
<1>1. BytesInv => NothingLost
  <2> SUFFICES ASSUME BytesInv, bpc = "export"
               PROVE  z = (Bytes!ValueOf(Bytes!Written)
                               \div Bytes!Weight[WIDTH - Bytes!CountOf(z)])
                          + (limb + (z \div Bytes!Power(Bytes!LIMB, zp))
                                        * Bytes!Power(2, lbits))
                              * Bytes!Weight[Bytes!CountOf(z) - dp]
    BY DEF NothingLost, Bytes!NothingLost
  <2>1. ExportInv /\ z \in Bytes!BufferValues
    BY DEF BytesInv
  <2>2. Count \in 0 .. WIDTH /\ Count \in Nat /\ z \in Nat /\ z < W(Count) /\ WIDTH \in Nat
    BY <2>1, CountFacts, Widths
  <2>3. PICK k \in 0 .. WIDTH : k = Count - dp /\ k <= Count
    BY <2>1, <2>2 DEF ExportInv
  <2>4. PICK h \in 0 .. WIDTH : h = WIDTH - Count
    BY <2>2
  <2>5. PICK v \in Nat \ {0}, w \in Nat \ {0} : v = W(h) /\ w = W(k)
    <3>1. h \in Nat /\ k \in Nat
      BY <2>2
    <3> QED
      BY <3>1, Weights
  <2>6. PICK q \in Nat, r \in 0 .. w - 1 :
            q = z \div w /\ r = z % w /\ z = (w * q) + r
    <3>1. /\ z \div w \in Nat /\ z % w \in 0 .. w - 1
          /\ z = (w * (z \div w)) + (z % w)
      BY <2>2, Remainder
    <3> QED
      BY <3>1
  <2>7. limb + (z \div Bytes!Power(Bytes!LIMB, zp)) * Bytes!Power(2, lbits) = q
    <3>1. PICK y \in Nat : y = z \div T(LIMB_BITS * zp)
      <4>1. LIMB_BITS * zp \in Nat
        BY <2>1, Widths DEF ExportInv
      <4>2. T(LIMB_BITS * zp) \in Nat \ {0}
        BY <4>1, Twos
      <4> QED
        BY <2>2, <4>2, Remainder
    <3>2. PICK t \in Nat : t = T(lbits)
      BY <2>1, Twos DEF ExportInv
    <3>3. q = limb + (t * y)
      BY <2>1, <2>3, <2>5, <2>6, <3>1, <3>2 DEF ExportInv
    <3>4. t * y = y * t
      OBVIOUS
    <3>5. /\ Bytes!Power(Bytes!LIMB, zp) = T(LIMB_BITS * zp)
          /\ Bytes!Power(2, lbits) = t
      BY <2>1, <3>2, LimbIs DEF ExportInv
    <3> QED
      BY <3>1, <3>3, <3>4, <3>5
  <2>8. Bytes!ValueOf(Bytes!Written) = (v * r) + 0
    <3>1. (v * r) + 0 \in 0 .. W(WIDTH) - 1
      <4>1. PICK c \in Nat \ {0} : c = W(Count) /\ W(WIDTH) = v * c
        <5>1. h \in Nat /\ WIDTH = h + Count
          BY <2>2, <2>4
        <5> QED
          BY <2>2, <2>5, <5>1, Weights
      <4>2. r <= z
        BY <2>2, <2>6
      <4>3. r \in 0 .. c - 1
        BY <2>2, <4>1, <4>2
      <4>4. 0 \in 0 .. v - 1
        OBVIOUS
      <4> QED
        BY <4>1, <4>3, <4>4, JoinedBelow
    <3>2. ASSUME NEW i \in 1 .. WIDTH
          PROVE  Bytes!Written[i] = Digit((v * r) + 0, WIDTH - i)
      <4>1. PICK j \in Nat : j = WIDTH - i
        BY <2>2
      <4>2. Digit((v * r) + 0, j) = IF j < h THEN Digit(0, j) ELSE Digit(r, j - h)
        <5>1. h \in Nat /\ 0 \in 0 .. W(h) - 1 /\ r \in Nat
          BY <2>2, <2>5
        <5> QED
          BY <2>5, <5>1, ShiftedDigits
      <4>3. j < h <=> i > Count
        BY <2>2, <2>4, <4>1
      <4>4. CASE i > Count
        <5>1. Digit(0, j) = 0
          <6>1. PICK x \in Nat \ {0} : x = W(j)
            BY Weights
          <6>2. 0 \div x = 0 /\ 0 % BASE = 0
            BY Widths
          <6> QED
            BY <6>1, <6>2 DEF Digit
        <5>2. i \notin dp + 1 .. Count
          BY <2>2, <4>4
        <5>3. Bytes!Written[i] = 0
          BY <5>2 DEF Bytes!Written, Count
        <5> QED
          BY <4>1, <4>2, <4>3, <4>4, <5>1, <5>3
      <4>5. CASE ~(i > Count)
        <5>1. PICK g \in Nat : g = j - h /\ g = Count - i
          BY <2>2, <2>4, <4>1, <4>5
        <5>2. Digit(r, g) = IF g < k THEN Digit(z, g) ELSE 0
          <6>1. k \in Nat
            BY <2>2
          <6>2. Digit(z % W(k), g) = IF g < k THEN Digit(z, g) ELSE 0
            BY <2>2, <6>1, LastDigits
          <6> QED
            BY <2>5, <2>6, <6>2
        <5>3. g < k <=> i \in dp + 1 .. Count
          BY <2>1, <2>2, <2>3, <4>5, <5>1 DEF ExportInv
        <5>4. Bytes!Written[i] = IF i \in dp + 1 .. Count THEN data[i] ELSE 0
          BY DEF Bytes!Written, Count
        <5>5. i \in dp + 1 .. Count => data[i] = Digit(z, g)
          BY <2>1, <5>1 DEF ExportInv
        <5> QED
          BY <4>1, <4>2, <4>3, <4>5, <5>1, <5>2, <5>3, <5>4, <5>5
      <4> QED
        BY <4>4, <4>5
    <3> QED
      BY <3>1, <3>2, ValueOfDigits
  <2>9. ((v * r) + 0) \div v = r
    <3>1. 0 \in 0 .. v - 1 /\ r \in Nat
      BY <2>5, <2>6
    <3> QED
      BY <3>1, Quotient
  <2>10. /\ Bytes!Weight[WIDTH - Bytes!CountOf(z)] = v
         /\ Bytes!Weight[Bytes!CountOf(z) - dp] = w
    BY <2>3, <2>4, <2>5, WeightIs DEF Count
  <2>11. z = r + (q * w)
    BY <2>6
  <2> QED
    BY <2>7, <2>8, <2>9, <2>10, <2>11
<1> QED
  BY <1>1, BytesHolds, PTL

\* The import loop reads the number that the whole buffer stands for, for
\* every number, buffer and width: the stale bytes behind a short number too.
THEOREM ImportLoopAgrees == MCSpec => []ImportAgrees
<1>1. BytesInv => ImportAgrees
  BY DEF BytesInv, ImportAgrees, Bytes!ImportAgrees, Bytes!Import, Goal
<1> QED
  BY <1>1, BytesHolds, PTL

-----------------------------------------------------------------------------
(***************************************************************************)
(* mpz_nextprime.                                                          *)
(***************************************************************************)
\* The constants.
LEMMA PrimeConstants ==
    /\ LAST_PRIME \in Nat /\ LAST_PRIME >= 7
    /\ NP_SMALL_LIMIT \in Nat /\ LAST_PRIME < NP_SMALL_LIMIT
    /\ NP_SMALL_LIMIT <= LAST_PRIME * LAST_PRIME
    /\ IsPrime(LAST_PRIME) /\ IsPrime(NP_SMALL_LIMIT)
  BY PrimeAssumption

\* A divisor makes a number composite, whether or not it is below the root.
LEMMA DivisorMeansComposite ==
    ASSUME NEW k \in Nat, NEW d \in Nat, 1 < d, d < k, k % d = 0
    PROVE  ~IsPrime(k)
<1>1. PICK c \in Nat : k = d * c
  <2>1. d \in Nat \ {0}
    OBVIOUS
  <2> QED
    BY <2>1, MultipleOf
<1>2. c # 0 /\ c # 1
  BY <1>1
<1>3. CASE d * d <= k
  <2>1. d \in 2 .. k - 1 /\ ~(d * d > k)
    BY <1>3
  <2> QED
    BY <2>1 DEF IsPrime
<1>4. CASE ~(d * d <= k)
  <2>1. c < d
    <3>1. \A i, j, h \in Nat : i <= j => h * i <= h * j
      OBVIOUS
    <3> QED
      BY <1>1, <1>4, <3>1
  <2>2. c * c <= k
    <3>1. \A i, j, h \in Nat : i <= j => i * h <= j * h
      OBVIOUS
    <3> QED
      BY <1>1, <2>1, <3>1
  <2>3. k % c = 0
    <3>1. k = c * d /\ c \in Nat \ {0}
      BY <1>1, <1>2
    <3> QED
      BY <3>1, MultipleOf
  <2>4. c \in 2 .. k - 1 /\ ~(c * c > k)
    BY <1>2, <2>1, <2>2
  <2> QED
    BY <2>3, <2>4 DEF IsPrime
<1> QED
  BY <1>3, <1>4

\* Even numbers from 4 on are composite.
LEMMA EvenIsComposite ==
    ASSUME NEW k \in Nat, k >= 3, k % 2 = 0
    PROVE  ~IsPrime(k)
<1>1. 1 < 2 /\ 2 < k /\ 2 \in Nat
  OBVIOUS
<1> QED
  BY <1>1, DivisorMeansComposite

\* An odd number that no odd prime up to its root divides is prime.
LEMMA TrialDivision ==
    ASSUME NEW k \in Nat, k > 1, k = 2 \/ k % 2 = 1,
           k <= LAST_PRIME * LAST_PRIME,
           \A d \in OddPrimes(LAST_PRIME) : ~(k \div d >= d /\ k % d = 0)
    PROVE  IsPrime(k)
<1> SUFFICES ASSUME NEW c \in 2 .. k - 1, c * c <= k, k % c = 0
             PROVE  FALSE
  <2>1. \A c \in 2 .. k - 1 : c * c \in Nat /\ (c * c > k \/ c * c <= k)
    OBVIOUS
  <2> QED
    BY <2>1 DEF IsPrime
<1> DEFINE S == {d \in Nat : 1 < d /\ k % d = 0}
<1>1. PICK d \in S : \A e0 \in S : d <= e0
  <2>1. S \subseteq Nat /\ c \in S
    OBVIOUS
  <2> HIDE DEF S
  <2> QED
    BY <2>1, LeastNumber
<1>2. d \in Nat /\ 1 < d /\ k % d = 0 /\ d <= c
  BY <1>1
<1>3. d * d <= k
  <2>1. \A i, j \in Nat : i <= j => i * i <= j * j
    OBVIOUS
  <2>2. d * d <= c * c
    BY <1>2, <2>1
  <2> QED
    BY <1>2, <2>2
<1>4. PICK q \in Nat : k = d * q /\ k \div d = q
  <2>1. d \in Nat \ {0}
    BY <1>2
  <2> QED
    BY <1>2, <2>1, MultipleOf
<1>5. ASSUME NEW f \in Nat, 1 < f, f < d, d % f = 0 PROVE FALSE
  <2>1. PICK g \in Nat : d = f * g
    <3>1. f \in Nat \ {0} /\ d \in Nat
      BY <1>2, <1>5
    <3> QED
      BY <1>5, <3>1, MultipleOf
  <2>2. k = f * (g * q) /\ g * q \in Nat /\ f \in Nat \ {0}
    <3>1. (f * g) * q = f * (g * q)
      OBVIOUS
    <3> QED
      BY <1>4, <1>5, <2>1, <3>1
  <2>3. k % f = 0
    BY <2>2, MultipleOf
  <2>4. f \in S
    BY <1>5, <2>3
  <2> QED
    BY <1>1, <1>2, <1>5, <2>4
<1>6. IsPrime(d)
  <2>1. ASSUME NEW f \in 2 .. d - 1 PROVE d % f # 0
    <3>1. f \in Nat /\ 1 < f /\ f < d
      BY <1>2
    <3> QED
      BY <1>5, <3>1
  <2> QED
    BY <1>2, <2>1 DEF IsPrime
<1>7. d >= 3
  <2>1. k # 2
    BY <1>2
  <2> QED
    BY <1>2, <2>1
<1>8. d <= LAST_PRIME
  <2>1. \A i, j \in Nat : i * i <= j * j => i <= j
    OBVIOUS
  <2> QED
    BY <1>2, <1>3, <2>1, PrimeConstants
<1>9. q >= d
  <2>1. \A i, j, h \in Nat : h > 0 /\ h * i <= h * j => i <= j
    OBVIOUS
  <2> QED
    BY <1>2, <1>3, <1>4, <2>1
<1>10. d \in OddPrimes(LAST_PRIME)
  BY <1>2, <1>6, <1>7, <1>8, PrimeConstants DEF OddPrimes
<1> QED
  BY <1>2, <1>4, <1>9, <1>10

\* The bits of a number.
LEMMA BitsOf ==
    ASSUME NEW k \in Nat
    PROVE  /\ Bits(k) \in 0 .. k
           /\ Bits(k) = 0 \/ k >= Power(2, Bits(k) - 1)
<1> DEFINE P(j) == k < Power(2, j) /\ (j = 0 \/ k >= Power(2, j - 1))
<1>1. \E j \in 0 .. k : P(j)
  BY LengthExists
<1>2. Bits(k) = CHOOSE j \in 0 .. k : P(j)
  BY DEF Bits
<1> HIDE DEF P
<1>3. Bits(k) \in 0 .. k /\ P(Bits(k))
  BY <1>1, <1>2, Zenon
<1> QED
  BY <1>3 DEF P

\* The primes of the table.
LEMMA TablePrimes == NUMBER_OF_PRIMES \in Nat
<1>1. IsFiniteSet(3 .. LAST_PRIME)
  BY PrimeConstants, FS_Interval
<1>2. IsFiniteSet(OddPrimes(LAST_PRIME)) /\ Cardinality(OddPrimes(LAST_PRIME)) \in Nat
  <2>1. OddPrimes(LAST_PRIME) \subseteq 3 .. LAST_PRIME
    BY DEF OddPrimes
  <2>2. IsFiniteSet(OddPrimes(LAST_PRIME))
    BY <1>1, <2>1, FS_Subset
  <2> QED
    BY <2>2, FS_CardinalityType
<1>3. OddPrimes(LAST_PRIME) # {}
  <2>1. LAST_PRIME \in OddPrimes(LAST_PRIME)
    BY PrimeConstants DEF OddPrimes
  <2> QED
    BY <2>1
<1>4. Cardinality(OddPrimes(LAST_PRIME)) # 0
  BY <1>2, <1>3, FS_EmptySet
<1> QED
  BY <1>2, <1>4 DEF NUMBER_OF_PRIMES

\* The sieve only has odd numbers that are smaller than what they sieve.
LEMMA SievesBelow ==
    ASSUME NEW x \in Nat, x > NP_SMALL_LIMIT, NEW d \in SievePrimes(x)
    PROVE  d \in Nat /\ d >= 3 /\ d < x /\ d % 2 = 1
<1> DEFINE half == Bits(x) \div 2
           table == half <= NUMBER_OF_PRIMES
<1>1. d \in OddPrimes(IF table THEN LAST_PRIME ELSE SIEVE_LIMIT)
  BY DEF SievePrimes
<1>2. Bits(x) \in Nat /\ NUMBER_OF_PRIMES \in Nat /\ half \in Nat
  BY BitsOf, TablePrimes
<1>3. CASE table
  <2>1. d \in 3 .. LAST_PRIME /\ IsPrime(d)
    BY <1>1, <1>3 DEF OddPrimes
  <2>2. d \in Nat /\ d >= 3 /\ d < x
    BY <2>1, PrimeConstants
  <2>3. d % 2 \in {0, 1}
    BY <2>2
  <2> QED
    BY <2>1, <2>2, <2>3, EvenIsComposite
<1>4. CASE ~table
  <2>1. d \in 3 .. SIEVE_LIMIT /\ IsPrime(d)
    BY <1>1, <1>4 DEF OddPrimes
  <2>2. /\ 2 * NUMBER_OF_PRIMES + 1 \in Nat /\ Bits(x) - 1 \in Nat
        /\ 2 * NUMBER_OF_PRIMES + 1 <= Bits(x) - 1 /\ Bits(x) # 0
    BY <1>2, <1>4
  <2>3. x >= Power(2, Bits(x) - 1)
    BY <2>2, BitsOf
  <2>4. Power(2, 2 * NUMBER_OF_PRIMES + 1) <= Power(2, Bits(x) - 1)
    BY <2>2, PowerMonotone
  <2>5. Power(2, 2 * NUMBER_OF_PRIMES + 1) \in Nat /\ Power(2, Bits(x) - 1) \in Nat
    BY <2>2, PowerRecursion
  <2>6. SIEVE_LIMIT \in Nat /\ SIEVE_LIMIT < Power(2, 2 * NUMBER_OF_PRIMES + 1)
    BY <2>5, PrimeAssumption
  <2>7. d \in Nat /\ d >= 3 /\ d < x
    BY <2>1, <2>3, <2>4, <2>5, <2>6
  <2>8. d % 2 \in {0, 1}
    BY <2>7
  <2> QED
    BY <2>1, <2>7, <2>8, EvenIsComposite
<1> QED
  BY <1>3, <1>4

\* What is marked in the sieve is a multiple.
LEMMA MarkedIsMultiple ==
    ASSUME NEW x \in Nat, NEW d \in Nat \ {0}, d % 2 = 1, NEW i \in Nat,
           i >= FirstMultiple(x, d), (i - FirstMultiple(x, d)) % d = 0
    PROVE  (x + (2 * i)) % d = 0
<1> DEFINE r == (-x) % d
           g == FirstMultiple(x, d)
<1>1. PICK c \in Nat : r \in 0 .. d - 1 /\ x + r = d * c
  <2>1. r \in 0 .. d - 1 /\ -x = (d * ((-x) \div d)) + r /\ (-x) \div d \in Int
    OBVIOUS
  <2>2. PICK h \in Int : h = -((-x) \div d)
    BY <2>1
  <2>3. x + r = d * h
    BY <2>1, <2>2
  <2>4. h >= 0
    <3>1. x + r >= 0
      BY <2>1
    <3>2. \A j \in Int : j < 0 => d * j < 0
      OBVIOUS
    <3> QED
      BY <2>3, <3>1, <3>2
  <2>5. h \in Nat
    BY <2>4
  <2> HIDE DEF r
  <2> QED
    BY <2>1, <2>3, <2>5
<1>2. g = (IF r % 2 = 1 THEN r + d ELSE r) \div 2
  BY DEF FirstMultiple
<1> HIDE DEF r, g
<1>3. g \in Nat /\ \E h \in Nat : x + (2 * g) = d * h
  <2>1. CASE r % 2 = 1
    <3>1. (r + d) % 2 = 0 /\ r + d \in Nat
      BY <1>1, <2>1
    <3>2. g \in Nat /\ 2 * g = r + d
      BY <1>2, <2>1, <3>1
    <3>3. x + (2 * g) = d * (c + 1)
      BY <1>1, <3>2
    <3>4. c + 1 \in Nat
      OBVIOUS
    <3> QED
      BY <3>2, <3>3, <3>4
  <2>2. CASE r % 2 # 1
    <3>1. r % 2 = 0 /\ r \in Nat
      BY <1>1, <2>2
    <3>2. g \in Nat /\ 2 * g = r
      BY <1>2, <2>2, <3>1
    <3> QED
      BY <1>1, <3>2
  <2> QED
    BY <2>1, <2>2
<1>4. PICK h \in Nat : x + (2 * g) = d * h
  BY <1>3
<1>5. PICK j \in Nat : i - g = d * j
  <2>1. i - g \in Nat /\ (i - g) % d = 0
    BY <1>3 DEF g
  <2> QED
    BY <2>1, MultipleOf
<1>6. x + (2 * i) = d * (h + (2 * j))
  <2>1. i = g + (d * j)
    BY <1>3, <1>5
  <2>2. d * (h + (2 * j)) = (d * h) + (2 * (d * j))
    OBVIOUS
  <2> QED
    BY <1>3, <1>4, <2>1, <2>2
<1>7. x + (2 * i) \in Nat /\ h + (2 * j) \in Nat
  OBVIOUS
<1> QED
  BY <1>6, <1>7, MultipleOf

-----------------------------------------------------------------------------
(***************************************************************************)
(* What number theory says of the tests: primes pass them, to any base.    *)
(***************************************************************************)
TestsPassPrimes ==
    \A x \in Nat, a \in RandomBases :
        x > NP_SMALL_LIMIT /\ IsPrime(x) /\ a >= 3 /\ 2 * a < x => mpz_millerrabin(x, a)

(***************************************************************************)
(* The inductive invariant of the search: no prime was passed over and     *)
(* none is marked in the rest of the segment, where that does not depend   *)
(* on the tests or the tests can be trusted.                               *)
(***************************************************************************)
Trusted == n < NP_SMALL_LIMIT \/ TestsPassPrimes

Passed == \A k \in n + 1 .. p + difference - 1 : ~IsPrime(k)

MarkedRight ==
    \A i \in composite : i >= incr => ~IsPrime(p + difference + 2 * (i - incr))

SearchInv ==
    /\ pc \in {"idle", "start", "small", "sieve", "scan", "done"}
    /\ n \in Nat /\ p \in Nat /\ incr \in Nat /\ difference \in Nat /\ composite \subseteq Nat
    /\ pc \in {"start", "small", "sieve"} => difference = 0
    /\ pc = "small" => n < NP_SMALL_LIMIT /\ p > 1 /\ (p = 2 \/ p % 2 = 1)
    /\ pc \in {"sieve", "scan"} =>
           n >= NP_SMALL_LIMIT /\ p > n /\ (p + difference) % 2 = 1
    /\ pc # "start" /\ Trusted => Passed
    /\ pc = "scan" => MarkedRight
    /\ pc = "done" /\ n < NP_SMALL_LIMIT => IsPrime(p)

\* The first odd number after a number.
LEMMA NextOdd ==
    ASSUME NEW k \in Nat, k >= 2
    PROVE  /\ MakeOdd(k + 1) \in Nat /\ MakeOdd(k + 1) > k /\ MakeOdd(k + 1) % 2 = 1
           /\ \A j \in k + 1 .. MakeOdd(k + 1) - 1 : ~IsPrime(j)
<1>1. CASE (k + 1) % 2 = 0
  <2>1. MakeOdd(k + 1) = k + 2 /\ (k + 2) % 2 = 1
    BY <1>1 DEF MakeOdd
  <2>2. ~IsPrime(k + 1)
    BY <1>1, EvenIsComposite
  <2>3. \A j \in k + 1 .. (k + 2) - 1 : j = k + 1
    OBVIOUS
  <2> QED
    BY <2>1, <2>2, <2>3
<1>2. CASE (k + 1) % 2 # 0
  <2>1. MakeOdd(k + 1) = k + 1 /\ (k + 1) % 2 = 1
    BY <1>2 DEF MakeOdd
  <2> QED
    BY <2>1
<1> QED
  BY <1>1, <1>2

\* One more odd number is passed.
LEMMA PassOne ==
    ASSUME NEW k \in Nat, NEW x \in Nat, x % 2 = 1, x > 1, ~IsPrime(x),
           \A j \in k + 1 .. x - 1 : ~IsPrime(j)
    PROVE  \A j \in k + 1 .. (x + 2) - 1 : ~IsPrime(j)
<1> TAKE j \in k + 1 .. (x + 2) - 1
<1>1. ~IsPrime(x + 1)
  <2>1. x + 1 \in Nat /\ x + 1 >= 3 /\ (x + 1) % 2 = 0
    OBVIOUS
  <2> QED
    BY <2>1, EvenIsComposite
<1>2. j \in k + 1 .. x - 1 \/ j = x \/ j = x + 1
  OBVIOUS
<1> QED
  BY <1>1, <1>2

\* The invariant of the search holds at a call,
LEMMA InitSearch == Init => SearchInv
  BY PrimeAssumption DEF Init, SearchInv

\* when a small argument is taken,
LEMMA StartSmallSearch == SearchInv /\ StartSmall => SearchInv'
<1> SUFFICES ASSUME SearchInv, StartSmall PROVE SearchInv'
  OBVIOUS
<1> DEFINE t == IF n > 0 THEN n ELSE 1
<1>1. /\ pc = "start" /\ pc' = "small" /\ n < NP_SMALL_LIMIT /\ difference = 0
      /\ p' = IF t = 1 THEN 2 ELSE MakeOdd(t + 1)
      /\ UNCHANGED <<n, composite, incr, difference>> /\ n \in Nat
  BY DEF StartSmall, SearchInv
<1>2. /\ p' \in Nat /\ p' > 1 /\ (p' = 2 \/ p' % 2 = 1)
      /\ \A k \in n + 1 .. p' - 1 : ~IsPrime(k)
  <2>1. CASE t = 1
    <3>1. p' = 2 /\ n \in {0, 1}
      BY <1>1, <2>1
    <3>2. \A k \in n + 1 .. 1 : ~IsPrime(k)
      BY <3>1 DEF IsPrime
    <3> QED
      BY <3>1, <3>2
  <2>2. CASE t # 1
    <3>1. t = n /\ n >= 2
      BY <1>1, <2>2
    <3>2. p' = MakeOdd(n + 1)
      BY <1>1, <2>2, <3>1
    <3>3. /\ MakeOdd(n + 1) \in Nat /\ MakeOdd(n + 1) > n /\ MakeOdd(n + 1) % 2 = 1
          /\ \A k \in n + 1 .. MakeOdd(n + 1) - 1 : ~IsPrime(k)
      BY <1>1, <3>1, NextOdd
    <3> HIDE DEF t
    <3>4. p' \in Nat /\ p' > n /\ p' % 2 = 1
      BY <3>2, <3>3
    <3>5. \A k \in n + 1 .. p' - 1 : ~IsPrime(k)
      BY <3>2, <3>3
    <3> QED
      BY <1>1, <3>1, <3>4, <3>5
  <2> QED
    BY <2>1, <2>2
<1>3. Passed'
  BY <1>1, <1>2 DEF Passed
<1> QED
  BY <1>1, <1>2, <1>3 DEF SearchInv

\* after a trial division,
LEMMA SmallStepSearch == SearchInv /\ SmallStep => SearchInv'
<1> SUFFICES ASSUME SearchInv, SmallStep PROVE SearchInv'
  OBVIOUS
<1> DEFINE divides == {d \in OddPrimes(LAST_PRIME) : p \div d >= d /\ p % d = 0}
<1>1. /\ pc = "small" /\ n < NP_SMALL_LIMIT /\ difference = 0
      /\ UNCHANGED <<n, composite, incr, difference>> /\ n \in Nat
      /\ p \in Nat /\ p > 1 /\ (p = 2 \/ p % 2 = 1)
      /\ \A k \in n + 1 .. p - 1 : ~IsPrime(k)
  BY DEF SmallStep, SearchInv, Trusted, Passed
<1>2. CASE divides = {} /\ pc' = "done" /\ UNCHANGED p
  <2>1. p <= NP_SMALL_LIMIT
    <3> SUFFICES ASSUME ~(p <= NP_SMALL_LIMIT) PROVE FALSE
      OBVIOUS
    <3>1. NP_SMALL_LIMIT \in n + 1 .. p - 1
      BY <1>1, PrimeConstants
    <3> QED
      BY <1>1, <3>1, PrimeConstants
  <2>2. p <= LAST_PRIME * LAST_PRIME
    BY <1>1, <2>1, PrimeConstants
  <2>3. IsPrime(p)
    BY <1>1, <1>2, <2>2, TrialDivision
  <2>4. Passed'
    BY <1>1, <1>2 DEF Passed
  <2> QED
    BY <1>1, <1>2, <2>3, <2>4 DEF SearchInv
<1>3. CASE divides # {} /\ p' = p + 2 /\ UNCHANGED pc
  <2>1. PICK d \in OddPrimes(LAST_PRIME) : p \div d >= d /\ p % d = 0
    BY <1>3
  <2>2. d \in Nat /\ d >= 3
    BY <2>1, PrimeConstants DEF OddPrimes
  <2>3. d < p
    <3>1. PICK c \in Nat : p = d * c /\ p \div d = c
      BY <1>1, <2>1, <2>2, MultipleOf
    <3>2. c >= 3
      BY <2>1, <2>2, <3>1
    <3>3. d * c >= d * 3
      <4>1. \A i, j, h \in Nat : i <= j => h * i <= h * j
        OBVIOUS
      <4> QED
        BY <2>2, <3>2, <4>1
    <3> QED
      BY <2>2, <3>1, <3>3
  <2>4. ~IsPrime(p)
    BY <1>1, <2>1, <2>2, <2>3, DivisorMeansComposite
  <2>5. p % 2 = 1
    BY <1>1, <2>2, <2>3
  <2>6. \A j \in n + 1 .. (p + 2) - 1 : ~IsPrime(j)
    BY <1>1, <2>4, <2>5, PassOne
  <2>7. Passed'
    BY <1>1, <1>3, <2>6 DEF Passed
  <2>8. (p + 2) % 2 = 1
    BY <1>1, <2>5
  <2> QED
    BY <1>1, <1>3, <2>7, <2>8 DEF SearchInv
<1> QED
  BY <1>2, <1>3 DEF SmallStep

\* when a large argument is taken,
LEMMA StartLargeSearch == SearchInv /\ StartLarge => SearchInv'
<1> SUFFICES ASSUME SearchInv, StartLarge PROVE SearchInv'
  OBVIOUS
<1>1. /\ pc = "start" /\ pc' = "sieve" /\ n >= NP_SMALL_LIMIT /\ difference = 0
      /\ p' = MakeOdd(n + 1)
      /\ UNCHANGED <<n, composite, incr, difference>> /\ n \in Nat
  BY DEF StartLarge, SearchInv
<1>2. /\ p' \in Nat /\ p' > n /\ p' % 2 = 1
      /\ \A k \in n + 1 .. p' - 1 : ~IsPrime(k)
  <2>1. n \in Nat /\ n >= 2
    BY <1>1, PrimeConstants
  <2>2. /\ MakeOdd(n + 1) \in Nat /\ MakeOdd(n + 1) > n /\ MakeOdd(n + 1) % 2 = 1
        /\ \A k \in n + 1 .. MakeOdd(n + 1) - 1 : ~IsPrime(k)
    BY <2>1, NextOdd
  <2> QED
    BY <1>1, <2>2
<1>3. Passed'
  BY <1>1, <1>2 DEF Passed
<1> QED
  BY <1>1, <1>2, <1>3, PrimeConstants DEF SearchInv

\* after a segment is sieved,
LEMMA SieveSearch == SearchInv /\ Sieve => SearchInv'
<1> SUFFICES ASSUME SearchInv, Sieve PROVE SearchInv'
  OBVIOUS
<1>1. /\ pc = "sieve" /\ pc' = "scan" /\ n >= NP_SMALL_LIMIT /\ difference = 0
      /\ n \in Nat /\ p \in Nat /\ p > n /\ p % 2 = 1
      /\ incr' = 0 /\ difference' = 0 /\ UNCHANGED <<n, p>>
      /\ composite' = {i \in 0 .. OddsInSieve - 1 :
                          \E d \in SievePrimes(n + 1) :
                              /\ i >= FirstMultiple(p, d)
                              /\ (i - FirstMultiple(p, d)) % d = 0}
  BY DEF Sieve, SearchInv
<1>2. composite' \subseteq Nat
  BY <1>1, PrimeAssumption
<1>3. ASSUME NEW i \in composite' PROVE ~IsPrime(p + 0 + 2 * (i - 0))
  <2>1. i \in Nat
    BY <1>2
  <2>2. PICK d \in SievePrimes(n + 1) :
            i >= FirstMultiple(p, d) /\ (i - FirstMultiple(p, d)) % d = 0
    BY <1>1, <1>3
  <2>3. d \in Nat /\ d >= 3 /\ d < n + 1 /\ d % 2 = 1
    BY <1>1, SievesBelow, PrimeConstants
  <2>4. (p + (2 * i)) % d = 0
    BY <1>1, <2>1, <2>2, <2>3, MarkedIsMultiple
  <2>5. p + (2 * i) \in Nat /\ d < p + (2 * i) /\ p + 0 + 2 * (i - 0) = p + (2 * i)
    BY <1>1, <2>1, <2>3
  <2>6. ~IsPrime(p + (2 * i))
    BY <2>3, <2>4, <2>5, DivisorMeansComposite
  <2> QED
    BY <2>5, <2>6
<1>4. MarkedRight'
  BY <1>1, <1>3 DEF MarkedRight
<1>5. Trusted' => Passed'
  BY <1>1 DEF SearchInv, Trusted, Passed
<1> QED
  BY <1>1, <1>2, <1>4, <1>5, PrimeConstants DEF SearchInv

\* when a marked number is skipped,
LEMMA SkipSearch == SearchInv /\ Skip => SearchInv'
<1> SUFFICES ASSUME SearchInv, Skip PROVE SearchInv'
  OBVIOUS
<1>1. /\ pc = "scan" /\ n >= NP_SMALL_LIMIT /\ n \in Nat /\ p \in Nat /\ p > n
      /\ incr \in Nat /\ difference \in Nat /\ composite \subseteq Nat
      /\ (p + difference) % 2 = 1 /\ MarkedRight /\ incr \in composite
      /\ incr' = incr + 1 /\ difference' = difference + 2
      /\ UNCHANGED <<pc, n, p, composite>>
  BY DEF Skip, SearchInv
<1>2. PICK x \in Nat : x = p + difference /\ x % 2 = 1 /\ x > 1
  BY <1>1, PrimeConstants
<1>3. ~IsPrime(x)
  <2>1. incr >= incr /\ x = p + difference + 2 * (incr - incr)
    BY <1>1, <1>2
  <2> QED
    BY <1>1, <2>1 DEF MarkedRight
<1>4. Trusted' => Passed'
  <2> SUFFICES ASSUME Trusted' PROVE Passed'
    OBVIOUS
  <2>1. \A j \in n + 1 .. x - 1 : ~IsPrime(j)
    BY <1>1, <1>2 DEF SearchInv, Trusted, Passed
  <2>2. \A j \in n + 1 .. (x + 2) - 1 : ~IsPrime(j)
    BY <1>1, <1>2, <1>3, <2>1, PassOne
  <2>3. p' + difference' - 1 = (x + 2) - 1
    BY <1>1, <1>2
  <2> QED
    BY <1>1, <2>2, <2>3 DEF Passed
<1>5. MarkedRight'
  <2> SUFFICES ASSUME NEW i \in composite, i >= incr + 1
               PROVE  ~IsPrime(p + (difference + 2) + 2 * (i - (incr + 1)))
    BY <1>1 DEF MarkedRight
  <2>1. i \in Nat /\ i >= incr
    BY <1>1
  <2>2. p + (difference + 2) + 2 * (i - (incr + 1)) = p + difference + 2 * (i - incr)
    BY <1>1, <2>1
  <2> QED
    BY <1>1, <2>1, <2>2 DEF MarkedRight
<1>6. (p + (difference + 2)) % 2 = 1
  BY <1>1
<1> QED
  BY <1>1, <1>4, <1>5, <1>6, PrimeConstants DEF SearchInv

\* when one that is not marked is tested,
LEMMA TestCandidateSearch == SearchInv /\ TestCandidate => SearchInv'
<1> SUFFICES ASSUME SearchInv, TestCandidate PROVE SearchInv'
  OBVIOUS
<1>1. /\ pc = "scan" /\ n >= NP_SMALL_LIMIT /\ n \in Nat /\ p \in Nat /\ p > n
      /\ incr \in Nat /\ difference \in Nat /\ composite \subseteq Nat
      /\ (p + difference) % 2 = 1 /\ MarkedRight
      /\ p' = p + difference /\ UNCHANGED <<n, composite>>
  BY DEF TestCandidate, SearchInv
<1>2. PICK x \in Nat : x = p + difference /\ x % 2 = 1 /\ x > 1 /\ x > n /\ x > NP_SMALL_LIMIT
  BY <1>1, PrimeConstants
<1>3. PICK a \in {f \in RandomBases : f >= 3 /\ 2 * f < x} :
          \/ /\ mpz_millerrabin(x, a)
             /\ pc' = "done" /\ difference' = 0 /\ UNCHANGED incr
          \/ /\ ~mpz_millerrabin(x, a)
             /\ incr' = incr + 1 /\ difference' = 2 /\ UNCHANGED pc
  BY <1>2 DEF TestCandidate
<1>4. Trusted => \A j \in n + 1 .. x - 1 : ~IsPrime(j)
  BY <1>1, <1>2 DEF SearchInv, Passed
<1>5. Trusted' = Trusted
  BY <1>1 DEF Trusted
<1>6. CASE pc' = "done" /\ difference' = 0 /\ UNCHANGED incr
  <2>1. Trusted' => Passed'
    BY <1>1, <1>2, <1>4, <1>5, <1>6 DEF Passed
  <2> QED
    BY <1>1, <1>2, <1>6, <2>1, PrimeConstants DEF SearchInv
<1>7. CASE /\ ~mpz_millerrabin(x, a)
           /\ incr' = incr + 1 /\ difference' = 2 /\ UNCHANGED pc
  <2>1. Trusted' => Passed'
    <3> SUFFICES ASSUME Trusted PROVE Passed'
      BY <1>5
    <3>1. TestsPassPrimes
      BY <1>1, PrimeConstants DEF Trusted
    <3>2. ~IsPrime(x)
      BY <1>2, <1>7, <3>1 DEF TestsPassPrimes
    <3>3. \A j \in n + 1 .. (x + 2) - 1 : ~IsPrime(j)
      BY <1>1, <1>2, <1>4, <3>2, PassOne
    <3>4. p' + difference' - 1 = (x + 2) - 1
      BY <1>1, <1>2, <1>7
    <3> QED
      BY <1>1, <3>3, <3>4 DEF Passed
  <2>2. MarkedRight'
    <3> SUFFICES ASSUME NEW i \in composite, i >= incr + 1
                 PROVE  ~IsPrime(x + 2 + 2 * (i - (incr + 1)))
      BY <1>1, <1>2, <1>7 DEF MarkedRight
    <3>1. i \in Nat /\ i >= incr
      BY <1>1
    <3>2. x + 2 + 2 * (i - (incr + 1)) = p + difference + 2 * (i - incr)
      BY <1>1, <1>2, <3>1
    <3> QED
      BY <1>1, <3>1, <3>2 DEF MarkedRight
  <2>3. (x + 2) % 2 = 1
    BY <1>2
  <2> QED
    BY <1>1, <1>2, <1>7, <2>1, <2>2, <2>3, PrimeConstants DEF SearchInv
<1> QED
  BY <1>3, <1>6, <1>7

\* when the next segment is begun,
LEMMA NextSegmentSearch == SearchInv /\ NextSegment => SearchInv'
<1> SUFFICES ASSUME SearchInv, NextSegment PROVE SearchInv'
  OBVIOUS
<1>1. /\ pc = "scan" /\ pc' = "sieve" /\ n >= NP_SMALL_LIMIT /\ n \in Nat /\ p \in Nat
      /\ p > n /\ incr \in Nat /\ difference \in Nat /\ composite \subseteq Nat
      /\ (p + difference) % 2 = 1
      /\ p' = p + difference /\ difference' = 0 /\ UNCHANGED <<n, composite, incr>>
  BY DEF NextSegment, SearchInv
<1>2. Trusted' => Passed'
  <2> SUFFICES ASSUME Trusted' PROVE Passed'
    OBVIOUS
  <2>1. \A j \in n + 1 .. p + difference - 1 : ~IsPrime(j)
    BY <1>1 DEF SearchInv, Trusted, Passed
  <2>2. p' + difference' - 1 = p + difference - 1
    BY <1>1
  <2> QED
    BY <1>1, <2>1, <2>2 DEF Passed
<1>3. p' > n /\ p' + 0 = p' /\ p' \in Nat
  BY <1>1
<1> QED
  BY <1>1, <1>2, <1>3, PrimeConstants DEF SearchInv

\* and so in all states.
LEMMA SearchHolds == MCSpec => []SearchInv
<1>1. MCInit => SearchInv
  <2>1. NoPrime => SearchInv
    <3> SUFFICES ASSUME NoPrime PROVE SearchInv
      OBVIOUS
    <3>1. Passed
      BY DEF NoPrime, Passed
    <3> QED
      BY <3>1 DEF NoPrime, SearchInv
  <2> QED
    BY <2>1, InitSearch DEF MCInit
<1>2. SearchInv /\ [MCNext]_MCvars => SearchInv'
  <2>1. SearchInv /\ Next => SearchInv'
    BY StartSmallSearch, SmallStepSearch, StartLargeSearch, SieveSearch, SkipSearch,
       TestCandidateSearch, NextSegmentSearch DEF Next
  <2>2. SearchInv /\ UNCHANGED vars => SearchInv'
    BY DEF vars, SearchInv, Trusted, Passed, MarkedRight
  <2>3. SearchInv /\ UNCHANGED MCvars => SearchInv'
    BY <2>2 DEF MCvars
  <2> QED
    BY <2>1, <2>2, <2>3 DEF MCNext
<1> QED
  BY <1>1, <1>2, PTL DEF MCSpec

\* Up to NP_SMALL_LIMIT, mpz_nextprime ends with a prime: trial division by the
\* primes of the table is enough, and the search cannot leave their range.
THEOREM SmallResultIsPrime == MCSpec => [](n < NP_SMALL_LIMIT => ResultIsPrime)
<1>1. SearchInv => (n < NP_SMALL_LIMIT => ResultIsPrime)
  BY DEF SearchInv, ResultIsPrime
<1> QED
  BY <1>1, SearchHolds, PTL

\* mpz_nextprime passes no prime over, by trial division for a small number and,
\* for others, by the sieve or at the end of a segment, if its tests pass all
\* primes, which is number theory.
THEOREM SearchSkipsNoPrime == MCSpec => [](Trusted => NoPrimeSkipped)
<1>1. SearchInv => (Trusted => NoPrimeSkipped)
  BY DEF SearchInv, Trusted, Passed, MarkedRight, NoPrimeSkipped
<1> QED
  BY <1>1, SearchHolds, PTL

-----------------------------------------------------------------------------
(***************************************************************************)
(* mpz_powm.                                                               *)
(***************************************************************************)
LEMMA PowmPowers ==
    /\ \A x, k : Powm!Power(x, k) = Power(x, k)
    /\ \A x, k, w : Powm!PowM(x, k, w) = PowM(x, k, w)
  BY DEF Powm!Power, Power, Powm!PowM, PowM

\* The limbs of mpz_powm.
LEMMA PowmConstants ==
    /\ LIMB_BITS \in Nat \ {0}
    /\ Powm!LIMB = Power(2, LIMB_BITS)
    /\ Power(2, LIMB_BITS) \in Nat \ {0}
<1>1. LIMB_BITS \in Nat \ {0}
  BY MCGmpAssumption DEF Powm!PowmAssumption
<1>2. Power(2, LIMB_BITS) \in Nat \ {0}
  BY <1>1, PowerPositive
<1> QED
  BY <1>1, <1>2, PowmPowers DEF Powm!LIMB

\* The length of a number in bits.
LEMMA PowmBits ==
    ASSUME NEW x \in Nat
    PROVE  /\ Powm!Bits(x) \in 0 .. x
           /\ x < Power(2, Powm!Bits(x))
           /\ Powm!Bits(x) = 0 \/ x >= Power(2, Powm!Bits(x) - 1)
<1> DEFINE Q(k) == x < Power(2, k) /\ (k = 0 \/ x >= Power(2, k - 1))
<1>1. \E k \in 0 .. x : Q(k)
  BY LengthExists
<1>2. Powm!Bits(x) = CHOOSE k \in 0 .. x : Q(k)
  BY PowmPowers, Zenon DEF Powm!Bits
<1> HIDE DEF Q
<1>3. Powm!Bits(x) \in 0 .. x /\ Q(Powm!Bits(x))
  BY <1>1, <1>2, Zenon
<1> QED
  BY <1>3 DEF Q

\* The zero bits at its end.
LEMMA PowmZeros ==
    ASSUME NEW x \in Nat \ {0}
    PROVE  /\ Powm!TrailingZeros(x) \in 0 .. x
           /\ x % Power(2, Powm!TrailingZeros(x)) = 0
           /\ x % Power(2, Powm!TrailingZeros(x) + 1) # 0
<1> DEFINE Q(k) == x % Power(2, k) = 0 /\ x % Power(2, k + 1) # 0
<1>1. \E k \in 0 .. x : Q(k)
  BY ZerosExist
<1>2. Powm!TrailingZeros(x) = CHOOSE k \in 0 .. x : Q(k)
  BY PowmPowers, Zenon DEF Powm!TrailingZeros
<1> HIDE DEF Q
<1>3. Powm!TrailingZeros(x) \in 0 .. x /\ Q(Powm!TrailingZeros(x))
  BY <1>1, <1>2, Zenon
<1> QED
  BY <1>3 DEF Q

\* The number of limbs that k bits take.
LEMMA LimbsHold ==
    ASSUME NEW k \in Nat, NEW c, c = (k + LIMB_BITS - 1) \div LIMB_BITS
    PROVE  /\ c \in Nat /\ k <= LIMB_BITS * c
           /\ Power(Power(2, LIMB_BITS), c) = Power(2, LIMB_BITS * c)
           /\ Power(2, LIMB_BITS * c) \in Nat \ {0}
           /\ \E d \in Nat \ {0} : Power(2, LIMB_BITS * c) = Power(2, k) * d
<1>1. PICK w \in Nat \ {0}, x \in Nat : w = LIMB_BITS /\ x = (k + w) - 1
  BY PowmConstants
<1>2. PICK y \in Nat, r \in 0 .. w - 1 : y = x \div w /\ x = (w * y) + r
  <2>1. /\ x \div w \in Nat /\ x % w \in 0 .. w - 1
        /\ x = (w * (x \div w)) + (x % w)
    BY Remainder
  <2> QED
    BY <2>1
<1>3. c = y /\ k <= w * y
  <2>1. w * y \in Nat
    OBVIOUS
  <2>2. k + w - 1 = x
    BY <1>1
  <2> QED
    BY <1>1, <1>2, <2>1, <2>2
<1>4. PICK g \in Nat, h \in Nat : g = w * y /\ g = k + h
  <2>1. w * y \in Nat /\ (w * y) - k \in Nat
    BY <1>3
  <2> QED
    BY <2>1
<1>5. Power(2, k + h) = Power(2, k) * Power(2, h)
  BY PowerSum
<1>6. Power(2, h) \in Nat \ {0} /\ Power(2, g) \in Nat \ {0}
  BY PowerPositive
<1>7. Power(Power(2, w), y) = Power(2, w * y)
  BY PowerProduct
<1> QED
  BY <1>1, <1>3, <1>4, <1>5, <1>6, <1>7

-----------------------------------------------------------------------------
\* The odd part of the modulus, and what follows from its being odd.
OddPartOk == mp \in Nat /\ mp % 2 = 1

\* R is a power of two above the odd part.
LEMMA OddModulus ==
    ASSUME OddPartOk
    PROVE  /\ mp \in Nat \ {0}
           /\ Powm!n \in Nat
           /\ Powm!R = Power(2, LIMB_BITS * Powm!n) /\ LIMB_BITS * Powm!n \in Nat
           /\ Powm!R \in Nat \ {0} /\ mp < Powm!R
           /\ Powm!n = 1 => Powm!R = Power(2, LIMB_BITS)
<1>1. mp \in Nat \ {0}
  BY DEF OddPartOk
<1>2. PICK k \in Nat : k = Powm!Bits(mp) /\ mp < Power(2, k)
  BY <1>1, PowmBits
<1>3. PICK c \in Nat : c = Powm!n /\ c = (k + LIMB_BITS - 1) \div LIMB_BITS
  <2>1. Powm!n = (k + LIMB_BITS - 1) \div LIMB_BITS
    BY <1>2 DEF Powm!n, Powm!Limbs
  <2> QED
    BY <2>1, LimbsHold
<1>4. /\ k <= LIMB_BITS * c /\ LIMB_BITS * c \in Nat
      /\ Power(Power(2, LIMB_BITS), c) = Power(2, LIMB_BITS * c)
      /\ Power(2, LIMB_BITS * c) \in Nat \ {0}
  <2>1. /\ k <= LIMB_BITS * c
        /\ Power(Power(2, LIMB_BITS), c) = Power(2, LIMB_BITS * c)
        /\ Power(2, LIMB_BITS * c) \in Nat \ {0}
    BY <1>3, LimbsHold
  <2>2. LIMB_BITS * c \in Nat
    BY PowmConstants
  <2> QED
    BY <2>1, <2>2
<1>5. Powm!R = Power(2, LIMB_BITS * c)
  BY <1>3, <1>4, PowmConstants, PowmPowers DEF Powm!R
<1>6. Power(2, k) <= Power(2, LIMB_BITS * c)
  BY <1>4, PowerMonotone
<1>7. mp < Powm!R
  BY <1>1, <1>2, <1>4, <1>5, <1>6, PowerRecursion
<1>8. Powm!n = 1 => Powm!R = Power(2, LIMB_BITS)
  <2>1. LIMB_BITS * 1 = LIMB_BITS
    BY PowmConstants
  <2> QED
    BY <1>3, <1>5, <2>1
<1> QED
  BY <1>1, <1>3, <1>4, <1>5, <1>7, <1>8

\* The power of two above the odd part.
LEMMA OddModulusLength ==
    ASSUME OddPartOk
    PROVE  \E y \in Nat \ {0}, d \in Nat \ {0} :
               /\ y = Power(2, Powm!Bits(mp)) /\ Powm!R = y * d
               /\ mp < y /\ y <= 2 * mp
               /\ Powm!Bits(mp) \in Nat \ {0}
               /\ y = 2 * Power(2, Powm!Bits(mp) - 1)
               /\ Power(2, Powm!Bits(mp) - 1) \in Nat
<1>1. mp \in Nat \ {0}
  BY DEF OddPartOk
<1>2. PICK k \in Nat : k = Powm!Bits(mp) /\ mp < Power(2, k)
                       /\ (k = 0 \/ mp >= Power(2, k - 1))
  BY <1>1, PowmBits
<1>3. k # 0
  BY <1>1, <1>2, PowerRecursion
<1>4. PICK j \in Nat : j = k - 1 /\ k = j + 1
  BY <1>3
<1>5. Power(2, k) = Power(2, j) * 2 /\ Power(2, j) \in Nat
  BY <1>4, PowerRecursion
<1>6. Power(2, k) \in Nat \ {0}
  BY PowerPositive
<1>7. \E d \in Nat \ {0} : Powm!R = Power(2, k) * d
  <2>1. PICK c \in Nat : c = Powm!n /\ c = (k + LIMB_BITS - 1) \div LIMB_BITS
    <3>1. Powm!n = (k + LIMB_BITS - 1) \div LIMB_BITS
      BY <1>2 DEF Powm!n, Powm!Limbs
    <3> QED
      BY <3>1, LimbsHold
  <2>2. \E d \in Nat \ {0} : Power(2, LIMB_BITS * c) = Power(2, k) * d
    BY <2>1, LimbsHold
  <2> QED
    BY <2>1, <2>2, OddModulus
<1>8. PICK y \in Nat \ {0}, d \in Nat \ {0} : y = Power(2, k) /\ Powm!R = y * d
  BY <1>6, <1>7
<1>9. mp < y /\ y <= 2 * mp /\ y = 2 * Power(2, j)
  BY <1>1, <1>2, <1>3, <1>4, <1>5, <1>8
<1> QED
  BY <1>2, <1>3, <1>4, <1>5, <1>8, <1>9

\* 1 / mp modulo a power of two, and -1 / mp modulo a limb.
LEMMA InverseIs ==
    ASSUME OddPartOk, NEW k \in Nat
    PROVE  /\ Powm!Inverse(Power(2, k)) \in Nat
           /\ Same(Powm!Inverse(Power(2, k)) * mp, 1, Power(2, k))
<1>1. PICK w \in Nat \ {0} : w = Power(2, k)
  BY PowerPositive
<1> DEFINE Q(i) == (i * mp) % w = 1 % w
<1>2. \E i \in 0 .. w - 1 : Q(i)
  BY <1>1, OddInverse DEF OddPartOk, Same
<1>3. Powm!Inverse(w) = CHOOSE i \in 0 .. w - 1 : Q(i)
  BY DEF Powm!Inverse
<1> HIDE DEF Q
<1>4. Powm!Inverse(w) \in 0 .. w - 1 /\ Q(Powm!Inverse(w))
  BY <1>2, <1>3, Zenon
<1> QED
  BY <1>1, <1>4 DEF Q, Same

\* -1 / mp modulo a limb.
LEMMA NegInverseIs ==
    ASSUME OddPartOk
    PROVE  /\ Powm!NegInverse \in Nat
           /\ NegInverseOf(Powm!NegInverse, mp, Power(2, LIMB_BITS))
<1>1. PICK w \in Nat \ {0} : w = Power(2, LIMB_BITS) /\ w = Powm!LIMB
  BY PowmConstants
<1>2. PICK x \in Nat : x = mp
  BY DEF OddPartOk
<1> DEFINE Q(i) == (i * x) % w = w - 1
<1>3. \E i \in 0 .. w - 1 : Q(i)
  <2>1. PICK i \in 0 .. w - 1 : Same(i * x, 1, w)
    BY <1>1, <1>2, OddInverse, PowmConstants DEF OddPartOk
  <2>2. w >= 2
    <3>1. LIMB_BITS < Power(2, LIMB_BITS) /\ LIMB_BITS >= 1
      BY PowerOfTwoAbove, PowmConstants
    <3> QED
      BY <1>1, <3>1, PowmConstants
  <2>3. (i * x) % w = 1
    <3>1. 1 % w = 1
      BY <2>2, BelowDivisor
    <3> QED
      BY <2>1, <3>1 DEF Same
  <2>4. PICK y \in Nat, c \in Nat : y = i * x /\ y = (w * c) + (y % w)
    <3>1. PICK y \in Nat : y = i * x
      OBVIOUS
    <3>2. y \div w \in Nat /\ y = (w * (y \div w)) + (y % w)
      BY Remainder
    <3> QED
      BY <3>1, <3>2
  <2>5. y = (w * c) + 1
    BY <2>3, <2>4
  <2>6. i # 0
    <3> SUFFICES ASSUME i = 0 PROVE FALSE
      OBVIOUS
    <3>1. y = 0
      BY <2>4
    <3> QED
      BY <2>5, <3>1
  <2>7. PICK j \in 0 .. w - 1 : j = w - i
    BY <2>6
  <2>8. j * x = (w * x) - y
    BY <2>4, <2>7
  <2>9. c < x
    <3> SUFFICES ASSUME c >= x PROVE FALSE
      OBVIOUS
    <3>1. w * c >= w * x /\ w * x >= i * x
      OBVIOUS
    <3> QED
      BY <2>4, <2>5, <3>1
  <2>10. PICK h \in Nat : h = (x - c) - 1
    BY <2>9
  <2>11. j * x = (w * h) + (w - 1)
    <3>1. w * h = ((w * x) - (w * c)) - w
      BY <2>10
    <3> QED
      BY <2>5, <2>8, <3>1
  <2>12. ((w * h) + (w - 1)) % w = w - 1
    <3>1. PICK r \in 0 .. w - 1 : r = w - 1
      OBVIOUS
    <3>2. ((w * h) + r) % w = r
      BY Quotient
    <3> QED
      BY <3>1, <3>2
  <2> QED
    BY <2>11, <2>12
<1>4. Powm!NegInverse = CHOOSE i \in 0 .. w - 1 : Q(i)
  BY <1>1, <1>2 DEF Powm!NegInverse
<1> HIDE DEF Q
<1>5. Powm!NegInverse \in 0 .. w - 1 /\ Q(Powm!NegInverse)
  BY <1>3, <1>4, Zenon
<1>6. (w - 1) % w = w - 1
  <2>1. PICK r \in 0 .. w - 1 : r = w - 1
    OBVIOUS
  <2> QED
    BY <2>1, BelowDivisor
<1> QED
  BY <1>1, <1>2, <1>5, <1>6 DEF Q, Same, NegInverseOf

\* MPN_REDC_1 is Montgomery's reduction.
LEMMA Redc1Is ==
    ASSUME OddPartOk, NEW u \in Nat
    PROVE  \E x \in Nat, q \in 0 .. Powm!R - 1 :
               /\ Powm!R * x = u + (q * mp)
               /\ Powm!Redc1(u) = CarryTaken(x, mp, Powm!R)
<1>1. PICK L \in Nat \ {0}, v \in Nat, k \in Nat, w \in Nat :
          /\ L = Power(2, LIMB_BITS) /\ L = Powm!LIMB /\ v = Powm!NegInverse
          /\ k = Powm!n /\ w = mp
  BY PowmConstants, NegInverseIs, OddModulus
<1>2. NegInverseOf(v, w, L)
  BY <1>1, NegInverseIs
<1>3. Powm!R = Power(L, k)
  BY <1>1, PowmPowers DEF Powm!R
<1> DEFINE up[j \in 0 .. Powm!n] ==
               IF j = 0 THEN u
               ELSE (up[j - 1] + (((up[j - 1] % Powm!LIMB) * Powm!NegInverse) % Powm!LIMB)
                                 * mp) \div Powm!LIMB
<1>4. Powm!Redc1(u) = IF up[Powm!n] >= Powm!R THEN up[Powm!n] - mp ELSE up[Powm!n]
  BY DEF Powm!Redc1
<1>5. \E f : f = [j \in 0 .. Powm!n |->
                     IF j = 0 THEN u
                     ELSE (f[j - 1] + (((f[j - 1] % Powm!LIMB) * Powm!NegInverse) % Powm!LIMB)
                                      * mp) \div Powm!LIMB]
  <2>1. PICK f \in [0 .. k -> Nat] : RedcRun(f, u, k, v, w, L)
    BY <1>2, RedcRunExists
  <2>2. f = [j \in 0 .. k |->
                IF j = 0 THEN u
                ELSE (f[j - 1] + (((f[j - 1] % L) * v) % L) * w) \div L]
    BY <2>1 DEF RedcRun, RedcTurn
  <2> QED
    BY <1>1, <2>2, Zenon
<1>6. up = [j \in 0 .. Powm!n |->
                     IF j = 0 THEN u
                     ELSE (up[j - 1] + (((up[j - 1] % Powm!LIMB) * Powm!NegInverse) % Powm!LIMB)
                                      * mp) \div Powm!LIMB]
  BY <1>5, Zenon
<1> HIDE DEF up
<1>7. RedcRun(up, u, k, v, w, L)
  BY <1>1, <1>6, Zenon DEF RedcRun, RedcTurn
<1>8. /\ up[k] \in Nat
      /\ \E q \in 0 .. Power(L, k) - 1 : Power(L, k) * up[k] = u + (q * w)
  BY <1>2, <1>7, RedcRunIs
<1>9. Powm!Redc1(u) = CarryTaken(up[k], mp, Powm!R)
  BY <1>1, <1>4 DEF CarryTaken
<1> QED
  BY <1>1, <1>3, <1>8, <1>9

\* It divides by R modulo mp and stays below R; with one subtraction more, below mp.
LEMMA Redc1Reduces ==
    ASSUME OddPartOk, NEW u \in Nat
    PROVE  /\ Powm!Redc1(u) \in Nat
           /\ Same(Powm!R * Powm!Redc1(u), u, mp)
           /\ u < Powm!R * Powm!R => Powm!Redc1(u) < Powm!R
           /\ u < Powm!R => Powm!Subtracted(Powm!Redc1(u)) < mp
<1>1. PICK R \in Nat \ {0}, w \in Nat \ {0} : R = Powm!R /\ w = mp /\ w < R
  BY OddModulus
<1>2. PICK x \in Nat, q \in 0 .. R - 1 :
          R * x = u + (q * w) /\ Powm!Redc1(u) = CarryTaken(x, w, R)
  BY <1>1, Redc1Is
<1>3. CarryTaken(x, w, R) \in Nat /\ Same(R * CarryTaken(x, w, R), u, w)
  BY <1>1, <1>2, CarriedIs
<1>4. u < R * R => CarryTaken(x, w, R) < R
  BY <1>1, <1>2, CarriedFits
<1>5. u < R => Less(CarryTaken(x, w, R), w) < w
  BY <1>1, <1>2, CarriedIsRemainder
<1> QED
  BY <1>1, <1>2, <1>3, <1>4, <1>5 DEF Less, Powm!Subtracted

\* ... of the square of a number as long as mp, to less than mp.
LEMMA Redc1Square ==
    ASSUME OddPartOk, NEW u \in Nat, NEW y \in Nat \ {0},
           y = Power(2, Powm!Bits(mp)), u < y * y
    PROVE  Powm!Subtracted(Powm!Redc1(u)) < mp
<1>1. PICK R \in Nat \ {0}, w \in Nat \ {0} : R = Powm!R /\ w = mp /\ w < R
  BY OddModulus
<1>2. PICK x \in Nat, q \in 0 .. R - 1 :
          R * x = u + (q * w) /\ Powm!Redc1(u) = CarryTaken(x, w, R)
  BY <1>1, Redc1Is
<1>3. PICK d \in Nat \ {0} : R = y * d /\ w < y /\ y <= 2 * w
  BY <1>1, OddModulusLength
<1>4. Less(CarryTaken(x, w, R), w) < w
  BY <1>1, <1>2, <1>3, CarriedSquare
<1> QED
  BY <1>1, <1>2, <1>4 DEF Less, Powm!Subtracted

\* MPN_REDC_0 is it too, for a modulus of one limb.
LEMMA Redc0Reduces ==
    ASSUME OddPartOk, Powm!n = 1, NEW u \in Nat
    PROVE  /\ Powm!Redc0(u) \in Nat
           /\ Same(Powm!R * Powm!Redc0(u), u, mp)
           /\ u < Powm!R * Powm!R => Powm!Redc0(u) < Powm!R
           /\ u < Powm!R * mp => Powm!Redc0(u) < mp
<1>1. PICK L \in Nat \ {0}, w \in Nat \ {0} :
          L = Powm!LIMB /\ L = Powm!R /\ L = Power(2, LIMB_BITS) /\ w = mp /\ w <= L
  BY OddModulus, PowmConstants
<1>2. PICK v \in Nat : v = Powm!Inverse(L) /\ Same(v * w, 1, L)
  BY <1>1, InverseIs, PowmConstants
<1>3. Powm!Redc0(u) = RedcShort(u, v, w, L)
  BY <1>1, <1>2 DEF Powm!Redc0, RedcShort, Surplus
<1>4. /\ RedcShort(u, v, w, L) \in Nat
      /\ Same(L * RedcShort(u, v, w, L), u, w)
      /\ u < L * L => RedcShort(u, v, w, L) < L
      /\ u < L * w => RedcShort(u, v, w, L) < w
  BY <1>1, <1>2, RedcShortIs
<1> QED
  BY <1>1, <1>3, <1>4

\* Whichever reduction the loop takes.
LEMMA MpnReduces ==
    ASSUME OddPartOk, NEW u \in Nat
    PROVE  /\ Powm!MpnReduce(u) \in Nat
           /\ Same(Powm!R * Powm!MpnReduce(u), u, mp)
           /\ u < Powm!R * Powm!R => Powm!MpnReduce(u) < Powm!R
  BY Redc0Reduces, Redc1Reduces DEF Powm!MpnReduce

-----------------------------------------------------------------------------
(***************************************************************************)
(* x stands for the power of b to the s, in the form that a loop works     *)
(* with: Montgomery's form modulo mp, or modulo a power of two.            *)
(***************************************************************************)
InForm(x, s) ==
    /\ x \in Nat /\ x < Powm!R
    /\ Same(x, Power(b, s) * Powm!R, mp)

InLow(x, s) ==
    /\ x \in Nat /\ x < Powm!RLow
    /\ Same(x, Power(b, s), Powm!RLow)

Stands(x, s) == IF wpc \in {"even", "lo"} THEN InLow(x, s) ELSE InForm(x, s)

\* What is known of the arguments once the modulus is split.
SplitOk ==
    /\ OddPartOk
    /\ b \in Nat \ {0} /\ e \in Nat /\ e > 1 /\ m \in Nat \ {0}
    /\ Powm!twos \in Nat /\ Powm!twos <= Power(2, LIMB_BITS)
    /\ m = mp * Power(2, Powm!twos)

\* RLow is a power of two, and a multiple of 2 ^ twos.
LEMMA LowModulus ==
    ASSUME SplitOk
    PROVE  /\ Powm!ncnt \in Nat /\ LIMB_BITS * Powm!ncnt \in Nat
           /\ Powm!RLow = Power(2, LIMB_BITS * Powm!ncnt)
           /\ Powm!RLow \in Nat \ {0}
           /\ \E d \in Nat \ {0} : Powm!RLow = Power(2, Powm!twos) * d
<1>1. PICK k \in Nat : k = Powm!twos
  BY DEF SplitOk
<1>2. PICK c \in Nat : c = Powm!ncnt /\ c = (k + LIMB_BITS - 1) \div LIMB_BITS
  <2>1. Powm!ncnt = (k + LIMB_BITS - 1) \div LIMB_BITS
    BY <1>1 DEF Powm!ncnt
  <2> QED
    BY <2>1, LimbsHold
<1>3. /\ Power(Power(2, LIMB_BITS), c) = Power(2, LIMB_BITS * c)
      /\ Power(2, LIMB_BITS * c) \in Nat \ {0}
      /\ \E d \in Nat \ {0} : Power(2, LIMB_BITS * c) = Power(2, k) * d
  BY <1>2, LimbsHold
<1>4. LIMB_BITS * c \in Nat
  BY PowmConstants
<1>5. Powm!RLow = Power(2, LIMB_BITS * c)
  BY <1>2, <1>3, PowmConstants, PowmPowers DEF Powm!RLow
<1> QED
  BY <1>1, <1>2, <1>3, <1>4, <1>5

\* One multiplication of a loop, reduced.
LEMMA FormProduct ==
    ASSUME SplitOk, NEW s \in Nat, NEW t \in Nat, NEW x \in Nat, NEW y \in Nat,
           InForm(x, s), InForm(y, t), NEW z2 \in Nat, z2 < Powm!R,
           Same(Powm!R * z2, x * y, mp)
    PROVE  InForm(z2, s + t)
<1>1. PICK R \in Nat, w \in Nat, k \in Nat, f \in Nat, g \in Nat :
          /\ R = Powm!R /\ w = mp /\ w % 2 = 1 /\ R = Power(2, k)
          /\ f = Power(b, s) /\ g = Power(b, t)
  BY OddModulus, PowerRecursion DEF SplitOk, OddPartOk
<1>2. Same(x, f * R, w) /\ Same(y, g * R, w) /\ Same(R * z2, x * y, w)
  BY <1>1 DEF InForm
<1>3. Same(z2, (f * g) * R, w)
  BY <1>1, <1>2, FormOfProduct
<1>4. Power(b, s + t) = f * g
  BY <1>1, PowerSum DEF SplitOk
<1> QED
  BY <1>1, <1>3, <1>4 DEF InForm

\* The product of two numbers that stand for powers, reduced, stands for the product.
LEMMA ReduceStands ==
    ASSUME SplitOk, NEW s \in Nat, NEW t \in Nat, NEW x, NEW y,
           Stands(x, s), Stands(y, t)
    PROVE  /\ x \in Nat /\ y \in Nat
           /\ Stands(Powm!Reduce(x * y), s + t)
<1>1. CASE wpc \in {"even", "lo"}
  <2>1. InLow(x, s) /\ InLow(y, t)
    BY <1>1 DEF Stands
  <2>2. PICK u \in Nat, w \in Nat \ {0}, f \in Nat, g \in Nat :
            /\ u = x * y /\ w = Powm!RLow
            /\ f = Power(b, s) /\ g = Power(b, t) /\ Power(b, s + t) = f * g
    <3>1. Power(b, s) \in Nat /\ Power(b, t) \in Nat
      BY PowerRecursion DEF SplitOk
    <3>2. Power(b, s + t) = Power(b, s) * Power(b, t)
      BY PowerSum DEF SplitOk
    <3>3. x \in Nat /\ y \in Nat
      BY <2>1 DEF InLow
    <3>4. Powm!RLow \in Nat \ {0} /\ x * y \in Nat
      BY <3>3, LowModulus
    <3> QED
      BY <3>1, <3>2, <3>4
  <2>3. Powm!Reduce(x * y) = u % w
    BY <1>1, <2>2 DEF Powm!Reduce
  <2>4. u % w \in Nat /\ u % w < w /\ Same(u % w, u, w)
    BY SameAsRemainder
  <2>5. Same(x * y, f * g, w) /\ x \in Nat /\ y \in Nat
    BY <2>1, <2>2, SameProduct DEF InLow
  <2>6. Same(u % w, f * g, w)
    BY <2>2, <2>4, <2>5, SameThrough
  <2> QED
    BY <1>1, <2>2, <2>3, <2>4, <2>5, <2>6 DEF Stands, InLow
<1>2. CASE wpc \notin {"even", "lo"}
  <2>1. InForm(x, s) /\ InForm(y, t)
    BY <1>2 DEF Stands
  <2>2. PICK u \in Nat : u = x * y /\ x \in Nat /\ y \in Nat
    BY <2>1 DEF InForm
  <2>3. u < Powm!R * Powm!R
    <3>1. PICK R \in Nat \ {0} : R = Powm!R
      BY OddModulus DEF SplitOk
    <3>2. x < R /\ y < R
      BY <2>1, <3>1 DEF InForm
    <3>3. x * y <= x * R /\ x * R < R * R
      BY <2>2, <3>2
    <3> QED
      BY <2>2, <3>1, <3>3
  <2>4. PICK r \in Nat : r = Powm!MpnReduce(u) /\ r < Powm!R /\ Same(Powm!R * r, u, mp)
    BY <2>3, MpnReduces DEF SplitOk
  <2>5. InForm(r, s + t)
    BY <2>1, <2>2, <2>4, FormProduct
  <2>6. Powm!Reduce(x * y) = r
    BY <1>2, <2>2, <2>4 DEF Powm!Reduce
  <2> QED
    BY <1>2, <2>2, <2>5, <2>6 DEF Stands
<1> QED
  BY <1>1, <1>2

\* Reducing gives a number, whatever is reduced.
LEMMA ReduceIsNumber ==
    ASSUME SplitOk, NEW u \in Nat
    PROVE  Powm!Reduce(u) \in Nat
<1>1. PICK w \in Nat \ {0} : w = Powm!RLow
  BY LowModulus
<1>2. u % w \in Nat
  BY Remainder
<1>3. Powm!MpnReduce(u) \in Nat
  BY MpnReduces DEF SplitOk
<1> QED
  BY <1>1, <1>2, <1>3 DEF Powm!Reduce

\* Squaring k times.
LEMMA SquaredStands ==
    ASSUME SplitOk, NEW k \in Nat, NEW s \in Nat, NEW r, Stands(r, s)
    PROVE  Stands(Powm!Squared(r, k), Power(2, k) * s)
<1> DEFINE square[i \in 0 .. k] ==
               IF i = 0 THEN r ELSE Powm!Reduce(square[i - 1] * square[i - 1])
           step == [x \in (1 .. k) \X Nat |-> Powm!Reduce(x[2] * x[2])]
<1>1. Powm!Squared(r, k) = square[k]
  BY DEF Powm!Squared
<1>2. r \in Nat
  BY DEF Stands, InLow, InForm
<1>3. PICK f \in [0 .. k -> Nat] : Loop(f, k, r, step)
  <2>1. \A x \in Nat : Powm!Reduce(x * x) \in Nat
    BY ReduceIsNumber
  <2>2. step \in [(1 .. k) \X Nat -> Nat]
    BY <2>1
  <2> HIDE DEF step
  <2> QED
    BY <1>2, <2>2, LoopExists
<1>4. f = [i \in 0 .. k |-> IF i = 0 THEN r ELSE Powm!Reduce(f[i - 1] * f[i - 1])]
  <2>1. \A i \in 0 .. k : i # 0 => step[<<i, f[i - 1]>>] = Powm!Reduce(f[i - 1] * f[i - 1])
    OBVIOUS
  <2> HIDE DEF step
  <2> QED
    BY <1>3, <2>1 DEF Loop
<1>5. square = [i \in 0 .. k |->
                   IF i = 0 THEN r ELSE Powm!Reduce(square[i - 1] * square[i - 1])]
  BY <1>4, Zenon
<1> HIDE DEF square, step
<1> DEFINE S == {i \in 0 .. k : Stands(square[i], Power(2, i) * s)}
<1>6. /\ Power(2, 0) = 1
      /\ \A i \in Nat : Power(2, i) \in Nat /\ Power(2, i + 1) = Power(2, i) * 2
  BY PowerRecursion
<1>7. 0 \in S
  <2>1. 0 \in 0 .. k /\ Power(2, 0) * s = s
    BY <1>6
  <2>2. square[0] = r
    BY <1>5, <2>1, Zenon
  <2> QED
    BY <2>1, <2>2
<1>8. ASSUME NEW i \in 0 .. k - 1, i \in S PROVE i + 1 \in S
  <2>1. i + 1 \in 0 .. k /\ i + 1 # 0 /\ (i + 1) - 1 = i
    OBVIOUS
  <2>2. square[i + 1] = Powm!Reduce(square[i] * square[i])
    BY <1>5, <2>1, Zenon
  <2>3. PICK t \in Nat, g \in Nat : t = g * s /\ g = Power(2, i) /\ Power(2, i + 1) = g * 2
    <3>1. PICK g \in Nat : g = Power(2, i)
      BY <1>6
    <3>2. Power(2, i + 1) = g * 2
      BY <1>6, <3>1
    <3>3. g * s \in Nat
      OBVIOUS
    <3> QED
      BY <3>1, <3>2, <3>3
  <2>4. Stands(square[i], t)
    BY <1>8, <2>3
  <2>5. Stands(square[i + 1], t + t)
    BY <2>2, <2>4, ReduceStands
  <2>6. t + t = Power(2, i + 1) * s
    BY <2>3
  <2> QED
    BY <2>1, <2>5, <2>6
<1> HIDE DEF S
<1>9. \A i \in 0 .. k : i \in S
  BY <1>7, <1>8, UpToInduction
<1>10. k \in S
  BY <1>9
<1> QED
  BY <1>1, <1>10 DEF S

\* The window size is at least one bit, and no more than the exponent has.
LEMMA WindowFits ==
    ASSUME SplitOk
    PROVE  /\ Powm!Bits(e) \in Nat
           /\ Powm!win_size(Powm!Bits(e)) \in 1 .. Powm!Bits(e)
<1>1. PICK k \in Nat : k = Powm!Bits(e) /\ e < Power(2, k)
  BY PowmBits DEF SplitOk
<1>2. k # 0
  BY <1>1, PowerRecursion DEF SplitOk
<1> DEFINE Small == {i \in 1 .. Len(WindowLimits) : k > WindowLimits[i]}
<1>3. Small \subseteq 1 .. k - 1
  <2>1. WindowLimits \in Seq(Nat) /\ \A i \in 1 .. Len(WindowLimits) : WindowLimits[i] >= i
    BY MCGmpAssumption DEF Powm!PowmAssumption
  <2> QED
    BY <2>1
<1>4. IsFiniteSet(1 .. k - 1) /\ Cardinality(1 .. k - 1) = k - 1
  BY <1>2, FS_Interval
<1> HIDE DEF Small
<1>5. Cardinality(Small) \in Nat /\ Cardinality(Small) <= k - 1
  BY <1>3, <1>4, FS_Subset, FS_CardinalityType
<1>6. Powm!win_size(Powm!Bits(e)) = 1 + Cardinality(Small)
  <2>1. Powm!win_size(k) = 1 + Cardinality(Small)
    BY Zenon DEF Powm!win_size, Small, Powm!Cardinality, Cardinality
  <2> QED
    BY <1>1, <2>1
<1> QED
  BY <1>1, <1>5, <1>6

\* The table of odd powers.
TableStands(table) ==
    \A i \in 0 .. Power(2, Powm!win_size(Powm!Bits(e)) - 1) - 1 :
        Stands(table[i], (2 * i) + 1)

\* Its entries stand for the odd powers.
LEMMA TableIsOfPowers ==
    ASSUME SplitOk, NEW first, NEW square, Stands(first, 1), Stands(square, 2)
    PROVE  TableStands(Powm!Table(first, square))
<1>1. PICK w \in Nat \ {0} : w = Powm!win_size(Powm!Bits(e))
  BY WindowFits
<1>2. PICK k \in Nat : k = Power(2, w - 1) - 1
  <2>1. w - 1 \in Nat
    OBVIOUS
  <2>2. Power(2, w - 1) \in Nat \ {0}
    BY <2>1, PowerPositive
  <2> QED
    BY <2>2
<1> DEFINE table[i \in 0 .. k] ==
               IF i = 0 THEN first ELSE Powm!Reduce(table[i - 1] * square)
           step == [x \in (1 .. k) \X Nat |-> Powm!Reduce(x[2] * square)]
<1>3. Powm!Table(first, square) = table
  BY <1>1, <1>2, PowmPowers DEF Powm!Table
<1>4. first \in Nat /\ square \in Nat
  BY DEF Stands, InLow, InForm
<1>5. PICK f \in [0 .. k -> Nat] : Loop(f, k, first, step)
  <2>1. \A x \in Nat : Powm!Reduce(x * square) \in Nat
    BY <1>4, ReduceIsNumber
  <2>2. step \in [(1 .. k) \X Nat -> Nat]
    BY <2>1
  <2> HIDE DEF step
  <2> QED
    BY <1>4, <2>2, LoopExists
<1>6. f = [i \in 0 .. k |-> IF i = 0 THEN first ELSE Powm!Reduce(f[i - 1] * square)]
  <2>1. \A i \in 0 .. k : i # 0 => step[<<i, f[i - 1]>>] = Powm!Reduce(f[i - 1] * square)
    OBVIOUS
  <2> HIDE DEF step
  <2> QED
    BY <1>5, <2>1 DEF Loop
<1>7. table = [i \in 0 .. k |->
                   IF i = 0 THEN first ELSE Powm!Reduce(table[i - 1] * square)]
  BY <1>6, Zenon
<1> HIDE DEF table, step
<1> DEFINE S == {i \in 0 .. k : Stands(table[i], (2 * i) + 1)}
<1>8. 0 \in S
  <2>1. 0 \in 0 .. k /\ (2 * 0) + 1 = 1
    OBVIOUS
  <2>2. table[0] = first
    BY <1>7, <2>1, Zenon
  <2> QED
    BY <2>1, <2>2
<1>9. ASSUME NEW i \in 0 .. k - 1, i \in S PROVE i + 1 \in S
  <2>1. i + 1 \in 0 .. k /\ i + 1 # 0 /\ (i + 1) - 1 = i
    OBVIOUS
  <2>2. table[i + 1] = Powm!Reduce(table[i] * square)
    BY <1>7, <2>1, Zenon
  <2>3. PICK t \in Nat : t = (2 * i) + 1 /\ (2 * (i + 1)) + 1 = t + 2
    OBVIOUS
  <2>4. Stands(table[i], t)
    BY <1>9, <2>3
  <2>5. Stands(table[i + 1], t + 2)
    BY <2>2, <2>4, ReduceStands
  <2> QED
    BY <2>1, <2>3, <2>5
<1> HIDE DEF S
<1>10. \A i \in 0 .. k : i \in S
  BY <1>8, <1>9, UpToInduction
<1> QED
  BY <1>1, <1>2, <1>3, <1>10 DEF S, TableStands

(***************************************************************************)
(* A window of the exponent: the bits of e up to the last one in it, and   *)
(* the entry of the table for its odd part.                                *)
(***************************************************************************)
LEMMA Window ==
    ASSUME SplitOk, NEW v \in 1 .. Powm!Bits(e), Powm!getbit(v) = 1,
           NEW w, w = Powm!win_size(Powm!Bits(e)),
           NEW t, t = IF v < w THEN v ELSE w,
           NEW x, x = Powm!getbits(v, w),
           NEW c, c = Powm!TrailingZeros(x),
           NEW o, o = (x \div Powm!Power(2, c)) \div 2
    PROVE  /\ c \in Nat /\ t - c \in Nat /\ t - c <= v
           /\ o \in 0 .. Power(2, w - 1) - 1
           /\ e \div Power(2, v) \in Nat
           /\ e \div Power(2, v - (t - c)) =
                (Power(2, t - c) * (e \div Power(2, v))) + ((2 * o) + 1)
<1>1. w \in Nat \ {0} /\ v \in Nat /\ t \in 1 .. v /\ t <= w /\ e \in Nat
  BY WindowFits DEF SplitOk
<1>2. x = (e \div Power(2, v - t)) % Power(2, t)
  <2>1. CASE v <= w
    <3>1. t = v /\ v - t = 0
      BY <1>1, <2>1
    <3>2. x = e % Power(2, v)
      BY <2>1, PowmPowers DEF Powm!getbits
    <3>3. e \div Power(2, 0) = e
      BY <1>1, PowerRecursion
    <3> QED
      BY <3>1, <3>2, <3>3
  <2>2. CASE ~(v <= w)
    <3>1. t = w
      BY <1>1, <2>2
    <3> QED
      BY <2>2, <3>1, PowmPowers DEF Powm!getbits
  <2> QED
    BY <2>1, <2>2
<1>3. (e \div Power(2, v - 1)) % 2 = 1
  BY PowmPowers DEF Powm!getbit
<1>4. x \in Nat \ {0}
  BY <1>1, <1>2, <1>3, WindowStarts
<1>5. c \in Nat /\ x % Power(2, c) = 0 /\ x % Power(2, c + 1) # 0
  BY <1>4, PowmZeros
<1>6. PICK y : y = x \div Power(2, c) /\ o = y \div 2
  BY PowmPowers
<1>7. /\ c < t
      /\ y \in 0 .. Power(2, t) - 1 /\ y % 2 = 1
      /\ e \div Power(2, v - (t - c)) = (Power(2, t - c) * (e \div Power(2, v))) + y
  <2>1. /\ c < t
        /\ x \div Power(2, c) \in 0 .. Power(2, t) - 1
        /\ (x \div Power(2, c)) % 2 = 1
        /\ e \div Power(2, v - (t - c)) =
             (Power(2, t - c) * (e \div Power(2, v))) + (x \div Power(2, c))
    BY ONLY <1>1, <1>2, <1>3, <1>5, WindowBits
  <2> QED
    BY <1>6, <2>1
<1>8. y = (2 * o) + 1 /\ o \in Nat
  <2>1. y \in Nat
    BY <1>1, <1>7
  <2> QED
    BY <1>6, <1>7, <2>1
<1>9. o \in 0 .. Power(2, w - 1) - 1
  <2>1. PICK d \in Nat : d = w - 1 /\ w = d + 1
    BY <1>1
  <2>2. Power(2, d + 1) = Power(2, d) * 2 /\ Power(2, d) \in Nat
    BY PowerRecursion
  <2>3. t \in Nat /\ w \in Nat /\ t <= w
    BY <1>1
  <2>4. Power(2, t) <= Power(2, w)
    BY <2>3, PowerMonotone
  <2>5. Power(2, t) \in Nat
    BY <2>3, PowerRecursion
  <2> QED
    BY <1>7, <1>8, <2>1, <2>2, <2>4, <2>5
<1>10. e \div Power(2, v) \in Nat
  <2>1. 0 \in 0 .. v
    BY <1>1
  <2> QED
    BY <1>1, <2>1, BitsBefore
<1> QED
  BY <1>1, <1>5, <1>7, <1>8, <1>9, <1>10

\* The highest bit of the exponent is a one.
LEMMA TopBit ==
    ASSUME SplitOk
    PROVE  /\ Powm!Bits(e) \in Nat \ {0}
           /\ e \div Power(2, Powm!Bits(e)) = 0
           /\ e < Power(2, Powm!Bits(e))
           /\ Powm!getbit(Powm!Bits(e)) = 1
<1>1. PICK k \in Nat, x \in Nat : k = Powm!Bits(e) /\ x = e
  BY PowmBits DEF SplitOk
<1>2. x < Power(2, k) /\ (k = 0 \/ x >= Power(2, k - 1)) /\ x > 1
  BY <1>1, PowmBits DEF SplitOk
<1>3. k # 0
  BY <1>2, PowerRecursion
<1>4. PICK y \in Nat \ {0}, j \in Nat : y = Power(2, j) /\ j = k - 1 /\ k = j + 1
  <2>1. k - 1 \in Nat
    BY <1>3
  <2>2. Power(2, k - 1) \in Nat \ {0}
    BY <2>1, PowerPositive
  <2> QED
    BY <2>1, <2>2
<1>5. Power(2, k) = y * 2
  BY <1>4, PowerRecursion
<1>6. x \in 0 .. (y * 2) - 1
  BY <1>2, <1>5
<1>7. x \div (y * 2) = 0
  BY <1>6, BelowDivisor
<1>8. x \div y \in 0 .. 1
  <2>1. x \div y \in 0 .. 2 - 1
    BY <1>6, QuotientBelow
  <2> QED
    BY <2>1
<1>9. x \div y # 0
  <2>1. x = (y * (x \div y)) + (x % y) /\ x % y \in 0 .. y - 1
    BY Remainder
  <2>2. x >= y
    BY <1>2, <1>3, <1>4
  <2> QED
    BY <2>1, <2>2
<1>10. (x \div y) % 2 = 1
  <2>1. x \div y = 1
    BY <1>8, <1>9
  <2>2. 1 % 2 = 1
    OBVIOUS
  <2> QED
    BY <2>1, <2>2
<1>11. Powm!getbit(k) = 1
  BY <1>1, <1>4, <1>10, PowmPowers DEF Powm!getbit
<1> QED
  BY <1>1, <1>2, <1>3, <1>5, <1>7, <1>11

\* The loop starts with the first window of the exponent.
FirstWindow == Powm!getbits(Powm!Bits(e), Powm!win_size(Powm!Bits(e)))
FirstZeros == Powm!TrailingZeros(FirstWindow)
FirstLeft == Powm!Bits(e) - Powm!win_size(Powm!Bits(e)) + FirstZeros
FirstEntry == (FirstWindow \div Powm!Power(2, FirstZeros)) \div 2

\* The first entry stands for the bits of the first window.
LEMMA LoopStarts ==
    ASSUME SplitOk, NEW table, TableStands(table)
    PROVE  /\ FirstLeft \in 0 .. Powm!Bits(e)
           /\ Stands(table[FirstEntry], e \div Power(2, FirstLeft))
<1>1. PICK v \in Nat \ {0}, w \in Nat : v = Powm!Bits(e) /\ w = Powm!win_size(v) /\ w \in 1 .. v
  BY TopBit, WindowFits
<1>2. PICK x, c, o : /\ x = Powm!getbits(v, w) /\ c = Powm!TrailingZeros(x)
                     /\ o = (x \div Powm!Power(2, c)) \div 2
  OBVIOUS
<1>3. x = FirstWindow /\ c = FirstZeros /\ o = FirstEntry
  BY <1>1, <1>2 DEF FirstWindow, FirstZeros, FirstEntry
<1>4. v \in 1 .. v /\ Powm!getbit(v) = 1 /\ w = IF v < w THEN v ELSE w
  BY <1>1, TopBit
<1>5. /\ c \in Nat /\ w - c \in Nat /\ w - c <= v
      /\ o \in 0 .. Power(2, w - 1) - 1
      /\ e \div Power(2, v - (w - c)) =
           (Power(2, w - c) * (e \div Power(2, v))) + ((2 * o) + 1)
  <2>1. v \in 1 .. Powm!Bits(e) /\ w = Powm!win_size(Powm!Bits(e))
    BY <1>1, <1>4
  <2> QED
    BY <1>2, <1>4, <2>1, Window
<1>6. e \div Power(2, v) = 0
  BY <1>1, TopBit
<1>7. FirstLeft = v - (w - c)
  BY <1>1, <1>3, <1>5 DEF FirstLeft
<1>8. e \div Power(2, FirstLeft) = (2 * o) + 1
  <2>1. Power(2, w - c) \in Nat
    BY <1>5, PowerRecursion
  <2> QED
    BY <1>5, <1>6, <1>7, <2>1
<1>9. Stands(table[o], (2 * o) + 1)
  BY <1>1, <1>5 DEF TableStands
<1> QED
  BY <1>1, <1>3, <1>5, <1>7, <1>8, <1>9

\* The first power of the table of mpn_powm, and of mpn_powlo.
LEMMA RedcifyStands ==
    ASSUME SplitOk, NEW u \in Nat
    PROVE  /\ Powm!redcify(u) \in Nat /\ Powm!redcify(u) < mp
           /\ Powm!redcify(u) < Powm!R
           /\ Same(Powm!redcify(u), u * Powm!R, mp)
<1>1. PICK R \in Nat \ {0}, w \in Nat \ {0} : R = Powm!R /\ w = mp /\ w < R
  BY OddModulus DEF SplitOk
<1>2. PICK y \in Nat : y = u * R
  OBVIOUS
<1>3. y % w \in Nat /\ y % w < w /\ Same(y % w, y, w)
  BY SameAsRemainder
<1>4. Powm!redcify(u) = y % w
  BY <1>1, <1>2 DEF Powm!redcify
<1> QED
  BY <1>1, <1>2, <1>3, <1>4

\* The first power and its square.
LEMMA FirstPowers ==
    ASSUME SplitOk
    PROVE  /\ Power(b, 1) = b
           /\ InForm(Powm!redcify(b), 1)
           /\ InForm(Powm!Redc1(Powm!redcify(b) * Powm!redcify(b)), 2)
           /\ InLow(b % Powm!RLow, 1)
<1>1. b \in Nat
  BY DEF SplitOk
<1>2. Power(b, 1) = b
  <2>1. Power(b, 0) = 1 /\ Power(b, 0 + 1) = Power(b, 0) * b
    BY <1>1, PowerRecursion
  <2> QED
    BY <1>1, <2>1
<1>3. InForm(Powm!redcify(b), 1)
  BY <1>1, <1>2, RedcifyStands DEF InForm
<1>4. InForm(Powm!Redc1(Powm!redcify(b) * Powm!redcify(b)), 2)
  <2>1. PICK x \in Nat, R \in Nat : x = Powm!redcify(b) /\ R = Powm!R /\ x < R
    BY <1>1, RedcifyStands, OddModulus DEF SplitOk
  <2>2. PICK y \in Nat : y = x * x
    OBVIOUS
  <2>3. y < R * R
    <3>1. x * x <= x * R /\ x * R < R * R
      BY <2>1
    <3> QED
      BY <2>2, <3>1
  <2>4. PICK r \in Nat : r = Powm!Redc1(y) /\ r < Powm!R /\ Same(Powm!R * r, y, mp)
    BY <2>1, <2>3, Redc1Reduces DEF SplitOk
  <2>5. InForm(x, 1)
    BY <1>3, <2>1
  <2>6. InForm(r, 1 + 1)
    BY <2>2, <2>4, <2>5, FormProduct
  <2> QED
    BY <2>1, <2>2, <2>4, <2>6
<1>5. InLow(b % Powm!RLow, 1)
  <2>1. PICK w \in Nat \ {0} : w = Powm!RLow
    BY LowModulus
  <2> QED
    BY <1>1, <1>2, <2>1, SameAsRemainder DEF InLow
<1> QED
  BY <1>2, <1>3, <1>4, <1>5

-----------------------------------------------------------------------------
\* What the loops hold.
LoopOk ==
    /\ ebi \in 0 .. Powm!Bits(e)
    /\ TableStands(pp)
    /\ Stands(rp, e \div Power(2, ebi))

\* A zero bit of the exponent.
LEMMA SquareStands ==
    ASSUME SplitOk, LoopOk, ebi # 0, Powm!getbit(ebi) = 0
    PROVE  /\ ebi - 1 \in 0 .. Powm!Bits(e)
           /\ Stands(Powm!Squared(rp, 1), e \div Power(2, ebi - 1))
<1>1. PICK v \in Nat \ {0}, x \in Nat : v = ebi /\ x = e
  BY WindowFits DEF LoopOk, SplitOk
<1>2. PICK s \in Nat : s = x \div Power(2, v) /\
          x \div Power(2, v - 1) = (2 * s) + ((x \div Power(2, v - 1)) % 2)
  BY OneBit
<1>3. (x \div Power(2, v - 1)) % 2 = 0
  BY <1>1, PowmPowers DEF Powm!getbit
<1>4. x \div Power(2, v - 1) = 2 * s
  BY <1>2, <1>3
<1>5. Stands(Powm!Squared(rp, 1), Power(2, 1) * s)
  BY <1>1, <1>2, SquaredStands DEF LoopOk
<1>6. Power(2, 1) = 2
  <2>1. Power(2, 0) = 1 /\ Power(2, 0 + 1) = Power(2, 0) * 2
    BY PowerRecursion
  <2> QED
    BY <2>1
<1> QED
  BY <1>1, <1>4, <1>5, <1>6, WindowFits DEF LoopOk

\* A window of it.
NextWindow == Powm!getbits(ebi, Powm!win_size(Powm!Bits(e)))
NextZeros == Powm!TrailingZeros(NextWindow)
NextSize == Powm!ThisWindow(Powm!win_size(Powm!Bits(e))) - NextZeros
NextEntry == (NextWindow \div Powm!Power(2, NextZeros)) \div 2

\* A window of the exponent: squares, and one entry of the table.
LEMMA WindowStands ==
    ASSUME SplitOk, LoopOk, ebi # 0, Powm!getbit(ebi) = 1
    PROVE  /\ ebi - NextSize \in 0 .. Powm!Bits(e)
           /\ Stands(Powm!Reduce(Powm!Squared(rp, NextSize) * pp[NextEntry]),
                     e \div Power(2, ebi - NextSize))
<1>1. PICK v \in Nat \ {0}, w \in Nat :
          v = ebi /\ w = Powm!win_size(Powm!Bits(e)) /\ v \in 1 .. Powm!Bits(e)
  BY WindowFits DEF LoopOk
<1>2. PICK x, c, o, t :
          /\ x = Powm!getbits(v, w) /\ c = Powm!TrailingZeros(x)
          /\ o = (x \div Powm!Power(2, c)) \div 2
          /\ t = IF v < w THEN v ELSE w
  OBVIOUS
<1>3. o = NextEntry /\ NextSize = t - c
  BY <1>1, <1>2 DEF NextWindow, NextZeros, NextEntry, NextSize, Powm!ThisWindow
<1>4. /\ t - c \in Nat /\ t - c <= v
      /\ o \in 0 .. Power(2, w - 1) - 1
      /\ e \div Power(2, v) \in Nat
      /\ e \div Power(2, v - (t - c)) =
           (Power(2, t - c) * (e \div Power(2, v))) + ((2 * o) + 1)
  <2>1. Powm!getbit(v) = 1
    BY <1>1
  <2> QED
    BY <1>1, <1>2, <2>1, Window
<1>5. PICK k \in Nat, s \in Nat, g \in Nat, y \in Nat :
          /\ k = t - c /\ s = e \div Power(2, v) /\ g = Power(2, k) * s /\ y = (2 * o) + 1
  <2>1. Power(2, t - c) \in Nat
    BY <1>4, PowerRecursion
  <2>2. Power(2, t - c) * (e \div Power(2, v)) \in Nat
    BY <1>4, <2>1
  <2>3. Power(2, w - 1) \in Nat
    <3>1. w - 1 \in Nat
      BY <1>1, WindowFits
    <3> QED
      BY <3>1, PowerRecursion
  <2>4. (2 * o) + 1 \in Nat
    BY <1>4, <2>3
  <2> QED
    BY <1>4, <2>2, <2>4
<1>6. Stands(Powm!Squared(rp, k), g)
  BY <1>1, <1>5, SquaredStands DEF LoopOk
<1>7. Stands(pp[o], y)
  BY <1>1, <1>4, <1>5 DEF LoopOk, TableStands
<1>8. Stands(Powm!Reduce(Powm!Squared(rp, k) * pp[o]), g + y)
  BY <1>6, <1>7, ReduceStands
<1>9. e \div Power(2, v - k) = g + y /\ v - k \in 0 .. Powm!Bits(e)
  BY <1>1, <1>4, <1>5, WindowFits
<1> QED
  BY <1>1, <1>3, <1>5, <1>8, <1>9

-----------------------------------------------------------------------------
\* The last subtraction leaves the remainder as it is.
LEMMA SubtractedIs ==
    ASSUME OddPartOk, NEW x \in Nat
    PROVE  /\ Powm!Subtracted(x) \in Nat
           /\ Same(Powm!Subtracted(x), x, mp)
<1>1. PICK w \in Nat \ {0} : w = mp
  BY OddModulus
<1>2. PICK y \in Nat, i \in 0 .. 1 : y = Powm!Subtracted(x) /\ x = y + (w * i)
  <2>1. CASE x >= w
    <3>1. PICK y \in Nat : y = x - w
      BY <2>1
    <3>2. y = Powm!Subtracted(x)
      BY <1>1, <2>1, <3>1 DEF Powm!Subtracted
    <3>3. x = y + (w * 1)
      BY <3>1
    <3> QED
      BY <3>2, <3>3
  <2>2. CASE ~(x >= w)
    <3>1. x = Powm!Subtracted(x)
      BY <1>1, <2>2 DEF Powm!Subtracted
    <3>2. x = x + (w * 0)
      OBVIOUS
    <3> QED
      BY <3>1, <3>2
  <2> QED
    BY <2>1, <2>2
<1>3. Apart(y, x, i, 0, w)
  BY <1>2 DEF Apart
<1> QED
  BY <1>1, <1>2, <1>3, SameIfApart

\* The parts of a number in the form, as plain numbers.
LEMMA FormHas ==
    ASSUME SplitOk, InForm(rp, e)
    PROVE  \E x \in Nat, R \in Nat \ {0}, k \in Nat, w \in Nat \ {0}, g \in Nat :
               /\ x = rp /\ R = Powm!R /\ R = Power(2, k) /\ w = mp /\ w % 2 = 1
               /\ g = Power(b, e)
<1>1. rp \in Nat
  BY DEF InForm
<1>2. Power(b, e) \in Nat
  BY PowerRecursion DEF SplitOk
<1>3. /\ mp \in Nat \ {0} /\ Powm!R \in Nat \ {0}
      /\ Powm!R = Power(2, LIMB_BITS * Powm!n) /\ LIMB_BITS * Powm!n \in Nat
  BY OddModulus DEF SplitOk
<1>4. mp % 2 = 1
  BY DEF SplitOk, OddPartOk
<1>5. PICK k \in Nat : Powm!R = Power(2, k)
  BY <1>3
<1> QED
  BY <1>1, <1>2, <1>3, <1>4, <1>5

\* The end of mpn_powm: the power itself.
LEMMA RedcLast ==
    ASSUME SplitOk, InForm(rp, e)
    PROVE  Powm!Subtracted(Powm!Redc1(rp)) = Power(b, e) % mp
<1>1. PICK x \in Nat, R \in Nat \ {0}, k \in Nat, w \in Nat \ {0}, g \in Nat :
          /\ x = rp /\ R = Powm!R /\ R = Power(2, k) /\ w = mp /\ w % 2 = 1
          /\ g = Power(b, e)
  BY FormHas
<1>2. PICK r \in Nat : r = Powm!Redc1(x) /\ Same(R * r, x, w) /\ Powm!Subtracted(r) < w
  BY <1>1, Redc1Reduces DEF SplitOk, InForm
<1>3. Same(x, g * R, w)
  BY <1>1 DEF InForm
<1>4. Same(r, g, w)
  BY <1>1, <1>2, <1>3, FormReduced
<1>5. PICK y \in Nat : y = Powm!Subtracted(r) /\ Same(y, r, w)
  BY <1>1, SubtractedIs DEF SplitOk
<1>6. y = g % w
  BY <1>2, <1>4, <1>5, SameThrough, SameBelow
<1> QED
  BY <1>1, <1>2, <1>5, <1>6

\* The same for a modulus of one limb.
LEMMA RedcLastShort ==
    ASSUME SplitOk, InForm(rp, e), Powm!n = 1, rp < mp
    PROVE  Powm!Redc0(rp) = Power(b, e) % mp
<1>1. PICK x \in Nat, R \in Nat \ {0}, k \in Nat, w \in Nat \ {0}, g \in Nat :
          /\ x = rp /\ R = Powm!R /\ R = Power(2, k) /\ w = mp /\ w % 2 = 1
          /\ g = Power(b, e)
  BY FormHas
<1>2. x < R * w
  <2>1. w <= R * w
    OBVIOUS
  <2> QED
    BY <1>1, <2>1
<1>3. PICK r \in Nat : r = Powm!Redc0(x) /\ Same(R * r, x, w) /\ r < w
  BY <1>1, <1>2, Redc0Reduces DEF SplitOk
<1>4. Same(x, g * R, w)
  BY <1>1 DEF InForm
<1>5. Same(r, g, w)
  BY <1>1, <1>3, <1>4, FormReduced
<1>6. r = g % w
  BY <1>3, <1>5, SameBelow
<1> QED
  BY <1>1, <1>3, <1>6

-----------------------------------------------------------------------------
\* What mpn_2powm holds.
Doubling(r, s) ==
    /\ InForm(r, s)
    /\ r < Power(2, Powm!Bits(mp))
    /\ Powm!n = 1 => r < mp

TwoOk == b = 2 /\ ebi \in Nat /\ Doubling(rp, e \div Power(2, ebi))

\* A power that fits the first limbs is made by a shift.
LEMMA ShiftStands ==
    ASSUME SplitOk, b = 2, NEW s \in Nat
    PROVE  Doubling(Powm!redcify(Power(2, s)), s)
<1>1. PICK u \in Nat : u = Power(2, s)
  BY PowerRecursion
<1>2. PICK r \in Nat : r = Powm!redcify(u) /\ r < mp /\ r < Powm!R /\ Same(r, u * Powm!R, mp)
  BY RedcifyStands
<1>3. InForm(r, s)
  BY <1>1, <1>2 DEF InForm
<1>4. PICK y \in Nat : y = Power(2, Powm!Bits(mp)) /\ mp < y
  BY OddModulusLength DEF SplitOk
<1>5. mp \in Nat
  BY DEF SplitOk, OddPartOk
<1>6. r < y
  BY <1>2, <1>4, <1>5
<1> QED
  BY <1>1, <1>2, <1>3, <1>4, <1>6 DEF Doubling

\* The first bits of the exponent.
FirstCount == Powm!Bits(Powm!Bits(mp))
FirstBits == Powm!getbits(Powm!Bits(e), FirstCount)

\* They are the first bits, or all if the exponent is short.
LEMMA FirstBitsAre ==
    ASSUME SplitOk
    PROVE  /\ FirstCount \in Nat \ {0}
           /\ Powm!Bits(e) <= FirstCount => FirstBits = e
           /\ Powm!Bits(e) > FirstCount =>
                  FirstBits = e \div Power(2, Powm!Bits(e) - FirstCount)
<1>1. PICK k \in Nat \ {0} : k = Powm!Bits(mp)
  BY OddModulusLength DEF SplitOk
<1>2. PICK c \in Nat : c = FirstCount /\ k < Power(2, c)
  BY <1>1, PowmBits DEF FirstCount
<1>3. c # 0
  BY <1>2, PowerRecursion
<1>4. PICK v \in Nat \ {0}, x \in Nat : v = Powm!Bits(e) /\ x = e
  BY TopBit DEF SplitOk
<1>5. FirstBits = Powm!getbits(v, c)
  BY <1>2, <1>4 DEF FirstBits
<1>6. v <= c => FirstBits = x
  <2> SUFFICES ASSUME v <= c PROVE FirstBits = x
    OBVIOUS
  <2>1. FirstBits = x % Power(2, v)
    BY <1>4, <1>5, PowmPowers DEF Powm!getbits
  <2>2. PICK y \in Nat \ {0} : y = Power(2, v) /\ x < y
    <3>1. Power(2, v) \in Nat \ {0}
      BY PowerPositive
    <3> QED
      BY <1>4, <3>1, TopBit
  <2>3. x \in 0 .. y - 1
    BY <2>2
  <2> QED
    BY <2>1, <2>2, <2>3, BelowDivisor
<1>7. v > c => FirstBits = x \div Power(2, v - c)
  <2> SUFFICES ASSUME v > c PROVE FirstBits = x \div Power(2, v - c)
    OBVIOUS
  <2>1. FirstBits = (x \div Power(2, v - c)) % Power(2, c)
    BY <1>4, <1>5, PowmPowers DEF Powm!getbits
  <2>2. c \in 0 .. v
    OBVIOUS
  <2>3. /\ x \div Power(2, v - c) \in Nat
        /\ x \div Power(2, v - c) =
             (Power(2, c) * (x \div Power(2, v))) + ((x \div Power(2, v - c)) % Power(2, c))
    BY <2>2, BitsBefore
  <2>4. x \div Power(2, v) = 0
    BY <1>4, TopBit
  <2>5. PICK g \in Nat \ {0} : g = Power(2, c)
    BY PowerPositive
  <2>6. PICK i \in Nat : i = (x \div Power(2, v - c)) % g
    <3>1. PICK u \in Nat : u = x \div Power(2, v - c)
      BY <2>3
    <3>2. u % g \in 0 .. g - 1
      BY Remainder
    <3> QED
      BY <3>1, <3>2
  <2> QED
    BY <2>1, <2>3, <2>4, <2>5, <2>6
<1> QED
  BY <1>2, <1>3, <1>4, <1>6, <1>7

\* If they are all of it, the power is below mp.
LEMMA ShiftAll ==
    ASSUME SplitOk, b = 2, FirstBits < Powm!Bits(mp), Powm!Bits(e) <= FirstCount
    PROVE  Power(2, FirstBits) = Power(b, e) % mp
<1>1. PICK k \in Nat \ {0}, h \in Nat, w \in Nat \ {0} :
          k = Powm!Bits(mp) /\ h = Power(2, k - 1) /\ w = mp
  BY OddModulusLength, OddModulus DEF SplitOk
<1>2. h <= w
  <2>1. k = 0 \/ w >= Power(2, k - 1)
    BY <1>1, PowmBits
  <2> QED
    BY <1>1, <2>1
<1>3. PICK x \in Nat : x = e /\ x = FirstBits /\ x > 1 /\ x <= k - 1
  BY <1>1, FirstBitsAre DEF SplitOk
<1>4. PICK y \in Nat, j \in Nat : y = Power(2, x) /\ y = Power(2, j) * 2 /\ x = j + 1
  <2>1. PICK j \in Nat : x = j + 1
    <3>1. x - 1 \in Nat /\ x = (x - 1) + 1
      BY <1>3
    <3> QED
      BY <3>1
  <2>2. Power(2, x) \in Nat /\ Power(2, j + 1) = Power(2, j) * 2
    BY PowerRecursion
  <2> QED
    BY <2>1, <2>2
<1>5. y <= h
  <2>1. k - 1 \in Nat
    OBVIOUS
  <2> QED
    BY <1>1, <1>3, <1>4, <2>1, PowerMonotone
<1>6. y # w
  <2>1. w % 2 = 1
    BY <1>1 DEF SplitOk, OddPartOk
  <2>2. PICK g \in Nat : g = Power(2, j) /\ y = g * 2
    BY <1>4, PowerRecursion
  <2> QED
    BY <2>1, <2>2
<1>7. y \in 0 .. w - 1
  BY <1>2, <1>5, <1>6
<1>8. y % w = y
  BY <1>7, BelowDivisor
<1> QED
  BY <1>1, <1>3, <1>4, <1>8

\* Otherwise the loop goes on with the rest.
ShiftBy == IF FirstBits >= Powm!Bits(mp) THEN FirstBits \div 2 ELSE FirstBits
ShiftLeft ==
    Powm!Bits(e) - (IF FirstBits >= Powm!Bits(mp) THEN FirstCount - 1 ELSE FirstCount)

\* The shift is by the bits that the loop will not see.
LEMMA ShiftFirst ==
    ASSUME SplitOk, FirstBits >= Powm!Bits(mp) \/ Powm!Bits(e) > FirstCount
    PROVE  /\ ShiftBy \in Nat /\ ShiftLeft \in Nat
           /\ ShiftBy = e \div Power(2, ShiftLeft)
<1>1. PICK k \in Nat \ {0}, c \in Nat \ {0}, v \in Nat \ {0}, x \in Nat :
          /\ k = Powm!Bits(mp) /\ c = FirstCount /\ v = Powm!Bits(e) /\ x = e
  BY OddModulusLength, FirstBitsAre, TopBit DEF SplitOk
<1>2. c <= v
  <2> SUFFICES ASSUME v < c PROVE FALSE
    BY <1>1
  <2>1. x >= k /\ x < Power(2, v)
    BY <1>1, FirstBitsAre, TopBit
  <2>2. k >= Power(2, c - 1)
    BY <1>1, PowmBits DEF FirstCount
  <2>3. c - 1 \in Nat /\ v <= c - 1
    BY <1>1
  <2>4. Power(2, v) <= Power(2, c - 1)
    BY <2>3, PowerMonotone
  <2>5. Power(2, v) \in Nat /\ Power(2, c - 1) \in Nat
    BY <2>3, PowerRecursion
  <2> QED
    BY <2>1, <2>2, <2>4, <2>5
<1>3. PICK i \in Nat : i = v - c
  BY <1>2
<1>4. FirstBits = x \div Power(2, i) /\ FirstBits \in Nat
  <2>1. CASE v = c
    <3>1. FirstBits = x
      BY <1>1, <2>1, FirstBitsAre
    <3>2. Power(2, i) = 1
      BY <1>3, <2>1, PowerRecursion
    <3>3. x \div 1 = x
      OBVIOUS
    <3> QED
      BY <3>1, <3>2, <3>3
  <2>2. CASE v # c
    <3>1. FirstBits = x \div Power(2, i)
      BY <1>1, <1>2, <1>3, <2>2, FirstBitsAre
    <3>2. Power(2, i) \in Nat \ {0}
      BY PowerPositive
    <3> QED
      BY <3>1, <3>2, Remainder
  <2> QED
    BY <2>1, <2>2
<1>5. CASE FirstBits >= k
  <2>1. ShiftBy = FirstBits \div 2 /\ ShiftLeft = i + 1
    BY <1>1, <1>3, <1>5 DEF ShiftBy, ShiftLeft
  <2>2. PICK y \in Nat \ {0} : y = Power(2, i)
    BY PowerPositive
  <2>3. Power(2, i + 1) = y * 2
    BY <2>2, PowerRecursion
  <2>4. x \div (y * 2) = (x \div y) \div 2
    <3>1. PICK d \in Nat \ {0} : d = 2
      OBVIOUS
    <3>2. x \div (y * d) = (x \div y) \div d
      BY DivideTwice
    <3> QED
      BY <3>1, <3>2
  <2>5. FirstBits \div 2 \in Nat
    BY <1>4
  <2> QED
    BY <1>1, <1>4, <2>1, <2>2, <2>3, <2>4, <2>5
<1>6. CASE ~(FirstBits >= k)
  <2>1. ShiftBy = FirstBits /\ ShiftLeft = i
    BY <1>1, <1>3, <1>6 DEF ShiftBy, ShiftLeft
  <2> QED
    BY <1>1, <1>4, <2>1
<1> QED
  BY <1>5, <1>6

\* INNERLOOP2: the square, and its double.
TwoSquare ==
    IF Powm!n = 1 THEN Powm!MpnReduce(rp * rp)
    ELSE Powm!Subtracted(Powm!MpnReduce(rp * rp))

\* The square is below mp, so that it can be doubled.
LEMMA TwoSquareStands ==
    ASSUME SplitOk, NEW s \in Nat, Doubling(rp, s)
    PROVE  TwoSquare \in Nat /\ TwoSquare < mp /\ InForm(TwoSquare, s + s)
<1>1. PICK x \in Nat, R \in Nat \ {0}, w \in Nat \ {0}, y \in Nat \ {0} :
          /\ x = rp /\ R = Powm!R /\ w = mp /\ y = Power(2, Powm!Bits(mp))
          /\ x < R /\ x < y /\ w < R
  <2>1. rp \in Nat /\ rp < Powm!R /\ rp < Power(2, Powm!Bits(mp))
    BY DEF Doubling, InForm
  <2>2. Powm!R \in Nat \ {0} /\ mp \in Nat \ {0} /\ mp < Powm!R
    BY OddModulus DEF SplitOk
  <2>3. Power(2, Powm!Bits(mp)) \in Nat \ {0}
    BY OddModulusLength DEF SplitOk
  <2> QED
    BY <2>1, <2>2, <2>3
<1>2. PICK u \in Nat : u = x * x
  OBVIOUS
<1>3. PICK r \in Nat : r = TwoSquare /\ r < w /\ Same(R * r, u, w)
  <2>1. CASE Powm!n = 1
    <3>1. x < w
      BY <1>1, <2>1 DEF Doubling
    <3>2. u < R * w
      <4>1. x * x <= R * x /\ R * x < R * w
        BY <1>1, <3>1
      <4> QED
        BY <1>2, <4>1
    <3>3. PICK r \in Nat : r = Powm!Redc0(u) /\ r < w /\ Same(R * r, u, w)
      BY <1>1, <2>1, <3>2, Redc0Reduces DEF SplitOk
    <3>4. TwoSquare = r
      BY <1>1, <1>2, <2>1, <3>3 DEF TwoSquare, Powm!MpnReduce
    <3> QED
      BY <3>3, <3>4
  <2>2. CASE Powm!n # 1
    <3>1. u < y * y
      <4>1. x * x <= x * y /\ x * y < y * y
        BY <1>1
      <4> QED
        BY <1>2, <4>1
    <3>2. PICK h \in Nat : h = Powm!Redc1(u) /\ Same(R * h, u, w)
      BY <1>1, Redc1Reduces DEF SplitOk
    <3>3. Powm!Subtracted(h) < w
      BY <1>1, <3>1, <3>2, Redc1Square DEF SplitOk
    <3>4. PICK r \in Nat : r = Powm!Subtracted(h) /\ Same(r, h, w)
      BY <1>1, SubtractedIs DEF SplitOk
    <3>5. Same(R * r, R * h, w)
      BY <3>4, SameAsItself, SameProduct
    <3>6. Same(R * r, u, w)
      BY <3>2, <3>5, SameThrough
    <3>7. TwoSquare = r
      BY <1>1, <1>2, <2>2, <3>2, <3>4 DEF TwoSquare, Powm!MpnReduce
    <3> QED
      BY <3>3, <3>4, <3>6, <3>7
  <2> QED
    BY <2>1, <2>2
<1>4. r < R
  BY <1>1, <1>3
<1>5. InForm(x, s)
  BY <1>1 DEF Doubling
<1>6. InForm(r, s + s)
  BY <1>1, <1>2, <1>3, <1>4, <1>5, FormProduct
<1> QED
  BY <1>1, <1>3, <1>6

\* Doubling does not leave the limbs.
LEMMA DoubledIs ==
    ASSUME SplitOk, NEW r \in Nat, r < mp
    PROVE  /\ Powm!Doubled(r) \in Nat
           /\ Powm!Doubled(r) < Power(2, Powm!Bits(mp))
           /\ Powm!n = 1 => Powm!Doubled(r) < mp
           /\ Same(Powm!Doubled(r), 2 * r, mp)
<1>1. PICK w \in Nat \ {0}, y \in Nat, h \in Nat :
          /\ w = mp /\ w % 2 = 1 /\ y = Power(2, Powm!Bits(mp))
          /\ h = Power(2, Powm!Bits(mp) - 1) /\ y = 2 * h /\ w < y
  <2>1. mp \in Nat \ {0} /\ mp % 2 = 1
    BY DEF SplitOk, OddPartOk
  <2>2. PICK y \in Nat : /\ y = Power(2, Powm!Bits(mp)) /\ mp < y
                         /\ y = 2 * Power(2, Powm!Bits(mp) - 1)
                         /\ Power(2, Powm!Bits(mp) - 1) \in Nat
    BY OddModulusLength DEF SplitOk
  <2> QED
    BY <2>1, <2>2
<1>2. PICK i \in 0 .. 1, x \in Nat :
          /\ x = Powm!Doubled(r) /\ 2 * r = x + (w * i)
          /\ x < y /\ (Powm!n = 1 => x < w)
  <2>1. CASE Powm!n = 1 /\ r > w \div 2
    <3>1. Powm!Doubled(r) = (2 * r) - w
      BY <1>1, <2>1 DEF Powm!Doubled
    <3>2. PICK x \in Nat : x = (2 * r) - w
      <4>1. PICK g \in Nat : g = w \div 2 /\ w = (2 * g) + 1
        BY <1>1
      <4>2. r >= g + 1
        BY <2>1, <4>1
      <4>3. (2 * r) - w \in Nat
        BY <4>1, <4>2
      <4> QED
        BY <4>3
    <3>3. x < w /\ 2 * r = x + (w * 1)
      BY <1>1, <3>2
    <3> QED
      BY <1>1, <3>1, <3>2, <3>3
  <2>2. CASE Powm!n = 1 /\ ~(r > w \div 2)
    <3>1. Powm!Doubled(r) = 2 * r
      BY <1>1, <2>2 DEF Powm!Doubled
    <3>2. PICK x \in Nat : x = 2 * r
      OBVIOUS
    <3>3. x < w /\ 2 * r = x + (w * 0)
      BY <1>1, <2>2, <3>2
    <3> QED
      BY <1>1, <3>1, <3>2, <3>3
  <2>3. CASE Powm!n # 1 /\ r < h
    <3>1. Powm!Doubled(r) = 2 * r
      BY <1>1, <2>3, PowmPowers DEF Powm!Doubled
    <3>2. PICK x \in Nat : x = 2 * r
      OBVIOUS
    <3>3. x < y /\ 2 * r = x + (w * 0)
      BY <1>1, <2>3, <3>2
    <3> QED
      BY <2>3, <3>1, <3>2, <3>3
  <2>4. CASE Powm!n # 1 /\ ~(r < h)
    <3>1. Powm!Doubled(r) = (2 * r) - w
      BY <1>1, <2>4, PowmPowers DEF Powm!Doubled
    <3>2. PICK x \in Nat : x = (2 * r) - w
      <4>1. r >= h
        BY <2>4
      <4>2. (2 * r) - w \in Nat
        BY <1>1, <4>1
      <4> QED
        BY <4>2
    <3>3. x < y
      BY <1>1, <3>2
    <3>4. 2 * r = x + (w * 1)
      BY <3>2
    <3>5. x = Powm!Doubled(r)
      BY <3>1, <3>2
    <3>6. Powm!n = 1 => x < w
      BY <2>4
    <3> QED
      BY <3>3, <3>4, <3>5, <3>6
  <2> QED
    BY <2>1, <2>2, <2>3, <2>4
<1>3. Apart(x, 2 * r, i, 0, w)
  BY <1>2 DEF Apart
<1>4. Same(x, 2 * r, w)
  BY <1>3, SameIfApart
<1> QED
  BY <1>1, <1>2, <1>4

\* One bit of the exponent: the square, doubled if the bit is a one.
LEMMA DoubleStands ==
    ASSUME SplitOk, TwoOk, ebi # 0
    PROVE  /\ ebi - 1 \in Nat
           /\ Doubling(IF Powm!getbit(ebi) = 1 THEN Powm!Doubled(TwoSquare) ELSE TwoSquare,
                       e \div Power(2, ebi - 1))
<1>1. PICK v \in Nat \ {0}, x \in Nat : v = ebi /\ x = e
  BY DEF TwoOk, SplitOk
<1>2. PICK s \in Nat : s = x \div Power(2, v) /\
          x \div Power(2, v - 1) = (2 * s) + ((x \div Power(2, v - 1)) % 2)
  BY OneBit
<1>3. PICK i : i = (x \div Power(2, v - 1)) % 2 /\ i = Powm!getbit(ebi)
  BY <1>1, PowmPowers DEF Powm!getbit
<1>4. i \in 0 .. 1
  <2>1. PICK u \in Nat : u = x \div Power(2, v - 1)
    BY OneBit
  <2>2. u % 2 \in 0 .. 1
    OBVIOUS
  <2> QED
    BY <1>3, <2>1, <2>2
<1>5. PICK r \in Nat : r = TwoSquare /\ r < mp /\ InForm(r, s + s)
  BY <1>1, <1>2, TwoSquareStands DEF TwoOk
<1>6. PICK w \in Nat, y \in Nat : w = mp /\ y = Power(2, Powm!Bits(mp)) /\ w < y
  BY OddModulusLength DEF SplitOk, OddPartOk
<1>7. CASE i = 0
  <2>1. x \div Power(2, v - 1) = s + s
    BY <1>2, <1>3, <1>7
  <2>2. Doubling(r, s + s)
    BY <1>5, <1>6 DEF Doubling
  <2> QED
    BY <1>1, <1>3, <1>5, <1>7, <2>1, <2>2
<1>8. CASE i = 1
  <2>1. x \div Power(2, v - 1) = (s + s) + 1
    BY <1>2, <1>3, <1>8
  <2>2. PICK h \in Nat : /\ h = Powm!Doubled(r) /\ h < y /\ (Powm!n = 1 => h < w)
                         /\ Same(h, 2 * r, w)
    BY <1>5, <1>6, DoubledIs
  <2>3. h < Powm!R
    <3>1. PICK d \in Nat \ {0} : Powm!R = y * d
      BY <1>6, OddModulusLength DEF SplitOk
    <3>2. y <= y * d
      OBVIOUS
    <3>3. y * d \in Nat
      OBVIOUS
    <3> QED
      BY <2>2, <3>1, <3>2, <3>3
  <2>4. PICK g \in Nat, R \in Nat : /\ g = Power(b, s + s) /\ R = Powm!R
                                    /\ Power(b, (s + s) + 1) = g * 2
    <3>1. b = 2 /\ s + s \in Nat
      BY DEF TwoOk
    <3>2. Power(2, s + s) \in Nat /\ Power(2, (s + s) + 1) = Power(2, s + s) * 2
      BY <3>1, PowerRecursion
    <3>3. Powm!R \in Nat
      BY OddModulus DEF SplitOk
    <3> QED
      BY <3>1, <3>2, <3>3
  <2>5. Same(r, g * R, w)
    BY <1>5, <1>6, <2>4 DEF InForm
  <2>6. Same(h, (g * 2) * R, w)
    <3>1. PICK j \in Nat : j = g * R
      OBVIOUS
    <3>2. Same(2 * r, 2 * j, w)
      <4>1. w \in Nat \ {0}
        BY <1>6 DEF SplitOk, OddPartOk
      <4> QED
        BY <2>5, <3>1, <4>1, SameAsItself, SameProduct
    <3>3. 2 * j = (g * 2) * R
      BY <3>1
    <3> QED
      BY <2>2, <3>2, <3>3, SameThrough
  <2>7. InForm(h, (s + s) + 1)
    BY <1>6, <2>2, <2>3, <2>4, <2>6 DEF InForm
  <2>8. Doubling(h, (s + s) + 1)
    BY <1>6, <2>2, <2>7 DEF Doubling
  <2> QED
    BY <1>1, <1>3, <1>5, <1>8, <2>1, <2>2, <2>8
<1> QED
  BY <1>4, <1>7, <1>8

-----------------------------------------------------------------------------
\* mpz_powm without mpn_powlo: b is so even that the power is zero.
LEMMA ZeroLow ==
    ASSUME SplitOk, Powm!IsZeroLow
    PROVE  Same(0, Power(b, e), Power(2, Powm!twos))
<1>1. PICK x \in Nat, y \in Nat, t \in Nat : x = b /\ y = e /\ t = Powm!twos /\ y > 1
  BY DEF SplitOk
<1>2. PICK k \in 1 .. 3, c \in Nat : k = Powm!LowZeros /\ x = Power(2, k) * c
  <2>1. x % 2 = 0
    BY <1>1 DEF Powm!IsZeroLow
  <2>2. Power(2, 1) = 2 /\ Power(2, 2) = 4 /\ Power(2, 3) = 8
    <3>1. Power(2, 0) = 1 /\ Power(2, 0 + 1) = Power(2, 0) * 2
      BY PowerRecursion
    <3>2. Power(2, 1 + 1) = Power(2, 1) * 2 /\ Power(2, 2 + 1) = Power(2, 2) * 2
      BY PowerRecursion
    <3> QED
      BY <3>1, <3>2
  <2>3. CASE x % 8 = 0
    <3>1. Powm!LowZeros = 3
      BY <1>1, <2>3 DEF Powm!LowZeros
    <3>2. PICK c \in Nat : x = 8 * c
      <4>1. x \div 8 \in Nat /\ x = 8 * (x \div 8)
        BY <2>3
      <4> QED
        BY <4>1
    <3>3. x = Power(2, 3) * c
      BY <2>2, <3>2
    <3> QED
      BY <3>1, <3>3
  <2>4. CASE x % 8 = 4
    <3>1. Powm!LowZeros = 2
      BY <1>1, <2>4 DEF Powm!LowZeros
    <3>2. PICK c \in Nat : x = 4 * c
      <4>1. x \div 4 \in Nat /\ x = 4 * (x \div 4)
        BY <2>4
      <4> QED
        BY <4>1
    <3>3. x = Power(2, 2) * c
      BY <2>2, <3>2
    <3> QED
      BY <3>1, <3>3
  <2>5. CASE x % 8 # 0 /\ x % 8 # 4
    <3>1. Powm!LowZeros = 1
      BY <1>1, <2>5 DEF Powm!LowZeros
    <3>2. PICK c \in Nat : x = 2 * c
      <4>1. x \div 2 \in Nat /\ x = 2 * (x \div 2)
        BY <2>1
      <4> QED
        BY <4>1
    <3>3. x = Power(2, 1) * c
      BY <2>2, <3>2
    <3> QED
      BY <3>1, <3>3
  <2> QED
    BY <2>3, <2>4, <2>5
<1>3. t <= k * y
  <2>1. PICK L \in Nat \ {0}, h \in Nat : L = Power(2, LIMB_BITS) /\ L = Powm!LIMB /\ h = k * y
    <3>1. k * y \in Nat
      OBVIOUS
    <3> QED
      BY <3>1, PowmConstants
  <2>2. CASE Powm!Limbs(e) > 1
    <3>1. PICK v \in Nat \ {0} : v = Powm!Bits(e) /\ y >= Power(2, v - 1)
      BY <1>1, PowmBits, TopBit
    <3>2. LIMB_BITS <= v - 1
      <4> SUFFICES ASSUME v <= LIMB_BITS PROVE FALSE
        BY PowmConstants
      <4>1. PICK w \in Nat \ {0} : w = LIMB_BITS
        BY PowmConstants
      <4>2. ((v + w) - 1) \div w > 1
        BY <2>2, <3>1, <4>1 DEF Powm!Limbs
      <4>3. PICK j \in Nat, i \in 0 .. w - 1 : j = ((v + w) - 1) \div w /\ (v + w) - 1 = (w * j) + i
        <5>1. PICK a \in Nat : a = (v + w) - 1
          OBVIOUS
        <5>2. a \div w \in Nat /\ a % w \in 0 .. w - 1 /\ a = (w * (a \div w)) + (a % w)
          BY Remainder
        <5> QED
          BY <5>1, <5>2
      <4>4. w * j >= w * 2
        BY <4>2, <4>3
      <4> QED
        BY <4>1, <4>3, <4>4
    <3>3. Power(2, LIMB_BITS) <= Power(2, v - 1)
      BY <3>2, PowmConstants, PowerMonotone
    <3>4. Power(2, v - 1) \in Nat
      BY PowerRecursion
    <3>5. t <= L
      BY <1>1, <2>1 DEF SplitOk
    <3>6. y <= k * y
      OBVIOUS
    <3> QED
      BY <2>1, <3>1, <3>3, <3>4, <3>5, <3>6
  <2>3. CASE ~(Powm!Limbs(e) > 1)
    <3>1. (y * k) % L >= t
      BY <1>1, <1>2, <2>1, <2>3 DEF Powm!IsZeroLow
    <3>2. y * k = h
      BY <2>1
    <3>3. h % L \in Nat /\ h % L <= h
      <4>1. h % L \in 0 .. L - 1 /\ h \div L \in Nat /\ h = (L * (h \div L)) + (h % L)
        BY Remainder
      <4>2. L * (h \div L) \in Nat
        BY <4>1
      <4> QED
        BY <4>1, <4>2
    <3> QED
      BY <2>1, <3>1, <3>2, <3>3
  <2> QED
    BY <2>2, <2>3
<1>4. Same(0, Power(Power(2, k) * c, y), Power(2, t))
  BY <1>3, EvenPower
<1> QED
  BY <1>1, <1>2, <1>4

\* The end of mpn_powlo: the power modulo 2 ^ twos.
LEMMA LowIs ==
    ASSUME SplitOk, InLow(rp, e)
    PROVE  rp \in Nat /\ Same(rp, Power(b, e), Power(2, Powm!twos))
<1>1. PICK Q \in Nat \ {0} : Q = Power(2, Powm!twos)
  BY PowerPositive DEF SplitOk
<1>2. PICK d \in Nat \ {0} : Powm!RLow = Q * d
  BY <1>1, LowModulus
<1>3. PICK x \in Nat, g \in Nat : x = rp /\ g = Power(b, e)
  BY PowerRecursion DEF InLow, SplitOk
<1>4. Same(x, g, Q * d)
  BY <1>2, <1>3 DEF InLow
<1>5. Same(x, g, Q)
  BY <1>4, SameForFactor
<1> QED
  BY <1>1, <1>3, <1>5

\* The two parts of the result.
CombineOk ==
    /\ rodd = Power(b, e) % mp
    /\ rp \in Nat /\ Same(rp, Power(b, e), Power(2, Powm!twos))

Combined ==
    (((Powm!Inverse(Powm!RLow) * ((rp + Powm!RLow - (rodd % Powm!RLow)) % Powm!RLow))
      % Powm!RLow) % Power(2, Powm!twos)) * mp + rodd

\* The result has both remainders and is below m.
LEMMA CombinedIs ==
    ASSUME SplitOk, CombineOk
    PROVE  Combined = Power(b, e) % m
<1>1. PICK w \in Nat \ {0}, t \in Nat, x \in Nat, q \in Nat :
          /\ w = mp /\ w % 2 = 1 /\ t = Powm!twos /\ x = Power(b, e) /\ q = rp
  <2>1. mp \in Nat \ {0} /\ mp % 2 = 1 /\ Powm!twos \in Nat
    BY DEF SplitOk, OddPartOk
  <2>2. Power(b, e) \in Nat
    BY PowerRecursion DEF SplitOk
  <2>3. rp \in Nat
    BY DEF CombineOk
  <2> QED
    BY <2>1, <2>2, <2>3
<1>2. PICK Q \in Nat \ {0} : Q = Power(2, t)
  BY PowerPositive
<1>3. PICK M \in Nat, d \in Nat \ {0} : M = Powm!RLow /\ M = Q * d
  BY <1>1, <1>2, LowModulus
<1>4. PICK v \in Nat : v = Powm!Inverse(M) /\ Same(v * w, 1, M)
  BY <1>1, <1>3, LowModulus, InverseIs DEF SplitOk
<1>5. PICK r \in Nat : r = rodd /\ r < w /\ Same(r, x, w)
  BY <1>1, SameAsRemainder DEF CombineOk
<1>6. Same(q, x, Q)
  BY <1>1, <1>2 DEF CombineOk
<1>7. (Joined(q, r, v, M, Q) * w) + r = x % (w * Q)
  <2>1. /\ w \in Nat /\ w % 2 = 1 /\ t \in Nat /\ Q \in Nat /\ Q = Power(2, t)
        /\ M \in Nat /\ d \in Nat \ {0} /\ Multiple(M, Q, d)
        /\ v \in Nat /\ InverseOf(v, w, M)
        /\ q \in Nat /\ r \in Nat /\ r < w
        /\ x \in Nat /\ Same(r, x, w) /\ Same(q, x, Q)
    BY <1>1, <1>2, <1>3, <1>4, <1>5, <1>6 DEF Multiple, InverseOf
  <2> QED
    BY ONLY <2>1, JoinedIs
<1>8. Combined = (Joined(q, r, v, M, Q) * w) + r
  BY <1>1, <1>2, <1>3, <1>4, <1>5 DEF Combined, Joined, Difference
<1>9. m = w * Q
  BY <1>1, <1>2 DEF SplitOk
<1> QED
  BY <1>1, <1>7, <1>8, <1>9

-----------------------------------------------------------------------------
(***************************************************************************)
(* What mpz_powm has done at each point.                                   *)
(***************************************************************************)
PowmInv ==
    /\ wpc \in {"idle", "start", "table", "table2", "odd", "two", "even", "lo", "combine", "done"}
    /\ b \in Nat /\ e \in Nat /\ m \in Nat \ {0}
    /\ wpc = "start" => Powm!twos <= Power(2, LIMB_BITS)
    /\ wpc \notin {"idle", "start", "done"} => SplitOk
    /\ wpc = "table2" => b = 2
    /\ wpc \in {"odd", "lo"} => LoopOk
    /\ wpc = "two" => TwoOk
    /\ wpc \in {"even", "lo"} => rodd = Power(b, e) % mp
    /\ wpc = "combine" => CombineOk
    /\ wpc = "done" => rp = Power(b, e) % m

\* The arguments and the odd part stay as they are.
Kept == UNCHANGED <<b, e, m, mp>>

\* What depends on them does not change either.
LEMMA PowmFrame ==
    ASSUME Kept
    PROVE  /\ Powm!n' = Powm!n /\ Powm!R' = Powm!R
           /\ Powm!twos' = Powm!twos /\ Powm!ncnt' = Powm!ncnt /\ Powm!RLow' = Powm!RLow
           /\ SplitOk' = SplitOk
<1>1. /\ Powm!n' = Powm!n /\ Powm!R' = Powm!R
      /\ Powm!twos' = Powm!twos /\ Powm!ncnt' = Powm!ncnt /\ Powm!RLow' = Powm!RLow
  BY DEF Kept, Powm!n, Powm!R, Powm!twos, Powm!ncnt, Powm!RLow
<1>2. SplitOk' = SplitOk
  BY <1>1 DEF Kept, SplitOk, OddPartOk
<1> QED
  BY <1>1, <1>2

\* The invariant holds at a call of mpz_powm,
LEMMA InitPowm == Powm!Init => PowmInv
<1> SUFFICES ASSUME Powm!Init PROVE PowmInv
  OBVIOUS
<1>1. b \in Nat /\ e \in Nat /\ m \in Nat \ {0} /\ wpc = "start"
  BY MCGmpAssumption DEF Powm!Init, Powm!PowmAssumption
<1>2. Powm!twos <= Power(2, LIMB_BITS)
  <2>1. \A k \in Moduli : Powm!TrailingZeros(k) <= Powm!LIMB
    BY MCGmpAssumption DEF Powm!PowmAssumption
  <2>2. m \in Moduli
    BY DEF Powm!Init
  <2> QED
    BY <2>1, <2>2, PowmConstants DEF Powm!twos
<1> QED
  BY <1>1, <1>2 DEF PowmInv

\* at an early return,
LEMMA EarlyPowm == PowmInv /\ Powm!Early => PowmInv'
<1> SUFFICES ASSUME PowmInv, Powm!Early PROVE PowmInv'
  OBVIOUS
<1>1. PICK x \in Nat, y \in Nat, w \in Nat \ {0} : x = b /\ y = e /\ w = m
  BY DEF PowmInv
<1>2. wpc' = "done" /\ Kept
  BY DEF Powm!Early, Powm!Return, Kept
<1>3. rp' = Power(x, y) % w
  <2>1. CASE y = 0 /\ rp' = IF w = 1 THEN 0 ELSE 1
    <3>1. Power(x, y) = 1
      BY <2>1, PowerRecursion
    <3>2. 1 % w = IF w = 1 THEN 0 ELSE 1
      <4>1. CASE w = 1
        BY <4>1
      <4>2. CASE w # 1
        <5>1. 1 \in 0 .. w - 1
          BY <4>2
        <5> QED
          BY <4>2, <5>1, BelowDivisor
      <4> QED
        BY <4>1, <4>2
    <3> QED
      BY <2>1, <3>1, <3>2
  <2>2. CASE y # 0 /\ x = 0 /\ rp' = 0
    <3>1. PICK j \in Nat : y = j + 1
      <4>1. y - 1 \in Nat /\ y = (y - 1) + 1
        BY <2>2
      <4> QED
        BY <4>1
    <3>2. Power(0, j) \in Nat /\ Power(0, j + 1) = Power(0, j) * 0
      BY PowerRecursion
    <3>3. Power(x, y) = 0
      BY <2>2, <3>1, <3>2
    <3>4. 0 % w = 0
      <4>1. 0 \in 0 .. w - 1
        OBVIOUS
      <4> QED
        BY <4>1, BelowDivisor
    <3> QED
      BY <2>2, <3>3, <3>4
  <2>3. CASE y = 1 /\ rp' = x % w
    <3>1. Power(x, 0) = 1 /\ Power(x, 0 + 1) = Power(x, 0) * x
      BY PowerRecursion
    <3>2. Power(x, y) = x
      BY <2>3, <3>1
    <3> QED
      BY <2>3, <3>2
  <2> QED
    BY <1>1, <2>1, <2>2, <2>3 DEF Powm!Early, Powm!Return
<1> QED
  BY <1>1, <1>2, <1>3 DEF Kept, PowmInv

\* when the modulus is split,
LEMMA SplitPowm == PowmInv /\ Powm!Split => PowmInv'
<1> SUFFICES ASSUME PowmInv, Powm!Split PROVE PowmInv'
  OBVIOUS
<1>1. PICK w \in Nat \ {0}, t \in Nat : w = m /\ t = Powm!twos /\ t <= Power(2, LIMB_BITS)
  BY PowmZeros DEF PowmInv, Powm!Split, Powm!twos
<1>2. w % Power(2, t) = 0 /\ w % Power(2, t + 1) # 0
  BY <1>1, PowmZeros DEF Powm!twos
<1>3. PICK x \in Nat, Q \in Nat :
          x = w \div Power(2, t) /\ Q = Power(2, t) /\ x % 2 = 1 /\ w = Q * x
  <2>1. /\ w \div Power(2, t) \in Nat /\ (w \div Power(2, t)) % 2 = 1
        /\ w = Power(2, t) * (w \div Power(2, t))
    BY <1>2, OddPart
  <2>2. Power(2, t) \in Nat
    BY PowerRecursion
  <2> QED
    BY <2>1, <2>2
<1>4. mp' = x /\ b' = b /\ e' = e /\ m' = m /\ wpc' \in {"table", "table2"}
      /\ (wpc' = "table2" => b = 2) /\ e > 1 /\ b # 0
  BY <1>1, <1>3, PowmPowers DEF Powm!Split
<1>5. Powm!twos' = t
  BY <1>1, <1>4 DEF Powm!twos
<1>6. w = x * Q
  BY <1>3
<1>7. SplitOk'
  BY <1>1, <1>3, <1>4, <1>5, <1>6 DEF PowmInv, SplitOk, OddPartOk
<1> QED
  BY <1>4, <1>7 DEF PowmInv

\* when the table is made,
LEMMA MakeTablePowm == PowmInv /\ Powm!MakeTable => PowmInv'
<1> SUFFICES ASSUME PowmInv, Powm!MakeTable PROVE PowmInv'
  OBVIOUS
<1>1. SplitOk /\ Kept /\ wpc = "table" /\ wpc' = "odd"
  BY DEF PowmInv, Powm!MakeTable, Kept
<1>2. PICK first, square : /\ first = Powm!redcify(b)
                           /\ square = Powm!Redc1(Powm!redcify(b) * Powm!redcify(b))
  OBVIOUS
<1>3. Stands(first, 1) /\ Stands(square, 2)
  BY <1>1, <1>2, FirstPowers DEF Stands
<1>4. PICK table : table = Powm!Table(first, square) /\ TableStands(table)
  BY <1>1, <1>3, TableIsOfPowers
<1>5. pp' = table /\ ebi' = FirstLeft /\ rp' = table[FirstEntry]
  BY <1>2, <1>4 DEF Powm!MakeTable, Powm!StartLoop, FirstLeft, FirstEntry,
                    FirstWindow, FirstZeros
<1>6. FirstLeft \in 0 .. Powm!Bits(e) /\ Stands(table[FirstEntry], e \div Power(2, FirstLeft))
  BY <1>1, <1>4, LoopStarts
<1>7. LoopOk'
  BY <1>1, <1>4, <1>5, <1>6, PowmFrame
     DEF Kept, LoopOk, TableStands, Stands, InForm
<1> QED
  BY <1>1, <1>7, PowmFrame DEF PowmInv, Kept

\* after a zero bit,
LEMMA SquareStepPowm == PowmInv /\ Powm!SquareStep => PowmInv'
<1> SUFFICES ASSUME PowmInv, Powm!SquareStep PROVE PowmInv'
  OBVIOUS
<1>1. /\ SplitOk /\ LoopOk /\ Kept /\ wpc \in {"odd", "lo"} /\ ebi # 0
      /\ UNCHANGED <<wpc, pp, rodd>> /\ Powm!getbit(ebi) = 0
  BY DEF PowmInv, Powm!SquareStep, Kept
<1>2. PICK r, v : /\ r = Powm!Squared(rp, 1) /\ v = ebi - 1
                  /\ v \in 0 .. Powm!Bits(e) /\ Stands(r, e \div Power(2, v))
  BY <1>1, SquareStands
<1>3. rp' = r /\ ebi' = v
  BY <1>2 DEF Powm!SquareStep
<1>4. LoopOk'
  BY <1>1, <1>2, <1>3, PowmFrame
     DEF Kept, LoopOk, TableStands, Stands, InForm, InLow
<1> QED
  BY <1>1, <1>4, PowmFrame DEF PowmInv, Kept

\* after a window,
LEMMA WindowStepPowm == PowmInv /\ Powm!WindowStep => PowmInv'
<1> SUFFICES ASSUME PowmInv, Powm!WindowStep PROVE PowmInv'
  OBVIOUS
<1>1. /\ SplitOk /\ LoopOk /\ Kept /\ wpc \in {"odd", "lo"} /\ ebi # 0
      /\ UNCHANGED <<wpc, pp, rodd>> /\ Powm!getbit(ebi) = 1
  BY DEF PowmInv, Powm!WindowStep, Kept
<1>2. PICK r, v : /\ r = Powm!Reduce(Powm!Squared(rp, NextSize) * pp[NextEntry])
                  /\ v = ebi - NextSize
                  /\ v \in 0 .. Powm!Bits(e) /\ Stands(r, e \div Power(2, v))
  BY <1>1, WindowStands
<1>3. rp' = r /\ ebi' = v
  BY <1>2 DEF Powm!WindowStep, NextSize, NextEntry, NextWindow, NextZeros
<1>4. LoopOk'
  BY <1>1, <1>2, <1>3, PowmFrame
     DEF Kept, LoopOk, TableStands, Stands, InForm, InLow
<1> QED
  BY <1>1, <1>4, PowmFrame DEF PowmInv, Kept

\* With the power modulo the odd part mpz_powm is done, or goes on.
LEMMA AfterOddPowm ==
    ASSUME PowmInv, SplitOk, NEW r, r = Power(b, e) % mp, Powm!AfterOdd(r)
    PROVE  PowmInv'
<1>1. /\ Kept /\ rodd' = r /\ rp' = r
      /\ wpc' = IF Powm!twos = 0 THEN "done" ELSE "even"
  BY DEF Powm!AfterOdd, Kept
<1>2. CASE Powm!twos = 0
  <2>1. Power(2, 0) = 1
    BY PowerRecursion
  <2>2. m = mp
    BY <1>2, <2>1 DEF SplitOk, OddPartOk
  <2> QED
    BY <1>1, <1>2, <2>2 DEF PowmInv, Kept
<1>3. CASE Powm!twos # 0
  BY <1>1, <1>3, PowmFrame DEF PowmInv, Kept
<1> QED
  BY <1>2, <1>3

\* All bits of the exponent.
LEMMA AllBits ==
    ASSUME SplitOk
    PROVE  e \div Power(2, 0) = e
<1>1. Power(2, 0) = 1 /\ e \in Nat
  BY PowerRecursion DEF SplitOk
<1> QED
  BY <1>1

\* At the end of mpn_powm,
LEMMA FinishOddPowm == PowmInv /\ Powm!FinishOdd => PowmInv'
<1> SUFFICES ASSUME PowmInv, Powm!FinishOdd PROVE PowmInv'
  OBVIOUS
<1>1. SplitOk /\ LoopOk /\ wpc = "odd" /\ ebi = 0
  BY DEF PowmInv, Powm!FinishOdd
<1>2. InForm(rp, e)
  BY <1>1, AllBits DEF LoopOk, Stands
<1>3. Powm!Subtracted(Powm!Redc1(rp)) = Power(b, e) % mp
  BY <1>1, <1>2, RedcLast
<1>4. Powm!AfterOdd(Powm!Subtracted(Powm!Redc1(rp)))
  BY DEF Powm!FinishOdd
<1> QED
  BY <1>1, <1>3, <1>4, AfterOddPowm

\* at the start of mpn_2powm,
LEMMA ShiftPowm == PowmInv /\ Powm!Shift => PowmInv'
<1> SUFFICES ASSUME PowmInv, Powm!Shift PROVE PowmInv'
  OBVIOUS
<1>1. SplitOk /\ b = 2 /\ wpc = "table2"
  BY DEF PowmInv, Powm!Shift
<1>2. CASE /\ FirstBits < Powm!Bits(mp) /\ Powm!Bits(e) <= FirstCount
           /\ Powm!AfterOdd(Power(2, FirstBits))
  <2>1. Power(2, FirstBits) = Power(b, e) % mp
    BY <1>1, <1>2, ShiftAll
  <2> QED
    BY <1>1, <1>2, <2>1, AfterOddPowm
<1>3. CASE /\ FirstBits >= Powm!Bits(mp) \/ Powm!Bits(e) > FirstCount
           /\ rp' = Powm!redcify(Power(2, ShiftBy)) /\ ebi' = ShiftLeft
           /\ wpc' = "two" /\ Kept
  <2>1. PICK s \in Nat, v \in Nat : s = ShiftBy /\ v = ShiftLeft /\ s = e \div Power(2, v)
    BY <1>1, <1>3, ShiftFirst
  <2>2. PICK r : r = Powm!redcify(Power(2, s)) /\ Doubling(r, s)
    BY <1>1, ShiftStands
  <2>3. rp' = r /\ ebi' = v
    BY <1>3, <2>1, <2>2
  <2>4. TwoOk'
    BY <1>1, <1>3, <2>1, <2>2, <2>3, PowmFrame DEF Kept, TwoOk, Doubling, InForm
  <2> QED
    BY <1>1, <1>3, <2>4, PowmFrame DEF PowmInv, Kept
<1> QED
  BY <1>2, <1>3, PowmPowers
     DEF Powm!Shift, FirstBits, FirstCount, ShiftBy, ShiftLeft, Kept

\* in its loop
LEMMA DoubleStepPowm == PowmInv /\ Powm!DoubleStep => PowmInv'
<1> SUFFICES ASSUME PowmInv, Powm!DoubleStep PROVE PowmInv'
  OBVIOUS
<1>1. SplitOk /\ TwoOk /\ ebi # 0 /\ Kept /\ wpc = "two" /\ wpc' = "two"
  BY DEF PowmInv, Powm!DoubleStep, Kept
<1>2. PICK r, v : /\ r = IF Powm!getbit(ebi) = 1 THEN Powm!Doubled(TwoSquare) ELSE TwoSquare
                  /\ v = ebi - 1 /\ v \in Nat
                  /\ Doubling(r, e \div Power(2, v))
  BY <1>1, DoubleStands
<1>3. rp' = r /\ ebi' = v
  BY <1>2 DEF Powm!DoubleStep, TwoSquare
<1>4. TwoOk'
  BY <1>1, <1>2, <1>3, PowmFrame DEF Kept, TwoOk, Doubling, InForm
<1> QED
  BY <1>1, <1>4, PowmFrame DEF PowmInv, Kept

\* and at its end,
LEMMA FinishTwoPowm == PowmInv /\ Powm!FinishTwo => PowmInv'
<1> SUFFICES ASSUME PowmInv, Powm!FinishTwo PROVE PowmInv'
  OBVIOUS
<1>1. SplitOk /\ TwoOk /\ ebi = 0
  BY DEF PowmInv, Powm!FinishTwo
<1>2. InForm(rp, e) /\ (Powm!n = 1 => rp < mp)
  BY <1>1, AllBits DEF TwoOk, Doubling
<1>3. PICK r : r = IF Powm!n = 1 THEN Powm!Redc0(rp) ELSE Powm!Subtracted(Powm!Redc1(rp))
  OBVIOUS
<1>4. r = Power(b, e) % mp
  BY <1>1, <1>2, <1>3, RedcLast, RedcLastShort
<1>5. Powm!AfterOdd(r)
  BY <1>3 DEF Powm!FinishTwo
<1> QED
  BY <1>1, <1>4, <1>5, AfterOddPowm

\* at the start of mpn_powlo or without it,
LEMMA StartLoPowm == PowmInv /\ Powm!StartLo => PowmInv'
<1> SUFFICES ASSUME PowmInv, Powm!StartLo PROVE PowmInv'
  OBVIOUS
<1>1. /\ SplitOk /\ Kept /\ wpc = "even" /\ rodd' = rodd
      /\ rodd = Power(b, e) % mp
  BY DEF PowmInv, Powm!StartLo, Kept
<1>2. CASE Powm!IsZeroLow /\ wpc' = "combine" /\ rp' = 0
  <2>1. Same(0, Power(b, e), Power(2, Powm!twos))
    BY <1>1, <1>2, ZeroLow
  <2>2. CombineOk'
    BY <1>1, <1>2, <2>1, PowmFrame DEF Kept, CombineOk
  <2> QED
    BY <1>1, <1>2, <2>2, PowmFrame DEF PowmInv, Kept
<1>3. CASE /\ wpc' = "lo"
           /\ Powm!StartLoop(Powm!Table(b % Powm!RLow,
                  Powm!Reduce((b % Powm!RLow) * (b % Powm!RLow))))
  <2>1. PICK first, square : /\ first = b % Powm!RLow
                             /\ square = Powm!Reduce(first * first)
    OBVIOUS
  <2>2. Stands(first, 1)
    BY <1>1, <2>1, FirstPowers DEF Stands
  <2>3. Stands(square, 2)
    <3>1. Stands(square, 1 + 1)
      BY <1>1, <2>1, <2>2, ReduceStands
    <3> QED
      BY <3>1
  <2>4. PICK table : table = Powm!Table(first, square) /\ TableStands(table)
    BY <1>1, <2>2, <2>3, TableIsOfPowers
  <2>5. pp' = table /\ ebi' = FirstLeft /\ rp' = table[FirstEntry]
    BY <1>3, <2>1, <2>4 DEF Powm!StartLoop, FirstLeft, FirstEntry,
                            FirstWindow, FirstZeros
  <2>6. FirstLeft \in 0 .. Powm!Bits(e) /\ Stands(table[FirstEntry], e \div Power(2, FirstLeft))
    BY <1>1, <2>4, LoopStarts
  <2>7. LoopOk'
    BY <1>1, <1>3, <2>4, <2>5, <2>6, PowmFrame
       DEF Kept, LoopOk, TableStands, Stands, InLow
  <2> QED
    BY <1>1, <1>3, <2>7, PowmFrame DEF PowmInv, Kept
<1> QED
  BY <1>2, <1>3 DEF Powm!StartLo

\* at its end
LEMMA FinishLoPowm == PowmInv /\ Powm!FinishLo => PowmInv'
<1> SUFFICES ASSUME PowmInv, Powm!FinishLo PROVE PowmInv'
  OBVIOUS
<1>1. /\ SplitOk /\ LoopOk /\ Kept /\ wpc = "lo" /\ ebi = 0 /\ wpc' = "combine"
      /\ UNCHANGED <<rp, rodd>> /\ rodd = Power(b, e) % mp
  BY DEF PowmInv, Powm!FinishLo, Kept
<1>2. InLow(rp, e)
  BY <1>1, AllBits DEF LoopOk, Stands
<1>3. rp \in Nat /\ Same(rp, Power(b, e), Power(2, Powm!twos))
  BY <1>1, <1>2, LowIs
<1>4. CombineOk'
  BY <1>1, <1>3, PowmFrame DEF Kept, CombineOk
<1> QED
  BY <1>1, <1>4, PowmFrame DEF PowmInv, Kept

\* and when the parts are put together it holds,
LEMMA CombinePowm == PowmInv /\ Powm!Combine => PowmInv'
<1> SUFFICES ASSUME PowmInv, Powm!Combine PROVE PowmInv'
  OBVIOUS
<1>1. SplitOk /\ CombineOk /\ Kept /\ wpc' = "done"
  BY DEF PowmInv, Powm!Combine, Kept
<1>2. rp' = Combined
  BY PowmPowers DEF Powm!Combine, Combined
<1>3. Combined = Power(b, e) % m
  BY <1>1, CombinedIs
<1> QED
  BY <1>1, <1>2, <1>3 DEF PowmInv, Kept

\* and when another function runs,
LEMMA StutterPowm == PowmInv /\ UNCHANGED powmvars => PowmInv'
<1> SUFFICES ASSUME PowmInv, UNCHANGED powmvars PROVE PowmInv'
  OBVIOUS
<1>1. Kept /\ UNCHANGED <<wpc, pp, rp, ebi, rodd>>
  BY DEF powmvars, Kept
<1>2. LoopOk => LoopOk'
  BY <1>1, PowmFrame DEF Kept, LoopOk, TableStands, Stands, InForm, InLow
<1>3. TwoOk => TwoOk'
  BY <1>1, PowmFrame DEF Kept, TwoOk, Doubling, InForm
<1>4. CombineOk => CombineOk'
  BY <1>1, PowmFrame DEF Kept, CombineOk
<1> QED
  BY <1>1, <1>2, <1>3, <1>4, PowmFrame DEF PowmInv, Kept

\* so it holds in all states.
LEMMA PowmHolds == MCSpec => []PowmInv
<1>1. MCInit => PowmInv
  <2>1. NoPowm => PowmInv
    BY DEF NoPowm, PowmInv
  <2> QED
    BY <2>1, InitPowm DEF MCInit
<1>2. PowmInv /\ [MCNext]_MCvars => PowmInv'
  <2>1. PowmInv /\ Powm!Next => PowmInv'
    BY EarlyPowm, SplitPowm, MakeTablePowm, SquareStepPowm, WindowStepPowm,
       FinishOddPowm, ShiftPowm, DoubleStepPowm, FinishTwoPowm, StartLoPowm,
       FinishLoPowm, CombinePowm
       DEF Powm!Next
  <2>2. MCNext => Powm!Next \/ UNCHANGED powmvars
    BY DEF MCNext
  <2>3. UNCHANGED MCvars => UNCHANGED powmvars
    BY DEF MCvars
  <2> QED
    BY <2>1, <2>2, <2>3, StutterPowm
<1> QED
  BY <1>1, <1>2, PTL DEF MCSpec

\* mpz_powm returns the power modulo m, whichever of its ways it takes: the early
\* returns, windows or doubling, an odd or an even modulus, a zero below it.
THEOREM PowerComputed == MCSpec => []PowerAgrees
<1>1. PowmInv => PowerAgrees
  <2> SUFFICES ASSUME PowmInv, wpc = "done" PROVE rp = Powm!PowM(b, e, m)
    BY DEF PowerAgrees, Powm!PowerAgrees
  <2>1. rp = Power(b, e) % m /\ b \in Nat /\ e \in Nat /\ m \in Nat \ {0}
    BY DEF PowmInv
  <2> QED
    BY <2>1, PowMIsPower, PowmPowers
<1> QED
  BY <1>1, PowmHolds, PTL

\* The loops of mpn_powm, mpn_2powm and mpn_powlo hold, in the form they work with,
\* the power by the bits of the exponent that they have seen, and it fits its limbs.
THEOREM LoopHoldsPower == MCSpec => []PowerOfSeenBits
<1>1. PowmInv => PowerOfSeenBits
  <2> SUFFICES ASSUME PowmInv PROVE PowerOfSeenBits
    OBVIOUS
  <2>1. ASSUME SplitOk, NEW v \in Nat, InForm(rp, e \div Power(2, v))
        PROVE  /\ rp < Powm!R
               /\ rp % mp = (Powm!PowM(b, e \div Power(2, v), mp) * Powm!R) % mp
    <3>1. PICK x \in Nat, s \in Nat, w \in Nat \ {0}, R \in Nat :
              x = b /\ s = e \div Power(2, v) /\ w = mp /\ R = Powm!R
      <4>1. Power(2, v) \in Nat \ {0}
        BY PowerPositive
      <4>2. e \div Power(2, v) \in Nat
        BY <2>1, <4>1, Remainder DEF SplitOk
      <4> QED
        BY <2>1, <4>2, OddModulus DEF SplitOk
    <3>2. PICK g \in Nat : g = Power(x, s) /\ Powm!PowM(x, s, w) = g % w
      BY PowMIsPower, PowmPowers, PowerRecursion
    <3>3. rp < R /\ rp % w = (g * R) % w
      BY <2>1, <3>1, <3>2 DEF InForm, Same
    <3>4. ((g % w) * R) % w = (g * R) % w
      BY ReduceFactor
    <3> QED
      BY <3>1, <3>2, <3>3, <3>4
  <2>2. ASSUME wpc \in {"odd", "two"}
        PROVE  /\ rp < Powm!R
               /\ rp % mp = (Powm!PowM(b, Powm!Seen, mp) * Powm!R) % mp
    <3>1. SplitOk /\ ebi \in Nat /\ InForm(rp, e \div Power(2, ebi))
      BY <2>2, WindowFits DEF PowmInv, LoopOk, TwoOk, Doubling, Stands
    <3>2. Powm!Seen = e \div Power(2, ebi)
      BY PowmPowers DEF Powm!Seen
    <3> QED
      BY <2>1, <3>1, <3>2
  <2>3. ASSUME wpc = "lo" PROVE rp = Powm!PowM(b, Powm!Seen, Powm!RLow)
    <3>1. SplitOk /\ ebi \in Nat /\ InLow(rp, e \div Power(2, ebi))
      BY <2>3, WindowFits DEF PowmInv, LoopOk, Stands
    <3>2. PICK x \in Nat, s \in Nat, w \in Nat \ {0}, r \in Nat :
              x = b /\ s = e \div Power(2, ebi) /\ w = Powm!RLow /\ r = rp
      <4>1. Power(2, ebi) \in Nat \ {0}
        BY <3>1, PowerPositive
      <4>2. e \div Power(2, ebi) \in Nat
        BY <3>1, <4>1, Remainder DEF SplitOk
      <4> QED
        BY <3>1, <4>2, LowModulus DEF SplitOk, InLow
    <3>3. PICK g \in Nat : g = Power(x, s) /\ Powm!PowM(x, s, w) = g % w
      BY PowMIsPower, PowmPowers, PowerRecursion
    <3>4. r < w /\ Same(r, g, w)
      BY <3>1, <3>2, <3>3 DEF InLow
    <3>5. r = g % w
      BY <3>4, SameBelow
    <3>6. Powm!Seen = s
      BY <3>2, PowmPowers DEF Powm!Seen
    <3> QED
      BY <3>2, <3>3, <3>5, <3>6
  <2> QED
    BY <2>2, <2>3 DEF PowerOfSeenBits, Powm!PowerOfSeenBits
<1> QED
  BY <1>1, PowmHolds, PTL

=============================================================================
