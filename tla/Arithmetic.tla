----------------------------- MODULE Arithmetic ----------------------------
(***************************************************************************)
(* What the proofs need of the natural numbers: induction, for a set       *)
(* instead of a predicate, so that the recursive functions of the models   *)
(* can be reasoned about; division with remainder; powers; congruences;    *)
(* Montgomery's reduction; the bits of a number and windows of them.       *)
(***************************************************************************)
EXTENDS Powers, Integers, Sequences, FiniteSetTheorems, WellFoundedInduction, TLAPS

\* Every non-empty set of natural numbers has a least one.
LEMMA LeastNumber ==
    ASSUME NEW T, T \subseteq Nat, T # {}
    PROVE  \E x \in T : \A y \in T : x <= y
<1> DEFINE R == OpToRel(<, Nat)
<1>1. IsWellFoundedOn(R, Nat)
  BY NatLessThanWellFounded, Zenon
<1>2. \A x, y \in Nat : <<x, y>> \in R <=> x < y
  BY DEF OpToRel
<1> HIDE DEF R
<1>3. PICK x \in T : \A y \in T : <<y, x>> \notin R
  BY <1>1, WFMin
<1>4. \A y \in T : ~(y < x)
  BY <1>2, <1>3
<1> QED
  BY <1>4

\* A set that has 0, and with every number the next one, has them all: the
\* loops that the models describe by recursive functions start with 0 and
\* count by one.
LEMMA NatSetInduction ==
    ASSUME NEW S, 0 \in S, \A n \in Nat : n \in S => n + 1 \in S
    PROVE  \A n \in Nat : n \in S
<1> DEFINE T == {n \in Nat : n \notin S}
<1> SUFFICES ASSUME T # {} PROVE FALSE
  OBVIOUS
<1>1. PICK x \in T : \A y \in T : x <= y
  <2>1. T \subseteq Nat
    OBVIOUS
  <2> HIDE DEF T
  <2> QED
    BY <2>1, LeastNumber
<1>2. x - 1 \in Nat /\ ~(x <= x - 1)
  OBVIOUS
<1>3. x - 1 \notin T
  BY <1>1, <1>2
<1> QED
  BY <1>2, <1>3

\* The same for the numbers up to a bound.
LEMMA UpToInduction ==
    ASSUME NEW m \in Nat, NEW S, 0 \in S,
           \A n \in 0 .. m - 1 : n \in S => n + 1 \in S
    PROVE  \A n \in 0 .. m : n \in S
<1> DEFINE T == {n \in Nat : n <= m => n \in S}
<1>1. 0 \in T
  OBVIOUS
<1>2. \A n \in Nat : n \in T => n + 1 \in T
  OBVIOUS
<1>3. \A n \in Nat : n \in T
  <2> HIDE DEF T
  <2> QED
    BY <1>1, <1>2, NatSetInduction
<1> QED
  BY <1>3

\* The recursive function of a loop that runs m times: its value at 0 is
\* given, and every other value is a function of the one before.
Loop(f, m, base, step) ==
    f = [n \in 0 .. m |-> IF n = 0 THEN base ELSE step[<<n, f[n - 1]>>]]

\* The function of a loop exists.
LEMMA LoopExists ==
    ASSUME NEW V, NEW base \in V, NEW m \in Nat,
           NEW step \in [(1 .. m) \X V -> V]
    PROVE  \E f \in [0 .. m -> V] : Loop(f, m, base, step)
<1> DEFINE Partial(k, f) ==
               /\ f \in [0 .. k -> V]
               /\ f[0] = base
               /\ \A n \in 1 .. k : f[n] = step[<<n, f[n - 1]>>]
           S == {k \in 0 .. m : \E f : Partial(k, f)}
<1>1. 0 \in S
  <2> DEFINE g == [n \in 0 .. 0 |-> base]
  <2>1. Partial(0, g)
    OBVIOUS
  <2> HIDE DEF g
  <2> QED
    BY <2>1
<1>2. \A k \in 0 .. m - 1 : k \in S => k + 1 \in S
  <2> SUFFICES ASSUME NEW k \in 0 .. m - 1, NEW f, Partial(k, f)
               PROVE  k + 1 \in S
    OBVIOUS
  <2> DEFINE g == [n \in 0 .. k + 1 |->
                      IF n = k + 1 THEN step[<<k + 1, f[k]>>] ELSE f[n]]
  <2>1. f[k] \in V /\ step[<<k + 1, f[k]>>] \in V
    <3>1. f[k] \in V
      OBVIOUS
    <3>2. <<k + 1, f[k]>> \in (1 .. m) \X V
      BY <3>1
    <3> QED
      BY <3>1, <3>2
  <2>2. g \in [0 .. k + 1 -> V]
    BY <2>1
  <2>3. g[0] = base
    OBVIOUS
  <2>4. \A n \in 1 .. k + 1 : g[n] = step[<<n, g[n - 1]>>]
    <3> TAKE n \in 1 .. k + 1
    <3>1. CASE n = k + 1
      <4>1. g[n] = step[<<k + 1, f[k]>>] /\ g[n - 1] = f[k]
        BY <3>1
      <4> QED
        BY <3>1, <4>1
    <3>2. CASE n # k + 1
      <4>1. g[n] = f[n] /\ g[n - 1] = f[n - 1] /\ n \in 1 .. k
        BY <3>2
      <4> QED
        BY <4>1
    <3> QED
      BY <3>1, <3>2
  <2> HIDE DEF g
  <2>5. Partial(k + 1, g)
    BY <2>2, <2>3, <2>4
  <2> QED
    BY <2>5
<1>3. m \in S
  <2> HIDE DEF S
  <2>1. \A k \in 0 .. m : k \in S
    BY <1>1, <1>2, UpToInduction
  <2> QED
    BY <2>1
<1>4. PICK f : Partial(m, f)
  BY <1>3
<1>5. Loop(f, m, base, step)
  <2>1. \A n \in 0 .. m : f[n] = IF n = 0 THEN base ELSE step[<<n, f[n - 1]>>]
    BY <1>4
  <2> QED
    BY <1>4, <2>1 DEF Loop
<1> QED
  BY <1>4, <1>5

-----------------------------------------------------------------------------
\* The function that computes a modular power for every exponent up to e.
PowerOf(f, b, e, m) ==
    f = [n \in 0 .. e |-> IF n = 0 THEN 1 % m ELSE (f[n - 1] * b) % m]

\* One multiplication of that function, by number and last value.
Multiply(b, e, m) == [p \in (1 .. e) \X (0 .. m - 1) |-> (p[2] * b) % m]

\* Two such functions agree as far as both go.
LEMMA PowersAgree ==
    ASSUME NEW b, NEW m, NEW e \in Nat, NEW k \in Nat, e <= k,
           NEW f, PowerOf(f, b, e, m), NEW g, PowerOf(g, b, k, m)
    PROVE  \A n \in 0 .. e : f[n] = g[n]
<1> DEFINE S == {n \in 0 .. e : f[n] = g[n]}
<1>1. 0 \in S
  <2>1. 0 \in 0 .. e /\ 0 \in 0 .. k
    OBVIOUS
  <2>2. f[0] = 1 % m /\ g[0] = 1 % m
    BY <2>1, Zenon DEF PowerOf
  <2> QED
    BY <2>1, <2>2
<1>2. ASSUME NEW n \in 0 .. e - 1, n \in S PROVE n + 1 \in S
  <2>1. /\ n + 1 \in 0 .. e /\ n + 1 \in 0 .. k
        /\ n + 1 # 0 /\ (n + 1) - 1 = n
    OBVIOUS
  <2>2. f[n + 1] = (f[n] * b) % m
    BY <2>1, Zenon DEF PowerOf
  <2>3. g[n + 1] = (g[n] * b) % m
    BY <2>1, Zenon DEF PowerOf
  <2> QED
    BY <1>2, <2>1, <2>2, <2>3
<1> HIDE DEF S
<1>3. \A n \in 0 .. e : n \in S
  BY <1>1, <1>2, UpToInduction
<1> QED
  BY <1>3 DEF S

\* PowM is the last value of a function that satisfies its recursion.
LEMMA PowMFunction ==
    ASSUME NEW b \in Nat, NEW e \in Nat, NEW m \in Nat \ {0}
    PROVE  \E f \in [0 .. e -> 0 .. m - 1] :
               PowerOf(f, b, e, m) /\ PowM(b, e, m) = f[e]
<1> DEFINE V == 0 .. m - 1
           base == 1 % m
           step == Multiply(b, e, m)
           power[n \in 0 .. e] ==
               IF n = 0 THEN 1 % m ELSE (power[n - 1] * b) % m
<1>1. base \in V
  OBVIOUS
<1>2. step \in [(1 .. e) \X V -> V]
  BY DEF Multiply
<1>3. PICK f \in [0 .. e -> V] : Loop(f, e, base, step)
  <2> HIDE DEF V, base, step
  <2> QED
    BY <1>1, <1>2, LoopExists
<1>4. PowerOf(f, b, e, m)
  <2>1. \A n \in 0 .. e : n # 0 => step[<<n, f[n - 1]>>] = (f[n - 1] * b) % m
    BY DEF Multiply
  <2> HIDE DEF step
  <2> QED
    BY <1>3, <2>1 DEF PowerOf, Loop
<1>5. PowerOf(power, b, e, m)
  BY <1>4, Zenon DEF PowerOf
<1>6. PowM(b, e, m) = power[e]
  BY DEF PowM
<1> HIDE DEF power
<1>7. f[e] = power[e]
  BY <1>4, <1>5, PowersAgree
<1> QED
  BY <1>4, <1>6, <1>7

\* The recursion of a modular power: a power is the one before times the base.
LEMMA PowMRecursion ==
    ASSUME NEW b \in Nat, NEW m \in Nat \ {0}
    PROVE  /\ PowM(b, 0, m) = 1 % m
           /\ \A e \in Nat :
                  /\ PowM(b, e, m) \in 0 .. m - 1
                  /\ PowM(b, e + 1, m) = (PowM(b, e, m) * b) % m
<1>1. PowM(b, 0, m) = 1 % m
  <2>1. PICK f \in [0 .. 0 -> 0 .. m - 1] :
            PowerOf(f, b, 0, m) /\ PowM(b, 0, m) = f[0]
    BY PowMFunction
  <2> QED
    BY <2>1 DEF PowerOf
<1>2. ASSUME NEW e \in Nat
      PROVE  /\ PowM(b, e, m) \in 0 .. m - 1
             /\ PowM(b, e + 1, m) = (PowM(b, e, m) * b) % m
  <2>1. PICK k \in Nat : k = e + 1
    OBVIOUS
  <2>2. PICK f \in [0 .. e -> 0 .. m - 1] :
            PowerOf(f, b, e, m) /\ PowM(b, e, m) = f[e]
    BY PowMFunction
  <2>3. PICK g \in [0 .. k -> 0 .. m - 1] :
            PowerOf(g, b, k, m) /\ PowM(b, k, m) = g[k]
    BY PowMFunction
  <2>4. e <= k /\ k \in 0 .. k /\ k # 0 /\ k - 1 = e
    BY <2>1
  <2>5. \A n \in 0 .. e : f[n] = g[n]
    <3>1. /\ e \in Nat /\ k \in Nat /\ e <= k
          /\ PowerOf(f, b, e, m) /\ PowerOf(g, b, k, m)
      BY <2>2, <2>3, <2>4
    <3> QED
      BY ONLY <3>1, PowersAgree
  <2>6. g[k] = (g[e] * b) % m
    BY <2>3, <2>4, Zenon DEF PowerOf
  <2> QED
    BY <2>1, <2>2, <2>3, <2>5, <2>6
<1> QED
  BY <1>1, <1>2

-----------------------------------------------------------------------------
\* A number is a multiple of m and a remainder, in one way only.
LEMMA Remainder ==
    ASSUME NEW x \in Nat, NEW m \in Nat \ {0}
    PROVE  /\ x % m \in 0 .. m - 1
           /\ x \div m \in Nat
           /\ x = (m * (x \div m)) + (x % m)
           /\ \A q \in Nat, r \in 0 .. m - 1 : x = (m * q) + r => x % m = r
<1>1. x % m \in 0 .. m - 1 /\ x \div m \in Nat
  OBVIOUS
<1>2. x = (m * (x \div m)) + (x % m)
  OBVIOUS
<1>3. \A q \in Nat, r \in 0 .. m - 1 : x = (m * q) + r => x % m = r
  BY SMTT(30)
<1> QED
  BY <1>1, <1>2, <1>3

\* Factors may be reduced before they are multiplied.
LEMMA ReduceFactor ==
    ASSUME NEW x \in Nat, NEW y \in Nat, NEW m \in Nat \ {0}
    PROVE  ((x % m) * y) % m = (x * y) % m
<1> DEFINE q == x \div m
           r == x % m
           s == (r * y) \div m
           t == (r * y) % m
<1>1. r \in 0 .. m - 1 /\ q \in Nat /\ x = (m * q) + r
  BY Remainder
<1>2. r * y \in Nat /\ x * y \in Nat
  BY <1>1
<1> HIDE DEF q, r
<1>3. t \in 0 .. m - 1 /\ s \in Nat /\ r * y = (m * s) + t
  BY <1>2, Remainder
<1> HIDE DEF s, t
<1>4. x * y = (m * ((q * y) + s)) + t
  <2>1. x * y = (m * q) * y + r * y
    BY <1>1
  <2> QED
    BY <1>1, <1>3, <2>1
<1>5. (q * y) + s \in Nat
  BY <1>1, <1>3
<1>6. (x * y) % m = t
  <2>1. \A k \in Nat, u \in 0 .. m - 1 :
            x * y = (m * k) + u => (x * y) % m = u
    BY <1>2, Remainder, Zenon
  <2> QED
    BY <1>3, <1>4, <1>5, <2>1, Zenon
<1> QED
  BY <1>6 DEF r, t

\* The power of a sum of exponents is the product of the powers.
LEMMA PowMSum ==
    ASSUME NEW b \in Nat, NEW m \in Nat \ {0}, NEW x \in Nat, NEW y \in Nat
    PROVE  PowM(b, x + y, m) = (PowM(b, x, m) * PowM(b, y, m)) % m
<1> DEFINE P(e) == PowM(b, e, m)
           S == {n \in Nat : P(x + n) = (P(x) * P(n)) % m}
<1>1. /\ P(0) = 1 % m
      /\ \A e \in Nat : P(e) \in 0 .. m - 1 /\ P(e + 1) = (P(e) * b) % m
  BY PowMRecursion
<1> HIDE DEF P
<1>2. 0 \in S
  <2>1. (P(x) * (1 % m)) % m = (P(x) * 1) % m
    <3>1. ((1 % m) * P(x)) % m = (1 * P(x)) % m
      BY <1>1, ReduceFactor
    <3> QED
      BY <1>1, <3>1
  <2>2. P(x) % m = P(x)
    <3>1. \A r \in 0 .. m - 1 : r % m = r
      OBVIOUS
    <3> QED
      BY <1>1, <3>1
  <2> QED
    BY <1>1, <2>1, <2>2
<1>3. ASSUME NEW n \in Nat, n \in S PROVE n + 1 \in S
  <2>1. P(x + (n + 1)) = (P(x + n) * b) % m
    <3>1. x + (n + 1) = (x + n) + 1 /\ x + n \in Nat
      OBVIOUS
    <3> QED
      BY <1>1, <3>1
  <2>2. (P(x + n) * b) % m = ((P(x) * P(n)) * b) % m
    <3>1. P(x) * P(n) \in Nat
      BY <1>1
    <3> QED
      BY <1>3, <3>1, ReduceFactor
  <2>3. (P(x) * P(n)) * b = (P(n) * b) * P(x)
    BY <1>1
  <2>4. ((P(n) * b) * P(x)) % m = (((P(n) * b) % m) * P(x)) % m
    <3>1. P(n) * b \in Nat /\ P(x) \in Nat
      BY <1>1
    <3> QED
      BY <3>1, ReduceFactor
  <2>5. ((P(n) * b) % m) * P(x) = P(x) * P(n + 1)
    BY <1>1
  <2> QED
    BY <2>1, <2>2, <2>3, <2>4, <2>5
<1> HIDE DEF S
<1>4. y \in S
  BY <1>2, <1>3, NatSetInduction
<1> QED
  BY <1>4 DEF S, P

\* The power of a power is the power of the product of the exponents.
LEMMA PowMProduct ==
    ASSUME NEW b \in Nat, NEW m \in Nat \ {0}, NEW x \in Nat, NEW y \in Nat
    PROVE  PowM(PowM(b, x, m), y, m) = PowM(b, x * y, m)
<1> DEFINE c == PowM(b, x, m)
           S == {n \in Nat : PowM(c, n, m) = PowM(b, x * n, m)}
<1>1. c \in Nat
  BY PowMRecursion
<1> HIDE DEF c
<1>2. 0 \in S
  <2>1. x * 0 = 0
    OBVIOUS
  <2>2. PowM(c, 0, m) = 1 % m /\ PowM(b, 0, m) = 1 % m
    BY <1>1, PowMRecursion
  <2> QED
    BY <2>1, <2>2
<1>3. ASSUME NEW n \in Nat, n \in S PROVE n + 1 \in S
  <2>1. x * n \in Nat /\ x * (n + 1) = (x * n) + x
    OBVIOUS
  <2>2. PowM(c, n + 1, m) = (PowM(c, n, m) * c) % m
    BY <1>1, PowMRecursion
  <2>3. PowM(b, (x * n) + x, m) = (PowM(b, x * n, m) * PowM(b, x, m)) % m
    BY <2>1, PowMSum
  <2> QED
    BY <1>3, <2>1, <2>2, <2>3 DEF c
<1> HIDE DEF S
<1>4. y \in S
  BY <1>2, <1>3, NatSetInduction
<1> QED
  BY <1>4 DEF S, c

-----------------------------------------------------------------------------
\* The function that computes a power for every exponent up to e.
PlainPowerOf(f, b, e) == f = [n \in 0 .. e |-> IF n = 0 THEN 1 ELSE f[n - 1] * b]

\* Two such functions agree as far as both go.
LEMMA PlainPowersAgree ==
    ASSUME NEW b, NEW e \in Nat, NEW k \in Nat, e <= k,
           NEW f, PlainPowerOf(f, b, e), NEW g, PlainPowerOf(g, b, k)
    PROVE  \A n \in 0 .. e : f[n] = g[n]
<1> DEFINE S == {n \in 0 .. e : f[n] = g[n]}
<1>1. 0 \in S
  <2>1. 0 \in 0 .. e /\ 0 \in 0 .. k
    OBVIOUS
  <2>2. f[0] = 1 /\ g[0] = 1
    BY <2>1, Zenon DEF PlainPowerOf
  <2> QED
    BY <2>1, <2>2
<1>2. ASSUME NEW n \in 0 .. e - 1, n \in S PROVE n + 1 \in S
  <2>1. /\ n + 1 \in 0 .. e /\ n + 1 \in 0 .. k
        /\ n + 1 # 0 /\ (n + 1) - 1 = n
    OBVIOUS
  <2>2. f[n + 1] = f[n] * b
    BY <2>1, Zenon DEF PlainPowerOf
  <2>3. g[n + 1] = g[n] * b
    BY <2>1, Zenon DEF PlainPowerOf
  <2> QED
    BY <1>2, <2>1, <2>2, <2>3
<1> HIDE DEF S
<1>3. \A n \in 0 .. e : n \in S
  BY <1>1, <1>2, UpToInduction
<1> QED
  BY <1>3 DEF S

\* Power is the last value of a function that satisfies its recursion.
LEMMA PowerFunction ==
    ASSUME NEW b \in Nat, NEW e \in Nat
    PROVE  \E f \in [0 .. e -> Nat] : PlainPowerOf(f, b, e) /\ Power(b, e) = f[e]
<1> DEFINE step == [p \in (1 .. e) \X Nat |-> p[2] * b]
           power[n \in 0 .. e] == IF n = 0 THEN 1 ELSE power[n - 1] * b
<1>1. step \in [(1 .. e) \X Nat -> Nat]
  OBVIOUS
<1>2. PICK f \in [0 .. e -> Nat] : Loop(f, e, 1, step)
  <2> HIDE DEF step
  <2> QED
    BY <1>1, LoopExists
<1>3. PlainPowerOf(f, b, e)
  <2>1. \A n \in 0 .. e : n # 0 => step[<<n, f[n - 1]>>] = f[n - 1] * b
    OBVIOUS
  <2> HIDE DEF step
  <2> QED
    BY <1>2, <2>1 DEF PlainPowerOf, Loop
<1>4. PlainPowerOf(power, b, e)
  BY <1>3, Zenon DEF PlainPowerOf
<1>5. Power(b, e) = power[e]
  BY DEF Power
<1> HIDE DEF power
<1>6. f[e] = power[e]
  BY <1>3, <1>4, PlainPowersAgree
<1> QED
  BY <1>3, <1>5, <1>6

\* The recursion of a power: a power is the one before times the base.
LEMMA PowerRecursion ==
    ASSUME NEW b \in Nat
    PROVE  /\ Power(b, 0) = 1
           /\ \A e \in Nat :
                  /\ Power(b, e) \in Nat
                  /\ Power(b, e + 1) = Power(b, e) * b
<1>1. Power(b, 0) = 1
  <2>1. PICK f \in [0 .. 0 -> Nat] : PlainPowerOf(f, b, 0) /\ Power(b, 0) = f[0]
    BY PowerFunction
  <2> QED
    BY <2>1 DEF PlainPowerOf
<1>2. ASSUME NEW e \in Nat
      PROVE  Power(b, e) \in Nat /\ Power(b, e + 1) = Power(b, e) * b
  <2>1. PICK k \in Nat : k = e + 1
    OBVIOUS
  <2>2. PICK f \in [0 .. e -> Nat] : PlainPowerOf(f, b, e) /\ Power(b, e) = f[e]
    BY PowerFunction
  <2>3. PICK g \in [0 .. k -> Nat] : PlainPowerOf(g, b, k) /\ Power(b, k) = g[k]
    BY PowerFunction
  <2>4. e <= k /\ k \in 0 .. k /\ k # 0 /\ k - 1 = e
    BY <2>1
  <2>5. \A n \in 0 .. e : f[n] = g[n]
    <3>1. /\ e \in Nat /\ k \in Nat /\ e <= k
          /\ PlainPowerOf(f, b, e) /\ PlainPowerOf(g, b, k)
      BY <2>2, <2>3, <2>4
    <3> QED
      BY ONLY <3>1, PlainPowersAgree
  <2>6. g[k] = g[e] * b
    BY <2>3, <2>4, Zenon DEF PlainPowerOf
  <2> QED
    BY <2>1, <2>2, <2>3, <2>5, <2>6
<1> QED
  BY <1>1, <1>2

\* Powers of a positive number are positive.
LEMMA PowerPositive ==
    ASSUME NEW b \in Nat \ {0}, NEW e \in Nat
    PROVE  Power(b, e) \in Nat \ {0}
<1> DEFINE S == {n \in Nat : Power(b, n) \in Nat \ {0}}
<1>1. 0 \in S
  BY PowerRecursion
<1>2. ASSUME NEW n \in Nat, n \in S PROVE n + 1 \in S
  <2>1. \A x, y \in Nat \ {0} : x * y \in Nat \ {0}
    OBVIOUS
  <2> QED
    BY <1>2, <2>1, PowerRecursion
<1> HIDE DEF S
<1>3. e \in S
  BY <1>1, <1>2, NatSetInduction
<1> QED
  BY <1>3 DEF S

\* The power of a sum of exponents is the product of the powers.
LEMMA PowerSum ==
    ASSUME NEW b \in Nat, NEW x \in Nat, NEW y \in Nat
    PROVE  Power(b, x + y) = Power(b, x) * Power(b, y)
<1> DEFINE S == {n \in Nat : Power(b, x + n) = Power(b, x) * Power(b, n)}
<1>1. 0 \in S
  BY PowerRecursion
<1>2. ASSUME NEW n \in Nat, n \in S PROVE n + 1 \in S
  <2>1. x + (n + 1) = (x + n) + 1 /\ x + n \in Nat
    OBVIOUS
  <2>2. Power(b, x + (n + 1)) = (Power(b, x) * Power(b, n)) * b
    BY <1>2, <2>1, PowerRecursion
  <2>3. /\ Power(b, n + 1) = Power(b, n) * b
        /\ Power(b, n) \in Nat /\ Power(b, x) \in Nat
    BY PowerRecursion
  <2>4. \A i, j, k \in Nat : (i * j) * k = i * (j * k)
    OBVIOUS
  <2> QED
    BY <2>2, <2>3, <2>4
<1> HIDE DEF S
<1>3. y \in S
  BY <1>1, <1>2, NatSetInduction
<1> QED
  BY <1>3 DEF S

\* The power of a power is the power of the product of the exponents.
LEMMA PowerProduct ==
    ASSUME NEW b \in Nat, NEW x \in Nat, NEW y \in Nat
    PROVE  Power(Power(b, x), y) = Power(b, x * y)
<1> DEFINE c == Power(b, x)
           S == {n \in Nat : Power(c, n) = Power(b, x * n)}
<1>1. c \in Nat
  BY PowerRecursion
<1> HIDE DEF c
<1>2. 0 \in S
  <2>1. x * 0 = 0
    OBVIOUS
  <2>2. Power(c, 0) = 1 /\ Power(b, 0) = 1
    BY <1>1, PowerRecursion
  <2> QED
    BY <2>1, <2>2
<1>3. ASSUME NEW n \in Nat, n \in S PROVE n + 1 \in S
  <2>1. x * n \in Nat /\ x * (n + 1) = (x * n) + x
    OBVIOUS
  <2>2. Power(c, n + 1) = Power(c, n) * c
    BY <1>1, PowerRecursion
  <2>3. Power(b, (x * n) + x) = Power(b, x * n) * Power(b, x)
    BY <2>1, PowerSum
  <2> QED
    BY <1>3, <2>1, <2>2, <2>3 DEF c
<1> HIDE DEF S
<1>4. y \in S
  BY <1>2, <1>3, NatSetInduction
<1> QED
  BY <1>4 DEF S, c

-----------------------------------------------------------------------------
\* Quotient and remainder are unique.
LEMMA Quotient ==
    ASSUME NEW m \in Nat \ {0}, NEW q \in Nat, NEW r \in 0 .. m - 1
    PROVE  /\ ((m * q) + r) \div m = q
           /\ ((m * q) + r) % m = r
<1>1. PICK x \in Nat : x = (m * q) + r
  OBVIOUS
<1>2. PICK d \in Nat : d = x \div m /\ x = (m * d) + (x % m)
  BY <1>1, Remainder
<1>3. x % m = r
  BY <1>1, Remainder
<1>4. m * d = m * q
  BY <1>1, <1>2, <1>3
<1>5. \A i, j \in Nat : m * i = m * j => i = j
  OBVIOUS
<1> QED
  BY <1>1, <1>2, <1>3, <1>4, <1>5

\* Division by a product is division by one factor after the other.
LEMMA DivideTwice ==
    ASSUME NEW x \in Nat, NEW a \in Nat \ {0}, NEW b \in Nat \ {0}
    PROVE  /\ x \div (a * b) = (x \div a) \div b
           /\ x % (a * b) = (a * ((x \div a) % b)) + (x % a)
<1>1. PICK q \in Nat, r \in 0 .. a - 1 :
          q = x \div a /\ r = x % a /\ x = (a * q) + r
  <2>1. /\ x \div a \in Nat /\ x % a \in 0 .. a - 1
        /\ x = (a * (x \div a)) + (x % a)
    BY Remainder
  <2> QED
    BY <2>1
<1>2. PICK s \in Nat, t \in 0 .. b - 1 :
          s = q \div b /\ t = q % b /\ q = (b * s) + t
  BY Remainder
<1>3. PICK m \in Nat \ {0} : m = a * b
  OBVIOUS
<1>4. x = (m * s) + ((a * t) + r)
  <2>1. a * q = (a * (b * s)) + (a * t)
    BY <1>2
  <2>2. a * (b * s) = (a * b) * s
    BY <1>2
  <2> QED
    BY <1>1, <1>3, <2>1, <2>2
<1>5. (a * t) + r \in 0 .. m - 1
  <2>1. a * t <= a * (b - 1)
    <3>1. \A i, j, k \in Nat : i <= j => k * i <= k * j
      OBVIOUS
    <3>2. t <= b - 1 /\ b - 1 \in Nat /\ t \in Nat /\ a \in Nat
      OBVIOUS
    <3> QED
      BY <3>1, <3>2
  <2>2. a * (b - 1) = m - a
    BY <1>3
  <2>3. a * t \in Nat
    OBVIOUS
  <2> QED
    BY <2>1, <2>2, <2>3
<1>6. x \div m = s /\ x % m = (a * t) + r
  <2> HIDE <1>4
  <2>1. PICK u \in 0 .. m - 1 : u = (a * t) + r
    BY <1>5
  <2>2. x = (m * s) + u
    BY <1>4, <2>1
  <2> QED
    BY <2>1, <2>2, Quotient
<1> QED
  BY <1>1, <1>2, <1>3, <1>6

\* The middle digits of a number.
LEMMA DivideRemainder ==
    ASSUME NEW x \in Nat, NEW a \in Nat \ {0}, NEW b \in Nat \ {0}
    PROVE  /\ (x % (a * b)) \div a = (x \div a) % b
           /\ (x % (a * b)) % a = x % a
<1>1. PICK t \in 0 .. b - 1, r \in 0 .. a - 1 : t = (x \div a) % b /\ r = x % a
  <2>1. x \div a \in Nat /\ x % a \in 0 .. a - 1
    BY Remainder
  <2> QED
    BY <2>1, Remainder
<1>2. x % (a * b) = (a * t) + r
  BY <1>1, DivideTwice
<1>3. ((a * t) + r) \div a = t /\ ((a * t) + r) % a = r
  BY Quotient
<1> QED
  BY <1>1, <1>2, <1>3, Zenon

\* What is added in front of a number does not change its last digits.
LEMMA FrontDigits ==
    ASSUME NEW x \in Nat, NEW y \in Nat, NEW m \in Nat \ {0}
    PROVE  /\ (x + (m * y)) % m = x % m
           /\ (x + (m * y)) \div m = (x \div m) + y
<1>1. PICK q \in Nat, r \in 0 .. m - 1 :
          q = x \div m /\ r = x % m /\ x = (m * q) + r
  BY Remainder
<1>2. x + (m * y) = (m * (q + y)) + r
  BY <1>1
<1>3. q + y \in Nat
  OBVIOUS
<1>4. ((m * (q + y)) + r) \div m = q + y /\ ((m * (q + y)) + r) % m = r
  BY <1>3, Quotient
<1> QED
  BY <1>1, <1>2, <1>4, Zenon

\* A number is below m if and only if its quotient by m is zero.
LEMMA BelowDivisor ==
    ASSUME NEW m \in Nat \ {0}, NEW x \in 0 .. m - 1
    PROVE  x \div m = 0 /\ x % m = x
<1>1. x = (m * 0) + x
  OBVIOUS
<1> QED
  BY <1>1, Quotient

-----------------------------------------------------------------------------
\* Powers of a positive number grow with the exponent.
LEMMA PowerMonotone ==
    ASSUME NEW b \in Nat \ {0}, NEW j \in Nat, NEW k \in Nat, j <= k
    PROVE  Power(b, j) <= Power(b, k)
<1>1. k - j \in Nat /\ j + (k - j) = k
  OBVIOUS
<1>2. Power(b, k) = Power(b, j) * Power(b, k - j)
  <2>1. Power(b, j + (k - j)) = Power(b, j) * Power(b, k - j)
    BY <1>1, PowerSum
  <2> QED
    BY <1>1, <2>1
<1>3. Power(b, j) \in Nat \ {0} /\ Power(b, k - j) \in Nat \ {0}
  BY <1>1, PowerPositive
<1>4. \A x, y \in Nat \ {0} : x <= x * y
  OBVIOUS
<1> QED
  BY <1>2, <1>3, <1>4

\* Of the w digits of number x to base b, those in front of x are counted by
\* the powers that are greater than x.
LEMMA LeadingZeros ==
    ASSUME NEW b \in Nat \ {0}, NEW w \in Nat, NEW x \in 0 .. Power(b, w) - 1,
           NEW u, u = Cardinality({k \in 0 .. w - 1 : x < Power(b, k)})
    PROVE  /\ u \in 0 .. w
           /\ x < Power(b, w - u)
           /\ w # 0 /\ ~(x < Power(b, w - 1)) => u = 0
<1> DEFINE U == {k \in 0 .. w - 1 : x < Power(b, k)}
<1>1. \A k \in Nat : Power(b, k) \in Nat
  BY PowerPositive
<1>2. x \in Nat /\ x < Power(b, w)
  BY <1>1
<1>3. CASE U = {}
  <2>1. u = 0
    BY <1>3, FS_EmptySet
  <2> QED
    BY <1>2, <2>1
<1>4. CASE U # {}
  <2>1. PICK j \in U : \A k \in U : j <= k
    <3>1. U \subseteq Nat
      OBVIOUS
    <3> HIDE DEF U
    <3> QED
      BY <1>4, <3>1, LeastNumber
  <2>2. U = j .. w - 1
    <3>1. \A k \in j .. w - 1 : x < Power(b, k)
      <4> TAKE k \in j .. w - 1
      <4>1. j \in Nat /\ k \in Nat /\ j <= k
        OBVIOUS
      <4>2. Power(b, j) <= Power(b, k)
        BY <4>1, PowerMonotone
      <4> QED
        BY <1>1, <1>2, <4>1, <4>2
    <3> QED
      BY <2>1, <3>1
  <2>3. Cardinality(j .. w - 1) = w - j
    <3>1. j \in Int /\ w - 1 \in Int /\ ~(j > w - 1)
      OBVIOUS
    <3> QED
      BY <3>1, FS_Interval
  <2>4. u = w - j
    BY <2>2, <2>3
  <2>5. w - (w - j) = j /\ j <= w - 1 /\ w - 1 \in U
    BY <2>2
  <2> QED
    BY <2>4, <2>5
<1> QED
  BY <1>3, <1>4

\* The quotient of a number below a product.
LEMMA QuotientBelow ==
    ASSUME NEW a \in Nat \ {0}, NEW b \in Nat \ {0}, NEW x \in 0 .. (a * b) - 1
    PROVE  x \div a \in 0 .. b - 1
<1>1. x \in Nat
  OBVIOUS
<1>2. PICK q \in Nat, r \in 0 .. a - 1 : q = x \div a /\ x = (a * q) + r
  <2>1. /\ x \div a \in Nat /\ x % a \in 0 .. a - 1
        /\ x = (a * (x \div a)) + (x % a)
    BY <1>1, Remainder
  <2> QED
    BY <2>1
<1>3. \A i, j, k \in Nat : i <= j => k * i <= k * j
  OBVIOUS
<1>4. ~(b <= q)
  <2> SUFFICES ASSUME b <= q PROVE FALSE
    OBVIOUS
  <2>1. a * b <= a * q
    BY <1>3
  <2> QED
    BY <1>2, <2>1
<1> QED
  BY <1>2, <1>4

\* A number written in front of a smaller one is below the product.
LEMMA JoinedBelow ==
    ASSUME NEW a \in Nat \ {0}, NEW b \in Nat \ {0},
           NEW x \in 0 .. b - 1, NEW y \in 0 .. a - 1
    PROVE  (a * x) + y \in 0 .. (a * b) - 1
<1>1. \A i, j, k \in Nat : i <= j => k * i <= k * j
  OBVIOUS
<1>2. a * (x + 1) <= a * b
  BY <1>1
<1>3. a * (x + 1) = (a * x) + a /\ a * x \in Nat
  OBVIOUS
<1> QED
  BY <1>2, <1>3

\* Multiples are the numbers without remainder.
LEMMA MultipleOf ==
    ASSUME NEW x \in Nat, NEW d \in Nat \ {0}
    PROVE  /\ x % d = 0 => \E c \in Nat : x = d * c /\ x \div d = c
           /\ (\E c \in Nat : x = d * c) => x % d = 0
<1>1. /\ x % d \in 0 .. d - 1 /\ x \div d \in Nat
      /\ x = (d * (x \div d)) + (x % d)
  BY Remainder
<1>2. ASSUME x % d = 0
      PROVE  \E c \in Nat : x = d * c /\ x \div d = c
  <2>1. PICK c \in Nat : c = x \div d
    BY <1>1
  <2>2. x = d * c
    BY <1>1, <1>2, <2>1
  <2> QED
    BY <2>1, <2>2
<1>3. ASSUME NEW c \in Nat, x = d * c
      PROVE  x % d = 0
  <2>1. 0 \in 0 .. d - 1 /\ (d * c) + 0 = x
    BY <1>3
  <2>2. ((d * c) + 0) % d = 0
    BY <2>1, Quotient
  <2> QED
    BY <2>1, <2>2
<1> QED
  BY <1>2, <1>3

\* Modular powers are the remainders of powers.
LEMMA PowMIsPower ==
    ASSUME NEW b \in Nat, NEW m \in Nat \ {0}, NEW e \in Nat
    PROVE  PowM(b, e, m) = Power(b, e) % m
<1> DEFINE S == {k \in Nat : PowM(b, k, m) = Power(b, k) % m}
<1>1. /\ Power(b, 0) = 1 /\ PowM(b, 0, m) = 1 % m
      /\ \A k \in Nat : Power(b, k) \in Nat /\ Power(b, k + 1) = Power(b, k) * b
      /\ \A k \in Nat : PowM(b, k + 1, m) = (PowM(b, k, m) * b) % m
  BY PowerRecursion, PowMRecursion
<1>2. 0 \in S
  BY <1>1
<1>3. ASSUME NEW k \in Nat, k \in S PROVE k + 1 \in S
  <2>1. PowM(b, k, m) = Power(b, k) % m /\ Power(b, k) \in Nat
    BY <1>1, <1>3
  <2>2. ((Power(b, k) % m) * b) % m = (Power(b, k) * b) % m
    BY <2>1, ReduceFactor
  <2>3. PowM(b, k + 1, m) = Power(b, k + 1) % m
    BY <1>1, <2>1, <2>2
  <2> QED
    BY <2>3
<1> HIDE DEF S
<1>4. \A k \in Nat : k \in S
  BY <1>2, <1>3, NatSetInduction
<1> QED
  BY <1>4 DEF S

-----------------------------------------------------------------------------
(***************************************************************************)
(* Congruences.                                                            *)
(***************************************************************************)

Same(x, y, m) == x % m = y % m

\* x and y differ by a multiple of m.
Apart(x, y, i, j, m) == x + (m * i) = y + (m * j)

\* Numbers that differ by a multiple of m have the same remainder,
LEMMA SameIfApart ==
    ASSUME NEW x \in Nat, NEW y \in Nat, NEW i \in Nat, NEW j \in Nat,
           NEW m \in Nat \ {0}, Apart(x, y, i, j, m)
    PROVE  Same(x, y, m)
<1>1. (x + (m * i)) % m = x % m /\ (y + (m * j)) % m = y % m
  BY FrontDigits
<1> QED
  BY <1>1 DEF Same, Apart

\* and numbers with the same remainder differ by one.
LEMMA ApartIfSame ==
    ASSUME NEW x \in Nat, NEW y \in Nat, NEW m \in Nat \ {0}, Same(x, y, m)
    PROVE  \E i \in Nat, j \in Nat : Apart(x, y, i, j, m)
<1>1. PICK i \in Nat : i = y \div m /\ y = (m * i) + (y % m)
  BY Remainder
<1>2. PICK j \in Nat : j = x \div m /\ x = (m * j) + (x % m)
  BY Remainder
<1>3. PICK r \in Nat : r = x % m
  BY Remainder
<1>4. x = (m * j) + r /\ y = (m * i) + r
  BY <1>1, <1>2, <1>3 DEF Same
<1>5. m * i \in Nat /\ m * j \in Nat
  OBVIOUS
<1>6. x + (m * i) = y + (m * j)
  BY <1>4, <1>5
<1> QED
  BY <1>6 DEF Apart

\* To have the same remainder is reflexive,
LEMMA SameAsItself ==
    ASSUME NEW x, NEW m
    PROVE  Same(x, x, m)
  BY DEF Same

\* symmetric
LEMMA SameTurned ==
    ASSUME NEW x, NEW y, NEW m, Same(x, y, m)
    PROVE  Same(y, x, m)
  BY DEF Same

\* and transitive.
LEMMA SameThrough ==
    ASSUME NEW x, NEW y, NEW z, NEW m, Same(x, y, m), Same(y, z, m)
    PROVE  Same(x, z, m)
  BY DEF Same

\* A number and its remainder.
LEMMA SameAsRemainder ==
    ASSUME NEW x \in Nat, NEW m \in Nat \ {0}
    PROVE  /\ x % m \in Nat /\ x % m < m
           /\ Same(x % m, x, m)
<1>1. x % m \in 0 .. m - 1
  BY Remainder
<1>2. (x % m) % m = x % m
  BY <1>1, BelowDivisor
<1> QED
  BY <1>1, <1>2 DEF Same

\* A number below the modulus is the remainder.
LEMMA SameBelow ==
    ASSUME NEW x \in Nat, NEW y \in Nat, NEW m \in Nat \ {0}, Same(x, y, m), x < m
    PROVE  x = y % m
<1>1. x \in 0 .. m - 1
  OBVIOUS
<1>2. x % m = x
  BY <1>1, BelowDivisor
<1> QED
  BY <1>2 DEF Same

\* Products of numbers with the same remainders have the same remainder,
LEMMA SameProduct ==
    ASSUME NEW x \in Nat, NEW y \in Nat, NEW u \in Nat, NEW v \in Nat,
           NEW m \in Nat \ {0}, Same(x, u, m), Same(y, v, m)
    PROVE  Same(x * y, u * v, m)
<1>1. x % m \in Nat /\ u % m \in Nat /\ y % m \in Nat /\ v % m \in Nat
  BY Remainder
<1>2. ((x % m) * y) % m = (x * y) % m /\ ((u % m) * y) % m = (u * y) % m
  BY ReduceFactor
<1>3. ((y % m) * u) % m = (y * u) % m /\ ((v % m) * u) % m = (v * u) % m
  BY ReduceFactor
<1>4. u * y = y * u /\ u * v = v * u
  OBVIOUS
<1> QED
  BY <1>2, <1>3, <1>4 DEF Same

\* and so have sums.
LEMMA SameSum ==
    ASSUME NEW x \in Nat, NEW y \in Nat, NEW u \in Nat, NEW v \in Nat,
           NEW m \in Nat \ {0}, Same(x, u, m), Same(y, v, m)
    PROVE  Same(x + y, u + v, m)
<1>1. PICK i \in Nat, j \in Nat : Apart(x, u, i, j, m)
  BY ApartIfSame
<1>2. PICK k \in Nat, l \in Nat : Apart(y, v, k, l, m)
  BY ApartIfSame
<1>3. m * (i + k) = (m * i) + (m * k) /\ m * (j + l) = (m * j) + (m * l)
  OBVIOUS
<1>4. m * i \in Nat /\ m * j \in Nat /\ m * k \in Nat /\ m * l \in Nat
  OBVIOUS
<1>5. Apart(x + y, u + v, i + k, j + l, m)
  BY <1>1, <1>2, <1>3, <1>4 DEF Apart
<1> QED
  BY <1>5, SameIfApart

\* The same remainder modulo a product is the same modulo a factor.
LEMMA SameForFactor ==
    ASSUME NEW x \in Nat, NEW y \in Nat, NEW m \in Nat \ {0}, NEW k \in Nat \ {0},
           Same(x, y, m * k)
    PROVE  Same(x, y, m)
<1>1. (x % (m * k)) % m = x % m
  BY DivideRemainder
<1>2. (y % (m * k)) % m = y % m
  BY DivideRemainder
<1> QED
  BY <1>1, <1>2 DEF Same

\* A factor of two can be cancelled modulo an odd number.
LEMMA CancelTwo ==
    ASSUME NEW x \in Nat, NEW y \in Nat, NEW m \in Nat, m % 2 = 1,
           Same(2 * x, 2 * y, m)
    PROVE  Same(x, y, m)
<1>1. m \in Nat \ {0}
  OBVIOUS
<1>2. PICK h \in Nat : m = (2 * h) + 1
  OBVIOUS
<1>3. PICK u \in Nat, v \in Nat : u = 2 * x /\ v = 2 * y
  OBVIOUS
<1>4. PICK i \in Nat, j \in Nat : u + (m * i) = v + (m * j)
  <2>1. Same(u, v, m)
    BY <1>3
  <2>2. PICK i \in Nat, j \in Nat : Apart(u, v, i, j, m)
    BY <1>1, <2>1, ApartIfSame
  <2> QED
    BY <2>2 DEF Apart
<1>5. /\ m * i = (2 * (h * i)) + i /\ m * j = (2 * (h * j)) + j
      /\ h * i \in Nat /\ h * j \in Nat
  BY <1>2
<1>6. i % 2 = j % 2
  <2>1. PICK g \in Nat, f \in Nat : g = h * i /\ f = h * j
    BY <1>5
  <2>2. (2 * x) + ((2 * g) + i) = (2 * y) + ((2 * f) + j)
    BY <1>3, <1>4, <1>5, <2>1
  <2> QED
    BY <2>2
<1>7. ASSUME i >= j PROVE \E k \in Nat : Apart(x, y, k, 0, m)
  <2>1. (i - j) % 2 = 0 /\ i - j \in Nat
    BY <1>6, <1>7
  <2>2. PICK k \in Nat : i = j + (2 * k)
    <3>1. (i - j) \div 2 \in Nat /\ i = j + (2 * ((i - j) \div 2))
      BY <2>1
    <3> QED
      BY <3>1
  <2>3. m * i = (m * j) + (2 * (m * k)) /\ m * j \in Nat /\ m * k \in Nat
    BY <2>2
  <2>4. PICK g \in Nat, f \in Nat : g = m * k /\ f = m * j
    BY <2>3
  <2>5. (2 * x) + (f + (2 * g)) = (2 * y) + f
    BY <1>3, <1>4, <2>3, <2>4
  <2>6. x + (m * k) = y + (m * 0)
    BY <2>4, <2>5
  <2> QED
    BY <2>6 DEF Apart
<1>8. ASSUME j >= i PROVE \E k \in Nat : Apart(x, y, 0, k, m)
  <2>1. (j - i) % 2 = 0 /\ j - i \in Nat
    BY <1>6, <1>8
  <2>2. PICK k \in Nat : j = i + (2 * k)
    <3>1. (j - i) \div 2 \in Nat /\ j = i + (2 * ((j - i) \div 2))
      BY <2>1
    <3> QED
      BY <3>1
  <2>3. m * j = (m * i) + (2 * (m * k)) /\ m * i \in Nat /\ m * k \in Nat
    BY <2>2
  <2>4. PICK g \in Nat, f \in Nat : g = m * k /\ f = m * i
    BY <2>3
  <2>5. (2 * x) + f = (2 * y) + (f + (2 * g))
    BY <1>3, <1>4, <2>3, <2>4
  <2>6. x + (m * 0) = y + (m * k)
    BY <2>4, <2>5
  <2> QED
    BY <2>6 DEF Apart
<1> QED
  BY <1>1, <1>7, <1>8, SameIfApart

\* A power of two can be cancelled modulo an odd number.
LEMMA CancelPowerOfTwo ==
    ASSUME NEW m \in Nat, m % 2 = 1, NEW k \in Nat, NEW x \in Nat, NEW y \in Nat,
           Same(Power(2, k) * x, Power(2, k) * y, m)
    PROVE  Same(x, y, m)
<1> DEFINE S == {j \in Nat : \A u, v \in Nat :
                    Same(Power(2, j) * u, Power(2, j) * v, m) => Same(u, v, m)}
<1>1. /\ Power(2, 0) = 1
      /\ \A j \in Nat : Power(2, j) \in Nat /\ Power(2, j + 1) = Power(2, j) * 2
  BY PowerRecursion
<1>2. 0 \in S
  BY <1>1
<1>3. ASSUME NEW j \in Nat, j \in S PROVE j + 1 \in S
  <2>1. ASSUME NEW u \in Nat, NEW v \in Nat,
               Same(Power(2, j + 1) * u, Power(2, j + 1) * v, m)
        PROVE  Same(u, v, m)
    <3>1. PICK w \in Nat : w = Power(2, j)
      BY <1>1
    <3>2. (w * 2) * u = w * (2 * u) /\ (w * 2) * v = w * (2 * v)
      OBVIOUS
    <3>3. Same(w * (2 * u), w * (2 * v), m)
      BY <1>1, <2>1, <3>1, <3>2
    <3>4. Same(2 * u, 2 * v, m)
      BY <1>3, <3>1, <3>3
    <3> QED
      BY <3>4, CancelTwo
  <2> QED
    BY <2>1
<1> HIDE DEF S
<1>4. \A j \in Nat : j \in S
  BY <1>2, <1>3, NatSetInduction
<1> QED
  BY <1>4 DEF S


\* An odd number has an inverse modulo a power of two.
LEMMA OddInverse ==
    ASSUME NEW m \in Nat, m % 2 = 1, NEW k \in Nat
    PROVE  \E i \in 0 .. Power(2, k) - 1 : Same(i * m, 1, Power(2, k))
<1> DEFINE S == {j \in Nat : \E i \in 0 .. Power(2, j) - 1 : Same(i * m, 1, Power(2, j))}
<1>1. /\ Power(2, 0) = 1
      /\ \A j \in Nat : Power(2, j) \in Nat /\ Power(2, j + 1) = Power(2, j) * 2
  BY PowerRecursion
<1>2. 0 \in S
  <2>1. Same(0 * m, 1, 1)
    BY DEF Same
  <2> QED
    BY <1>1, <2>1
<1>3. ASSUME NEW j \in Nat, j \in S PROVE j + 1 \in S
  <2>1. PICK w \in Nat \ {0} : w = Power(2, j)
    BY PowerPositive
  <2>2. PICK i \in 0 .. w - 1 : Same(i * m, 1, w)
    BY <1>3, <2>1
  <2>3. PICK x \in Nat : x = i * m
    OBVIOUS
  <2>4. PICK c \in Nat, d \in Nat : x + (w * c) = 1 + (w * d)
    <3>1. Same(x, 1, w)
      BY <2>2, <2>3
    <3>2. PICK c \in Nat, d \in Nat : Apart(x, 1, c, d, w)
      BY <3>1, ApartIfSame
    <3> QED
      BY <3>2 DEF Apart
  <2>5. PICK h \in Nat : m = (2 * h) + 1
    OBVIOUS
  <2>6. w * 2 \in Nat \ {0} /\ Power(2, j + 1) = w * 2
    BY <1>1, <2>1
  <2>7. CASE c % 2 = d % 2
    <3>1. PICK g \in Nat, f \in Nat : c + (2 * g) = d + (2 * f)
      <4>1. c + (2 * (d \div 2)) = d + (2 * (c \div 2))
        BY <2>7
      <4>2. d \div 2 \in Nat /\ c \div 2 \in Nat
        OBVIOUS
      <4> QED
        BY <4>1, <4>2
    <3>2. (w * c) + ((w * 2) * g) = (w * d) + ((w * 2) * f)
      <4>1. w * (c + (2 * g)) = w * (d + (2 * f))
        BY <3>1
      <4> QED
        BY <4>1
    <3>3. x + ((w * 2) * f) = 1 + ((w * 2) * g)
      <4>1. PICK p \in Nat, q \in Nat, r \in Nat, s \in Nat :
                p = w * c /\ q = w * d /\ r = (w * 2) * g /\ s = (w * 2) * f
        OBVIOUS
      <4>2. x + p = 1 + q /\ p + r = q + s
        BY <2>4, <3>2, <4>1
      <4> QED
        BY <4>1, <4>2
    <3>4. Apart(x, 1, f, g, w * 2)
      BY <3>3 DEF Apart
    <3>5. Same(x, 1, w * 2)
      BY <2>6, <3>4, SameIfApart
    <3>6. i \in 0 .. (w * 2) - 1
      OBVIOUS
    <3> QED
      BY <2>3, <2>6, <3>5, <3>6
  <2>8. CASE c % 2 # d % 2
    <3>1. PICK g \in Nat, f \in Nat : c + (2 * g) = (d + 1) + (2 * f)
      <4>1. c + (2 * ((d + 1) \div 2)) = (d + 1) + (2 * (c \div 2))
        BY <2>8
      <4>2. (d + 1) \div 2 \in Nat /\ c \div 2 \in Nat
        OBVIOUS
      <4> QED
        BY <4>1, <4>2
    <3>2. PICK y \in Nat : y = (i + w) * m
      OBVIOUS
    <3>3. y = (x + w) + ((w * 2) * h)
      <4>1. (i + w) * m = (i * m) + (w * m)
        OBVIOUS
      <4>2. w * m = ((w * 2) * h) + w
        BY <2>5
      <4> QED
        BY <2>3, <3>2, <4>1, <4>2
    <3>4. (w * c) + ((w * 2) * g) = ((w * d) + w) + ((w * 2) * f)
      <4>1. w * (c + (2 * g)) = w * ((d + 1) + (2 * f))
        BY <3>1
      <4> QED
        BY <4>1
    <3>5. y + ((w * 2) * f) = 1 + ((w * 2) * (g + h))
      <4>1. PICK p \in Nat, q \in Nat, r \in Nat, s \in Nat, t \in Nat :
                /\ p = w * c /\ q = w * d /\ r = (w * 2) * g /\ s = (w * 2) * f
                /\ t = (w * 2) * h
        OBVIOUS
      <4>2. x + p = 1 + q /\ p + r = (q + w) + s /\ y = (x + w) + t
        BY <2>4, <3>3, <3>4, <4>1
      <4>3. (w * 2) * (g + h) = r + t
        BY <4>1
      <4> QED
        BY <4>1, <4>2, <4>3
    <3>6. Apart(y, 1, f, g + h, w * 2)
      BY <3>5 DEF Apart
    <3>7. Same(y, 1, w * 2)
      BY <2>6, <3>6, SameIfApart
    <3>8. i + w \in 0 .. (w * 2) - 1
      OBVIOUS
    <3>9. Same((i + w) * m, 1, Power(2, j + 1)) /\ i + w \in 0 .. Power(2, j + 1) - 1
      BY <2>6, <3>2, <3>7, <3>8
    <3> QED
      BY <3>9
  <2> QED
    BY <2>7, <2>8
<1> HIDE DEF S
<1>4. \A j \in Nat : j \in S
  BY <1>2, <1>3, NatSetInduction
<1> QED
  BY <1>4 DEF S


\* Numbers that are the same modulo an odd number and modulo a power of two are
\* the same modulo the product.
LEMMA SameForBoth ==
    ASSUME NEW m \in Nat, m % 2 = 1, NEW k \in Nat, NEW x \in Nat, NEW y \in Nat,
           Same(x, y, m), Same(x, y, Power(2, k))
    PROVE  Same(x, y, m * Power(2, k))
<1>1. PICK w \in Nat \ {0} : w = Power(2, k)
  BY PowerPositive
<1>2. m \in Nat \ {0}
  OBVIOUS
<1>3. ASSUME NEW u \in Nat, NEW v \in Nat, u >= v, Same(u, v, m), Same(u, v, w)
      PROVE  \E c \in Nat : u = v + ((m * w) * c)
  <2>1. PICK h \in Nat : u = v + (w * h)
    <3>1. PICK i \in Nat, j \in Nat : u + (w * i) = v + (w * j)
      <4>1. PICK i \in Nat, j \in Nat : Apart(u, v, i, j, w)
        BY <1>3, ApartIfSame
      <4> QED
        BY <4>1 DEF Apart
    <3>2. j >= i
      <4> SUFFICES ASSUME j < i PROVE FALSE
        OBVIOUS
      <4>1. w * j < w * i
        <5>1. \A p, q \in Nat, r \in Nat \ {0} : p < q => r * p < r * q
          OBVIOUS
        <5> QED
          BY <5>1
      <4> QED
        BY <1>3, <3>1, <4>1
    <3>3. j - i \in Nat /\ w * (j - i) = (w * j) - (w * i)
      BY <3>2
    <3>4. u = v + (w * (j - i))
      BY <3>1, <3>3
    <3> QED
      BY <3>3, <3>4
  <2>2. Same(w * h, w * 0, m)
    <3>1. PICK i \in Nat, j \in Nat : u + (m * i) = v + (m * j)
      <4>1. PICK i \in Nat, j \in Nat : Apart(u, v, i, j, m)
        BY <1>2, <1>3, ApartIfSame
      <4> QED
        BY <4>1 DEF Apart
    <3>2. PICK g \in Nat, p \in Nat, q \in Nat : g = w * h /\ p = m * i /\ q = m * j
      OBVIOUS
    <3>3. g + p = 0 + q
      BY <2>1, <3>1, <3>2
    <3>4. Apart(g, 0, i, j, m)
      BY <3>2, <3>3 DEF Apart
    <3>5. Same(g, 0, m)
      BY <1>2, <3>4, SameIfApart
    <3> QED
      BY <3>2, <3>5
  <2>3. Same(h, 0, m)
    BY <1>1, <2>2, CancelPowerOfTwo
  <2>4. h % m = 0
    BY <1>2, <2>3 DEF Same
  <2>5. PICK c \in Nat : h = m * c
    BY <1>2, <2>4, MultipleOf
  <2>6. w * h = (m * w) * c
    BY <2>5
  <2> QED
    BY <2>1, <2>6
<1>4. m * w \in Nat \ {0}
  BY <1>2
<1>5. ASSUME NEW u \in Nat, NEW v \in Nat, u >= v, Same(u, v, m), Same(u, v, w)
      PROVE  Same(u, v, m * w)
  <2>1. PICK c \in Nat : u = v + ((m * w) * c)
    BY <1>3, <1>5
  <2>2. Apart(u, v, 0, c, m * w)
    BY <2>1 DEF Apart
  <2> QED
    BY <1>4, <2>2, SameIfApart
<1>6. CASE x >= y
  BY <1>1, <1>5, <1>6
<1>7. CASE y >= x
  BY <1>1, <1>5, <1>7, SameTurned
<1> QED
  BY <1>6, <1>7

(***************************************************************************)
(* The length of a number in bits, and the zero bits at its end.           *)
(***************************************************************************)

\* Powers of two outgrow their exponents.
LEMMA PowerOfTwoAbove ==
    ASSUME NEW k \in Nat
    PROVE  k < Power(2, k)
<1> DEFINE S == {j \in Nat : j < Power(2, j)}
<1>1. /\ Power(2, 0) = 1
      /\ \A j \in Nat : Power(2, j) \in Nat /\ Power(2, j + 1) = Power(2, j) * 2
  BY PowerRecursion
<1>2. 0 \in S
  BY <1>1
<1>3. ASSUME NEW j \in Nat, j \in S PROVE j + 1 \in S
  BY <1>1, <1>3
<1> HIDE DEF S
<1>4. \A j \in Nat : j \in S
  BY <1>2, <1>3, NatSetInduction
<1> QED
  BY <1>4 DEF S

\* Every number has a length in bits.
LEMMA LengthExists ==
    ASSUME NEW x \in Nat
    PROVE  \E k \in 0 .. x : x < Power(2, k) /\ (k = 0 \/ x >= Power(2, k - 1))
<1> DEFINE T == {j \in Nat : x < Power(2, j)}
<1>1. x \in T
  BY PowerOfTwoAbove
<1>2. PICK k \in T : \A j \in T : k <= j
  <2>1. T \subseteq Nat /\ T # {}
    BY <1>1
  <2> QED
    BY <2>1, LeastNumber
<1>3. k \in 0 .. x
  BY <1>1, <1>2
<1>4. ASSUME k # 0 PROVE x >= Power(2, k - 1)
  <2>1. k - 1 \in Nat /\ k - 1 \notin T
    BY <1>2, <1>3, <1>4
  <2>2. Power(2, k - 1) \in Nat
    BY <2>1, PowerRecursion
  <2> QED
    BY <2>1, <2>2
<1> QED
  BY <1>2, <1>3, <1>4

\* Every number but 0 has a number of zero bits at its end.
LEMMA ZerosExist ==
    ASSUME NEW x \in Nat \ {0}
    PROVE  \E k \in 0 .. x : x % Power(2, k) = 0 /\ x % Power(2, k + 1) # 0
<1> DEFINE T == {j \in Nat : x % Power(2, j + 1) # 0}
<1>1. x \in T
  <2>1. x + 1 < Power(2, x + 1) /\ Power(2, x + 1) \in Nat \ {0}
    BY PowerOfTwoAbove, PowerPositive
  <2>2. PICK w \in Nat \ {0} : w = Power(2, x + 1)
    BY <2>1
  <2>3. x \in 0 .. w - 1
    BY <2>1, <2>2
  <2>4. x % w = x
    BY <2>3, BelowDivisor
  <2> QED
    BY <2>2, <2>4
<1>2. PICK k \in T : \A j \in T : k <= j
  <2>1. T \subseteq Nat /\ T # {}
    BY <1>1
  <2> QED
    BY <2>1, LeastNumber
<1>3. k \in 0 .. x
  BY <1>1, <1>2
<1>4. x % Power(2, k) = 0
  <2>1. CASE k = 0
    BY <2>1, PowerRecursion
  <2>2. CASE k # 0
    <3>1. k - 1 \in Nat /\ k - 1 \notin T /\ (k - 1) + 1 = k
      BY <1>2, <1>3, <2>2
    <3> QED
      BY <3>1
  <2> QED
    BY <2>1, <2>2
<1> QED
  BY <1>2, <1>3, <1>4

\* Without the zeros at its end, a number is odd.
LEMMA OddPart ==
    ASSUME NEW x \in Nat \ {0}, NEW k \in Nat,
           x % Power(2, k) = 0, x % Power(2, k + 1) # 0
    PROVE  /\ x \div Power(2, k) \in Nat
           /\ (x \div Power(2, k)) % 2 = 1
           /\ x = Power(2, k) * (x \div Power(2, k))
<1>1. PICK w \in Nat \ {0} : w = Power(2, k)
  BY PowerPositive
<1>2. Power(2, k + 1) = w * 2
  BY <1>1, PowerRecursion
<1>3. PICK q \in Nat : q = x \div w /\ x = (w * q) + (x % w)
  BY Remainder
<1>4. x = w * q
  BY <1>1, <1>3
<1>5. q % 2 = 1
  <2> SUFFICES ASSUME q % 2 # 1 PROVE FALSE
    OBVIOUS
  <2>1. PICK h \in Nat : q = 2 * h
    <3>1. q \div 2 \in Nat /\ q = 2 * (q \div 2)
      OBVIOUS
    <3> QED
      BY <3>1
  <2>2. x = (w * 2) * h
    BY <1>4, <2>1
  <2>3. w * 2 \in Nat \ {0}
    OBVIOUS
  <2>4. x % (w * 2) = 0
    BY <2>2, <2>3, MultipleOf
  <2> QED
    BY <1>2, <2>4
<1> QED
  BY <1>1, <1>3, <1>4, <1>5

-----------------------------------------------------------------------------
(***************************************************************************)
(* Montgomery's reduction.  One turn of it adds the multiple of m that     *)
(* clears the lowest limb, of base L, and shifts; v is -1 / m modulo L.    *)
(***************************************************************************)
NegInverseOf(v, m, L) == Same(v * m, L - 1, L)
Turned(x, y, d, m, L) == L * y = x + (d * m)
RedcTurn(x, v, m, L) == (x + (((x % L) * v) % L) * m) \div L

\* One turn of MPN_REDC_1 adds a multiple of m and divides by L without remainder.
LEMMA RedcTurnIs ==
    ASSUME NEW L \in Nat \ {0}, NEW m \in Nat, NEW v \in Nat,
           NegInverseOf(v, m, L), NEW x \in Nat
    PROVE  /\ RedcTurn(x, v, m, L) \in Nat
           /\ \E d \in 0 .. L - 1 : Turned(x, RedcTurn(x, v, m, L), d, m, L)
<1>1. PICK y \in Nat : y = x % L /\ Same(y, x, L)
  BY SameAsRemainder
<1>2. PICK d \in 0 .. L - 1 : d = (y * v) % L /\ Same(d, y * v, L)
  <2>1. PICK z \in Nat : z = y * v
    OBVIOUS
  <2>2. Same(z % L, z, L)
    BY SameAsRemainder
  <2>3. z % L \in 0 .. L - 1
    BY Remainder
  <2> QED
    BY <2>1, <2>2, <2>3
<1>3. Same(d, x * v, L)
  <2>1. Same(y * v, x * v, L)
    BY <1>1, SameProduct, SameAsItself
  <2> QED
    BY <1>2, <2>1, SameThrough
<1>4. Same(d * m, x * (L - 1), L)
  <2>1. PICK f \in Nat, g \in Nat, h \in Nat : f = x * v /\ g = v * m /\ h = L - 1
    OBVIOUS
  <2>2. Same(d * m, f * m, L)
    <3>1. Same(d, f, L) /\ Same(m, m, L) /\ d \in Nat
      BY <1>3, <2>1, SameAsItself
    <3> QED
      BY <3>1, SameProduct
  <2>3. f * m = x * g
    BY <2>1
  <2>4. Same(x * g, x * h, L)
    BY <2>1, SameProduct, SameAsItself DEF NegInverseOf
  <2> QED
    BY <2>1, <2>2, <2>3, <2>4, SameThrough
<1>5. PICK z \in Nat : z = x + (d * m)
  OBVIOUS
<1>6. Same(z, 0, L)
  <2>1. PICK p \in Nat, q \in Nat : p = d * m /\ q = x * (L - 1)
    OBVIOUS
  <2>2. Same(x + p, x + q, L)
    BY <1>4, <2>1, SameSum, SameAsItself
  <2>3. x + q = 0 + (L * x)
    BY <2>1
  <2>4. Apart(x + q, 0, 0, x, L)
    BY <2>3 DEF Apart
  <2>5. Same(x + q, 0, L)
    BY <2>1, <2>4, SameIfApart
  <2> QED
    BY <1>5, <2>1, <2>2, <2>5, SameThrough
<1>7. z % L = 0
  <2>1. 0 % L = 0
    BY BelowDivisor
  <2> QED
    BY <1>6, <2>1 DEF Same
<1>8. PICK c \in Nat : z = L * c /\ z \div L = c
  BY <1>7, MultipleOf
<1>9. RedcTurn(x, v, m, L) = c
  BY <1>1, <1>2, <1>5, <1>8 DEF RedcTurn
<1>10. Turned(x, c, d, m, L)
  BY <1>5, <1>8 DEF Turned
<1> QED
  BY <1>9, <1>10

\* The numbers that k turns of the reduction go through.
RedcRun(f, u, k, v, m, L) ==
    f = [j \in 0 .. k |-> IF j = 0 THEN u ELSE RedcTurn(f[j - 1], v, m, L)]

\* The turns one after the other.
LEMMA RedcRunExists ==
    ASSUME NEW L \in Nat \ {0}, NEW m \in Nat, NEW v \in Nat,
           NegInverseOf(v, m, L), NEW u \in Nat, NEW k \in Nat
    PROVE  \E f \in [0 .. k -> Nat] : RedcRun(f, u, k, v, m, L)
<1> DEFINE step == [p \in (1 .. k) \X Nat |-> RedcTurn(p[2], v, m, L)]
<1>1. step \in [(1 .. k) \X Nat -> Nat]
  <2>1. \A x \in Nat : RedcTurn(x, v, m, L) \in Nat
    BY RedcTurnIs
  <2> QED
    BY <2>1
<1>2. PICK f \in [0 .. k -> Nat] : Loop(f, k, u, step)
  <2> HIDE DEF step
  <2> QED
    BY <1>1, LoopExists
<1>3. \A j \in 0 .. k : j # 0 => step[<<j, f[j - 1]>>] = RedcTurn(f[j - 1], v, m, L)
  OBVIOUS
<1> HIDE DEF step
<1> QED
  BY <1>2, <1>3 DEF RedcRun, Loop

\* The number is divided by the power of L, after a multiple of m was added.
LEMMA RedcRunIs ==
    ASSUME NEW L \in Nat \ {0}, NEW m \in Nat, NEW v \in Nat,
           NegInverseOf(v, m, L), NEW u \in Nat, NEW k \in Nat,
           NEW f, RedcRun(f, u, k, v, m, L)
    PROVE  /\ f[k] \in Nat
           /\ \E q \in 0 .. Power(L, k) - 1 : Power(L, k) * f[k] = u + (q * m)
<1> DEFINE Q(j) == /\ f[j] \in Nat
                   /\ \E q \in 0 .. Power(L, j) - 1 : Power(L, j) * f[j] = u + (q * m)
           S == {j \in 0 .. k : Q(j)}
<1>1. /\ Power(L, 0) = 1
      /\ \A j \in Nat : Power(L, j) \in Nat \ {0} /\ Power(L, j + 1) = Power(L, j) * L
  BY PowerRecursion, PowerPositive
<1>2. 0 \in S
  <2>1. f[0] = u
    <3>1. 0 \in 0 .. k
      OBVIOUS
    <3> QED
      BY <3>1, Zenon DEF RedcRun
  <2> QED
    BY <1>1, <2>1
<1>5. \A x \in Nat : \E d \in 0 .. L - 1 : Turned(x, RedcTurn(x, v, m, L), d, m, L)
  BY RedcTurnIs
<1>3. ASSUME NEW j \in 0 .. k - 1, j \in S PROVE j + 1 \in S
  <2>1. j + 1 \in 0 .. k /\ j + 1 # 0 /\ (j + 1) - 1 = j
    OBVIOUS
  <2>2. f[j + 1] = RedcTurn(f[j], v, m, L)
    BY <2>1, Zenon DEF RedcRun
  <2>3. PICK x \in Nat, w \in Nat \ {0} : x = f[j] /\ w = Power(L, j)
    <3>1. f[j] \in Nat /\ Power(L, j) \in Nat \ {0}
      BY <1>1, <1>3
    <3> QED
      BY <3>1
  <2>10. PICK q \in 0 .. w - 1 : w * x = u + (q * m)
    BY <1>3, <2>3
  <2>4. PICK y \in Nat : y = f[j + 1]
    BY <2>2, <2>3, RedcTurnIs
  <2>5. PICK d \in 0 .. L - 1 : L * y = x + (d * m)
    <3>1. PICK d \in 0 .. L - 1 : Turned(x, RedcTurn(x, v, m, L), d, m, L)
      BY <1>5
    <3> QED
      BY <2>2, <2>3, <2>4, <3>1 DEF Turned
  <2>6. (w * L) * y = u + ((q + (w * d)) * m)
    <3>1. (w * L) * y = w * (L * y)
      OBVIOUS
    <3>2. w * (x + (d * m)) = (w * x) + ((w * d) * m)
      OBVIOUS
    <3>3. (q + (w * d)) * m = (q * m) + ((w * d) * m)
      OBVIOUS
    <3> QED
      BY <2>10, <2>5, <3>1, <3>2, <3>3
  <2>7. (w * d) + q \in 0 .. (w * L) - 1
    BY JoinedBelow
  <2>8. Power(L, j + 1) = w * L
    BY <1>1, <2>3
  <2>9. Q(j + 1)
    <3>1. PICK g \in 0 .. Power(L, j + 1) - 1 : g = q + (w * d)
      BY <2>7, <2>8
    <3>2. Power(L, j + 1) * f[j + 1] = u + (g * m)
      BY <2>4, <2>6, <2>8, <3>1
    <3> QED
      BY <2>4, <3>2
  <2> QED
    BY <2>1, <2>9
<1> HIDE DEF S
<1>4. \A j \in 0 .. k : j \in S
  BY <1>2, <1>3, UpToInduction
<1> QED
  BY <1>4 DEF S

(***************************************************************************)
(* What comes out of it, for x with R * x = u + q * m and q < R, after m   *)
(* was subtracted if there was a carry.                                    *)
(***************************************************************************)
CarryTaken(x, m, R) == IF x >= R THEN x - m ELSE x
Less(x, m) == IF x >= m THEN x - m ELSE x

\* The carry at the end of MPN_REDC_1 subtracts m; the remainder stays.
LEMMA CarriedIs ==
    ASSUME NEW R \in Nat \ {0}, NEW m \in Nat \ {0}, m < R, NEW x \in Nat,
           NEW u \in Nat, NEW q \in 0 .. R - 1, R * x = u + (q * m)
    PROVE  /\ CarryTaken(x, m, R) \in Nat
           /\ Same(R * CarryTaken(x, m, R), u, m)
<1>1. CASE x >= R
  <2>1. PICK y \in Nat : y = x - m /\ y = CarryTaken(x, m, R)
    BY <1>1 DEF CarryTaken
  <2>2. (R * y) + (m * R) = u + (m * q)
    <3>1. R * y = (R * x) - (R * m)
      BY <2>1
    <3> QED
      BY <3>1
  <2>3. R * y \in Nat /\ Apart(R * y, u, R, q, m)
    BY <2>2 DEF Apart
  <2>4. Same(R * y, u, m)
    BY <2>3, SameIfApart
  <2> QED
    BY <2>1, <2>4
<1>2. CASE ~(x >= R)
  <2>1. CarryTaken(x, m, R) = x
    BY <1>2 DEF CarryTaken
  <2>2. R * x \in Nat /\ Apart(R * x, u, 0, q, m)
    BY DEF Apart
  <2> QED
    BY <2>1, <2>2, SameIfApart
<1> QED
  BY <1>1, <1>2

\* The product of two numbers of n limbs is reduced to n limbs.
LEMMA CarriedFits ==
    ASSUME NEW R \in Nat \ {0}, NEW m \in Nat \ {0}, m < R, NEW x \in Nat,
           NEW u \in Nat, NEW q \in 0 .. R - 1, R * x = u + (q * m), u < R * R
    PROVE  CarryTaken(x, m, R) < R
<1>1. x < R + m
  <2> SUFFICES ASSUME x >= R + m PROVE FALSE
    OBVIOUS
  <2>1. R * x >= R * (R + m)
    OBVIOUS
  <2>2. q * m <= R * m
    OBVIOUS
  <2>3. R * (R + m) = (R * R) + (R * m)
    OBVIOUS
  <2>4. PICK f \in Nat, g \in Nat, h \in Nat, i \in Nat :
            f = R * x /\ g = R * R /\ h = R * m /\ i = q * m
    OBVIOUS
  <2>5. f >= g + h /\ i <= h /\ f = u + i /\ u < g
    BY <2>1, <2>2, <2>3, <2>4
  <2> QED
    BY <2>5
<1> QED
  BY <1>1 DEF CarryTaken

\* A number of n limbs is reduced to at most m.
LEMMA CarriedIsRemainder ==
    ASSUME NEW R \in Nat \ {0}, NEW m \in Nat \ {0}, m < R, NEW x \in Nat,
           NEW u \in Nat, NEW q \in 0 .. R - 1, R * x = u + (q * m), u < R
    PROVE  Less(CarryTaken(x, m, R), m) < m
<1>1. x <= m
  <2> SUFFICES ASSUME x >= m + 1 PROVE FALSE
    OBVIOUS
  <2>1. R * x >= R * (m + 1)
    OBVIOUS
  <2>2. q * m <= R * m
    OBVIOUS
  <2>3. R * (m + 1) = (R * m) + R
    OBVIOUS
  <2>4. PICK f \in Nat, h \in Nat, i \in Nat : f = R * x /\ h = R * m /\ i = q * m
    OBVIOUS
  <2>5. f >= h + R /\ i <= h /\ f = u + i
    BY <2>1, <2>2, <2>3, <2>4
  <2> QED
    BY <2>5
<1> QED
  BY <1>1 DEF CarryTaken, Less

(***************************************************************************)
(* The square of a number below the power of two above m is reduced to     *)
(* less than m, if m is subtracted once more.                              *)
(***************************************************************************)
LEMMA CarriedSquare ==
    ASSUME NEW R \in Nat \ {0}, NEW m \in Nat \ {0}, m < R, NEW x \in Nat,
           NEW u \in Nat, NEW q \in 0 .. R - 1, R * x = u + (q * m),
           NEW y \in Nat \ {0}, NEW c \in Nat \ {0}, R = y * c,
           m < y, y <= 2 * m, u < y * y
    PROVE  Less(CarryTaken(x, m, R), m) < m
<1>1. CASE c = 1
  <2>1. R = y /\ u < R * R
    BY <1>1
  <2>2. CarryTaken(x, m, R) \in Nat /\ CarryTaken(x, m, R) < R
    BY <2>1, CarriedFits, CarriedIs
  <2> QED
    BY <2>1, <2>2 DEF Less
<1>2. CASE c # 1
  <2>1. y * y <= R * m
    <3>1. y * y <= y * (2 * m)
      OBVIOUS
    <3>2. y * (2 * m) <= y * (c * m)
      <4>1. 2 * m <= c * m
        <5>1. c >= 2
          BY <1>2
        <5> QED
          BY <5>1
      <4> QED
        BY <4>1
    <3>3. y * (c * m) = R * m
      OBVIOUS
    <3> QED
      BY <3>1, <3>2, <3>3
  <2>2. x < 2 * m
    <3> SUFFICES ASSUME x >= 2 * m PROVE FALSE
      OBVIOUS
    <3>1. R * x >= R * (2 * m)
      OBVIOUS
    <3>2. q * m <= R * m
      OBVIOUS
    <3>3. R * (2 * m) = (R * m) + (R * m)
      OBVIOUS
    <3>4. PICK f \in Nat, g \in Nat, h \in Nat, i \in Nat :
              f = R * x /\ g = y * y /\ h = R * m /\ i = q * m
      OBVIOUS
    <3>5. f >= h + h /\ i <= h /\ f = u + i /\ u < g /\ g <= h
      BY <2>1, <3>1, <3>2, <3>3, <3>4
    <3> QED
      BY <3>5
  <2> QED
    BY <2>2 DEF CarryTaken, Less
<1> QED
  BY <1>1, <1>2

(***************************************************************************)
(* The reduction for a modulus of one limb: by subtraction, where v is     *)
(* 1 / m modulo L.                                                         *)
(***************************************************************************)
Surplus(u, v, m, L) == (m * (((u % L) * v) % L)) \div L
RedcShort(u, v, m, L) ==
    IF u \div L < Surplus(u, v, m, L) THEN (u \div L) + m - Surplus(u, v, m, L)
    ELSE (u \div L) - Surplus(u, v, m, L)

\* MPN_REDC_0 divides by L modulo m too, and stays below m.
LEMMA RedcShortIs ==
    ASSUME NEW L \in Nat \ {0}, NEW m \in Nat \ {0}, NEW v \in Nat,
           Same(v * m, 1, L), NEW u \in Nat
    PROVE  /\ RedcShort(u, v, m, L) \in Nat
           /\ Same(L * RedcShort(u, v, m, L), u, m)
           /\ m <= L /\ u < L * L => RedcShort(u, v, m, L) < L
           /\ u < L * m => RedcShort(u, v, m, L) < m
<1>1. PICK y \in 0 .. L - 1, g \in Nat :
          y = u % L /\ g = u \div L /\ u = (L * g) + y
  BY Remainder
<1>2. Same(y, u, L)
  BY <1>1, SameAsRemainder
<1>3. PICK z \in Nat : z = y * v
  OBVIOUS
<1>4. PICK d \in 0 .. L - 1 : d = z % L
  BY Remainder
<1>5. Same(d, z, L)
  BY <1>4, SameAsRemainder
<1>6. PICK a \in Nat : a = m * d
  OBVIOUS
<1>7. PICK p \in Nat : p = a \div L /\ a = (L * p) + (a % L)
  BY Remainder
<1>8. p < m
  <2>1. a \in 0 .. (L * m) - 1
    <3>1. m * d < m * L
      <4>1. \A i, j \in Nat, h \in Nat \ {0} : i < j => h * i < h * j
        OBVIOUS
      <4> QED
        BY <4>1
    <3> QED
      BY <1>6, <3>1
  <2> QED
    BY <1>7, <2>1, QuotientBelow
<1>9. a % L = y
  <2>1. Same(m * d, m * z, L)
    <3>1. Same(m, m, L) /\ d \in Nat
      BY SameAsItself
    <3> QED
      BY <1>5, <3>1, SameProduct
  <2>2. PICK c \in Nat : c = v * m
    OBVIOUS
  <2>3. m * z = y * c
    BY <1>3, <2>2
  <2>4. Same(y * c, y * 1, L)
    BY <2>2, SameProduct, SameAsItself
  <2>5. Same(y, a, L)
    BY <1>6, <2>1, <2>3, <2>4, SameThrough, SameTurned
  <2> QED
    BY <2>5, SameBelow
<1>10. (L * g) + (m * d) = u + (L * p)
  BY <1>1, <1>6, <1>7, <1>9
<1>11. Surplus(u, v, m, L) = p
  BY <1>1, <1>3, <1>4, <1>6, <1>7 DEF Surplus
<1>12. PICK r \in Nat : r = RedcShort(u, v, m, L) /\ r = IF g < p THEN g + m - p ELSE g - p
  BY <1>1, <1>8, <1>11 DEF RedcShort
<1>13. Same(L * r, u, m)
  <2>1. CASE g < p
    <3>1. L * r = ((L * g) + (L * m)) - (L * p)
      BY <1>12, <2>1
    <3>2. (L * r) + (m * d) = u + (m * L)
      BY <1>10, <3>1
    <3>3. Apart(L * r, u, d, L, m)
      BY <3>2 DEF Apart
    <3> QED
      BY <3>3, SameIfApart
  <2>2. CASE ~(g < p)
    <3>1. L * r = (L * g) - (L * p)
      BY <1>12, <2>2
    <3>2. (L * r) + (m * d) = u + (m * 0)
      BY <1>10, <3>1
    <3>3. Apart(L * r, u, d, 0, m)
      BY <3>2 DEF Apart
    <3> QED
      BY <3>3, SameIfApart
  <2> QED
    BY <2>1, <2>2
<1>14. ASSUME m <= L, u < L * L PROVE r < L
  <2>1. u \in 0 .. (L * L) - 1
    BY <1>14
  <2>2. g < L
    BY <1>1, <2>1, QuotientBelow
  <2> QED
    BY <1>8, <1>12, <1>14, <2>2
<1>15. ASSUME u < L * m PROVE r < m
  <2>1. u \in 0 .. (L * m) - 1
    BY <1>15
  <2>2. g < m
    <3>1. u \div L \in 0 .. m - 1
      BY ONLY <2>1, L \in Nat \ {0}, m \in Nat \ {0}, QuotientBelow
    <3> QED
      BY <1>1, <3>1
  <2> QED
    BY <1>8, <1>12, <2>2
<1> QED
  BY <1>12, <1>13, <1>14, <1>15

(***************************************************************************)
(* Montgomery's form of y is y * R, modulo the odd number m.               *)
(***************************************************************************)
LEMMA FormOfProduct ==
    ASSUME NEW m \in Nat, m % 2 = 1, NEW k \in Nat, NEW R \in Nat, R = Power(2, k),
           NEW x \in Nat, NEW y \in Nat, NEW p \in Nat, NEW q \in Nat, NEW z \in Nat,
           Same(x, p * R, m), Same(y, q * R, m), Same(R * z, x * y, m)
    PROVE  Same(z, (p * q) * R, m)
<1>1. m \in Nat \ {0}
  OBVIOUS
<1>2. PICK f \in Nat, g \in Nat, h \in Nat : f = p * R /\ g = q * R /\ h = (p * q) * R
  OBVIOUS
<1>3. Same(x * y, f * g, m)
  BY <1>1, <1>2, SameProduct
<1>4. f * g = R * h
  BY <1>2
<1>5. Same(R * z, R * h, m)
  BY <1>3, <1>4, SameThrough
<1>6. Same(z, h, m)
  BY <1>5, CancelPowerOfTwo
<1> QED
  BY <1>2, <1>6

\* Reducing a number in the form once more gives the number itself.
LEMMA FormReduced ==
    ASSUME NEW m \in Nat, m % 2 = 1, NEW k \in Nat, NEW R \in Nat, R = Power(2, k),
           NEW x \in Nat, NEW p \in Nat, NEW z \in Nat,
           Same(x, p * R, m), Same(R * z, x, m)
    PROVE  Same(z, p, m)
<1>1. p * R = R * p
  OBVIOUS
<1>2. Same(R * z, R * p, m)
  BY <1>1, SameThrough
<1> QED
  BY <1>2, CancelPowerOfTwo

-----------------------------------------------------------------------------
(***************************************************************************)
(* The bits of a number.  e \div Power(2, v) is the number without its     *)
(* last v bits.                                                            *)
(***************************************************************************)
LEMMA BitsBefore ==
    ASSUME NEW e \in Nat, NEW v \in Nat, NEW t \in 0 .. v
    PROVE  /\ e \div Power(2, v) \in Nat /\ e \div Power(2, v - t) \in Nat
           /\ (e \div Power(2, v - t)) \div Power(2, t) = e \div Power(2, v)
           /\ e \div Power(2, v - t) =
                (Power(2, t) * (e \div Power(2, v)))
                + ((e \div Power(2, v - t)) % Power(2, t))
<1>1. PICK s \in Nat : s = v - t /\ v = s + t
  OBVIOUS
<1>2. PICK a \in Nat \ {0}, c \in Nat \ {0} : a = Power(2, s) /\ c = Power(2, t)
  <2>1. Power(2, s) \in Nat \ {0} /\ Power(2, t) \in Nat \ {0}
    BY PowerPositive
  <2> QED
    BY <2>1
<1>3. Power(2, v) = a * c
  BY <1>1, <1>2, PowerSum
<1>4. a * c \in Nat \ {0}
  OBVIOUS
<1>5. e \div (a * c) = (e \div a) \div c
  BY DivideTwice
<1>6. PICK x \in Nat : x = e \div a
  BY Remainder
<1>7. PICK y \in Nat : y = x \div c /\ x = (c * y) + (x % c)
  BY Remainder
<1>8. e \div (a * c) = y
  BY <1>5, <1>6, <1>7
<1> QED
  BY <1>1, <1>2, <1>3, <1>6, <1>7, <1>8

\* One more bit.
LEMMA OneBit ==
    ASSUME NEW e \in Nat, NEW v \in Nat \ {0}
    PROVE  /\ e \div Power(2, v) \in Nat /\ e \div Power(2, v - 1) \in Nat
           /\ e \div Power(2, v - 1) =
                (2 * (e \div Power(2, v))) + ((e \div Power(2, v - 1)) % 2)
<1>1. 1 \in 0 .. v
  OBVIOUS
<1>2. Power(2, 1) = 2
  <2>1. Power(2, 0) = 1 /\ Power(2, 0 + 1) = Power(2, 0) * 2
    BY PowerRecursion
  <2> QED
    BY <2>1
<1>3. /\ e \div Power(2, v) \in Nat /\ e \div Power(2, v - 1) \in Nat
      /\ e \div Power(2, v - 1) =
                (Power(2, 1) * (e \div Power(2, v)))
                + ((e \div Power(2, v - 1)) % Power(2, 1))
  BY <1>1, BitsBefore
<1> QED
  BY <1>2, <1>3

\* A window of t bits that starts with a one is not zero.
LEMMA WindowStarts ==
    ASSUME NEW e \in Nat, NEW v \in Nat, NEW t \in 1 .. v,
           NEW x, x = (e \div Power(2, v - t)) % Power(2, t),
           (e \div Power(2, v - 1)) % 2 = 1
    PROVE  x \in Nat \ {0}
<1>1. PICK d \in Nat, i \in Nat : d = t - 1 /\ t = d + 1 /\ i = v - 1 /\ i - d = v - t
  OBVIOUS
<1>2. PICK f \in Nat, h \in Nat \ {0} : f = e \div Power(2, v - t) /\ h = Power(2, d)
  <2>1. t \in 0 .. v
    OBVIOUS
  <2>2. e \div Power(2, v - t) \in Nat
    BY <2>1, BitsBefore
  <2>3. Power(2, d) \in Nat \ {0}
    BY PowerPositive
  <2> QED
    BY <2>2, <2>3
<1>3. Power(2, t) = h * 2
  <2>1. Power(2, d + 1) = Power(2, d) * 2
    BY PowerRecursion
  <2> QED
    BY <1>1, <1>2, <2>1
<1>4. f \div h = e \div Power(2, v - 1)
  <2>1. d \in 0 .. i
    BY <1>1
  <2>2. (e \div Power(2, i - d)) \div Power(2, d) = e \div Power(2, i)
    BY <2>1, BitsBefore
  <2> QED
    BY <1>1, <1>2, <2>2
<1>5. f % (h * 2) = (h * ((f \div h) % 2)) + (f % h)
  BY ONLY f \in Nat, h \in Nat \ {0}, 2 \in Nat \ {0}, DivideTwice
<1>6. f % h \in Nat
  BY ONLY f \in Nat, h \in Nat \ {0}, Remainder
<1>7. f % (h * 2) = h + (f % h)
  BY <1>4, <1>5
<1> QED
  BY <1>2, <1>3, <1>6, <1>7

(***************************************************************************)
(* A window x of t bits that starts with a one, of which the last c are    *)
(* zeros: the bits up to the last one in it.                               *)
(***************************************************************************)
LEMMA WindowBits ==
    ASSUME NEW e \in Nat, NEW v \in Nat, NEW t \in 1 .. v,
           NEW x, x = (e \div Power(2, v - t)) % Power(2, t),
           (e \div Power(2, v - 1)) % 2 = 1,
           NEW c \in Nat, x % Power(2, c) = 0, x % Power(2, c + 1) # 0
    PROVE  /\ c < t
           /\ x \div Power(2, c) \in 0 .. Power(2, t) - 1
           /\ (x \div Power(2, c)) % 2 = 1
           /\ e \div Power(2, v - (t - c)) =
                (Power(2, t - c) * (e \div Power(2, v))) + (x \div Power(2, c))
<1>1. PICK w \in Nat \ {0}, a \in Nat \ {0} : w = Power(2, t) /\ a = Power(2, c)
  <2>1. Power(2, t) \in Nat \ {0} /\ Power(2, c) \in Nat \ {0}
    BY PowerPositive
  <2> QED
    BY <2>1
<1>2. PICK s \in Nat, f \in Nat :
          /\ s = e \div Power(2, v) /\ f = e \div Power(2, v - t)
          /\ f = (w * s) + (f % w)
  <2>1. t \in 0 .. v
    OBVIOUS
  <2>2. /\ e \div Power(2, v) \in Nat /\ e \div Power(2, v - t) \in Nat
        /\ e \div Power(2, v - t) =
               (Power(2, t) * (e \div Power(2, v)))
               + ((e \div Power(2, v - t)) % Power(2, t))
    BY <2>1, BitsBefore
  <2> QED
    BY <1>1, <2>2
<1>3. x \in 0 .. w - 1 /\ f = (w * s) + x
  BY <1>1, <1>2, Remainder
<1>4. x # 0
  BY WindowStarts
<1>5. PICK o \in Nat : o = x \div a /\ o % 2 = 1 /\ x = a * o
  <2>1. x \in Nat \ {0}
    BY <1>3, <1>4
  <2> QED
    BY <1>1, <2>1, OddPart
<1>6. c < t
  <2> SUFFICES ASSUME c >= t PROVE FALSE
    OBVIOUS
  <2>1. w <= a
    BY <1>1, PowerMonotone
  <2>2. a * o >= a
    <3>1. o >= 1
      BY <1>5
    <3> QED
      BY <3>1
  <2> QED
    BY <1>3, <1>5, <2>1, <2>2
<1>7. o \in 0 .. w - 1
  <2>1. a * o >= o
    OBVIOUS
  <2> QED
    BY <1>3, <1>5, <2>1
<1>8. PICK h \in Nat \ {0} : h = Power(2, t - c) /\ w = a * h
  <2>1. PICK i \in Nat : i = t - c /\ t = c + i
    BY <1>6
  <2>2. Power(2, c + i) = Power(2, c) * Power(2, i)
    BY PowerSum
  <2>3. Power(2, i) \in Nat \ {0}
    BY PowerPositive
  <2> QED
    BY <1>1, <2>1, <2>2, <2>3
<1>9. f = (a * ((h * s) + o)) + 0
  <2>1. (a * h) * s = a * (h * s)
    OBVIOUS
  <2>2. a * ((h * s) + o) = (a * (h * s)) + (a * o)
    OBVIOUS
  <2> QED
    BY <1>3, <1>5, <1>8, <2>1, <2>2
<1>10. f \div a = (h * s) + o
  <2>1. PICK i \in Nat : i = (h * s) + o
    OBVIOUS
  <2>2. ((a * i) + 0) \div a = i
    BY Quotient
  <2> QED
    BY <1>9, <2>1, <2>2
<1>11. e \div Power(2, v - (t - c)) = f \div a
  <2>1. PICK d \in Nat : d = v - (t - c) /\ c \in 0 .. d /\ d - c = v - t
    BY <1>6
  <2>2. (e \div Power(2, d - c)) \div Power(2, c) = e \div Power(2, d)
    BY <2>1, BitsBefore
  <2> QED
    BY <1>1, <1>2, <2>1, <2>2
<1> QED
  BY <1>1, <1>2, <1>5, <1>6, <1>7, <1>8, <1>10, <1>11

\* A power of a product.
LEMMA PowerOfProduct ==
    ASSUME NEW x \in Nat, NEW y \in Nat, NEW k \in Nat
    PROVE  Power(x * y, k) = Power(x, k) * Power(y, k)
<1>1. PICK z \in Nat : z = x * y
  OBVIOUS
<1> DEFINE S == {j \in Nat : Power(z, j) = Power(x, j) * Power(y, j)}
<1>2. /\ Power(x, 0) = 1 /\ Power(y, 0) = 1 /\ Power(z, 0) = 1
      /\ \A j \in Nat : Power(x, j) \in Nat /\ Power(x, j + 1) = Power(x, j) * x
      /\ \A j \in Nat : Power(y, j) \in Nat /\ Power(y, j + 1) = Power(y, j) * y
      /\ \A j \in Nat : Power(z, j) \in Nat /\ Power(z, j + 1) = Power(z, j) * z
  BY PowerRecursion
<1>3. 0 \in S
  BY <1>2
<1>4. ASSUME NEW j \in Nat, j \in S PROVE j + 1 \in S
  <2>1. PICK f \in Nat, g \in Nat : f = Power(x, j) /\ g = Power(y, j)
    BY <1>2
  <2>2. Power(z, j + 1) = (f * g) * (x * y)
    BY <1>1, <1>2, <1>4, <2>1
  <2>3. (f * g) * (x * y) = (f * x) * (g * y)
    OBVIOUS
  <2> QED
    BY <1>2, <2>1, <2>2, <2>3
<1> HIDE DEF S
<1>5. \A j \in Nat : j \in S
  BY <1>3, <1>4, NatSetInduction
<1> QED
  BY <1>1, <1>5 DEF S

\* A number with k factors of two, to the e: zero modulo 2 ^ t for t <= k * e.
LEMMA EvenPower ==
    ASSUME NEW k \in Nat, NEW c \in Nat, NEW e \in Nat, NEW t \in Nat, t <= k * e
    PROVE  Same(0, Power(Power(2, k) * c, e), Power(2, t))
<1>1. PICK y \in Nat, g \in Nat : y = Power(2, k) /\ g = Power(c, e)
  BY PowerRecursion
<1>2. Power(y * c, e) = Power(y, e) * g
  BY <1>1, PowerOfProduct
<1>3. PICK j \in Nat, h \in Nat : j = k * e /\ j = t + h
  <2>1. PICK j \in Nat : j = k * e
    OBVIOUS
  <2>2. j - t \in Nat /\ j = t + (j - t)
    BY <2>1
  <2> QED
    BY <2>1, <2>2
<1>4. Power(y, e) = Power(2, j)
  BY <1>1, <1>3, PowerProduct
<1>5. Power(2, j) = Power(2, t) * Power(2, h)
  <2>1. Power(2, t + h) = Power(2, t) * Power(2, h)
    BY PowerSum
  <2> QED
    BY <1>3, <2>1
<1>6. PICK w \in Nat \ {0}, u \in Nat : w = Power(2, t) /\ u = Power(2, h)
  <2>1. Power(2, t) \in Nat \ {0}
    BY PowerPositive
  <2>2. Power(2, h) \in Nat
    BY PowerRecursion
  <2> QED
    BY <2>1, <2>2
<1>7. PICK v \in Nat : v = u * g
  OBVIOUS
<1>8. Power(y * c, e) = w * v
  <2>1. Power(y * c, e) = (w * u) * g
    BY <1>2, <1>4, <1>5, <1>6
  <2> QED
    BY <1>7, <2>1
<1>9. w * v \in Nat /\ Apart(0, w * v, v, 0, w)
  BY DEF Apart
<1>10. Same(0, w * v, w)
  BY <1>9, SameIfApart
<1> QED
  BY <1>1, <1>6, <1>8, <1>10

(***************************************************************************)
(* The number below m * T that is r modulo m and q modulo T, from an       *)
(* inverse v of m modulo a multiple M of T.                                *)
(***************************************************************************)
Difference(q, r, M) == (q + M - (r % M)) % M
Joined(q, r, v, M, T) == ((v * Difference(q, r, M)) % M) % T

InverseOf(v, m, M) == Same(v * m, 1, M)
Multiple(M, T, d) == M = T * d

\* The difference of q and r modulo M.
LEMMA DifferenceIs ==
    ASSUME NEW M \in Nat \ {0}, NEW q \in Nat, NEW r \in Nat
    PROVE  /\ Difference(q, r, M) \in Nat
           /\ Same(Difference(q, r, M) + r, q, M)
<1>1. PICK c \in Nat, y \in 0 .. M - 1 : y = r % M /\ r = (M * c) + y
  <2>1. r % M \in 0 .. M - 1 /\ r \div M \in Nat /\ r = (M * (r \div M)) + (r % M)
    BY Remainder
  <2> QED
    BY <2>1
<1>2. PICK x \in Nat : x = q + M - y
  BY <1>1
<1>3. Difference(q, r, M) = x % M
  BY <1>1, <1>2 DEF Difference
<1>4. x % M \in Nat /\ Same(x % M, x, M)
  BY SameAsRemainder
<1>5. Same((x % M) + r, x + r, M)
  BY <1>4, SameAsItself, SameSum
<1>6. Same(x + r, q, M)
  <2>1. x + r \in Nat
    OBVIOUS
  <2>2. x + r = q + (M * (c + 1))
    <3>1. M * (c + 1) = (M * c) + M /\ M * c \in Nat
      OBVIOUS
    <3> QED
      BY <1>1, <1>2, <3>1
  <2>3. Apart(x + r, q, 0, c + 1, M)
    BY <2>2 DEF Apart
  <2> QED
    BY <2>1, <2>3, SameIfApart
<1> QED
  BY <1>3, <1>4, <1>5, <1>6, SameThrough

\* The remainder modulo m * T from the remainders modulo m and modulo T.
LEMMA JoinedIs ==
    ASSUME NEW m \in Nat, m % 2 = 1, NEW t \in Nat, NEW T \in Nat, T = Power(2, t),
           NEW M \in Nat, NEW d \in Nat \ {0}, Multiple(M, T, d),
           NEW v \in Nat, InverseOf(v, m, M),
           NEW q \in Nat, NEW r \in Nat, r < m,
           NEW x \in Nat, Same(r, x, m), Same(q, x, T)
    PROVE  (Joined(q, r, v, M, T) * m) + r = x % (m * T)
<1>0. M = T * d /\ Same(v * m, 1, M)
  BY DEF Multiple, InverseOf
<1>1. T \in Nat \ {0} /\ M \in Nat \ {0} /\ m \in Nat \ {0}
  <2>1. T \in Nat \ {0}
    BY PowerPositive
  <2> QED
    BY <1>0, <2>1
<1>2. PICK y \in Nat : y = Difference(q, r, M) /\ Same(y + r, q, M)
  BY <1>1, DifferenceIs
<1>3. PICK u \in Nat : u = v * y
  OBVIOUS
<1>4. PICK h \in Nat : h = u % M /\ Same(h, u, M)
  BY <1>1, SameAsRemainder
<1>5. PICK c \in Nat : c = h % T /\ c < T /\ Same(c, h, T)
  BY <1>1, SameAsRemainder
<1>6. Joined(q, r, v, M, T) = c
  BY <1>2, <1>3, <1>4, <1>5 DEF Joined
<1>7. Same(c, u, T)
  <2>1. Same(h, u, T)
    BY <1>0, <1>1, <1>4, SameForFactor
  <2> QED
    BY <1>5, <2>1, SameThrough
<1>8. Same(v * m, 1, T)
  <2>1. v * m \in Nat
    OBVIOUS
  <2> QED
    BY <1>0, <1>1, <2>1, SameForFactor
<1>9. Same(c * m, y, T)
  <2>1. Same(c * m, u * m, T)
    BY <1>1, <1>7, SameAsItself, SameProduct
  <2>2. PICK f \in Nat : f = v * m
    OBVIOUS
  <2>3. Same(f * y, 1 * y, T)
    BY <1>1, <1>8, <2>2, SameAsItself, SameProduct
  <2>4. f * y = u * m /\ 1 * y = y
    BY <1>3, <2>2
  <2> QED
    BY <2>1, <2>3, <2>4, SameThrough
<1>10. PICK g \in Nat : g = (c * m) + r
  OBVIOUS
<1>11. Same(g, x, T)
  <2>1. PICK a \in Nat : a = c * m
    OBVIOUS
  <2>2. Same(a + r, y + r, T)
    BY <1>1, <1>9, <2>1, SameAsItself, SameSum
  <2>3. Same(y + r, q, T)
    BY <1>0, <1>1, <1>2, SameForFactor
  <2> QED
    BY <1>10, <2>1, <2>2, <2>3, SameThrough
<1>12. Same(g, x, m)
  <2>1. Apart(g, r, 0, c, m)
    BY <1>10 DEF Apart
  <2>2. Same(g, r, m)
    BY <1>1, <2>1, SameIfApart
  <2> QED
    BY <2>2, SameThrough
<1>13. Same(g, x, m * T)
  BY <1>11, <1>12, SameForBoth
<1>14. g < m * T /\ m * T \in Nat \ {0}
  <2>1. c \in 0 .. T - 1 /\ r \in 0 .. m - 1
    BY <1>5
  <2>2. (m * c) + r \in 0 .. (m * T) - 1
    BY <1>1, <2>1, JoinedBelow
  <2>3. m * T \in Nat
    BY ONLY <1>1
  <2>4. m * c = c * m
    OBVIOUS
  <2> QED
    BY <1>10, <2>2, <2>3, <2>4
<1>15. g = x % (m * T)
  <2>1. PICK w \in Nat \ {0} : w = m * T
    BY <1>14
  <2>2. Same(g, x, w) /\ g < w
    BY <1>13, <1>14, <2>1
  <2>3. g = x % w
    BY <2>2, SameBelow
  <2> QED
    BY <2>1, <2>3
<1> QED
  BY <1>6, <1>10, <1>15

=============================================================================
