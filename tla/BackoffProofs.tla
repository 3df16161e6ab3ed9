---------------------------- MODULE BackoffProofs ----------------------------
(***************************************************************************)
(* The wait before a retry, for any width, bases, caps and number of       *)
(* attempts: it is within its bounds whatever a shift is worth, doubles up *)
(* to the cap as long as the shift keeps its bits, and has a lower bound   *)
(* when it has lost them.  The last takes some arithmetic of powers of 2.  *)
(***************************************************************************)
EXTENDS Backoff, WellFoundedInduction, TLAPS

------------------------------------------------------------------------------
(* Powers of 2, by induction: a set of counterexamples has a least one *)

LEMMA LeastExponent ==
    ASSUME NEW T \in SUBSET Nat, T # {}
    PROVE  \E m \in T : \A k \in T : m <= k
<1>1. PICK R : R = {ss \in Nat \X Nat : ss[1] < ss[2]}
  OBVIOUS
<1>2. OpToRel(<, Nat) = {ss \in Nat \X Nat : ss[1] < ss[2]}
  BY DEF OpToRel
<1>3. IsWellFoundedOn(R, Nat)
  BY <1>1, <1>2, NatLessThanWellFounded
<1>4. PICK m \in T : \A k \in T : ~ (<<k, m>> \in R)
  BY <1>3, WFMin
<1>5. ASSUME NEW k \in T PROVE m <= k
  <2>1. k \in Nat /\ m \in Nat
    OBVIOUS
  <2>2. ~ (k < m)
    BY <1>1, <1>4, <2>1
  <2>. QED
    BY <2>1, <2>2
<1>. QED
  BY <1>4, <1>5

\* So what holds of 0, and of the next number whenever of a number, holds of all.
LEMMA AllNumbers ==
    ASSUME NEW S, 0 \in S, \A k \in Nat : k \in S => k + 1 \in S
    PROVE  Nat \subseteq S
<1>1. PICK T : T = {k \in Nat : k \notin S}
  OBVIOUS
<1>2. T \in SUBSET Nat /\ \A k : k \in T <=> k \in Nat /\ k \notin S
  BY <1>1
<1>3. SUFFICES ASSUME T # {} PROVE FALSE
  BY <1>2
<1>4. PICK m \in T : \A k \in T : m <= k
  BY <1>2, <1>3, LeastExponent
<1>5. m \in Nat /\ m \notin S /\ m # 0
  BY <1>2
<1>6. m - 1 \in Nat /\ ~ (m <= m - 1) /\ (m - 1) + 1 = m
  BY <1>5
<1>7. m - 1 \in S
  BY <1>2, <1>4, <1>6
<1>8. m \in S
  BY <1>6, <1>7
<1>. QED
  BY <1>5, <1>8

\* f doubles from 1 up to its value at n.
Doubles(f, n) ==
    /\ f \in [0 .. n -> Nat \ {0}]
    /\ \A k \in 0 .. n : f[k] = IF k = 0 THEN 1 ELSE 2 * f[k - 1]

LEMMA DoublesExist == \A n \in Nat : \E f : Doubles(f, n)
<1>1. PICK S : S = {n \in Nat : \E f : Doubles(f, n)}
  OBVIOUS
<1>2. \A n : n \in S <=> n \in Nat /\ \E f : Doubles(f, n)
  BY ONLY <1>1
<1>3. 0 \in S
  <2>1. PICK f : f = [k \in 0 .. 0 |-> 1]
    OBVIOUS
  <2>2. Doubles(f, 0)
    BY <2>1 DEF Doubles
  <2>. QED
    BY <1>2, <2>2
<1>4. ASSUME NEW n \in Nat, n \in S PROVE n + 1 \in S
  <2>1. PICK f : Doubles(f, n)
    BY <1>2, <1>4
  <2>2. f[n] \in Nat \ {0}
    BY <2>1 DEF Doubles
  <2>3. PICK g : g = [k \in 0 .. n + 1 |-> IF k = n + 1 THEN 2 * f[n] ELSE f[k]]
    OBVIOUS
  <2>4. \A k \in 0 .. n + 1 : k # n + 1 => k \in 0 .. n
    OBVIOUS
  <2>5. g \in [0 .. n + 1 -> Nat \ {0}]
    BY <2>1, <2>2, <2>3, <2>4 DEF Doubles
  <2>6. ASSUME NEW k \in 0 .. n + 1
        PROVE  g[k] = IF k = 0 THEN 1 ELSE 2 * g[k - 1]
    <3>1. CASE k = n + 1
      <4>1. g[n + 1] = 2 * f[n] /\ g[n] = f[n] /\ k # 0 /\ k - 1 = n
        BY <2>3, <3>1
      <4>. QED
        BY <3>1, <4>1
    <3>2. CASE k # n + 1
      <4>1. k \in 0 .. n /\ g[k] = f[k]
        BY <2>3, <2>4, <3>2
      <4>2. k # 0 => g[k - 1] = f[k - 1]
        BY <2>3, <4>1
      <4>. QED
        BY <2>1, <4>1, <4>2 DEF Doubles
    <3>. QED
      BY <3>1, <3>2
  <2>7. Doubles(g, n + 1)
    BY <2>5, <2>6 DEF Doubles
  <2>. QED
    BY <1>2, <2>7
<1>5. Nat \subseteq S
  BY <1>3, <1>4, AllNumbers
<1>. QED
  BY <1>2, <1>5

\* There is one way to double.
LEMMA DoublesAgree ==
    ASSUME NEW n \in Nat, NEW m \in Nat, NEW f, Doubles(f, n), NEW g, Doubles(g, m)
    PROVE  \A k \in Nat : k <= n /\ k <= m => f[k] = g[k]
<1>1. PICK S : S = {k \in Nat : k <= n /\ k <= m => f[k] = g[k]}
  OBVIOUS
<1>2. \A k : k \in S <=> k \in Nat /\ (k <= n /\ k <= m => f[k] = g[k])
  BY ONLY <1>1
<1>3. 0 \in S
  <2>1. 0 \in 0 .. n /\ 0 \in 0 .. m
    OBVIOUS
  <2>2. f[0] = 1 /\ g[0] = 1
    BY <2>1 DEF Doubles
  <2>. QED
    BY <1>2, <2>2
<1>4. ASSUME NEW k \in Nat, k \in S PROVE k + 1 \in S
  <2>1. SUFFICES ASSUME k + 1 <= n, k + 1 <= m PROVE f[k + 1] = g[k + 1]
    BY <1>2
  <2>2. k + 1 \in 0 .. n /\ k + 1 \in 0 .. m /\ k + 1 # 0 /\ (k + 1) - 1 = k
    BY <2>1
  <2>3. f[k + 1] = 2 * f[k] /\ g[k + 1] = 2 * g[k]
    BY <2>2 DEF Doubles
  <2>4. f[k] = g[k]
    BY <1>2, <1>4, <2>1
  <2>. QED
    BY <2>3, <2>4
<1>5. Nat \subseteq S
  BY <1>3, <1>4, AllNumbers
<1>. QED
  BY <1>2, <1>5

\* Pow2 is what its definition says of it.
LEMMA Pow2Values ==
    /\ Pow2[0] = 1
    /\ \A k \in Nat : Pow2[k] \in Nat \ {0} /\ Pow2[k + 1] = 2 * Pow2[k]
<1> DEFINE Def(f) == [k \in Nat |-> IF k = 0 THEN 1 ELSE 2 * f[k - 1]]
           Upto(n) == CHOOSE f : Doubles(f, n)
<1>1. \A n \in Nat : Doubles(Upto(n), n)
  BY DoublesExist
<1>2. PICK h : h = [k \in Nat |-> Upto(k)[k]]
  OBVIOUS
<1>3. ASSUME NEW k \in Nat
      PROVE  h[k] \in Nat \ {0} /\ h[k] = IF k = 0 THEN 1 ELSE 2 * h[k - 1]
  <2>1. h[k] = Upto(k)[k]
    BY <1>2
  <2>2. PICK f : f = Upto(k)
    OBVIOUS
  <2>3. Doubles(f, k) /\ h[k] = f[k] /\ k \in 0 .. k
    BY <1>1, <2>1, <2>2
  <2>4. f[k] \in Nat \ {0} /\ f[k] = IF k = 0 THEN 1 ELSE 2 * f[k - 1]
    BY <2>3 DEF Doubles
  <2>5. ASSUME k # 0 PROVE h[k - 1] = f[k - 1]
    <3>1. k - 1 \in Nat /\ k - 1 <= k /\ k - 1 <= k - 1
      BY <2>5
    <3>2. PICK g : g = Upto(k - 1)
      OBVIOUS
    <3>3. Doubles(g, k - 1) /\ h[k - 1] = g[k - 1]
      BY <1>1, <1>2, <3>1, <3>2
    <3>. QED
      BY <2>3, <3>1, <3>3, DoublesAgree
  <2>. QED
    BY <2>3, <2>4, <2>5
<1>4. h = Def(h)
  BY <1>2, <1>3
<1>5. Pow2 = CHOOSE f : f = Def(f)
  BY DEF Pow2
<1>6. Pow2 = Def(Pow2)
  <2> HIDE DEF Def
  <2>. QED
    BY <1>4, <1>5
<1>7. PICK p : p = Pow2
  OBVIOUS
<1>8. \A k \in Nat : p[k] = IF k = 0 THEN 1 ELSE 2 * p[k - 1]
  BY <1>6, <1>7
<1>9. p[0] = 1 /\ \A k \in Nat : p[k + 1] = 2 * p[k]
  BY <1>8
<1>10. \A k \in Nat : p[k] \in Nat \ {0}
  <2>1. PICK S : S = {k \in Nat : p[k] \in Nat \ {0}}
    OBVIOUS
  <2>2. \A k : k \in S <=> k \in Nat /\ p[k] \in Nat \ {0}
    BY ONLY <2>1
  <2>3. 0 \in S
    BY <1>9, <2>2
  <2>4. ASSUME NEW k \in Nat, k \in S PROVE k + 1 \in S
    BY <1>9, <2>2, <2>4
  <2>5. Nat \subseteq S
    BY <2>3, <2>4, AllNumbers
  <2>. QED
    BY <2>2, <2>5
<1>. QED
  BY <1>7, <1>9, <1>10

\* Powers multiply as their exponents add.
LEMMA Pow2Add == \A a \in Nat, b \in Nat : Pow2[a + b] = Pow2[a] * Pow2[b]
<1> TAKE a \in Nat
<1>1. PICK S : S = {b \in Nat : Pow2[a + b] = Pow2[a] * Pow2[b]}
  OBVIOUS
<1>2. \A b : b \in S <=> b \in Nat /\ Pow2[a + b] = Pow2[a] * Pow2[b]
  BY ONLY <1>1
<1>3. 0 \in S
  <2>1. a + 0 = a /\ Pow2[0] = 1 /\ Pow2[a] \in Nat
    BY Pow2Values
  <2>. QED
    BY <1>2, <2>1
<1>4. ASSUME NEW b \in Nat, b \in S PROVE b + 1 \in S
  <2>1. Pow2[a + b] = Pow2[a] * Pow2[b]
    BY <1>2, <1>4
  <2>2. a + (b + 1) = (a + b) + 1 /\ a + b \in Nat
    OBVIOUS
  <2>3. Pow2[(a + b) + 1] = 2 * Pow2[a + b] /\ Pow2[b + 1] = 2 * Pow2[b]
    BY <2>2, Pow2Values
  <2>4. PICK x \in Nat, y \in Nat : x = Pow2[a] /\ y = Pow2[b]
    BY Pow2Values
  <2>5. 2 * (x * y) = x * (2 * y)
    OBVIOUS
  <2>6. Pow2[a + (b + 1)] = Pow2[a] * Pow2[b + 1]
    BY <2>1, <2>2, <2>3, <2>4, <2>5
  <2>. QED
    BY <1>2, <2>6
<1>5. Nat \subseteq S
  BY <1>3, <1>4, AllNumbers
<1>. QED
  BY <1>2, <1>5

\* A product with a positive number is no less than the other number.
LEMMA ProductGrows ==
    ASSUME NEW x \in Nat, NEW y \in Nat \ {0} PROVE x <= x * y
  OBVIOUS

\* And a greater power is a multiple of a lesser one.
LEMMA Pow2Divides ==
    ASSUME NEW a \in Nat, NEW b \in Nat, a <= b
    PROVE  \E z \in Nat \ {0} : Pow2[b] = Pow2[a] * z
<1>1. b - a \in Nat /\ a + (b - a) = b
  OBVIOUS
<1>2. PICK d \in Nat : d = b - a /\ a + d = b
  BY <1>1
<1>3. Pow2[a + d] = Pow2[a] * Pow2[d] /\ Pow2[d] \in Nat \ {0}
  BY Pow2Add, Pow2Values
<1>. QED
  BY <1>2, <1>3

LEMMA Pow2Grows == \A a \in Nat, b \in Nat : a <= b => Pow2[a] <= Pow2[b]
<1> SUFFICES ASSUME NEW a \in Nat, NEW b \in Nat, a <= b PROVE Pow2[a] <= Pow2[b]
  OBVIOUS
<1>1. PICK z \in Nat \ {0} : Pow2[b] = Pow2[a] * z
  BY Pow2Divides
<1>2. PICK x \in Nat : x = Pow2[a]
  BY Pow2Values
<1>. QED
  BY <1>1, <1>2, ProductGrows

------------------------------------------------------------------------------
(* The odd part of a base *)

\* A positive number that is not too large is an odd one, doubled.
LEMMA OddPartDivides ==
    ASSUME NEW n \in Nat \ {0}, n < Pow2[Width]
    PROVE  /\ OddPart(n) \in Nat \ {0}
           /\ \E t \in Nat : n = OddPart(n) * Pow2[t]
<1> DEFINE IsOdd(odd) == odd % 2 = 1 /\ \E t \in 0 .. Width : n = odd * Pow2[t]
<1>1. PICK T : T = {m \in Nat \ {0} : \E t \in Nat : n = m * Pow2[t]}
  OBVIOUS
<1>2. \A m : m \in T <=> m \in Nat \ {0} /\ \E t \in Nat : n = m * Pow2[t]
  BY ONLY <1>1
<1>3. n \in T
  <2>1. n = n * Pow2[0]
    BY Pow2Values
  <2>. QED
    BY <1>2, <2>1
<1>4. T \in SUBSET Nat /\ T # {}
  BY <1>2, <1>3
<1>5. PICK m \in T : \A k \in T : m <= k
  BY <1>4, LeastExponent
<1>6. m \in Nat \ {0} /\ \E t \in Nat : n = m * Pow2[t]
  BY <1>2
<1>7. PICK t \in Nat : n = m * Pow2[t]
  BY <1>6
<1>8. PICK y \in Nat \ {0} : y = Pow2[t]
  BY Pow2Values
<1>9. m % 2 = 1
  <2>1. SUFFICES ASSUME m % 2 # 1 PROVE FALSE
    OBVIOUS
  <2>2. PICK j \in Nat : m = 2 * j
    <3>1. m % 2 = 0 /\ m \div 2 \in Nat /\ m = 2 * (m \div 2) + (m % 2)
      BY <1>6, <2>1
    <3>. QED
      BY <3>1
  <2>3. j \in Nat \ {0} /\ j < m
    BY <1>6, <2>2
  <2>4. n = j * (2 * y)
    <3>1. (2 * j) * y = j * (2 * y)
      OBVIOUS
    <3>. QED
      BY <1>7, <1>8, <2>2, <3>1
  <2>5. t + 1 \in Nat /\ n = j * Pow2[t + 1]
    BY <1>8, <2>4, Pow2Values
  <2>6. j \in T
    BY <1>2, <2>3, <2>5
  <2>. QED
    BY <1>5, <1>6, <2>3, <2>6
<1>10. m <= n /\ y <= n
  <2>1. n = m * y /\ m * y = y * m
    BY <1>6, <1>7, <1>8
  <2>2. m <= m * y /\ y <= y * m
    BY <1>6, ProductGrows
  <2>. QED
    BY <2>1, <2>2
<1>11. t \in 0 .. Width
  <2>1. SUFFICES ASSUME Width <= t PROVE FALSE
    BY DurationsAssumption
  <2>2. Pow2[Width] <= Pow2[t]
    BY <2>1, DurationsAssumption, Pow2Grows
  <2>3. Pow2[Width] \in Nat
    BY DurationsAssumption, Pow2Values
  <2>. QED
    BY <1>8, <1>10, <2>2, <2>3
<1>12. m \in 1 .. n /\ IsOdd(m)
  BY <1>6, <1>7, <1>9, <1>10, <1>11
<1>13. OddPart(n) \in 1 .. n /\ IsOdd(OddPart(n))
  <2>1. OddPart(n) = CHOOSE odd \in 1 .. n : IsOdd(odd)
    BY DEF OddPart
  <2> HIDE DEF IsOdd
  <2>. QED
    BY <1>12, <2>1
<1>. QED
  BY <1>13

------------------------------------------------------------------------------
(* The shift *)

\* A multiple of x is 0 or below, or at least x.
LEMMA MultipleAtLeast ==
    ASSUME NEW x \in Nat \ {0}, NEW z \in Int, x * z > 0 PROVE x * z >= x
<1>1. z >= 1
  <2>1. SUFFICES ASSUME z <= 0 PROVE FALSE
    OBVIOUS
  <2>2. - z \in Nat /\ x * (- z) >= 0
    BY <2>1
  <2>3. x * (- z) = - (x * z)
    OBVIOUS
  <2>4. x * z \in Int
    OBVIOUS
  <2>. QED
    BY <2>2, <2>3, <2>4
<1>. QED
  BY <1>1, ProductGrows

\* What the shift is worth lies in the lower bits.
LEMMA Bits ==
    ASSUME NEW n \in Nat, NEW M \in Nat \ {0}
    PROVE  \E q \in Int, r \in Nat : n = M * q + r /\ r < M /\ r = n % M
<1>1. n = M * (n \div M) + (n % M) /\ n \div M \in Int
  OBVIOUS
<1>2. n % M \in Nat /\ n % M < M
  OBVIOUS
<1>. QED
  BY <1>1, <1>2

\* A value that fits is shifted as it is.
LEMMA ShiftKeeps ==
    ASSUME NEW n \in Nat, n < Pow2[Width - 1] PROVE Signed(n) = n
<1>1. Width - 1 \in Nat /\ (Width - 1) + 1 = Width
  BY DurationsAssumption
<1>2. PICK h \in Nat \ {0} : h = Pow2[Width - 1] /\ Pow2[Width] = 2 * h
  BY <1>1, Pow2Values
<1>3. n % (2 * h) = n
  BY <1>2
<1>. QED
  BY <1>2, <1>3 DEF Signed

\* Whatever it has lost, what it is worth is a multiple of its powers of 2; so it
\* is 0 or negative, or no less than they.
LEMMA ShiftWraps ==
    ASSUME NEW odd \in Nat \ {0}, NEW s \in Nat
    PROVE  Signed(odd * Pow2[s]) <= 0 \/ Signed(odd * Pow2[s]) >= Pow2[s]
<1>1. Width \in Nat /\ Width - 1 \in Nat /\ (Width - 1) + 1 = Width
  BY DurationsAssumption
<1>2. PICK h \in Nat \ {0}, M \in Nat \ {0} : h = Pow2[Width - 1] /\ M = Pow2[Width]
  BY <1>1, Pow2Values
<1>3. PICK x \in Nat \ {0} : x = Pow2[s]
  BY Pow2Values
<1>4. PICK n \in Nat : n = odd * x
  OBVIOUS
<1>5. PICK q \in Int, r \in Nat : n = M * q + r /\ r < M /\ r = n % M
  BY Bits
<1>6. Signed(n) = IF r < h THEN r ELSE r - M
  BY <1>2, <1>5 DEF Signed
<1>7. SUFFICES ASSUME r > 0 PROVE r >= x
  BY <1>3, <1>4, <1>5, <1>6
<1>8. CASE Width <= s
  <2>1. \E z \in Nat \ {0} : Pow2[s] = Pow2[Width] * z
    BY <1>1, <1>8, Pow2Divides
  <2>2. PICK z \in Nat : x = M * z
    BY <1>2, <1>3, <2>1
  <2>3. odd * (M * z) = M * (odd * z)
    OBVIOUS
  <2>4. n = M * (odd * z)
    BY <1>4, <2>2, <2>3
  <2>5. PICK v \in Int : v = odd * z
    OBVIOUS
  <2>6. M * v - M * q = M * (v - q)
    OBVIOUS
  <2>7. r = M * (v - q)
    <3>1. M * q \in Int /\ M * v \in Int
      OBVIOUS
    <3>. QED
      BY <1>5, <2>4, <2>5, <2>6, <3>1
  <2>8. v - q \in Int
    OBVIOUS
  <2>9. r >= M
    BY <1>7, <2>7, <2>8, MultipleAtLeast
  <2>. QED
    BY <1>5, <2>9
<1>9. CASE s < Width
  <2>1. \E z \in Nat \ {0} : Pow2[Width] = Pow2[s] * z
    BY <1>1, <1>9, Pow2Divides
  <2>2. PICK z \in Nat : M = x * z
    BY <1>2, <1>3, <2>1
  <2>3. (x * z) * q = x * (z * q)
    OBVIOUS
  <2>4. PICK v \in Int : v = z * q
    OBVIOUS
  <2>5. odd * x = x * odd /\ x * odd - x * v = x * (odd - v)
    OBVIOUS
  <2>6. n = x * v + r
    BY <1>5, <2>2, <2>3, <2>4
  <2>7. r = x * (odd - v)
    <3>1. x * odd \in Int /\ x * v \in Int
      OBVIOUS
    <3>. QED
      BY <1>4, <2>5, <2>6, <3>1
  <2>8. odd - v \in Int
    OBVIOUS
  <2>. QED
    BY <1>7, <2>7, <2>8, MultipleAtLeast
<1>. QED
  BY <1>1, <1>8, <1>9

------------------------------------------------------------------------------
(* The wait *)

\* Base and cap are configured, and attempts are a number.
ConfigInv ==
    /\ base \in Bases /\ cap \in Caps
    /\ attempts \in Nat

LEMMA Configured == ConfigInv => base \in Nat \ {0} /\ cap \in Nat \ {0}
  BY DurationsAssumption DEF ConfigInv

\* A shift is a number, which may be negative or 0.
LEMMA ShiftedIsInt ==
    ASSUME NEW d \in Nat, NEW k \in Nat PROVE Shifted(d, k) \in Int
<1>1. Width \in Nat /\ Width - 1 \in Nat
  BY DurationsAssumption
<1>2. PICK h \in Nat, M \in Nat \ {0} : h = Pow2[Width - 1] /\ M = Pow2[Width]
  BY <1>1, Pow2Values
<1>3. PICK n \in Nat : n = d * Pow2[k]
  <2>1. PICK x \in Nat : x = Pow2[k]
    BY Pow2Values
  <2>2. d * x \in Nat
    OBVIOUS
  <2>. QED
    BY <2>1, <2>2
<1>4. n % M \in Int
  OBVIOUS
<1>. QED
  BY <1>2, <1>3, <1>4 DEF Shifted, Signed

\* So the wait chosen is within bounds.
LEMMA DelayInBounds ==
    ASSUME ConfigInv, NEW a \in Nat \ {0} PROVE Delay(a) \in 1 .. cap
<1>1. Shifted(base, a - 1) \in Int
  <2>1. base \in Nat /\ a - 1 \in Nat
    BY Configured
  <2>. QED
    BY <2>1, ShiftedIsInt
<1>. QED
  BY <1>1, Configured DEF Delay

\* And it is the doubled base or the cap as long as that fits, and later no less
\* than the powers of 2 of the doubled base.
LEMMA DelayDoubles ==
    ASSUME ConfigInv, NEW a \in Nat \ {0}, NEW n, n = base * Pow2[a - 1]
    PROVE  /\ n < Pow2[Width - 1] => Delay(a) = IF n > cap THEN cap ELSE n
           /\ Delay(a) = cap \/ OddPart(base) * Delay(a) >= n
<1>1. base \in Nat \ {0} /\ cap \in Nat \ {0} /\ a - 1 \in Nat /\ Width - 1 \in Nat
  BY Configured, DurationsAssumption
<1>2. n \in Nat \ {0}
  <2>1. PICK x \in Nat \ {0} : x = Pow2[a - 1]
    BY <1>1, Pow2Values
  <2>2. base * x \in Nat \ {0}
    BY <1>1
  <2>. QED
    BY <2>1, <2>2
<1>3. Delay(a) = IF Signed(n) > cap \/ Signed(n) <= 0 THEN cap ELSE Signed(n)
  BY DEF Delay, Shifted
<1>4. ASSUME n < Pow2[Width - 1]
      PROVE  Delay(a) = IF n > cap THEN cap ELSE n
  <2>1. Signed(n) = n
    BY <1>2, <1>4, ShiftKeeps
  <2>. QED
    BY <1>1, <1>2, <1>3, <2>1
<1>5. ASSUME Delay(a) # cap PROVE OddPart(base) * Delay(a) >= n
  <2>1. base < Pow2[Width]
    <3>1. (Width - 1) + 1 = Width
      BY DurationsAssumption
    <3>2. Pow2[(Width - 1) + 1] = 2 * Pow2[Width - 1] /\ Pow2[Width - 1] \in Nat
      BY <1>1, Pow2Values
    <3>3. base < Pow2[Width - 1]
      BY DurationsAssumption DEF ConfigInv
    <3>. QED
      BY <1>1, <3>1, <3>2, <3>3
  <2>2. PICK odd \in Nat \ {0} : odd = OddPart(base) /\ \E t \in Nat : base = odd * Pow2[t]
    BY <1>1, <2>1, OddPartDivides
  <2>3. PICK t \in Nat : base = odd * Pow2[t]
    BY <2>2
  <2>4. PICK k \in Nat : k = a - 1
    BY <1>1
  <2>5. n = odd * Pow2[t + k] /\ t + k \in Nat
    <3>1. PICK x \in Nat, y \in Nat : x = Pow2[t] /\ y = Pow2[k]
      BY Pow2Values
    <3>2. (odd * x) * y = odd * (x * y)
      OBVIOUS
    <3>3. Pow2[t + k] = x * y /\ t + k \in Nat
      BY <3>1, Pow2Add
    <3>. QED
      BY <2>3, <2>4, <3>1, <3>2, <3>3
  <2>6. PICK x \in Nat : x = Pow2[t + k]
    BY <2>5, Pow2Values
  <2>7. Signed(n) <= 0 \/ Signed(n) >= x
    BY <2>5, <2>6, ShiftWraps
  <2>8. PICK w : w = Delay(a)
    OBVIOUS
  <2>9. w \in Nat /\ w >= x
    <3>1. w \in 1 .. cap
      BY <2>8, DelayInBounds
    <3>2. Signed(n) \in Int
      <4>1. Shifted(base, a - 1) \in Int
        BY <1>1, ShiftedIsInt
      <4>. QED
        BY <4>1 DEF Shifted
    <3>. QED
      BY <1>1, <1>3, <1>5, <2>7, <2>8, <3>1, <3>2
  <2>10. odd * w >= odd * x
    <3>1. PICK v \in Nat : w = x + v
      <4>1. w - x \in Nat /\ w = x + (w - x)
        BY <2>9
      <4>. QED
        BY <4>1
    <3>2. odd * (x + v) = odd * x + odd * v
      OBVIOUS
    <3>3. odd * x \in Nat /\ odd * v \in Nat
      OBVIOUS
    <3>. QED
      BY <3>1, <3>2, <3>3
  <2>. QED
    BY <2>2, <2>5, <2>6, <2>8, <2>10
<1>. QED
  BY <1>4, <1>5

\* What a step may do to the wait before a retry.
LEMMA StepsWait ==
    ASSUME ConfigInv, [Next]_vars
    PROVE  /\ ConfigInv'
           /\ \/ UNCHANGED vars
              \/ ~ Waiting'
              \/ /\ UNCHANGED <<base, cap>>
                 /\ \E a \in Nat \ {0} : attempts' = a /\ wait' = Delay(a)
<1>1. MaxAttempts \in Nat
  BY DurationsAssumption
<1>2. CASE Failed
  <2>1. cap' = cap /\ base' = base /\ attempts' = attempts + 1
    BY <1>2 DEF Failed
  <2>2. ConfigInv'
    BY <2>1 DEF ConfigInv
  <2>3. CASE Waiting'
    <3>1. PICK a \in Nat \ {0} : a = attempts + 1
      BY DEF ConfigInv
    <3>2. attempts' = a /\ wait' = Delay(a)
      BY <1>1, <1>2, <2>1, <2>3, <3>1 DEF Failed, Waiting
    <3>. QED
      BY <2>1, <2>2, <3>2
  <2>. QED
    BY <2>2, <2>3
<1>3. CASE Requeue
  BY <1>1, <1>3 DEF Requeue, ConfigInv, Waiting
<1>4. CASE UNCHANGED vars
  BY <1>4 DEF vars, ConfigInv
<1>. QED
  BY <1>2, <1>3, <1>4 DEF Next

------------------------------------------------------------------------------
(* The theorems *)

\* Every wait before a retry is between 1 and the cap, whatever the base and the
\* cap are.
THEOREM WaitsInBounds == Spec => []WaitInBounds
<1>1. Init => ConfigInv /\ WaitInBounds
  BY DurationsAssumption DEF Init, ConfigInv, WaitInBounds, Waiting
<1>2. ConfigInv /\ WaitInBounds /\ [Next]_vars => ConfigInv' /\ WaitInBounds'
  <2> SUFFICES ASSUME ConfigInv, WaitInBounds, [Next]_vars
               PROVE  ConfigInv' /\ WaitInBounds'
    OBVIOUS
  <2>1. CASE UNCHANGED vars
    BY <2>1, StepsWait DEF vars, WaitInBounds, Waiting
  <2>2. ASSUME NEW a \in Nat \ {0}, UNCHANGED <<base, cap>>, wait' = Delay(a)
        PROVE  WaitInBounds'
    BY <2>2, DelayInBounds DEF WaitInBounds
  <2>. QED
    BY <2>1, <2>2, StepsWait DEF WaitInBounds
<1>. QED
  BY <1>1, <1>2, PTL DEF Spec

\* The wait doubles with each attempt up to the cap as long as the doubled base is
\* a duration; after that it is the cap or, if the wrapped shift comes back below
\* it, at least the powers of 2 of the doubled base.
THEOREM WaitsDouble == Spec => []WaitDoubles
<1>1. Init => ConfigInv /\ WaitDoubles
  BY DurationsAssumption DEF Init, ConfigInv, WaitDoubles, Waiting
<1>2. ConfigInv /\ WaitDoubles /\ [Next]_vars => ConfigInv' /\ WaitDoubles'
  <2> SUFFICES ASSUME ConfigInv, WaitDoubles, [Next]_vars
               PROVE  ConfigInv' /\ WaitDoubles'
    OBVIOUS
  <2>1. CASE UNCHANGED vars
    BY <2>1, StepsWait DEF vars, WaitDoubles, Waiting, Doubled
  <2>2. ASSUME NEW a \in Nat \ {0}, UNCHANGED <<base, cap>>,
               attempts' = a, wait' = Delay(a)
        PROVE  WaitDoubles'
    <3>1. PICK n : n = base * Pow2[a - 1]
      OBVIOUS
    <3>2. /\ n < Pow2[Width - 1] => Delay(a) = IF n > cap THEN cap ELSE n
          /\ Delay(a) = cap \/ OddPart(base) * Delay(a) >= n
      BY <3>1, DelayDoubles
    <3>3. base' = base /\ cap' = cap /\ Doubled' = n
      BY <2>2, <3>1 DEF Doubled
    <3>. QED
      BY <2>2, <3>2, <3>3 DEF WaitDoubles
  <2>. QED
    BY <2>1, <2>2, StepsWait DEF WaitDoubles
<1>. QED
  BY <1>1, <1>2, PTL DEF Spec
==============================================================================
