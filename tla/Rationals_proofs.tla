-------------------------- MODULE Rationals_proofs --------------------------
(***************************************************************************)
(* Induction over numbers, recursive functions, and the arithmetic of      *)
(* module Rationals.                                                       *)
(***************************************************************************)
EXTENDS Rationals, FiniteSetTheorems, WellFoundedInduction, SequenceTheorems, TLAPS

-----------------------------------------------------------------------------
(***************************************************************************)
(* Induction, in the form of a statement about sets of numbers.            *)
(***************************************************************************)

\* A set of numbers has a least one: intervals from 0 are finite, and finite
\* sets are well-founded under strict inclusion.
LEMMA LeastNumber ==
    ASSUME NEW T \in SUBSET Nat, T # {}
    PROVE  \E n \in T : \A m \in T : n <= m
<1> DEFINE R == StrictSubsetOrdering(Nat)
           D == {0 .. n : n \in T}
<1>1. D \subseteq FiniteSubsetsOf(Nat) /\ D # {}
  <2>1. ASSUME NEW n \in T PROVE 0 .. n \in FiniteSubsetsOf(Nat)
    <3>1. n \in Int /\ 0 \in Int /\ 0 .. n \in SUBSET Nat
      OBVIOUS
    <3>2. IsFiniteSet(0 .. n)
      BY <3>1, FS_Interval
    <3> QED
      BY <3>1, <3>2, Zenon DEF FiniteSubsetsOf
  <2> QED
    BY <2>1, Zenon
<1>2. \E d \in D : \A e \in D : ~(<<e, d>> \in R)
  <2> HIDE DEF R, D
  <2> QED
    BY <1>1, FS_StrictSubsetOrderingWellFounded, WFMin DEF R
<1>3. PICK n \in T : \A e \in D : ~(<<e, 0 .. n>> \in R)
  BY <1>2
<1>4. ASSUME NEW m \in T, m < n PROVE FALSE
  <2>1. 0 .. m \in D /\ <<0 .. m, 0 .. n>> \notin R
    BY <1>3
  <2>2. n \in 0 .. n /\ n \notin 0 .. m /\ 0 .. m \subseteq 0 .. n /\ 0 .. n \in SUBSET Nat
    BY <1>4
  <2> QED
    BY <2>1, <2>2 DEF StrictSubsetOrdering
<1> QED
  BY <1>4

\* A set of numbers that has 0 and each successor has all.
LEMMA Induction ==
    ASSUME NEW T \in SUBSET Nat, 0 \in T, \A n \in T : n + 1 \in T
    PROVE  T = Nat
<1> SUFFICES ASSUME T # Nat PROVE FALSE
  OBVIOUS
<1>1. Nat \ T \in SUBSET Nat /\ Nat \ T # {}
  OBVIOUS
<1>2. PICK n \in Nat \ T : \A m \in Nat \ T : n <= m
  BY <1>1, LeastNumber
<1>3. n - 1 \in T
  BY <1>2
<1> QED
  BY <1>2, <1>3

\* The same between two integers.
LEMMA IntervalInduction ==
    ASSUME NEW m \in Int, NEW n \in Int, NEW T, m <= n => m \in T,
           \A i \in m + 1 .. n : i - 1 \in T => i \in T
    PROVE  \A i \in m .. n : i \in T
<1> DEFINE U == {k \in Nat : m + k <= n => m + k \in T}
<1>1. 0 \in U
  BY SMT
<1>2. ASSUME NEW k \in U PROVE k + 1 \in U
  <2>1. k \in Nat /\ (m + k <= n => m + k \in T)
    OBVIOUS
  <2>2. CASE m + (k + 1) <= n
    <3>1. m + (k + 1) \in m + 1 .. n /\ m + (k + 1) - 1 = m + k /\ m + k <= n
      BY <2>1, <2>2
    <3> QED
      BY <2>1, <3>1
  <2> QED
    BY <2>1, <2>2
<1>3. U = Nat
  <2> HIDE DEF U
  <2>1. U \in SUBSET Nat
    BY DEF U
  <2> QED
    BY <1>1, <1>2, <2>1, Induction
<1>4. ASSUME NEW i \in m .. n PROVE i \in T
  <2>1. i - m \in Nat /\ m + (i - m) = i /\ m + (i - m) <= n
    OBVIOUS
  <2>2. i - m \in U
    BY <1>3, <2>1
  <2> QED
    BY <2>1, <2>2
<1> QED
  BY <1>4

\* What every step keeps, all values of a recursive function have.
LEMMA ValuesStay ==
    ASSUME NEW m \in Int, NEW n \in Int, NEW f, NEW V, f[m] \in V,
           \A i \in m .. n : i # m /\ f[i - 1] \in V => f[i] \in V
    PROVE  \A i \in m .. n : f[i] \in V
<1> DEFINE T == {i \in Int : f[i] \in V}
<1>1. \A i \in m + 1 .. n : i - 1 \in T => i \in T
  OBVIOUS
<1>2. \A i \in m .. n : i \in T
  <2>1. m \in T
    OBVIOUS
  <2> HIDE DEF T
  <2> QED
    BY <1>1, <2>1, IntervalInduction
<1> QED
  BY <1>2

Agree(f, g, i) == f[i] = g[i]

\* What takes the same steps from the same value is the same.
LEMMA SameValues ==
    ASSUME NEW m \in Int, NEW n \in Int, NEW f, NEW g, Agree(f, g, m),
           \A i \in m .. n : i # m /\ Agree(f, g, i - 1) => Agree(f, g, i)
    PROVE  \A i \in m .. n : Agree(f, g, i)
<1> DEFINE T == {i \in Int : Agree(f, g, i)}
<1>1. \A i \in m + 1 .. n : i - 1 \in T => i \in T
  OBVIOUS
<1>2. \A i \in m .. n : i \in T
  <2>1. m \in T
    OBVIOUS
  <2> HIDE DEF T
  <2> QED
    BY <1>1, <2>1, IntervalInduction
<1> QED
  BY <1>2

\* f on m .. n by recursion: the first value, and each step from the one before.
Recursion(f, V, m, n, first, step) ==
    /\ f \in [m .. n -> V]
    /\ \A i \in m .. n : f[i] = IF i = m THEN first ELSE step[<<f[i - 1], i>>]

\* A function on an interval that is defined by recursion exists.
LEMMA RecursiveFunction ==
    ASSUME NEW V, NEW first \in V, NEW m \in Int, NEW n \in Int,
           NEW step \in [V \X Int -> V]
    PROVE  \E f : Recursion(f, V, m, n, first, step)
<1> DEFINE Is(f, k) == /\ f \in [m .. m + k -> V] /\ f[m] = first
                       /\ \A i \in m + 1 .. m + k : f[i] = step[<<f[i - 1], i>>]
           T == {k \in Nat : \E f : Is(f, k)}
<1>1. 0 \in T
  <2>1. Is([i \in m .. m + 0 |-> first], 0)
    OBVIOUS
  <2> QED
    BY <2>1, Zenon
<1>2. ASSUME NEW k \in T PROVE k + 1 \in T
  <2>1. k \in Nat /\ \E f : Is(f, k)
    OBVIOUS
  <2>2. PICK f : Is(f, k)
    BY <2>1, Zenon
  <2> DEFINE g == [i \in m .. m + (k + 1) |-> IF i <= m + k THEN f[i] ELSE step[<<f[m + k], i>>]]
  <2>3. f[m + k] \in V /\ \A i \in m .. m + k : f[i] \in V
    BY <2>1, <2>2
  <2>4. g \in [m .. m + (k + 1) -> V]
    BY <2>1, <2>3
  <2>5. g[m] = first
    BY <2>1, <2>2
  <2>6. ASSUME NEW i \in m + 1 .. m + (k + 1) PROVE g[i] = step[<<g[i - 1], i>>]
    <3>1. i - 1 \in m .. m + k /\ g[i - 1] = f[i - 1]
      BY <2>1
    <3>2. CASE i <= m + k
      <4>1. i \in m + 1 .. m + k /\ g[i] = f[i] /\ g[i - 1] = f[i - 1]
        BY <2>1, <3>1, <3>2
      <4> QED
        BY <2>2, <4>1
    <3>3. CASE i = m + (k + 1)
      BY <2>1, <3>1, <3>3
    <3> QED
      BY <2>1, <3>2, <3>3
  <2>7. Is(g, k + 1)
    BY <2>4, <2>5, <2>6
  <2>8. k + 1 \in Nat
    BY <2>1
  <2> QED
    BY <2>7, <2>8, Zenon
<1>3. T = Nat
  <2> HIDE DEF T
  <2>1. T \in SUBSET Nat
    BY DEF T
  <2> QED
    BY <1>1, <1>2, <2>1, Induction
<1>4. CASE m <= n
  <2>1. n - m \in Nat
    BY <1>4
  <2>2. PICK f : Is(f, n - m)
    <3>1. n - m \in T
      BY <1>3, <2>1
    <3> QED
      BY <3>1, Zenon
  <2>3. m + (n - m) = n
    OBVIOUS
  <2>4. Recursion(f, V, m, n, first, step)
    BY <2>2, <2>3 DEF Recursion
  <2> QED
    BY <2>4
<1>5. CASE n < m
  <2>1. m .. n = {}
    BY <1>5
  <2>2. Recursion([i \in m .. n |-> first], V, m, n, first, step)
    BY <2>1 DEF Recursion
  <2> QED
    BY <2>2
<1> QED
  BY <1>4, <1>5

-----------------------------------------------------------------------------
(***************************************************************************)
(* The greatest common divisor: the recursive function exists, because the *)
(* divisor defined without recursion satisfies its equation.               *)
(***************************************************************************)

Divides(d, a) == \E k \in Int : a = d * k
Common(a, b) == {d \in Nat : Divides(d, a) /\ Divides(d, b)}
Greatest(S) == CHOOSE g \in S : \A d \in S : d <= g

\* The step of the algorithm keeps the common divisors.
LEMMA DividesRemainder ==
    ASSUME NEW a \in Nat, NEW b \in Nat \ {0}, NEW d \in Nat
    PROVE  Divides(d, a) /\ Divides(d, b) <=> Divides(d, b) /\ Divides(d, a % b)
<1>1. a = b * (a \div b) + (a % b) /\ a \div b \in Int /\ a % b \in Nat
  <2>1. b > 0 /\ a \in Int /\ b \in Int
    OBVIOUS
  <2>2. a = b * (a \div b) + (a % b)
    BY <2>1, SMTT(30)
  <2>3. a \div b \in Int
    BY <2>1
  <2>4. a % b \in Nat
    BY <2>1
  <2> QED
    BY <2>2, <2>3, <2>4
<1> DEFINE q == a \div b
           r == a % b
<1> HIDE DEF q, r
<1>2. ASSUME NEW k \in Int, NEW l \in Int, a = d * k, b = d * l PROVE Divides(d, r)
  <2>1. r = d * (k - l * q) /\ k - l * q \in Int
    BY <1>1, <1>2 DEF q, r
  <2> QED
    BY <2>1 DEF Divides
<1>3. ASSUME NEW k \in Int, NEW l \in Int, r = d * k, b = d * l PROVE Divides(d, a)
  <2>1. a = (d * l) * q + d * k
    BY <1>1, <1>3 DEF q, r
  <2>2. q \in Int
    BY <1>1 DEF q
  <2>3. a = d * (l * q + k) /\ l * q + k \in Int
    BY <2>1, <2>2
  <2> QED
    BY <2>3 DEF Divides
<1> QED
  BY <1>2, <1>3 DEF Divides, r

\* Divisors of a positive number are between 1 and it.
LEMMA DivisorIsNotLarger ==
    ASSUME NEW d \in Nat, NEW a \in Nat \ {0}, Divides(d, a)
    PROVE  1 <= d /\ d <= a
<1>1. PICK k \in Int : a = d * k
  BY DEF Divides
<1>2. k >= 1 /\ d >= 1
  <2>1. CASE d = 0
    <3>1. d * k = 0
      BY <2>1
    <3> QED
      BY <1>1, <3>1
  <2>2. CASE d >= 1 /\ k <= 0
    <3>1. d * k <= 0
      BY <2>2
    <3> QED
      BY <1>1, <3>1
  <2> QED
    BY <2>1, <2>2
<1>3. d * k >= d * 1
  BY <1>2
<1> QED
  BY <1>1, <1>2, <1>3

\* gcd satisfies its definition.
LEMMA GcdEquation ==
    \A a, b \in Nat : gcd[<<a, b>>] = IF b = 0 THEN a ELSE gcd[<<b, a % b>>]
<1> DEFINE F(f) == [p \in Nat \X Nat |-> IF p[2] = 0 THEN p[1] ELSE f[<<p[2], p[1] % p[2]>>]]
           G == [p \in Nat \X Nat |-> IF p = <<0, 0>> THEN 0 ELSE Greatest(Common(p[1], p[2]))]
<1>1. ASSUME NEW a \in Nat, NEW b \in Nat, b # 0 PROVE G[<<a, b>>] = G[<<b, a % b>>]
  <2>1. <<a, b>> \in Nat \X Nat /\ <<b, a % b>> \in Nat \X Nat
    BY <1>1
  <2>2. Common(a, b) = Common(b, a % b)
    BY <1>1, DividesRemainder DEF Common
  <2>3. <<a, b>> # <<0, 0>> /\ <<b, a % b>> # <<0, 0>>
    BY <1>1
  <2> QED
    BY <2>1, <2>2, <2>3
<1>2. ASSUME NEW a \in Nat PROVE G[<<a, 0>>] = a
  <2>1. CASE a = 0
    BY <2>1
  <2>2. CASE a # 0
    <3>1. a = a * 1 /\ 0 = a * 0
      OBVIOUS
    <3>2. a \in Common(a, 0)
      BY <3>1 DEF Common, Divides
    <3>3. \A d \in Common(a, 0) : d <= a
      BY <2>2, DivisorIsNotLarger DEF Common
    <3>4. \E g \in Common(a, 0) : \A d \in Common(a, 0) : d <= g
      BY <3>2, <3>3
    <3>5. /\ Greatest(Common(a, 0)) \in Common(a, 0)
          /\ \A d \in Common(a, 0) : d <= Greatest(Common(a, 0))
      BY <3>4 DEF Greatest
    <3>6. Greatest(Common(a, 0)) \in Nat
      BY <3>5 DEF Common
    <3>7. Greatest(Common(a, 0)) = a
      BY <3>2, <3>3, <3>5, <3>6
    <3>8. <<a, 0>> \in Nat \X Nat /\ <<a, 0>> # <<0, 0>>
      BY <2>2
    <3> QED
      BY <3>7, <3>8
  <2> QED
    BY <2>1, <2>2
<1>3. G = F(G)
  <2>1. ASSUME NEW p \in Nat \X Nat PROVE G[p] = IF p[2] = 0 THEN p[1] ELSE G[<<p[2], p[1] % p[2]>>]
    <3>1. p[1] \in Nat /\ p[2] \in Nat /\ p = <<p[1], p[2]>>
      OBVIOUS
    <3> HIDE DEF G
    <3> QED
      BY <3>1, <1>1, <1>2
  <2>2. G = [p \in Nat \X Nat |-> G[p]]
    OBVIOUS
  <2> HIDE DEF G
  <2> QED
    BY <2>1, <2>2
<1>4. \E f : f = F(f)
  <2> HIDE DEF G, F
  <2> QED
    BY <1>3
<1>5. gcd = F(gcd)
  BY <1>4, Zenon DEF gcd
<1>6. ASSUME NEW a \in Nat, NEW b \in Nat PROVE gcd[<<a, b>>] = IF b = 0 THEN a ELSE gcd[<<b, a % b>>]
  <2>1. <<a, b>> \in Nat \X Nat
    OBVIOUS
  <2> QED
    BY <1>5, <2>1
<1> QED
  BY <1>6

\* The divisor is positive and divides both numbers, unless both are 0.
LEMMA GcdDivides ==
    ASSUME NEW a \in Nat, NEW b \in Nat, a # 0 \/ b # 0
    PROVE  gcd[<<a, b>>] \in Nat \ {0} /\ Divides(gcd[<<a, b>>], a) /\ Divides(gcd[<<a, b>>], b)
<1> DEFINE P(x, y) == /\ gcd[<<x, y>>] \in Nat \ {0}
                      /\ Divides(gcd[<<x, y>>], x) /\ Divides(gcd[<<x, y>>], y)
           T == {n \in Nat : \A y \in 0 .. n : \A x \in Nat : x # 0 \/ y # 0 => P(x, y)}
<1>1. ASSUME NEW x \in Nat, x # 0 PROVE P(x, 0)
  <2>1. gcd[<<x, 0>>] = x
    BY GcdEquation
  <2>2. x = x * 1 /\ 0 = x * 0
    OBVIOUS
  <2> QED
    BY <1>1, <2>1, <2>2 DEF Divides
<1>2. ASSUME NEW x \in Nat, NEW y \in Nat \ {0}, P(y, x % y) PROVE P(x, y)
  <2>1. gcd[<<x, y>>] = gcd[<<y, x % y>>]
    BY GcdEquation
  <2> QED
    BY <1>2, <2>1, DividesRemainder
<1>3. 0 \in T
  <2>1. ASSUME NEW y \in 0 .. 0, NEW x \in Nat, x # 0 \/ y # 0 PROVE P(x, y)
    BY <1>1, <2>1
  <2> QED
    BY <2>1
<1>4. ASSUME NEW n \in T PROVE n + 1 \in T
  <2>1. n \in Nat /\ \A y \in 0 .. n : \A x \in Nat : x # 0 \/ y # 0 => P(x, y)
    OBVIOUS
  <2> HIDE DEF P
  <2>2. ASSUME NEW y \in 0 .. n + 1, NEW x \in Nat, x # 0 \/ y # 0 PROVE P(x, y)
    <3>1. CASE y = 0
      BY <1>1, <2>2, <3>1
    <3>2. CASE y # 0
      <4>1. y \in Nat \ {0} /\ x % y \in 0 .. n
        BY <2>1, <3>2
      <4> QED
        BY <1>2, <2>1, <4>1
    <3> QED
      BY <3>1, <3>2
  <2> QED
    BY <2>1, <2>2
<1>5. T = Nat
  <2> HIDE DEF T
  <2>1. T \in SUBSET Nat
    BY DEF T
  <2> QED
    BY <1>3, <1>4, <2>1, Induction
<1>6. \A y \in 0 .. b : \A x \in Nat : x # 0 \/ y # 0 => P(x, y)
  <2> HIDE DEF P
  <2> QED
    BY <1>5
<1> QED
  BY <1>6

-----------------------------------------------------------------------------
(***************************************************************************)
(* Values: x is the number p / q.  Everything that the operators do is     *)
(* stated with it, and their results are compared in integers.             *)
(***************************************************************************)

Rat == Int \X (Nat \ {0})
Is(x, p, q) == x \in Rat /\ p \in Int /\ q \in Nat \ {0} /\ x[1] * q = p * x[2]

\* Division by a positive number, where it leaves no remainder.
LEMMA ExactDivision ==
    ASSUME NEW g \in Nat \ {0}, NEW k \in Int
    PROVE  (g * k) \div g = k
<1>1. /\ (g * k) \div g \in Int /\ (g * k) % g \in 0 .. g - 1
      /\ g * k = g * ((g * k) \div g) + ((g * k) % g)
  <2>1. g * k \in Int /\ g > 0 /\ g \in Int
    OBVIOUS
  <2>2. \A a \in Int : a \div g \in Int /\ a % g \in 0 .. g - 1 /\ a = g * (a \div g) + (a % g)
    BY <2>1
  <2> QED
    BY <2>1, <2>2
<1> DEFINE q == (g * k) \div g
           r == (g * k) % g
<1> HIDE DEF q, r
<1>2. q \in Int /\ r \in 0 .. g - 1 /\ g * k = g * q + r
  BY <1>1 DEF q, r
<1>3. CASE q < k
  <2>1. g * (q + 1) <= g * k
    BY <1>2, <1>3
  <2>2. g * (q + 1) = g * q + g
    BY <1>2
  <2> QED
    BY <1>2, <2>1, <2>2
<1>4. CASE q > k
  <2>1. g * (k + 1) <= g * q
    BY <1>2, <1>4
  <2>2. g * (k + 1) = g * k + g
    BY <1>2
  <2> QED
    BY <1>2, <2>1, <2>2
<1>5. q = k
  BY <1>2, <1>3, <1>4
<1> QED
  BY <1>5 DEF q

\* Ratio(a, b) is the number a / b.
LEMMA RatioValue ==
    ASSUME NEW a \in Int, NEW b \in Int \ {0}
    PROVE  IF b > 0 THEN Is(Ratio(a, b), a, b) ELSE Is(Ratio(a, b), -a, -b)
<1> DEFINE c == IF b < 0 THEN -a ELSE a
           d == Size(b)
           g == gcd[<<Size(a), d>>]
<1>1. /\ Size(a) \in Nat /\ d \in Nat \ {0} /\ c \in Int
      /\ c = Size(a) \/ c = -Size(a)
      /\ IF b > 0 THEN c = a /\ d = b ELSE c = -a /\ d = -b
  BY DEF Size, Larger
<1>2. Ratio(a, b) = LowestTerms(c, d, g)
  BY DEF Ratio
<1> HIDE DEF c, d
<1>3. g \in Nat \ {0} /\ Divides(g, Size(a)) /\ Divides(g, d)
  BY <1>1, GcdDivides
<1> HIDE DEF g
<1>4. PICK m \in Int : Size(a) = g * m
  BY <1>3 DEF Divides
<1>5. PICK l \in Int : d = g * l
  BY <1>3 DEF Divides
<1>6. PICK k \in Int : c = g * k
  <2>1. Size(a) = g * m /\ -Size(a) = g * (-m) /\ -m \in Int
    BY <1>3, <1>4
  <2> QED
    BY <1>1, <2>1
<1>7. c \div g = k /\ d \div g = l
  BY <1>3, <1>5, <1>6, ExactDivision
<1>8. l >= 1
  <2>1. l <= 0 => g * l <= 0
    BY <1>3
  <2> QED
    BY <1>1, <1>5, <2>1
<1>9. k * d = c * l
  <2>1. k * (g * l) = (g * k) * l
    BY <1>3
  <2> QED
    BY <1>5, <1>6, <2>1
<1>10. Is(Ratio(a, b), c, d)
  BY <1>1, <1>2, <1>7, <1>8, <1>9 DEF Is, Rat, LowestTerms
<1> QED
  BY <1>1, <1>10

\* A positive factor can be cancelled.
LEMMA Cancel ==
    ASSUME NEW a \in Int, NEW b \in Int, NEW c \in Nat \ {0}
    PROVE  /\ a * c = b * c => a = b
           /\ a * c <= b * c <=> a <= b
           /\ a * c < b * c <=> a < b
<1>1. a < b => a * c < b * c
  <2>1. SUFFICES ASSUME a < b PROVE 0 < (b - a) * c
    OBVIOUS
  <2> QED
    BY <2>1
<1>2. b < a => b * c < a * c
  <2>1. SUFFICES ASSUME b < a PROVE 0 < (a - b) * c
    OBVIOUS
  <2> QED
    BY <2>1
<1>3. a * c \in Int /\ b * c \in Int
  OBVIOUS
<1> QED
  BY <1>1, <1>2, <1>3

\* Two fractions of the same value.
LEMMA SameValue ==
    ASSUME NEW x, NEW a, NEW b, Is(x, a, b), NEW p \in Int, NEW q \in Nat \ {0}, a * q = p * b
    PROVE  Is(x, p, q)
<1>1. /\ x \in Rat /\ x[1] \in Int /\ x[2] \in Nat \ {0}
      /\ a \in Int /\ b \in Nat \ {0} /\ x[1] * b = a * x[2]
  BY DEF Is, Rat
<1>2. (x[1] * q) * b = (x[1] * b) * q
  BY <1>1
<1>3. (x[1] * b) * q = (a * q) * x[2]
  BY <1>1
<1>4. (p * b) * x[2] = (p * x[2]) * b
  BY <1>1
<1>5. (x[1] * q) * b = (p * x[2]) * b
  BY <1>2, <1>3, <1>4
<1>6. x[1] * q \in Int /\ p * x[2] \in Int
  BY <1>1
<1>7. x[1] * q = p * x[2]
  BY <1>1, <1>5, <1>6, Cancel
<1> QED
  BY <1>1, <1>7 DEF Is

\* A rational is the number that its two parts say.
LEMMA SelfValue ==
    ASSUME NEW x \in Rat
    PROVE  Is(x, x[1], x[2]) /\ x[1] \in Int /\ x[2] \in Nat \ {0}
BY DEF Is, Rat

\* So is an integer.
LEMMA NumValue == \A a \in Int : Is(Num(a), a, 1)
BY DEF Is, Num, Rat

\* A rational is one number only.
LEMMA UniqueValue ==
    ASSUME NEW x, NEW p, NEW q, NEW r, NEW s, Is(x, p, q), Is(x, r, s)
    PROVE  p * s = r * q
<1>1. /\ x[1] \in Int /\ x[2] \in Nat \ {0} /\ p \in Int /\ q \in Nat \ {0} /\ r \in Int /\ s \in Nat \ {0}
      /\ x[1] * q = p * x[2] /\ x[1] * s = r * x[2]
  BY DEF Is, Rat
<1>2. (p * s) * x[2] = (p * x[2]) * s
  BY <1>1
<1>3. (x[1] * q) * s = (x[1] * s) * q
  BY <1>1
<1>4. (r * x[2]) * q = (r * q) * x[2]
  BY <1>1
<1>5. (p * s) * x[2] = (r * q) * x[2] /\ p * s \in Int /\ r * q \in Int
  BY <1>1, <1>2, <1>3, <1>4
<1> QED
  BY <1>1, <1>5, Cancel

\* The sum is formed over the least common denominator.
LEMMA PlusOfParts ==
    ASSUME NEW x \in Rat, NEW y \in Rat
    PROVE  Is(Plus(x, y), x[1] * y[2] + y[1] * x[2], x[2] * y[2])
<1>1. x[1] \in Int /\ x[2] \in Nat \ {0} /\ y[1] \in Int /\ y[2] \in Nat \ {0}
  BY DEF Rat
<1> DEFINE g == gcd[<<x[2], y[2]>>]
<1>2. g \in Nat \ {0} /\ Divides(g, x[2]) /\ Divides(g, y[2])
  BY <1>1, GcdDivides
<1>3. Plus(x, y) = OverCommon(x, y, g)
  BY DEF Plus
<1> HIDE DEF g
<1>4. PICK k \in Int : x[2] = g * k
  BY <1>2 DEF Divides
<1>5. PICK l \in Int : y[2] = g * l
  BY <1>2 DEF Divides
<1>6. k >= 1 /\ l >= 1
  <2>1. (k <= 0 => g * k <= 0) /\ (l <= 0 => g * l <= 0)
    BY <1>2
  <2> QED
    BY <1>1, <1>4, <1>5, <2>1
<1>7. x[2] \div g = k /\ y[2] \div g = l
  BY <1>2, <1>4, <1>5, ExactDivision
<1> DEFINE n == x[1] * l + y[1] * k
           d == x[2] * l
<1>8. n \in Int /\ d \in Nat \ {0} /\ x[1] * y[2] + y[1] * x[2] \in Int /\ x[2] * y[2] \in Nat \ {0}
  <2>1. x[2] * l > 0 /\ x[2] * y[2] > 0
    BY <1>1, <1>6
  <2> QED
    BY <1>1, <2>1
<1>9. Is(Plus(x, y), n, d)
  <2>1. Plus(x, y) = Ratio(n, d)
    BY <1>3, <1>7 DEF OverCommon
  <2> HIDE DEF n, d
  <2> QED
    BY <1>8, <2>1, RatioValue
<1>10. n * (x[2] * y[2]) = (x[1] * y[2] + y[1] * x[2]) * d
  <2>1. n * (x[2] * (g * l)) = (x[1] * (g * l) + y[1] * (g * k)) * (x[2] * l)
    BY <1>1, <1>2
  <2> QED
    BY <1>4, <1>5, <2>1
<1> HIDE DEF n, d
<1> QED
  BY <1>8, <1>9, <1>10, SameValue

\* The operators add, subtract, multiply and divide.
LEMMA PlusValue ==
    ASSUME NEW x, NEW y, NEW p, NEW q, NEW r, NEW s, Is(x, p, q), Is(y, r, s)
    PROVE  Is(Plus(x, y), p * s + r * q, q * s)
<1>1. /\ x[1] \in Int /\ x[2] \in Nat \ {0} /\ y[1] \in Int /\ y[2] \in Nat \ {0}
      /\ x[1] * q = p * x[2] /\ y[1] * s = r * y[2]
      /\ p \in Int /\ q \in Nat \ {0} /\ r \in Int /\ s \in Nat \ {0} /\ x \in Rat /\ y \in Rat
  BY DEF Is, Rat
<1>2. Is(Plus(x, y), x[1] * y[2] + y[1] * x[2], x[2] * y[2])
  BY <1>1, PlusOfParts
<1>3. (x[1] * y[2] + y[1] * x[2]) * (q * s) = (x[1] * q) * (y[2] * s) + (y[1] * s) * (x[2] * q)
  BY <1>1
<1>4. (p * x[2]) * (y[2] * s) + (r * y[2]) * (x[2] * q) = (p * s + r * q) * (x[2] * y[2])
  BY <1>1
<1>5. p * s + r * q \in Int /\ q * s \in Nat \ {0}
  <2>1. q * s > 0
    BY <1>1
  <2> QED
    BY <1>1, <2>1
<1>6. (x[1] * y[2] + y[1] * x[2]) * (q * s) = (p * s + r * q) * (x[2] * y[2])
  BY <1>1, <1>3, <1>4
<1> QED
  BY <1>2, <1>5, <1>6, SameValue

LEMMA MinusValue ==
    ASSUME NEW x, NEW y, NEW p, NEW q, NEW r, NEW s, Is(x, p, q), Is(y, r, s)
    PROVE  Is(Minus(x, y), p * s - r * q, q * s)
<1>1. /\ p \in Int /\ q \in Nat \ {0} /\ r \in Int /\ s \in Nat \ {0}
      /\ y[1] \in Int /\ y[2] \in Nat \ {0} /\ y[1] * s = r * y[2]
  BY DEF Is, Rat
<1>2. Is(<<-y[1], y[2]>>, -r, s)
  <2>1. (-y[1]) * s = (-r) * y[2]
    <3>1. (-y[1]) * s = -(y[1] * s) /\ (-r) * y[2] = -(r * y[2])
      BY <1>1
    <3> QED
      BY <1>1, <3>1
  <2> QED
    BY <1>1, <2>1 DEF Is, Rat
<1>3. Is(Minus(x, y), p * s + (-r) * q, q * s)
  BY <1>2, PlusValue DEF Minus
<1>4. p * s + (-r) * q = p * s - r * q
  BY <1>1
<1> QED
  BY <1>3, <1>4

LEMMA TimesValue ==
    ASSUME NEW x, NEW y, NEW p, NEW q, NEW r, NEW s, Is(x, p, q), Is(y, r, s)
    PROVE  Is(Times(x, y), p * r, q * s)
<1>1. /\ x[1] \in Int /\ x[2] \in Nat \ {0} /\ y[1] \in Int /\ y[2] \in Nat \ {0}
      /\ x[1] * q = p * x[2] /\ y[1] * s = r * y[2]
      /\ p \in Int /\ q \in Nat \ {0} /\ r \in Int /\ s \in Nat \ {0}
  BY DEF Is, Rat
<1>2. x[1] * y[1] \in Int /\ x[2] * y[2] \in Nat \ {0} /\ p * r \in Int /\ q * s \in Nat \ {0}
  <2>1. x[2] * y[2] > 0 /\ q * s > 0
    BY <1>1
  <2> QED
    BY <1>1, <2>1
<1>3. Is(Times(x, y), x[1] * y[1], x[2] * y[2])
  BY <1>2, RatioValue DEF Times
<1>4. (x[1] * y[1]) * (q * s) = (x[1] * q) * (y[1] * s)
  BY <1>1
<1>5. (p * x[2]) * (r * y[2]) = (p * r) * (x[2] * y[2])
  BY <1>1
<1>6. (x[1] * y[1]) * (q * s) = (p * r) * (x[2] * y[2])
  BY <1>1, <1>4, <1>5
<1> QED
  BY <1>2, <1>3, <1>6, SameValue

LEMMA OverValue ==
    ASSUME NEW x, NEW y, NEW p, NEW q, NEW r, NEW s, Is(x, p, q), Is(y, r, s), r > 0
    PROVE  Is(Over(x, y), p * s, q * r)
<1>1. /\ x[1] \in Int /\ x[2] \in Nat \ {0} /\ y[1] \in Int /\ y[2] \in Nat \ {0}
      /\ x[1] * q = p * x[2] /\ y[1] * s = r * y[2]
      /\ p \in Int /\ q \in Nat \ {0} /\ r \in Nat \ {0} /\ s \in Nat \ {0}
  BY DEF Is, Rat
<1>2. y[1] > 0
  <2>1. r * y[2] > 0
    BY <1>1
  <2>2. y[1] <= 0 => y[1] * s <= 0
    BY <1>1
  <2> QED
    BY <1>1, <2>1, <2>2
<1>3. x[1] * y[2] \in Int /\ x[2] * y[1] \in Nat \ {0} /\ p * s \in Int /\ q * r \in Nat \ {0}
  <2>1. x[2] * y[1] > 0 /\ q * r > 0
    BY <1>1, <1>2
  <2> QED
    BY <1>1, <2>1
<1>4. Is(Over(x, y), x[1] * y[2], x[2] * y[1])
  BY <1>3, RatioValue DEF Over
<1>5. (x[1] * y[2]) * (q * r) = (x[1] * q) * (r * y[2])
  <2>1. x[1] \in Int /\ y[2] \in Int /\ q \in Int /\ r \in Int
    BY <1>1
  <2> QED
    BY ONLY <2>1
<1>6. (p * x[2]) * (y[1] * s) = (p * s) * (x[2] * y[1])
  BY <1>1
<1>7. (x[1] * y[2]) * (q * r) = (p * s) * (x[2] * y[1])
  BY <1>1, <1>5, <1>6
<1> QED
  BY <1>3, <1>4, <1>7, SameValue

\* Leq and Less compare.
LEMMA Order ==
    ASSUME NEW x, NEW y, NEW p, NEW q, NEW r, NEW s, Is(x, p, q), Is(y, r, s)
    PROVE  (Leq(x, y) <=> p * s <= r * q) /\ (Less(x, y) <=> p * s < r * q)
<1> DEFINE z == Minus(x, y)
           n == p * s - r * q
<1>1. Is(z, n, q * s)
  BY MinusValue
<1>2. /\ p \in Int /\ q \in Nat \ {0} /\ r \in Int /\ s \in Nat \ {0}
      /\ z[1] \in Int /\ z[2] \in Nat \ {0} /\ n \in Int /\ q * s \in Nat \ {0}
      /\ z[1] * (q * s) = n * z[2]
  BY <1>1 DEF Is, Rat
<1>3. (n <= 0 <=> z[1] <= 0) /\ (n < 0 <=> z[1] < 0)
  <2> HIDE DEF z, n
  <2> DEFINE c == q * s
  <2>1. c \in Nat \ {0} /\ z[1] * c = n * z[2]
    BY <1>2
  <2> HIDE DEF c
  <2>2. /\ 0 * c = 0 /\ 0 * z[2] = 0
        /\ n * z[2] <= 0 * z[2] <=> n <= 0
        /\ n * z[2] < 0 * z[2] <=> n < 0
        /\ z[1] * c <= 0 * c <=> z[1] <= 0
        /\ z[1] * c < 0 * c <=> z[1] < 0
    BY <1>2, <2>1, Cancel
  <2> QED
    BY <2>1, <2>2
<1>4. p * s \in Int /\ r * q \in Int
  BY <1>2
<1> QED
  BY <1>3, <1>4 DEF Leq, Less

\* The results are rationals again.
LEMMA Closed ==
    ASSUME NEW x \in Rat, NEW y \in Rat
    PROVE  /\ Plus(x, y) \in Rat /\ Minus(x, y) \in Rat /\ Times(x, y) \in Rat
           /\ y[1] > 0 => Over(x, y) \in Rat
<1>1. Is(x, x[1], x[2]) /\ Is(y, y[1], y[2])
  BY SelfValue
<1>2. Is(Plus(x, y), x[1] * y[2] + y[1] * x[2], x[2] * y[2])
  BY <1>1, PlusValue
<1>3. Is(Minus(x, y), x[1] * y[2] - y[1] * x[2], x[2] * y[2])
  BY <1>1, MinusValue
<1>4. Is(Times(x, y), x[1] * y[1], x[2] * y[2])
  BY <1>1, TimesValue
<1>5. y[1] > 0 => Is(Over(x, y), x[1] * y[2], x[2] * y[1])
  BY <1>1, OverValue
<1> QED
  BY <1>2, <1>3, <1>4, <1>5 DEF Is

-----------------------------------------------------------------------------
(***************************************************************************)
(* Sums.                                                                   *)
(***************************************************************************)

\* A function on 1 .. n is a sequence.
LEMMA FunctionIsSequence ==
    ASSUME NEW S, NEW n \in Nat, NEW f \in [1 .. n -> S]
    PROVE  f \in Seq(S) /\ Len(f) = n
OBVIOUS

\* Sums satisfies its definition.
LEMMA SumsEquation ==
    ASSUME NEW s \in Seq(Rat)
    PROVE  /\ Sums(s) \in [0 .. Len(s) -> Rat] /\ Sums(s)[0] = Zero
           /\ \A i \in 1 .. Len(s) : Sums(s)[i] = Plus(Sums(s)[i - 1], s[i])
<1> DEFINE n == Len(s)
           F(f) == [i \in 0 .. n |-> IF i = 0 THEN Zero ELSE Plus(f[i - 1], s[i])]
           step == [q \in Rat \X Int |-> IF q[2] \in 1 .. n THEN Plus(q[1], s[q[2]]) ELSE Zero]
<1>1. n \in Nat /\ Zero \in Rat /\ \A i \in 1 .. n : s[i] \in Rat
  BY DEF Zero, Num, Rat
<1>2. step \in [Rat \X Int -> Rat]
  <2>1. ASSUME NEW q \in Rat \X Int PROVE (IF q[2] \in 1 .. n THEN Plus(q[1], s[q[2]]) ELSE Zero) \in Rat
    BY <1>1, Closed
  <2> QED
    BY <2>1
<1>3. PICK f : Recursion(f, Rat, 0, n, Zero, step)
  <2>1. Zero \in Rat /\ 0 \in Int /\ n \in Int
    BY <1>1
  <2> HIDE DEF step, n
  <2> QED
    BY <1>2, <2>1, RecursiveFunction
<1>4. f = F(f)
  <2>1. ASSUME NEW i \in 0 .. n
        PROVE  (IF i = 0 THEN Zero ELSE step[<<f[i - 1], i>>]) = IF i = 0 THEN Zero ELSE Plus(f[i - 1], s[i])
    <3>1. CASE i = 0
      BY <3>1
    <3>2. CASE i # 0
      <4>1. i \in 1 .. n /\ i - 1 \in 0 .. n
        BY <1>1, <3>2
      <4>2. f[i - 1] \in Rat
        BY <1>3, <4>1 DEF Recursion
      <4>3. step[<<f[i - 1], i>>] = Plus(f[i - 1], s[i])
        BY <4>1, <4>2
      <4> QED
        BY <3>2, <4>3
    <3> QED
      BY <3>1, <3>2
  <2> HIDE DEF step, n
  <2> QED
    BY <1>3, <2>1 DEF Recursion
<1>5. Sums(s) = F(Sums(s))
  BY <1>4, Zenon DEF Sums
<1>6. ASSUME NEW g, g = F(g)
      PROVE  /\ g \in [0 .. n -> Rat] /\ g[0] = Zero
             /\ \A i \in 1 .. n : g[i] = Plus(g[i - 1], s[i])
  <2>1. g[0] = Zero /\ \A i \in 1 .. n : g[i] = Plus(g[i - 1], s[i])
    BY <1>1, <1>6
  <2>2. ASSUME NEW i \in 0 .. n, i # 0, g[i - 1] \in Rat PROVE g[i] \in Rat
    BY <1>1, <2>1, <2>2, Closed
  <2>3. \A i \in 0 .. n : g[i] \in Rat
    <3>1. 0 \in Int /\ n \in Int /\ g[0] \in Rat
      BY <1>1, <2>1
    <3> HIDE DEF n
    <3> QED
      BY <2>2, <3>1, ValuesStay, Zenon
  <2>4. g = [i \in 0 .. n |-> g[i]]
    BY <1>6
  <2> QED
    BY <2>1, <2>3, <2>4
<1> QED
  <2> HIDE DEF F
  <2> QED
    BY <1>5, <1>6

\* The values of a part of a sequence.
LEMMA SubSequence ==
    ASSUME NEW S, NEW s \in Seq(S), NEW m \in 1 .. Len(s), NEW n \in m .. Len(s)
    PROVE  /\ SubSeq(s, m, n) \in Seq(S) /\ SubSeq(s, m, n) # <<>> /\ Len(SubSeq(s, m, n)) = n - m + 1
           /\ \A i \in 1 .. n - m + 1 : SubSeq(s, m, n)[i] = s[m + i - 1]
<1>1. Len(s) \in Nat /\ \A i \in 1 .. Len(s) : s[i] \in S
  BY LenProperties, ElementOfSeq
<1>2. m \in Int /\ n \in Int /\ m <= n /\ \A i \in m .. n : s[i] \in S
  BY <1>1
<1>3. /\ SubSeq(s, m, n) \in Seq(S)
      /\ Len(SubSeq(s, m, n)) = IF m <= n THEN n - m + 1 ELSE 0
      /\ \A i \in 1 .. n - m + 1 : SubSeq(s, m, n)[i] = s[m + i - 1]
  BY <1>2, SubSeqProperties
<1>4. Len(SubSeq(s, m, n)) = n - m + 1 /\ n - m + 1 # 0
  BY <1>2, <1>3
<1> QED
  BY <1>3, <1>4, EmptySeq

\* A mean is a rational.
LEMMA MeanIsRat ==
    ASSUME NEW s \in Seq(Rat), s # <<>>
    PROVE  Mean(s) \in Rat
<1>1. Len(s) \in Nat \ {0}
  BY EmptySeq
<1>2. Total(s) \in Rat
  BY <1>1, SumsEquation DEF Total
<1>3. Num(Len(s)) \in Rat /\ Num(Len(s))[1] > 0
  BY <1>1 DEF Num, Rat
<1> QED
  BY <1>2, <1>3, Closed DEF Mean

-----------------------------------------------------------------------------
(***************************************************************************)
(* Signs, and numbers that are not negative.                               *)
(***************************************************************************)

\* The sign of a number is that of its numerator.
LEMMA Sign ==
    ASSUME NEW x, NEW p, NEW q, Is(x, p, q)
    PROVE  (x[1] >= 0 <=> p >= 0) /\ (x[1] > 0 <=> p > 0)
<1>1. /\ x[1] \in Int /\ x[2] \in Nat \ {0} /\ p \in Int /\ q \in Nat \ {0}
      /\ x[1] * q = p * x[2]
  BY DEF Is, Rat
<1>2. /\ 0 * q = 0 /\ 0 * x[2] = 0
      /\ 0 * q <= x[1] * q <=> 0 <= x[1]
      /\ 0 * q < x[1] * q <=> 0 < x[1]
      /\ 0 * x[2] <= p * x[2] <=> 0 <= p
      /\ 0 * x[2] < p * x[2] <=> 0 < p
  BY <1>1, Cancel
<1> QED
  BY <1>1, <1>2

NonNegative == {x \in Rat : x[1] >= 0}

\* Sums, products and quotients of numbers that are not negative are not.
LEMMA NonNegativeClosed ==
    ASSUME NEW x \in NonNegative, NEW y \in NonNegative
    PROVE  /\ Plus(x, y) \in NonNegative /\ Times(x, y) \in NonNegative
           /\ y[1] > 0 => Over(x, y) \in NonNegative
<1>1. /\ Is(x, x[1], x[2]) /\ Is(y, y[1], y[2]) /\ x \in Rat /\ y \in Rat
      /\ x[1] \in Nat /\ y[1] \in Nat /\ x[2] \in Nat /\ y[2] \in Nat
  BY SelfValue DEF NonNegative
<1>2. x[1] * y[2] + y[1] * x[2] >= 0 /\ x[1] * y[1] >= 0 /\ x[1] * y[2] >= 0
  BY <1>1
<1>3. Is(Plus(x, y), x[1] * y[2] + y[1] * x[2], x[2] * y[2])
  BY <1>1, PlusValue
<1>4. Is(Times(x, y), x[1] * y[1], x[2] * y[2])
  BY <1>1, TimesValue
<1>5. y[1] > 0 => Is(Over(x, y), x[1] * y[2], x[2] * y[1])
  BY <1>1, OverValue
<1>6. /\ Plus(x, y) \in Rat /\ Plus(x, y)[1] >= 0
      /\ Times(x, y) \in Rat /\ Times(x, y)[1] >= 0
      /\ y[1] > 0 => Over(x, y) \in Rat /\ Over(x, y)[1] >= 0
  BY <1>1, <1>2, <1>3, <1>4, <1>5, Sign, Closed
<1> QED
  BY <1>6 DEF NonNegative

\* Nor is their mean.
LEMMA MeanIsNonNegative ==
    ASSUME NEW s \in Seq(NonNegative), s # <<>>
    PROVE  Mean(s) \in NonNegative
<1>1. Len(s) \in Nat \ {0} /\ s \in Seq(Rat) /\ \A i \in 1 .. Len(s) : s[i] \in NonNegative
  <2>1. NonNegative \subseteq Rat
    BY DEF NonNegative
  <2>2. s \in Seq(Rat)
    BY <2>1, SeqMonotonic
  <2> QED
    BY <2>2, EmptySeq, ElementOfSeq
<1> DEFINE n == Len(s)
           f == Sums(s)
<1>2. n \in Nat \ {0} /\ \A i \in 1 .. n : s[i] \in NonNegative /\ f[i] = Plus(f[i - 1], s[i])
  BY <1>1, SumsEquation
<1>3. f[0] \in NonNegative
  BY <1>1, SumsEquation DEF Zero, Num, NonNegative, Rat
<1>4. Total(s) = f[n]
  BY DEF Total
<1> HIDE DEF f, n
<1>5. ASSUME NEW i \in 0 .. n, i # 0, f[i - 1] \in NonNegative PROVE f[i] \in NonNegative
  BY <1>2, <1>5, NonNegativeClosed
<1>6. \A i \in 0 .. n : f[i] \in NonNegative
  <2>1. 0 \in Int /\ n \in Int
    BY <1>2
  <2> QED
    BY <1>3, <1>5, <2>1, ValuesStay, Zenon
<1>7. f[n] \in NonNegative
  BY <1>2, <1>6
<1>8. Num(n) \in NonNegative /\ Num(n)[1] > 0
  BY <1>2 DEF Num, Rat, NonNegative
<1> QED
  BY <1>4, <1>7, <1>8, NonNegativeClosed DEF Mean, n

\* What is not less is not more, either.
LEMMA NotBoth ==
    ASSUME NEW x \in Rat, NEW y \in Rat
    PROVE  ~(Leq(x, y) /\ Less(y, x))
<1>1. Is(x, x[1], x[2]) /\ Is(y, y[1], y[2])
  BY SelfValue
<1>2. (Leq(x, y) <=> x[1] * y[2] <= y[1] * x[2]) /\ (Less(y, x) <=> y[1] * x[2] < x[1] * y[2])
  BY <1>1, Order
<1>3. x[1] * y[2] \in Int /\ y[1] * x[2] \in Int
  BY DEF Rat
<1> QED
  BY <1>2, <1>3

-----------------------------------------------------------------------------
(***************************************************************************)
(* Sums of integers, and how far one of n values is from their mean.       *)
(***************************************************************************)

\* f holds the sums of the first values of d.
IntegerSums(f, d, n) ==
    f \in [0 .. n -> Int] /\ f[0] = 0 /\ \A i \in 1 .. n : f[i] = f[i - 1] + d[i]

\* Such sums exist.
LEMMA IntegerSumsExist ==
    ASSUME NEW n \in Nat, NEW d \in [1 .. n -> Int]
    PROVE  \E f : IntegerSums(f, d, n)
<1> DEFINE step == [q \in Int \X Int |-> IF q[2] \in 1 .. n THEN q[1] + d[q[2]] ELSE 0]
<1>1. step \in [Int \X Int -> Int]
  <2>1. ASSUME NEW q \in Int \X Int PROVE (IF q[2] \in 1 .. n THEN q[1] + d[q[2]] ELSE 0) \in Int
    OBVIOUS
  <2> QED
    BY <2>1
<1>2. PICK f : Recursion(f, Int, 0, n, 0, step)
  <2>1. 0 \in Int /\ n \in Int
    OBVIOUS
  <2> HIDE DEF step
  <2> QED
    BY <1>1, <2>1, RecursiveFunction
<1>3. f \in [0 .. n -> Int] /\ f[0] = 0
  <2>1. 0 \in 0 .. n
    OBVIOUS
  <2> HIDE DEF step
  <2> QED
    BY <1>2, <2>1, Zenon DEF Recursion
<1>4. ASSUME NEW i \in 1 .. n PROVE f[i] = f[i - 1] + d[i]
  <2>1. i \in 0 .. n /\ i # 0 /\ i - 1 \in 0 .. n
    OBVIOUS
  <2>2. f[i - 1] \in Int /\ <<f[i - 1], i>> \in Int \X Int
    BY <1>3, <2>1
  <2>3. step[<<f[i - 1], i>>] = f[i - 1] + d[i]
    BY <2>2
  <2>4. f[i] = step[<<f[i - 1], i>>]
    <3> HIDE DEF step
    <3> QED
      BY <1>2, <2>1 DEF Recursion
  <2> QED
    BY <2>3, <2>4
<1> QED
  BY <1>3, <1>4 DEF IntegerSums

\* The sums of fractions with the same denominator.
LEMMA SumsValue ==
    ASSUME NEW s \in Seq(Rat), NEW q \in Nat \ {0}, NEW d, NEW f, IntegerSums(f, d, Len(s)),
           \A i \in 1 .. Len(s) : d[i] \in Int /\ Is(s[i], d[i], q)
    PROVE  \A i \in 0 .. Len(s) : Is(Sums(s)[i], f[i], q)
<1> DEFINE n == Len(s)
           g == Sums(s)
           T == {i \in Int : Is(g[i], f[i], q)}
<1>1. /\ n \in Nat /\ g[0] = Zero /\ \A i \in 1 .. n : g[i] = Plus(g[i - 1], s[i])
      /\ f \in [0 .. n -> Int] /\ f[0] = 0 /\ \A i \in 1 .. n : f[i] = f[i - 1] + d[i]
  BY SumsEquation, LenProperties DEF IntegerSums
<1> HIDE DEF n, g
<1>2. 0 \in T
  <2>1. Is(Zero, 0, 1)
    BY NumValue DEF Zero
  <2>2. 0 * q = 0 * 1
    OBVIOUS
  <2>3. Is(Zero, 0, q)
    BY <2>1, <2>2, SameValue
  <2> QED
    BY <1>1, <2>3
<1>3. ASSUME NEW i \in 0 + 1 .. n, i - 1 \in T PROVE i \in T
  <2>1. i \in 1 .. n /\ i - 1 \in 0 .. n
    BY <1>1
  <2>2. g[i] = Plus(g[i - 1], s[i]) /\ f[i] = f[i - 1] + d[i] /\ f[i - 1] \in Int
    BY <1>1, <2>1
  <2>3. Is(g[i - 1], f[i - 1], q) /\ Is(s[i], d[i], q) /\ d[i] \in Int
    BY <1>3, <2>1 DEF n
  <2>4. Is(g[i], f[i - 1] * q + d[i] * q, q * q)
    BY <2>2, <2>3, PlusValue
  <2> DEFINE a == f[i - 1]
             b == d[i]
  <2>5. a \in Int /\ b \in Int /\ Is(g[i], a * q + b * q, q * q)
    BY <2>2, <2>3, <2>4
  <2> HIDE DEF a, b
  <2>6. (a * q + b * q) * q = (a + b) * (q * q)
    BY <2>5
  <2>7. Is(g[i], a + b, q)
    <3> DEFINE v == a * q + b * q
               u == q * q
               w == a + b
    <3>1. w \in Int /\ Is(g[i], v, u) /\ v * q = w * u
      BY <2>5, <2>6
    <3> HIDE DEF u, v, w
    <3>2. Is(g[i], w, q)
      BY <3>1, SameValue
    <3> QED
      BY <3>2 DEF w
  <2> QED
    BY <2>2, <2>7 DEF a, b
<1>4. \A i \in 0 .. n : i \in T
  <2>1. 0 \in Int /\ n \in Int
    BY <1>1
  <2> HIDE DEF T
  <2>2. \A i \in 0 + 1 .. n : i - 1 \in T => i \in T
    BY <1>3
  <2> QED
    BY <1>2, <2>1, <2>2, IntervalInduction
<1> QED
  BY <1>4 DEF n, g

\* The mean of fractions d[i] / q.
LEMMA MeanValue ==
    ASSUME NEW s \in Seq(Rat), s # <<>>, NEW q \in Nat \ {0}, NEW d, NEW f,
           IntegerSums(f, d, Len(s)),
           \A i \in 1 .. Len(s) : d[i] \in Int /\ Is(s[i], d[i], q)
    PROVE  Is(Mean(s), f[Len(s)], q * Len(s))
<1> DEFINE n == Len(s)
<1>1. n \in Nat \ {0} /\ n > 0 /\ n \in 0 .. n
  BY EmptySeq
<1>2. \A i \in 0 .. n : Is(Sums(s)[i], f[i], q)
  BY SumsValue
<1> HIDE DEF n
<1>3. Is(Total(s), f[n], q)
  BY <1>1, <1>2 DEF Total, n
<1>4. Is(Num(n), n, 1)
  BY <1>1, NumValue
<1>5. Is(Over(Total(s), Num(n)), f[n] * 1, q * n)
  BY <1>1, <1>3, <1>4, OverValue
<1>6. f[n] * 1 = f[n]
  BY <1>3 DEF Is
<1> QED
  BY <1>5, <1>6 DEF Mean, n

\* One more term of the inequality of Cauchy and Schwarz with a row of ones.
LEMMA CauchyStep ==
    ASSUME NEW i \in Nat, NEW a \in Int, NEW q \in Nat, NEW d \in Int, a * a <= i * q
    PROVE  d * d \in Nat /\ (a + d) * (a + d) <= (i + 1) * (q + d * d)
<1>1. d * d \in Nat
  <2>1. d >= 0 => d * d >= 0
    OBVIOUS
  <2>2. d < 0 => d * d >= 0
    <3>1. d < 0 => (-d) * (-d) >= 0
      OBVIOUS
    <3>2. (-d) * (-d) = d * d
      OBVIOUS
    <3> QED
      BY <3>1, <3>2
  <2> QED
    BY <2>1, <2>2
<1>2. 0 <= (i * (d * d) + q) - 2 * (a * d)
  <2>1. CASE i = 0
    <3>1. i * q = 0
      BY <2>1
    <3>2. a = 0
      <4>1. a * a <= 0
        BY <3>1
      <4>2. a > 0 => a * a > 0
        OBVIOUS
      <4>3. a < 0 => a * a > 0
        OBVIOUS
      <4> QED
        BY <4>1, <4>2, <4>3
    <3>3. a * d = 0 /\ i * (d * d) = 0
      BY <2>1, <3>2
    <3> QED
      BY <3>3
  <2>2. CASE i # 0
    <3> DEFINE e == i * d - a
               m == (i * (d * d) + q) - 2 * (a * d)
    <3>1. e * e >= 0
      <4>1. e \in Int
        OBVIOUS
      <4> HIDE DEF e
      <4>2. e >= 0 => e * e >= 0
        BY <4>1
      <4>3. e < 0 => e * e >= 0
        BY <4>1
      <4> QED
        BY <4>1, <4>2, <4>3
    <3>2. m * i = e * e + (i * q - a * a)
      BY ONLY i \in Nat, a \in Int, q \in Nat, d \in Int
    <3>3. m \in Int /\ e * e \in Int /\ i * q \in Int /\ a * a \in Int
      OBVIOUS
    <3> HIDE DEF m, e
    <3>4. m * i >= 0
      BY <3>1, <3>2, <3>3
    <3>5. i \in Nat \ {0} /\ 0 * i = 0
      BY <2>2
    <3>6. 0 <= m
      BY <3>3, <3>4, <3>5, Cancel
    <3> QED
      BY <3>6 DEF m
  <2> QED
    BY <2>1, <2>2
<1>3. (i + 1) * (q + d * d) - (a + d) * (a + d) = (i * q - a * a) + ((i * (d * d) + q) - 2 * (a * d))
  BY ONLY i \in Nat, a \in Int, q \in Nat, d \in Int
<1> DEFINE u == (i + 1) * (q + d * d)
           v == (a + d) * (a + d)
           w == i * q
           x == a * a
           y == (i * (d * d) + q) - 2 * (a * d)
<1>4. /\ u \in Int /\ v \in Int /\ w \in Int /\ x \in Int /\ y \in Int
      /\ u - v = (w - x) + y /\ x <= w /\ 0 <= y
  BY <1>2, <1>3
<1>5. v <= u
  <2> HIDE DEF u, v, w, x, y
  <2> QED
    BY <1>4
<1> QED
  BY <1>1, <1>5

\* The square of a sum of i integers is at most i times the sum of their squares.
LEMMA CauchySchwarz ==
    ASSUME NEW n \in Nat, NEW d \in [1 .. n -> Int], NEW f, NEW g,
           IntegerSums(f, d, n), IntegerSums(g, [i \in 1 .. n |-> d[i] * d[i]], n)
    PROVE  \A i \in 0 .. n : g[i] \in Nat /\ f[i] * f[i] <= i * g[i]
<1> DEFINE T == {i \in Int : g[i] \in Nat /\ f[i] * f[i] <= i * g[i]}
<1>1. /\ f \in [0 .. n -> Int] /\ f[0] = 0 /\ g[0] = 0
      /\ \A i \in 1 .. n : f[i] = f[i - 1] + d[i] /\ g[i] = g[i - 1] + d[i] * d[i]
  BY DEF IntegerSums
<1>2. 0 \in T
  BY <1>1
<1>3. ASSUME NEW i \in 0 + 1 .. n, i - 1 \in T PROVE i \in T
  <2> DEFINE a == f[i - 1]
             q == g[i - 1]
             b == d[i]
             j == i - 1
  <2>1. i \in 1 .. n /\ j \in 0 .. n /\ j \in Nat /\ i = j + 1 /\ i \in Int
    OBVIOUS
  <2>2. a \in Int /\ q \in Nat /\ b \in Int /\ a * a <= j * q
    BY <1>1, <1>3, <2>1
  <2>3. f[i] = a + b /\ g[i] = q + b * b
    BY <1>1, <2>1
  <2> HIDE DEF a, b, q, j
  <2>4. b * b \in Nat /\ (a + b) * (a + b) <= (j + 1) * (q + b * b)
    BY <2>1, <2>2, CauchyStep
  <2>5. g[i] \in Nat
    <3> DEFINE e == b * b
    <3>1. e \in Nat /\ g[i] = q + e
      BY <2>3, <2>4
    <3> HIDE DEF e
    <3> QED
      BY <2>2, <3>1
  <2>6. f[i] * f[i] <= i * g[i]
    BY <2>1, <2>3, <2>4
  <2> QED
    BY <2>1, <2>5, <2>6
<1>4. \A i \in 0 .. n : i \in T
  <2>1. 0 \in Int /\ n \in Int
    OBVIOUS
  <2>2. \A i \in 0 + 1 .. n : i - 1 \in T => i \in T
    BY <1>3
  <2> HIDE DEF T
  <2> QED
    BY <1>2, <2>1, <2>2, IntervalInduction
<1> QED
  BY <1>4

\* How far values are from a mean, in multiples of 1 / n, and the squares of that.
Offsets(D, x, S, n) == D = [i \in 1 .. n |-> x[i] * n - S]
Squares(E, D, n) == E = [i \in 1 .. n |-> D[i] * D[i]]

\* n times the square of the last value's distance from the mean is no more than
\* n - 1 times the sum of all of them.
LEMMA LastFromMean ==
    ASSUME NEW n \in Nat \ {0}, NEW x \in [1 .. n -> Int], NEW X, IntegerSums(X, x, n),
           NEW D, Offsets(D, x, X[n], n), NEW E, Squares(E, D, n), NEW Q, IntegerSums(Q, E, n)
    PROVE  Q[n] \in Nat /\ D[n] \in Int /\ n * (D[n] * D[n]) <= (n - 1) * Q[n]
<1> DEFINE S == X[n]
<1>1. /\ n \in 1 .. n /\ n \in 0 .. n /\ n - 1 \in 0 .. n
      /\ X \in [0 .. n -> Int] /\ X[0] = 0 /\ \A i \in 1 .. n : X[i] = X[i - 1] + x[i]
  BY DEF IntegerSums
<1>2. S \in Int
  BY <1>1
<1> HIDE DEF S
<1>3. D \in [1 .. n -> Int] /\ \A i \in 1 .. n : D[i] = x[i] * n - S
  <2>1. D = [i \in 1 .. n |-> x[i] * n - S]
    BY DEF S, Offsets
  <2>2. \A i \in 1 .. n : x[i] * n - S \in Int
    BY <1>2
  <2> QED
    BY <2>1, <2>2
<1>4. PICK A : IntegerSums(A, D, n)
  BY <1>3, IntegerSumsExist
<1>5. A \in [0 .. n -> Int] /\ A[0] = 0 /\ \A i \in 1 .. n : A[i] = A[i - 1] + D[i]
  BY <1>4 DEF IntegerSums
<1> DEFINE T == {i \in Int : A[i] = n * X[i] - i * S}
<1>6. 0 \in T
  BY <1>1, <1>2, <1>5
<1>7. ASSUME NEW i \in 0 + 1 .. n, i - 1 \in T PROVE i \in T
  <2> DEFINE j == i - 1
             u == X[j]
             v == x[i]
  <2>1. i \in 1 .. n /\ i \in Int /\ j \in 0 .. n /\ j \in Int /\ i = j + 1
    BY <1>1
  <2>2. u \in Int /\ v \in Int /\ A[j] = n * u - j * S
    BY <1>1, <1>7, <2>1
  <2>3. A[i] = A[j] + (v * n - S) /\ X[i] = u + v
    BY <1>1, <1>3, <1>5, <2>1
  <2> HIDE DEF j, u, v
  <2>4. (n * u - j * S) + (v * n - S) = n * (u + v) - (j + 1) * S
    BY <1>2, <2>1, <2>2
  <2>5. A[i] = n * X[i] - i * S
    BY <2>1, <2>2, <2>3, <2>4
  <2> QED
    BY <2>1, <2>5
<1>8. \A i \in 0 .. n : i \in T
  <2>1. 0 \in Int /\ n \in Int
    OBVIOUS
  <2>2. \A i \in 0 + 1 .. n : i - 1 \in T => i \in T
    BY <1>7
  <2> HIDE DEF T
  <2> QED
    BY <1>6, <2>1, <2>2, IntervalInduction
<1>9. A[n] = 0
  <2>1. A[n] = n * S - n * S
    BY <1>1, <1>8 DEF S
  <2> QED
    BY <1>2, <2>1
<1> DEFINE d == D[n]
           m == n - 1
<1>10. d \in Int /\ A[m] \in Int /\ A[n] = A[m] + d /\ m \in Nat /\ m \in 0 .. n /\ n = m + 1
  BY <1>1, <1>3, <1>5
<1>11. /\ Q[m] \in Nat /\ A[m] * A[m] <= m * Q[m]
       /\ Q[n] \in Nat
  <2>1. IntegerSums(Q, [i \in 1 .. n |-> D[i] * D[i]], n)
    BY Zenon DEF Squares
  <2> HIDE DEF m
  <2> QED
    BY <1>1, <1>3, <1>4, <1>10, <2>1, CauchySchwarz
<1>12. Q[n] = Q[m] + d * d
  <2>1. E[n] = d * d
    BY <1>1 DEF Squares
  <2> QED
    BY <1>1, <2>1 DEF IntegerSums
<1>13. A[m] * A[m] = d * d
  <2> DEFINE a == A[m]
  <2>1. a \in Int /\ a + d = 0
    BY <1>9, <1>10
  <2> HIDE DEF a, d
  <2>2. a * a = d * d
    BY <1>10, <2>1
  <2> QED
    BY <2>2 DEF a
<1> DEFINE q == Q[m]
<1>14. q \in Nat /\ d * d <= m * q /\ Q[n] = q + d * d
  BY <1>11, <1>12, <1>13
<1> HIDE DEF d, m, q
<1>15. n * (d * d) <= m * Q[n]
  <2>1. m * (q + d * d) - (m + 1) * (d * d) = m * q - d * d
    BY <1>10, <1>14
  <2> DEFINE u == m * (q + d * d)
             v == (m + 1) * (d * d)
             w == m * q
             y == d * d
  <2>2. u \in Int /\ v \in Int /\ w \in Int /\ y \in Int /\ u - v = w - y /\ y <= w
    BY <1>10, <1>14, <2>1
  <2>3. v <= u
    <3> HIDE DEF u, v, w, y
    <3> QED
      BY <2>2
  <2> QED
    BY <1>10, <1>14, <2>3
<1> QED
  BY <1>10, <1>11, <1>15 DEF d, m
==============================================================================
