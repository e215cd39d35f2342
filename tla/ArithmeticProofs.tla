-------------------------- MODULE ArithmeticProofs --------------------------
(***************************************************************************)
(* The arithmetic of MCProcessor for words, exponents and fractions of any *)
(* width.  ArithmeticIsExact says of one state what the next instruction   *)
(* computes in it, so it follows from the types of the registers and of    *)
(* the accumulator, which every instruction keeps: the invariant is        *)
(* r \in Regs /\ fac \in Facs, and the rest is about numbers.              *)
(***************************************************************************)
EXTENDS MCProcessor, Powers, WellFoundedInduction, TLAPS

----------------------------------------------------------------------------
(* The powers of two, division and order.  The bounds are nonlinear, so    *)
(* each of these states once what the arithmetic leaves below need.        *)

\* Every set of naturals that is not empty has a least element.
LEMMA Least ==
    ASSUME NEW T, T \subseteq Nat, T # {} PROVE \E n \in T : \A m \in T : n <= m
<1>. DEFINE R == OpToRel(<, Nat)
<1>1. PICK n \in T : \A m \in T : ~(<<m, n>> \in R)
  BY NatLessThanWellFounded, WFMin
<1>2. ASSUME NEW m \in T PROVE n <= m
  <2>1. ~(m < n)
    BY <1>1 DEF OpToRel
  <2>. QED BY <2>1
<1>. QED BY <1>2

\* Induction for a set that is written out: a counterexample would have a least one.
LEMMA Induct ==
    ASSUME NEW T, 0 \in T, \A n \in Nat : n \in T => n + 1 \in T
    PROVE  \A n \in Nat : n \in T
<1>. SUFFICES ASSUME NEW k \in Nat, k \notin T PROVE FALSE
  OBVIOUS
<1>. DEFINE U == Nat \ T
<1>1. U \subseteq Nat /\ U # {}
  OBVIOUS
<1>. HIDE DEF U
<1>2. PICK n \in U : \A m \in U : n <= m
  BY <1>1, Least
<1>3. n \in Nat /\ n \notin T
  BY DEF U
<1>4. n # 0
  BY <1>3
<1>5. n - 1 \in Nat /\ n - 1 \notin U
  BY <1>2, <1>3, <1>4, <1>1
<1>6. n - 1 \in T
  BY <1>5 DEF U
<1>7. (n - 1) + 1 \in T
  BY <1>5, <1>6
<1>. QED BY <1>7, <1>3

\* The powers of two exist as the recursion says.
LEMMA PowerRecursion ==
    /\ Pow2 \in [Nat -> Nat] /\ Pow2[0] = 1
    /\ \A n \in Nat : Pow2[n + 1] = 2 * Pow2[n]
<1>. DEFINE Rows(n) == {g \in [0 .. n -> Nat] : g[0] = 1 /\ \A i \in 1 .. n : g[i] = 2 * g[i - 1]}
            U == {n \in Nat : Rows(n) # {}}
<1>1. 0 \in U
  <2>. DEFINE g == [i \in 0 .. 0 |-> 1]
  <2>1. g \in Rows(0)
    OBVIOUS
  <2>. QED BY <2>1
<1>2. ASSUME NEW n \in Nat, n \in U PROVE n + 1 \in U
  <2>1. PICK g \in Rows(n) : TRUE
    BY <1>2
  <2>. DEFINE h == [i \in 0 .. n + 1 |-> IF i = n + 1 THEN 2 * g[n] ELSE g[i]]
  <2>2. h \in [0 .. n + 1 -> Nat]
    BY <2>1
  <2>3. h[0] = 1
    BY <2>1
  <2>4. ASSUME NEW i \in 1 .. n + 1 PROVE h[i] = 2 * h[i - 1]
    BY <2>1
  <2>5. h \in Rows(n + 1)
    BY <2>2, <2>3, <2>4
  <2>6. Rows(n + 1) # {}
    <3>. HIDE DEF h, Rows
    <3>. QED BY <2>5
  <2>. HIDE DEF h, Rows
  <2>. QED BY <2>6
<1>3. \A n \in Nat : n \in U
  <2>. HIDE DEF U
  <2>. QED BY <1>1, <1>2, Induct
<1>. DEFINE c(n) == CHOOSE g \in Rows(n) : TRUE
<1>4. ASSUME NEW n \in Nat PROVE c(n) \in Rows(n)
  BY <1>3
<1>5. ASSUME NEW n \in Nat, NEW g \in Rows(n), NEW h \in Rows(n + 1), NEW i \in 0 .. n PROVE g[i] = h[i]
  <2>. DEFINE V == {k \in Nat : k <= n => g[k] = h[k]}
  <2>1. 0 \in V
    BY <1>5
  <2>2. ASSUME NEW k \in Nat, k \in V PROVE k + 1 \in V
    <3>1. CASE k + 1 <= n
      <4>1. g[k] = h[k]
        BY <2>2, <3>1
      <4>2. k + 1 \in 1 .. n /\ k + 1 \in 1 .. n + 1 /\ (k + 1) - 1 = k
        BY <3>1
      <4>3. g[k + 1] = 2 * g[(k + 1) - 1] /\ h[k + 1] = 2 * h[(k + 1) - 1]
        BY <4>2, <1>5
      <4>. QED BY <4>1, <4>2, <4>3
    <3>2. CASE ~(k + 1 <= n)
      BY <3>2
    <3>. QED BY <3>1, <3>2
  <2>3. \A k \in Nat : k \in V
    <3>. HIDE DEF V
    <3>. QED BY <2>1, <2>2, Induct
  <2>. QED BY <2>3
<1>. DEFINE p == [n \in Nat |-> c(n)[n]]
<1>6. p = [n \in Nat |-> IF n = 0 THEN 1 ELSE 2 * p[n - 1]]
  <2>1. ASSUME NEW n \in Nat PROVE p[n] = IF n = 0 THEN 1 ELSE 2 * p[n - 1]
    <3>. HIDE DEF Rows, c
    <3>1. CASE n = 0
      <4>1. c(0)[0] = 1
        BY <1>4 DEF Rows
      <4>. QED BY <3>1, <4>1
    <3>2. CASE n # 0
      <4>1. n - 1 \in Nat /\ (n - 1) + 1 = n /\ n - 1 \in 0 .. n - 1 /\ n \in 1 .. n
        BY <3>2
      <4>2. c(n) \in Rows(n) /\ c(n - 1) \in Rows(n - 1)
        BY <1>4, <4>1
      <4>3. c(n)[n] = 2 * c(n)[n - 1]
        BY <4>1, <4>2 DEF Rows
      <4>4. c(n - 1)[n - 1] = c(n)[n - 1]
        BY <4>1, <4>2, <1>5
      <4>. QED BY <3>2, <4>1, <4>3, <4>4
    <3>. QED BY <3>1, <3>2
  <2>. HIDE DEF c
  <2>. QED BY <2>1
<1>7. Pow2 = [n \in Nat |-> IF n = 0 THEN 1 ELSE 2 * Pow2[n - 1]]
  <2>. HIDE DEF p
  <2>. QED BY <1>6 DEF Pow2
<1>. DEFINE V == {n \in Nat : Pow2[n] \in Nat}
<1>. HIDE DEF Rows, c, p, U
<1>8. Pow2[0] = 1 /\ \A n \in Nat : Pow2[n + 1] = 2 * Pow2[n]
  <2>1. Pow2[0] = 1
    BY <1>7
  <2>2. ASSUME NEW n \in Nat PROVE Pow2[n + 1] = 2 * Pow2[n]
    <3>1. n + 1 \in Nat /\ n + 1 # 0 /\ (n + 1) - 1 = n
      OBVIOUS
    <3>. QED BY <1>7, <3>1
  <2>. QED BY <2>1, <2>2
<1>9. \A n \in Nat : n \in V
  <2>1. 0 \in V /\ \A n \in Nat : n \in V => n + 1 \in V
    BY <1>8
  <2>. HIDE DEF V
  <2>. QED BY <2>1, Induct
<1>. QED BY <1>7, <1>8, <1>9

\* None of them is zero.
LEMMA Positive == \A n \in Nat : Pow2[n] \in Nat \ {0}
<1>. DEFINE U == {n \in Nat : Pow2[n] \in Nat \ {0}}
<1>1. 0 \in U /\ \A n \in Nat : n \in U => n + 1 \in U
  BY PowerRecursion
<1>2. \A n \in Nat : n \in U
  <2>. HIDE DEF U
  <2>. QED BY <1>1, Induct
<1>. QED BY <1>2

\* A sum of exponents is a product of powers.
LEMMA Product == \A m, n \in Nat : Pow2[m + n] = Pow2[m] * Pow2[n]
<1>. SUFFICES ASSUME NEW m \in Nat PROVE \A n \in Nat : Pow2[m + n] = Pow2[m] * Pow2[n]
  OBVIOUS
<1>. DEFINE U == {n \in Nat : Pow2[m + n] = Pow2[m] * Pow2[n]}
<1>1. 0 \in U
  BY PowerRecursion
<1>2. ASSUME NEW n \in Nat, n \in U PROVE n + 1 \in U
  <2>1. Pow2[m + n] = Pow2[m] * Pow2[n]
    BY <1>2
  <2>2. Pow2[(m + n) + 1] = 2 * Pow2[m + n] /\ Pow2[n + 1] = 2 * Pow2[n]
    BY PowerRecursion
  <2>3. Pow2[m] \in Nat /\ Pow2[n] \in Nat
    BY PowerRecursion
  <2>4. (m + n) + 1 = m + (n + 1)
    OBVIOUS
  <2>. QED BY <2>1, <2>2, <2>3, <2>4
<1>3. \A n \in Nat : n \in U
  <2>. HIDE DEF U
  <2>. QED BY <1>1, <1>2, Induct
<1>. QED BY <1>3

\* They grow with the exponent.
LEMMA Growing == \A m, n \in Nat : m <= n => Pow2[m] <= Pow2[n]
<1>. SUFFICES ASSUME NEW m \in Nat, NEW n \in Nat, m <= n PROVE Pow2[m] <= Pow2[n]
  OBVIOUS
<1>1. n - m \in Nat /\ m + (n - m) = n
  OBVIOUS
<1>2. Pow2[n] = Pow2[m] * Pow2[n - m]
  BY <1>1, Product
<1>3. ASSUME NEW p \in Nat \ {0}, NEW q \in Nat \ {0} PROVE p <= p * q
  OBVIOUS
<1>4. Pow2[m] \in Nat \ {0} /\ Pow2[n - m] \in Nat \ {0}
  BY <1>1, Positive
<1>. QED BY <1>2, <1>3, <1>4

\* What TLA+'s division promises, for a dividend of either sign.
LEMMA Division ==
    ASSUME NEW n \in Int, NEW d \in Nat \ {0}
    PROVE  /\ n \div d \in Int /\ n % d \in 0 .. d - 1
           /\ n = d * (n \div d) + (n % d)
OBVIOUS

\* A quotient and a remainder in range are the ones division gives.
LEMMA Quotient ==
    ASSUME NEW n \in Int, NEW d \in Nat \ {0}, NEW q \in Int, NEW t \in 0 .. d - 1, n = d * q + t
    PROVE  n \div d = q /\ n % d = t
<1>. DEFINE k == n \div d
            m == n % d
<1>1. k \in Int /\ m \in 0 .. d - 1 /\ n = d * k + m
  BY Division
<1>. HIDE DEF k, m
<1>2. d * (q - k) = m - t
  BY <1>1
<1>3. q - k \in Int /\ m - t \in Int /\ m - t < d /\ m - t > -d
  BY <1>1
<1>4. ASSUME NEW z \in Int, d * z < d, d * z > -d PROVE z = 0
  BY <1>4
<1>5. q - k = 0
  BY <1>2, <1>3, <1>4
<1>6. q = k /\ m = t
  BY <1>1, <1>2, <1>5
<1>. QED BY <1>6 DEF k, m

\* Multiples of the divisor leave the remainder alone.
LEMMA Shift ==
    ASSUME NEW n \in Int, NEW d \in Nat \ {0}, NEW q \in Int
    PROVE  (n + d * q) % d = n % d /\ (n + d * q) \div d = (n \div d) + q
<1>. DEFINE k == n \div d
            m == n % d
<1>1. k \in Int /\ m \in 0 .. d - 1 /\ n = d * k + m
  BY Division
<1>. HIDE DEF k, m
<1>2. n + d * q = d * (k + q) + m /\ n + d * q \in Int /\ k + q \in Int
  BY <1>1
<1>3. (n + d * q) \div d = k + q /\ (n + d * q) % d = m
  BY <1>1, <1>2, Quotient
<1>. QED BY <1>3 DEF k, m

\* Dividing twice is dividing by the product.
LEMMA Nested ==
    ASSUME NEW n \in Int, NEW a \in Nat \ {0}, NEW b \in Nat \ {0}
    PROVE  /\ a * b \in Nat \ {0}
           /\ (n \div a) \div b = n \div (a * b)
           /\ n % (a * b) = a * ((n \div a) % b) + (n % a)
<1>. DEFINE k == n \div a
            m == n % a
            j == k \div b
            i == k % b
<1>1. k \in Int /\ m \in 0 .. a - 1 /\ n = a * k + m
  BY Division
<1>2. j \in Int /\ i \in 0 .. b - 1 /\ k = b * j + i
  <2>. HIDE DEF k
  <2>. QED BY <1>1, Division
<1>3. a * b \in Nat \ {0}
  OBVIOUS
<1>. HIDE DEF k, m, j, i
<1>4. n = (a * b) * j + (a * i + m)
  BY <1>1, <1>2
<1>5. a * i + m \in 0 .. a * b - 1
  <2>1. i <= b - 1 /\ i >= 0 /\ i \in Int
    BY <1>2
  <2>2. a * i <= a * (b - 1) /\ a * i >= 0 /\ a * i \in Int
    BY <2>1
  <2>3. a * (b - 1) = a * b - a
    OBVIOUS
  <2>. QED BY <2>2, <2>3, <1>1, <1>3
<1>6. n \div (a * b) = j /\ n % (a * b) = a * i + m
  BY <1>2, <1>3, <1>4, <1>5, Quotient
<1>. QED BY <1>3, <1>6 DEF k, m, j, i

\* A common factor of dividend and divisor cancels.
LEMMA Cancelling ==
    ASSUME NEW n \in Int, NEW a \in Nat \ {0}, NEW b \in Nat \ {0}
    PROVE  /\ (a * n) \div (a * b) = n \div b /\ (a * n) % (a * b) = a * (n % b)
<1>. DEFINE k == n \div b
            m == n % b
<1>1. k \in Int /\ m \in 0 .. b - 1 /\ n = b * k + m
  BY Division
<1>. HIDE DEF k, m
<1>2. a * n = (a * b) * k + a * m
  BY <1>1
<1>3. a * b \in Nat \ {0} /\ a * n \in Int
  OBVIOUS
<1>4. a * m \in 0 .. a * b - 1
  <2>1. m <= b - 1 /\ m >= 0 /\ m \in Int
    BY <1>1
  <2>2. a * m <= a * (b - 1) /\ a * m >= 0 /\ a * m \in Int
    BY <2>1
  <2>3. a * (b - 1) = a * b - a
    OBVIOUS
  <2>. QED BY <2>2, <2>3, <1>3
<1>5. (a * n) \div (a * b) = k /\ (a * n) % (a * b) = a * m
  <2>. DEFINE x == a * n
              y == a * b
              t == a * m
  <2>1. x \in Int /\ y \in Nat \ {0} /\ t \in 0 .. y - 1 /\ x = y * k + t /\ k \in Int
    BY <1>1, <1>2, <1>3, <1>4
  <2>. HIDE DEF x, y, t
  <2>2. x \div y = k /\ x % y = t
    BY <2>1, Quotient
  <2>. QED BY <2>2 DEF x, y, t
<1>. QED BY <1>5 DEF k, m

\* A positive factor keeps the order.
LEMMA Times ==
    ASSUME NEW m \in Int, NEW n \in Int, NEW p \in Nat \ {0}
    PROVE  (m < n <=> m * p < n * p) /\ (m <= n <=> m * p <= n * p) /\ (m = n <=> m * p = n * p)
<1>1. m < n => m * p < n * p
  OBVIOUS
<1>2. m > n => m * p > n * p
  OBVIOUS
<1>. QED BY <1>1, <1>2

----------------------------------------------------------------------------
(* LAC, and the rotations of OPR.                                          *)

B == Arithmetic!Link
Sg == Arithmetic!Sign
Hf == Arithmetic!Half
Mk == Arithmetic!SCMask

\* The powers the two instances read are the ones above.
LEMMA SamePowers == Arithmetic!Pow2 = Pow2 /\ Fpp!Pow2 = Pow2
BY DEF Arithmetic!Pow2, Fpp!Pow2, Pow2

\* The register widths of the octal masks, as the lemmas use them.
LEMMA Sizes ==
    /\ W \in Nat /\ W >= 2 /\ S \in Nat
    /\ B = Pow2[W] /\ B \in Nat \ {0} /\ Sg \in Nat \ {0} /\ B = 2 * Sg
    /\ Hf \in Nat \ {0} /\ B = Hf * Hf
    /\ Mk = Pow2[S] - 1 /\ Mk \in Nat /\ 2 * W + 2 <= Mk /\ Mk < B
<1>1. /\ W \in Nat \ {0} /\ W % 2 = 0 /\ S \in Nat /\ S <= W
      /\ Arithmetic!Pow2[S] > 2 * W + 2
  BY Widths DEF Arithmetic!WidthAssumption
<1>2. W >= 2 /\ W \div 2 \in Nat /\ W = (W \div 2) + (W \div 2) /\ W - 1 \in Nat
  BY <1>1
<1>3. /\ B = Pow2[W] /\ Sg = Pow2[W - 1] /\ Hf = Pow2[W \div 2] /\ Mk = Pow2[S] - 1
      /\ Pow2[S] > 2 * W + 2
  BY <1>1, SamePowers
     DEF B, Sg, Hf, Mk, Arithmetic!Link, Arithmetic!Sign, Arithmetic!Half, Arithmetic!SCMask
<1>4. B \in Nat \ {0} /\ Sg \in Nat \ {0} /\ Hf \in Nat \ {0} /\ Pow2[S] \in Nat \ {0}
  BY <1>1, <1>2, <1>3, Positive
<1>5. B = 2 * Sg
  <2>1. Pow2[(W - 1) + 1] = 2 * Pow2[W - 1]
    BY <1>2, PowerRecursion
  <2>2. (W - 1) + 1 = W
    BY <1>1
  <2>. QED BY <2>1, <2>2, <1>3
<1>6. B = Hf * Hf
  BY <1>2, <1>3, Product
<1>7. Pow2[S] <= B
  BY <1>1, <1>3, Growing
<1>. QED BY <1>1, <1>2, <1>3, <1>4, <1>5, <1>6, <1>7

Lac == 0 .. 2 * B - 1

\* What each rotation of LAC does to its two parts.
LEMMA Rotations ==
    ASSUME NEW x \in Lac
    PROVE  /\ Arithmetic!Rotate("none", x) = x
           /\ Arithmetic!Rotate("BSW", x) = B * (x \div B) + Hf * (x % Hf) + ((x % B) \div Hf)
           /\ Arithmetic!Rotate("RAL", x) = 2 * (x % B) + (x \div B)
           /\ Arithmetic!Rotate("RTL", x) = 4 * (x % Sg) + (x \div Sg)
           /\ Arithmetic!Rotate("RAR", x) = B * (x % 2) + (x \div 2)
           /\ Arithmetic!Rotate("RTR", x) = Sg * (x % 4) + (x \div 4)
<1>1. /\ Arithmetic!Rotate("none", x) = x
      /\ Arithmetic!Rotate("BSW", x) = (x - (x % B)) + ((x % B) \div Hf) + ((x % Hf) * Hf)
      /\ Arithmetic!Rotate("RAL", x) = ((x * 2) + (x \div B)) % (2 * B)
      /\ Arithmetic!Rotate("RTL", x) = ((x * 4) + (x \div Sg)) % (2 * B)
      /\ Arithmetic!Rotate("RAR", x) = ((x \div 2) + (x * B)) % (2 * B)
      /\ Arithmetic!Rotate("RTR", x) = ((x \div 4) + (x * Sg)) % (2 * B)
  BY DEF Arithmetic!Rotate, Arithmetic!Without, B, Sg, Hf
<1>2. B \in Nat \ {0} /\ Sg \in Nat \ {0} /\ Hf \in Nat \ {0} /\ B = 2 * Sg /\ x \in Int /\ x >= 0 /\ x < 2 * B
  BY Sizes DEF Lac
<1>. HIDE DEF Lac, B, Sg, Hf
<1>3. Arithmetic!Rotate("BSW", x) = B * (x \div B) + Hf * (x % Hf) + ((x % B) \div Hf)
  <2>. DEFINE l == x \div B
              a == x % B
              h == a \div Hf
              t == x % Hf
  <2>1. l \in Int /\ a \in 0 .. B - 1 /\ x = B * l + a
    BY <1>2, Division
  <2>2. h \in Int /\ t \in Int
    <3>. HIDE DEF a
    <3>. QED BY <1>2, <2>1, Division
  <2>3. Arithmetic!Rotate("BSW", x) = (x - a) + h + t * Hf
    BY <1>1
  <2>. HIDE DEF l, a, h, t
  <2>4. (x - a) + h + t * Hf = B * l + Hf * t + h
    BY <2>1, <2>2, <1>2
  <2>. QED BY <2>3, <2>4 DEF l, a, h, t
<1>4. Arithmetic!Rotate("RAL", x) = 2 * (x % B) + (x \div B)
  <2>. DEFINE l == x \div B
              a == x % B
  <2>1. l \in Int /\ a \in 0 .. B - 1 /\ x = B * l + a
    BY <1>2, Division
  <2>2. Arithmetic!Rotate("RAL", x) = ((x * 2) + l) % (2 * B)
    BY <1>1
  <2>. HIDE DEF l, a
  <2>3. l \in 0 .. 1
    BY <2>1, <1>2
  <2>4. (x * 2) + l = (2 * B) * l + (2 * a + l) /\ 2 * a + l \in 0 .. (2 * B) - 1
    BY <2>1, <2>3, <1>2
  <2>5. ((x * 2) + l) % (2 * B) = 2 * a + l
    <3>. DEFINE n == (x * 2) + l
                d == 2 * B
                t == 2 * a + l
    <3>1. n \in Int /\ d \in Nat \ {0} /\ l \in Int /\ t \in 0 .. d - 1 /\ n = d * l + t
      BY <1>2, <2>1, <2>4
    <3>. HIDE DEF n, d, t
    <3>2. n % d = t
      BY <3>1, Quotient
    <3>. QED BY <3>2 DEF n, d, t
  <2>. QED BY <2>2, <2>5 DEF l, a
<1>5. Arithmetic!Rotate("RTL", x) = 4 * (x % Sg) + (x \div Sg)
  <2>. DEFINE l == x \div Sg
              a == x % Sg
  <2>1. l \in Int /\ a \in 0 .. Sg - 1 /\ x = Sg * l + a
    BY <1>2, Division
  <2>2. Arithmetic!Rotate("RTL", x) = ((x * 4) + l) % (2 * B)
    BY <1>1
  <2>. HIDE DEF l, a
  <2>3. l \in 0 .. 3
    BY <2>1, <1>2
  <2>4. (x * 4) + l = (2 * B) * l + (4 * a + l) /\ 4 * a + l \in 0 .. (2 * B) - 1
    BY <2>1, <2>3, <1>2
  <2>5. ((x * 4) + l) % (2 * B) = 4 * a + l
    <3>. DEFINE n == (x * 4) + l
                d == 2 * B
                t == 4 * a + l
    <3>1. n \in Int /\ d \in Nat \ {0} /\ l \in Int /\ t \in 0 .. d - 1 /\ n = d * l + t
      BY <1>2, <2>1, <2>4
    <3>. HIDE DEF n, d, t
    <3>2. n % d = t
      BY <3>1, Quotient
    <3>. QED BY <3>2 DEF n, d, t
  <2>. QED BY <2>2, <2>5 DEF l, a
<1>6. Arithmetic!Rotate("RAR", x) = B * (x % 2) + (x \div 2)
  <2>. DEFINE h == x \div 2
              a == x % 2
  <2>1. h \in Int /\ a \in 0 .. 1 /\ x = 2 * h + a
    BY <1>2, Division
  <2>2. Arithmetic!Rotate("RAR", x) = (h + (x * B)) % (2 * B)
    BY <1>1
  <2>. HIDE DEF h, a
  <2>3. h \in 0 .. B - 1
    BY <2>1, <1>2
  <2>4. h + (x * B) = (2 * B) * h + (B * a + h) /\ B * a + h \in 0 .. (2 * B) - 1
    BY <2>1, <2>3, <1>2
  <2>5. (h + (x * B)) % (2 * B) = B * a + h
    <3>. DEFINE n == h + (x * B)
                d == 2 * B
                t == B * a + h
    <3>1. n \in Int /\ d \in Nat \ {0} /\ h \in Int /\ t \in 0 .. d - 1 /\ n = d * h + t
      BY <1>2, <2>1, <2>4
    <3>. HIDE DEF n, d, t
    <3>2. n % d = t
      BY <3>1, Quotient
    <3>. QED BY <3>2 DEF n, d, t
  <2>. QED BY <2>2, <2>5 DEF h, a
<1>7. Arithmetic!Rotate("RTR", x) = Sg * (x % 4) + (x \div 4)
  <2>. DEFINE h == x \div 4
              a == x % 4
  <2>1. h \in Int /\ a \in 0 .. 3 /\ x = 4 * h + a
    BY <1>2, Division
  <2>2. Arithmetic!Rotate("RTR", x) = (h + (x * Sg)) % (2 * B)
    BY <1>1
  <2>. HIDE DEF h, a
  <2>3. h \in 0 .. Sg - 1
    BY <2>1, <1>2
  <2>4. h + (x * Sg) = (2 * B) * h + (Sg * a + h) /\ Sg * a + h \in 0 .. (2 * B) - 1
    BY <2>1, <2>3, <1>2
  <2>5. (h + (x * Sg)) % (2 * B) = Sg * a + h
    <3>. DEFINE n == h + (x * Sg)
                d == 2 * B
                t == Sg * a + h
    <3>1. n \in Int /\ d \in Nat \ {0} /\ h \in Int /\ t \in 0 .. d - 1 /\ n = d * h + t
      BY <1>2, <2>1, <2>4
    <3>. HIDE DEF n, d, t
    <3>2. n % d = t
      BY <3>1, Quotient
    <3>. QED BY <3>2 DEF n, d, t
  <2>. QED BY <2>2, <2>5 DEF h, a
<1>. QED BY <1>1, <1>3, <1>4, <1>5, <1>6, <1>7

\* A number put together from two parts comes apart again.
LEMMA Splits ==
    ASSUME NEW d \in Nat \ {0}, NEW q \in Int, NEW t \in 0 .. d - 1
    PROVE  (d * q + t) \div d = q /\ (d * q + t) % d = t
<1>1. d * q + t \in Int
  OBVIOUS
<1>. DEFINE n == d * q + t
<1>2. n \in Int /\ n = d * q + t
  BY <1>1
<1>. HIDE DEF n
<1>3. n \div d = q /\ n % d = t
  BY <1>2, Quotient
<1>. QED BY <1>3 DEF n

\* LAC taken apart at the link, and below the sign.
LEMMA Halves ==
    ASSUME NEW x \in Lac
    PROVE  /\ x \div B \in 0 .. 1 /\ x % B \in 0 .. B - 1 /\ x = B * (x \div B) + (x % B)
           /\ x \div Sg \in 0 .. 3 /\ x % Sg \in 0 .. Sg - 1 /\ x = Sg * (x \div Sg) + (x % Sg)
<1>1. B \in Nat \ {0} /\ Sg \in Nat \ {0} /\ B = 2 * Sg /\ x \in Int /\ x >= 0 /\ x < 2 * B
  BY Sizes DEF Lac
<1>. HIDE DEF Lac, B, Sg
<1>. DEFINE l == x \div B
            a == x % B
            k == x \div Sg
            t == x % Sg
<1>2. l \in Int /\ a \in 0 .. B - 1 /\ x = B * l + a
  BY <1>1, Division
<1>3. k \in Int /\ t \in 0 .. Sg - 1 /\ x = Sg * k + t
  BY <1>1, Division
<1>. HIDE DEF l, a, k, t
<1>4. l \in 0 .. 1
  BY <1>1, <1>2
<1>5. k \in 0 .. 3
  BY <1>1, <1>3
<1>. QED BY <1>2, <1>3, <1>4, <1>5 DEF l, a, k, t

\* A word taken apart into its two bytes.
LEMMA InSquare ==
    ASSUME NEW h \in Nat \ {0}, NEW a \in 0 .. h * h - 1
    PROVE  a \div h \in 0 .. h - 1 /\ a % h \in 0 .. h - 1 /\ a = h * (a \div h) + (a % h)
<1>. DEFINE k == a \div h
            t == a % h
<1>1. a \in Int /\ a >= 0 /\ a < h * h
  OBVIOUS
<1>2. k \in Int /\ t \in 0 .. h - 1 /\ a = h * k + t
  BY <1>1, Division
<1>. HIDE DEF k, t
<1>3. h * k < h * h /\ h * k > -h
  BY <1>1, <1>2
<1>4. k < h
  <2>1. ASSUME k >= h PROVE h * k >= h * h
    BY <1>2, <2>1
  <2>. QED BY <2>1, <1>3, <1>2
<1>5. k >= 0
  <2>1. ASSUME k <= -1 PROVE h * k <= h * (-1)
    BY <1>2, <2>1
  <2>. QED BY <2>1, <1>3, <1>2
<1>. QED BY <1>2, <1>4, <1>5 DEF k, t

\* A rotated LAC is a LAC.
LEMMA Rotated1 ==
    ASSUME NEW x \in Lac, NEW c \in {"none", "BSW", "RAL", "RTL", "RAR", "RTR"}
    PROVE  Arithmetic!Rotate(c, x) \in Lac
<1>1. B \in Nat \ {0} /\ Sg \in Nat \ {0} /\ Hf \in Nat \ {0} /\ B = 2 * Sg /\ B = Hf * Hf
      /\ x \in Int /\ x >= 0 /\ x < 2 * B
  BY Sizes DEF Lac
<1>2. /\ x \div B \in 0 .. 1 /\ x % B \in 0 .. B - 1 /\ x = B * (x \div B) + (x % B)
      /\ x \div Sg \in 0 .. 3 /\ x % Sg \in 0 .. Sg - 1 /\ x = Sg * (x \div Sg) + (x % Sg)
  BY Halves
<1>3. CASE c = "none"
  BY <1>3, Rotations
<1>4. CASE c = "BSW"
  <2>. DEFINE l == x \div B
              a == x % B
              h == a \div Hf
              t == x % Hf
  <2>1. l \in 0 .. 1 /\ a \in 0 .. Hf * Hf - 1
    BY <1>1, <1>2
  <2>2. h \in 0 .. Hf - 1
    <3>. HIDE DEF a, Hf
    <3>. QED BY <1>1, <2>1, InSquare
  <2>3. t \in 0 .. Hf - 1
    <3>. HIDE DEF Hf, B
    <3>. QED BY <1>1, Division
  <2>4. Arithmetic!Rotate(c, x) = B * l + Hf * t + h
    BY <1>4, Rotations
  <2>. HIDE DEF l, a, h, t, B, Hf, Sg
  <2>5. Hf * t \in Int /\ Hf * t >= 0 /\ Hf * t <= Hf * (Hf - 1)
    BY <1>1, <2>3
  <2>6. Hf * (Hf - 1) = B - Hf
    BY <1>1
  <2>7. B * l + Hf * t + h \in 0 .. 2 * B - 1
    BY <1>1, <2>1, <2>2, <2>5, <2>6
  <2>. QED BY <2>4, <2>7 DEF Lac
<1>5. CASE c = "RAL"
  <2>. DEFINE l == x \div B
              a == x % B
  <2>1. l \in 0 .. 1 /\ a \in 0 .. B - 1
    BY <1>2
  <2>2. Arithmetic!Rotate(c, x) = 2 * a + l
    BY <1>5, Rotations
  <2>. HIDE DEF l, a, B
  <2>3. 2 * a + l \in 0 .. 2 * B - 1
    BY <2>1, <1>1
  <2>. QED BY <2>2, <2>3 DEF Lac
<1>6. CASE c = "RTL"
  <2>. DEFINE l == x \div Sg
              a == x % Sg
  <2>1. l \in 0 .. 3 /\ a \in 0 .. Sg - 1
    BY <1>2
  <2>2. Arithmetic!Rotate(c, x) = 4 * a + l
    BY <1>6, Rotations
  <2>. HIDE DEF l, a, B, Sg
  <2>3. 4 * a + l \in 0 .. 2 * B - 1
    BY <2>1, <1>1
  <2>. QED BY <2>2, <2>3 DEF Lac
<1>7. CASE c = "RAR"
  <2>. DEFINE h == x \div 2
              a == x % 2
  <2>1. h \in Int /\ a \in 0 .. 1 /\ x = 2 * h + a
    BY <1>1, Division
  <2>2. Arithmetic!Rotate(c, x) = B * a + h
    BY <1>7, Rotations
  <2>. HIDE DEF h, a, B
  <2>3. B * a + h \in 0 .. 2 * B - 1
    BY <2>1, <1>1
  <2>. QED BY <2>2, <2>3 DEF Lac
<1>8. CASE c = "RTR"
  <2>. DEFINE h == x \div 4
              a == x % 4
  <2>1. h \in Int /\ a \in 0 .. 3 /\ x = 4 * h + a
    BY <1>1, Division
  <2>2. Arithmetic!Rotate(c, x) = Sg * a + h
    BY <1>8, Rotations
  <2>. HIDE DEF h, a, B, Sg
  <2>3. Sg * a + h \in 0 .. 2 * B - 1
    BY <2>1, <1>1
  <2>. QED BY <2>2, <2>3 DEF Lac
<1>. QED BY <1>3, <1>4, <1>5, <1>6, <1>7, <1>8

\* RTL is RAL twice.
LEMMA TwiceLeft ==
    ASSUME NEW x \in Lac
    PROVE  Arithmetic!Rotate("RTL", x) = Arithmetic!Rotate("RAL", Arithmetic!Rotate("RAL", x))
<1>1. B \in Nat \ {0} /\ Sg \in Nat \ {0} /\ B = 2 * Sg /\ x \in Int
  BY Sizes DEF Lac
<1>. DEFINE k == x \div Sg
            t == x % Sg
            y == Arithmetic!Rotate("RAL", x)
<1>2. k \in 0 .. 3 /\ t \in 0 .. Sg - 1 /\ x = Sg * k + t
  BY Halves
<1>3. y \in Lac /\ y = 2 * (x % B) + (x \div B) /\ Arithmetic!Rotate("RTL", x) = 4 * t + k
  BY Rotations, Rotated1
<1>4. Arithmetic!Rotate("RAL", y) = 2 * (y % B) + (y \div B)
  <2>. HIDE DEF y
  <2>. QED BY <1>3, Rotations
<1>. HIDE DEF y, k, t, B, Sg
<1>5. PICK i \in 0 .. 1, j \in 0 .. 1 : k = 2 * i + j
  <2>1. k = 2 * 0 + 0 \/ k = 2 * 0 + 1 \/ k = 2 * 1 + 0 \/ k = 2 * 1 + 1
    BY <1>2
  <2>. QED BY <2>1
<1>6. x \div B = i /\ x % B = Sg * j + t
  <2>1. x = B * i + (Sg * j + t) /\ Sg * j + t \in 0 .. B - 1 /\ i \in Int
    BY <1>1, <1>2, <1>5
  <2>. HIDE DEF Lac
  <2>2. ASSUME NEW e \in 0 .. B - 1, x = B * i + e PROVE x \div B = i /\ x % B = e
    <3>1. i \in Int /\ x \in Int /\ B \in Nat \ {0}
      BY <2>1, <1>1
    <3>. QED BY <2>2, <3>1, Quotient
  <2>. QED BY <2>1, <2>2
<1>7. y = B * j + (2 * t + i) /\ 2 * t + i \in 0 .. B - 1
  BY <1>1, <1>2, <1>3, <1>5, <1>6
<1>8. y \div B = j /\ y % B = 2 * t + i
  <2>1. ASSUME NEW e \in 0 .. B - 1, y = B * j + e PROVE y \div B = j /\ y % B = e
    <3>1. y \in Int /\ j \in Int
      BY <1>3, <1>1, <2>1 DEF Lac
    <3>. QED BY <3>1, <2>1, <1>1, Quotient
  <2>. QED BY <2>1, <1>7
<1>9. 2 * (2 * t + i) + j = 4 * t + k
  BY <1>2, <1>5, <1>1
<1>. QED BY <1>3, <1>4, <1>8, <1>9 DEF y

\* RTR is RAR twice.
LEMMA TwiceRight ==
    ASSUME NEW x \in Lac
    PROVE  Arithmetic!Rotate("RTR", x) = Arithmetic!Rotate("RAR", Arithmetic!Rotate("RAR", x))
<1>1. B \in Nat \ {0} /\ Sg \in Nat \ {0} /\ B = 2 * Sg /\ x \in Int /\ x >= 0 /\ x < 2 * B
  BY Sizes DEF Lac
<1>. DEFINE h == x \div 4
            a == x % 4
            y == Arithmetic!Rotate("RAR", x)
<1>2. h \in Int /\ a \in 0 .. 3 /\ x = 4 * h + a
  BY <1>1, Division
<1>3. y \in Lac /\ y = B * (x % 2) + (x \div 2) /\ Arithmetic!Rotate("RTR", x) = Sg * a + h
  BY Rotations, Rotated1
<1>4. Arithmetic!Rotate("RAR", y) = B * (y % 2) + (y \div 2)
  <2>. HIDE DEF y
  <2>. QED BY <1>3, Rotations
<1>. HIDE DEF y, h, a, B, Sg
<1>5. PICK i \in 0 .. 1, j \in 0 .. 1 : a = 2 * i + j
  <2>1. a = 2 * 0 + 0 \/ a = 2 * 0 + 1 \/ a = 2 * 1 + 0 \/ a = 2 * 1 + 1
    BY <1>2
  <2>. QED BY <2>1
<1>6. x \div 2 = 2 * h + i /\ x % 2 = j
  BY <1>1, <1>2, <1>5
<1>7. y = 2 * (Sg * j + h) + i
  BY <1>1, <1>2, <1>3, <1>5, <1>6
<1>8. y \div 2 = Sg * j + h /\ y % 2 = i
  <2>1. Sg * j + h \in Int
    BY <1>1, <1>2, <1>5
  <2>. HIDE DEF Lac
  <2>2. ASSUME NEW q \in Int, y = 2 * q + i PROVE y \div 2 = q /\ y % 2 = i
    BY <2>2, <1>5
  <2>. QED BY <2>1, <2>2, <1>7
<1>9. B * i + (Sg * j + h) = Sg * a + h
  BY <1>1, <1>2, <1>5
<1>. QED BY <1>3, <1>4, <1>8, <1>9 DEF y

\* Left and right undo each other, and BSW undoes itself.
LEMMA BackAgain ==
    ASSUME NEW x \in Lac
    PROVE  /\ x = Arithmetic!Rotate("RAR", Arithmetic!Rotate("RAL", x))
           /\ x = Arithmetic!Rotate("RTR", Arithmetic!Rotate("RTL", x))
           /\ x = Arithmetic!Rotate("BSW", Arithmetic!Rotate("BSW", x))
<1>1. B \in Nat \ {0} /\ Sg \in Nat \ {0} /\ Hf \in Nat \ {0} /\ B = 2 * Sg /\ B = Hf * Hf
      /\ x \in Int /\ x >= 0 /\ x < 2 * B
  BY Sizes DEF Lac
<1>2. x = Arithmetic!Rotate("RAR", Arithmetic!Rotate("RAL", x))
  <2>. DEFINE l == x \div B
              a == x % B
              y == Arithmetic!Rotate("RAL", x)
  <2>1. l \in 0 .. 1 /\ a \in 0 .. B - 1 /\ x = B * l + a
    BY Halves
  <2>2. y \in Lac /\ y = 2 * a + l
    BY Rotations, Rotated1
  <2>3. Arithmetic!Rotate("RAR", y) = B * (y % 2) + (y \div 2)
    <3>. HIDE DEF y
    <3>. QED BY <2>2, Rotations
  <2>. HIDE DEF y, l, a, B
  <2>4. y % 2 = l /\ y \div 2 = a
    BY <2>1, <2>2, <1>1
  <2>. QED BY <2>1, <2>3, <2>4 DEF y
<1>3. x = Arithmetic!Rotate("RTR", Arithmetic!Rotate("RTL", x))
  <2>. DEFINE l == x \div Sg
              a == x % Sg
              y == Arithmetic!Rotate("RTL", x)
  <2>1. l \in 0 .. 3 /\ a \in 0 .. Sg - 1 /\ x = Sg * l + a
    BY Halves
  <2>2. y \in Lac /\ y = 4 * a + l
    BY Rotations, Rotated1
  <2>3. Arithmetic!Rotate("RTR", y) = Sg * (y % 4) + (y \div 4)
    <3>. HIDE DEF y
    <3>. QED BY <2>2, Rotations
  <2>. HIDE DEF y, l, a, Sg
  <2>4. y % 4 = l /\ y \div 4 = a
    BY <2>1, <2>2, <1>1
  <2>. QED BY <2>1, <2>3, <2>4 DEF y
<1>4. x = Arithmetic!Rotate("BSW", Arithmetic!Rotate("BSW", x))
  <2>. DEFINE l == x \div B
              a == x % B
              h == a \div Hf
              t == a % Hf
              y == Arithmetic!Rotate("BSW", x)
              b == Hf * t + h
  <2>1. l \in 0 .. 1 /\ a \in 0 .. B - 1 /\ x = B * l + a
    BY Halves
  <2>2. h \in 0 .. Hf - 1 /\ t \in 0 .. Hf - 1 /\ a = Hf * h + t
    <3>1. a \in 0 .. Hf * Hf - 1
      BY <1>1, <2>1
    <3>. HIDE DEF a, Hf
    <3>. QED BY <1>1, <3>1, InSquare
  <2>3. y \in Lac /\ y = B * l + Hf * (x % Hf) + h
    BY Rotations, Rotated1
  <2>4. Arithmetic!Rotate("BSW", y) = B * (y \div B) + Hf * (y % Hf) + ((y % B) \div Hf)
    <3>. HIDE DEF y
    <3>. QED BY <2>3, Rotations
  <2>. HIDE DEF y, l, a, h, t, B, Hf, Sg
  <2>5. x % Hf = t
    <3>1. x = a + Hf * (Hf * l) /\ Hf * l \in Int /\ a \in Int
      BY <1>1, <2>1
    <3>2. x % Hf = a % Hf
      BY <3>1, <1>1, Shift
    <3>. QED BY <3>2 DEF t
  <2>6. b \in 0 .. B - 1 /\ b \div Hf = t /\ b % Hf = h
    <3>1. Hf * t >= 0 /\ Hf * t <= Hf * (Hf - 1) /\ Hf * t \in Int
      BY <1>1, <2>2
    <3>2. Hf * (Hf - 1) = B - Hf
      BY <1>1
    <3>3. b \in 0 .. B - 1
      BY <1>1, <2>2, <3>1, <3>2
    <3>4. t \in Int
      BY <2>2
    <3>. QED BY <3>3, <3>4, <1>1, <2>2, Splits
  <2>7. y = B * l + b
    BY <2>3, <2>5, <1>1, <2>1, <2>2
  <2>. HIDE DEF b
  <2>8. y \div B = l /\ y % B = b
    <3>1. l \in Int
      BY <2>1
    <3>. QED BY <2>6, <2>7, <3>1, <1>1, Splits
  <2>9. y % Hf = h
    <3>1. y = b + Hf * (Hf * l) /\ Hf * l \in Int /\ b \in Int
      BY <1>1, <2>1, <2>6, <2>7
    <3>2. y % Hf = b % Hf
      BY <3>1, <1>1, Shift
    <3>. QED BY <3>2, <2>6
  <2>10. B * l + Hf * h + t = x
    BY <1>1, <2>1, <2>2
  <2>. QED BY <2>4, <2>6, <2>8, <2>9, <2>10 DEF y
<1>. QED BY <1>2, <1>3, <1>4

----------------------------------------------------------------------------
(* Or, which the code has as an operator on bits, by its sum over the      *)
(* bits.                                                                   *)

\* A sum of finitely many terms has its row of partial sums.
LEMMA SumExists ==
    ASSUME NEW k \in Nat, NEW t \in [1 .. k -> Nat]
    PROVE  \E f \in [0 .. k -> Nat] : f[0] = 0 /\ \A i \in 1 .. k : f[i] = f[i - 1] + t[i]
<1>. DEFINE Rows(n) == {f \in [0 .. n -> Nat] : f[0] = 0 /\ \A i \in 1 .. n : f[i] = f[i - 1] + t[i]}
            U == {n \in Nat : n <= k => Rows(n) # {}}
<1>1. 0 \in U
  <2>. DEFINE g == [i \in 0 .. 0 |-> 0]
  <2>1. g \in Rows(0)
    OBVIOUS
  <2>. QED BY <2>1
<1>2. ASSUME NEW n \in Nat, n \in U PROVE n + 1 \in U
  <2>1. CASE n + 1 <= k
    <3>1. PICK g \in Rows(n) : TRUE
      BY <1>2, <2>1
    <3>2. n + 1 \in 1 .. k /\ t[n + 1] \in Nat
      BY <2>1
    <3>. DEFINE h == [i \in 0 .. n + 1 |-> IF i = n + 1 THEN g[n] + t[n + 1] ELSE g[i]]
    <3>3. h \in [0 .. n + 1 -> Nat]
      BY <3>1, <3>2
    <3>4. h[0] = 0
      BY <3>1
    <3>5. ASSUME NEW i \in 1 .. n + 1 PROVE h[i] = h[i - 1] + t[i]
      <4>1. i - 1 \in 0 .. n /\ i - 1 # n + 1 /\ i \in 0 .. n + 1 /\ i - 1 \in 0 .. n + 1
        OBVIOUS
      <4>2. h[i - 1] = g[i - 1]
        BY <4>1
      <4>3. CASE i = n + 1
        <5>1. h[i] = g[n] + t[n + 1] /\ i - 1 = n
          BY <4>1, <4>3
        <5>. QED BY <5>1, <4>2, <4>3
      <4>4. CASE i # n + 1
        <5>1. i \in 1 .. n /\ h[i] = g[i]
          BY <4>1, <4>4
        <5>2. g[i] = g[i - 1] + t[i]
          BY <3>1, <5>1
        <5>. QED BY <5>1, <5>2, <4>2
      <4>. QED BY <4>3, <4>4
    <3>6. h \in Rows(n + 1)
      BY <3>3, <3>4, <3>5
    <3>7. Rows(n + 1) # {}
      <4>. HIDE DEF h, Rows
      <4>. QED BY <3>6
    <3>. HIDE DEF h, Rows
    <3>. QED BY <3>7
  <2>2. CASE ~(n + 1 <= k)
    BY <2>2
  <2>. QED BY <2>1, <2>2
<1>3. \A n \in Nat : n \in U
  <2>. HIDE DEF U
  <2>. QED BY <1>1, <1>2, Induct
<1>4. Rows(k) # {}
  <2>. HIDE DEF Rows
  <2>. QED BY <1>3
<1>. QED BY <1>4

\* Or is the last of the partial sums over the bits.
LEMMA OrSums ==
    ASSUME NEW m \in Int, NEW n \in Int
    PROVE  \E f \in [0 .. W + 1 -> Nat] :
             /\ Arithmetic!Or(m, n) = f[W + 1] /\ f[0] = 0
             /\ \A i \in 1 .. W + 1 : f[i] = f[i - 1] + Pow2[i - 1] *
                   (IF Arithmetic!Bit(m, i - 1) + Arithmetic!Bit(n, i - 1) > 0 THEN 1 ELSE 0)
<1>. DEFINE term(i) == Pow2[i - 1] *
                   (IF Arithmetic!Bit(m, i - 1) + Arithmetic!Bit(n, i - 1) > 0 THEN 1 ELSE 0)
            t == [i \in 1 .. W + 1 |-> term(i)]
<1>1. W + 1 \in Nat
  BY Sizes
<1>2. t \in [1 .. W + 1 -> Nat]
  <2>1. ASSUME NEW i \in 1 .. W + 1 PROVE term(i) \in Nat
    <3>1. i - 1 \in Nat
      BY <1>1
    <3>2. Pow2[i - 1] \in Nat
      BY <3>1, Positive
    <3>. QED BY <3>2
  <2>. HIDE DEF term
  <2>. QED BY <2>1
<1>3. PICK f \in [0 .. W + 1 -> Nat] : f[0] = 0 /\ \A i \in 1 .. W + 1 : f[i] = f[i - 1] + t[i]
  <2>. HIDE DEF t
  <2>. QED BY <1>1, <1>2, SumExists
<1>4. \A i \in 1 .. W + 1 : f[i] = f[i - 1] + term(i)
  <2>. HIDE DEF term
  <2>. QED BY <1>3
<1>. DEFINE IsSum(g) == g = [i \in 0 .. W + 1 |-> IF i = 0 THEN 0 ELSE g[i - 1] + term(i)]
            or == CHOOSE g : IsSum(g)
<1>5. Arithmetic!Or(m, n) = or[W + 1]
  BY SamePowers DEF Arithmetic!Or
<1>6. IsSum(f)
  <2>. HIDE DEF term
  <2>1. ASSUME NEW i \in 0 .. W + 1 PROVE f[i] = IF i = 0 THEN 0 ELSE f[i - 1] + term(i)
    <3>1. i # 0 => i \in 1 .. W + 1
      BY <1>1
    <3>. QED BY <1>3, <1>4, <3>1
  <2>. QED BY <2>1, <1>3
<1>7. IsSum(or)
  <2>. HIDE DEF IsSum
  <2>. QED BY <1>6
<1>8. \A i \in 0 .. W + 1 : or[i] = f[i]
  <2>. DEFINE V == {k \in Nat : k <= W + 1 => or[k] = f[k]}
  <2>. HIDE DEF or, term
  <2>1. 0 \in V
    BY <1>7, <1>3, <1>1
  <2>2. ASSUME NEW k \in Nat, k \in V PROVE k + 1 \in V
    <3>1. CASE k + 1 <= W + 1
      <4>1. k + 1 \in 1 .. W + 1 /\ k + 1 \in 0 .. W + 1 /\ (k + 1) - 1 = k /\ k + 1 # 0
        BY <3>1, <1>1
      <4>2. or[k] = f[k]
        BY <2>2, <3>1, <1>1
      <4>3. or[k + 1] = or[k] + term(k + 1)
        BY <1>7, <4>1
      <4>4. f[k + 1] = f[k] + term(k + 1)
        BY <1>4, <4>1
      <4>. QED BY <4>2, <4>3, <4>4
    <3>2. CASE ~(k + 1 <= W + 1)
      BY <3>2
    <3>. QED BY <3>1, <3>2
  <2>3. \A k \in Nat : k \in V
    <3>. HIDE DEF V
    <3>. QED BY <2>1, <2>2, Induct
  <2>. QED BY <2>3
<1>9. W + 1 \in 0 .. W + 1
  BY <1>1
<1>10. Arithmetic!Or(m, n) = f[W + 1]
  <2>. HIDE DEF or
  <2>. QED BY <1>5, <1>8, <1>9
<1>. QED BY <1>3, <1>4, <1>10

\* Or of any two numbers has no more bits than LAC.
LEMMA OrRange ==
    ASSUME NEW m \in Int, NEW n \in Int
    PROVE  Arithmetic!Or(m, n) \in Lac
<1>1. PICK f \in [0 .. W + 1 -> Nat] :
             /\ Arithmetic!Or(m, n) = f[W + 1] /\ f[0] = 0
             /\ \A i \in 1 .. W + 1 : f[i] = f[i - 1] + Pow2[i - 1] *
                   (IF Arithmetic!Bit(m, i - 1) + Arithmetic!Bit(n, i - 1) > 0 THEN 1 ELSE 0)
  BY OrSums
<1>2. W + 1 \in Nat
  BY Sizes
<1>. DEFINE V == {k \in Nat : k <= W + 1 => f[k] < Pow2[k]}
<1>3. 0 \in V
  BY <1>1, PowerRecursion
<1>4. ASSUME NEW k \in Nat, k \in V PROVE k + 1 \in V
  <2>1. CASE k + 1 <= W + 1
    <3>1. k + 1 \in 1 .. W + 1 /\ (k + 1) - 1 = k /\ k \in 0 .. W + 1
      BY <2>1, <1>2
    <3>2. f[k] < Pow2[k] /\ f[k] \in Nat
      BY <1>4, <2>1, <1>2, <3>1
    <3>3. Pow2[k] \in Nat /\ Pow2[k + 1] = 2 * Pow2[k]
      BY PowerRecursion
    <3>4. f[k + 1] = f[k] + Pow2[k] *
                   (IF Arithmetic!Bit(m, k) + Arithmetic!Bit(n, k) > 0 THEN 1 ELSE 0)
      BY <1>1, <3>1
    <3>5. f[k + 1] = f[k] + Pow2[k] \/ f[k + 1] = f[k]
      <4>1. Pow2[k] * 1 = Pow2[k] /\ Pow2[k] * 0 = 0
        BY <3>3
      <4>. QED BY <3>2, <3>4, <4>1
    <3>. QED BY <3>2, <3>3, <3>5
  <2>2. CASE ~(k + 1 <= W + 1)
    BY <2>2
  <2>. QED BY <2>1, <2>2
<1>5. \A k \in Nat : k \in V
  <2>. HIDE DEF V
  <2>. QED BY <1>3, <1>4, Induct
<1>6. f[W + 1] < Pow2[W + 1] /\ f[W + 1] \in Nat
  BY <1>2, <1>5
<1>7. Pow2[W + 1] = 2 * B
  BY Sizes, PowerRecursion
<1>. HIDE DEF V
<1>8. B \in Nat
  BY Sizes
<1>. QED BY <1>1, <1>6, <1>7, <1>8 DEF Lac

\* With no bit in common, Or is the sum: the link is put above a word.
LEMMA OrJoins ==
    ASSUME NEW l \in 0 .. 1, NEW a \in 0 .. B - 1
    PROVE  Arithmetic!Or(B * l, a) = B * l + a
<1>. DEFINE m == B * l
<1>1. W \in Nat /\ W + 1 \in Nat /\ B = Pow2[W] /\ B \in Nat \ {0}
  BY Sizes
<1>2. m \in Int /\ a \in Int /\ l \in Int
  <2>. HIDE DEF B
  <2>. QED BY <1>1
<1>3. PICK f \in [0 .. W + 1 -> Nat] :
             /\ Arithmetic!Or(m, a) = f[W + 1] /\ f[0] = 0
             /\ \A i \in 1 .. W + 1 : f[i] = f[i - 1] + Pow2[i - 1] *
                   (IF Arithmetic!Bit(m, i - 1) + Arithmetic!Bit(a, i - 1) > 0 THEN 1 ELSE 0)
  <2>. HIDE DEF m
  <2>. QED BY <1>2, OrSums
<1>4. ASSUME NEW n \in Int, NEW i \in Nat PROVE
          /\ Arithmetic!Bit(n, i) \in 0 .. 1 /\ n % Pow2[i] \in Nat
          /\ n % Pow2[i + 1] = (n % Pow2[i]) + Pow2[i] * Arithmetic!Bit(n, i)
  <2>1. Pow2[i] \in Nat \ {0} /\ Pow2[i + 1] = 2 * Pow2[i] /\ 2 \in Nat \ {0}
    <3>1. Pow2[i] \in Nat \ {0}
      BY Positive
    <3>2. Pow2[i + 1] = 2 * Pow2[i]
      BY PowerRecursion
    <3>. QED BY <3>1, <3>2
  <2>2. Arithmetic!Bit(n, i) = (n \div Pow2[i]) % 2
    BY SamePowers DEF Arithmetic!Bit
  <2>3. n \div Pow2[i] \in Int /\ n % Pow2[i] \in 0 .. Pow2[i] - 1
    BY <2>1, Division
  <2>4. (n \div Pow2[i]) % 2 \in 0 .. 1
    BY <2>3
  <2>5. n % (Pow2[i] * 2) = Pow2[i] * ((n \div Pow2[i]) % 2) + (n % Pow2[i])
    BY <2>1, Nested
  <2>6. Pow2[i] * 2 = Pow2[i + 1]
    BY <2>1
  <2>7. Pow2[i] * Arithmetic!Bit(n, i) \in Int
    BY <2>1, <2>2, <2>4
  <2>. QED BY <2>1, <2>2, <2>3, <2>4, <2>5, <2>6, <2>7
<1>5. ASSUME NEW i \in Nat, i < W PROVE Arithmetic!Bit(m, i) = 0
  <2>1. W - i - 1 \in Nat /\ i + (W - i) = W /\ (W - i - 1) + 1 = W - i
    BY <1>1, <1>5
  <2>2. B = Pow2[i] * Pow2[W - i] /\ Pow2[W - i] = 2 * Pow2[W - i - 1]
    <3>1. Pow2[i + (W - i)] = Pow2[i] * Pow2[W - i]
      <4>1. W - i \in Nat
        BY <1>1, <1>5
      <4>. QED BY <4>1, Product
    <3>2. Pow2[(W - i - 1) + 1] = 2 * Pow2[W - i - 1]
      BY <2>1, PowerRecursion
    <3>. QED BY <3>1, <3>2, <2>1, <1>1
  <2>3. Pow2[i] \in Nat \ {0} /\ Pow2[W - i - 1] \in Nat \ {0}
    BY <2>1, Positive
  <2>. DEFINE p == Pow2[i]
              q == Pow2[W - i - 1]
  <2>4. p \in Nat \ {0} /\ q \in Nat \ {0} /\ B = p * (2 * q)
    BY <2>2, <2>3
  <2>5. Arithmetic!Bit(m, i) = (m \div p) % 2
    BY SamePowers DEF Arithmetic!Bit
  <2>. HIDE DEF p, q, B
  <2>6. m = p * (2 * (q * l)) + 0 /\ q * l \in Int /\ 2 * (q * l) \in Int
    BY <2>4, <1>2
  <2>7. m \div p = 2 * (q * l)
    <3>. DEFINE k == 2 * (q * l)
    <3>1. m = p * k + 0 /\ k \in Int /\ 0 \in 0 .. p - 1
      BY <2>4, <2>6
    <3>. HIDE DEF k, m
    <3>2. m \div p = k
      BY <3>1, <1>2, <2>4, Quotient
    <3>. QED BY <3>2 DEF k
  <2>8. ASSUME NEW z \in Int PROVE (2 * z) % 2 = 0
    OBVIOUS
  <2>. QED BY <2>5, <2>6, <2>7, <2>8
<1>6. Arithmetic!Bit(m, W) = l
  <2>1. Arithmetic!Bit(m, W) = (m \div B) % 2
    BY SamePowers, <1>1 DEF Arithmetic!Bit
  <2>. HIDE DEF B
  <2>2. (B * l + 0) \div B = l
    <3>1. 0 \in 0 .. B - 1
      BY <1>1
    <3>. QED BY <3>1, <1>1, <1>2, Splits
  <2>3. m \div B = l
    <3>1. B * l + 0 = B * l
      BY <1>1, <1>2
    <3>. QED BY <2>2, <3>1
  <2>4. l % 2 = l
    OBVIOUS
  <2>. HIDE DEF m
  <2>. QED BY <2>1, <2>3, <2>4
<1>7. Arithmetic!Bit(a, W) = 0
  <2>1. Arithmetic!Bit(a, W) = (a \div B) % 2
    BY SamePowers, <1>1 DEF Arithmetic!Bit
  <2>. HIDE DEF B
  <2>2. a = B * 0 + a /\ 0 \in Int
    BY <1>1
  <2>3. a \div B = 0
    BY <2>2, <1>1, <1>2, Quotient
  <2>. QED BY <2>1, <2>3
<1>. HIDE DEF m
<1>. DEFINE V == {k \in Nat : k <= W => f[k] = a % Pow2[k]}
<1>8. 0 \in V
  <2>1. a % 1 = 0
    BY <1>2
  <2>. QED BY <2>1, <1>3, PowerRecursion
<1>9. ASSUME NEW k \in Nat, k \in V PROVE k + 1 \in V
  <2>1. CASE k + 1 <= W
    <3>1. k + 1 \in 1 .. W + 1 /\ (k + 1) - 1 = k /\ k < W
      BY <2>1, <1>1
    <3>2. f[k] = a % Pow2[k]
      BY <1>9, <2>1, <1>1
    <3>3. f[k + 1] = f[k] + Pow2[k] *
                   (IF Arithmetic!Bit(m, k) + Arithmetic!Bit(a, k) > 0 THEN 1 ELSE 0)
      BY <1>3, <3>1
    <3>4. Arithmetic!Bit(m, k) = 0 /\ Arithmetic!Bit(a, k) \in 0 .. 1
      BY <1>4, <1>5, <1>2, <3>1
    <3>5. (IF Arithmetic!Bit(m, k) + Arithmetic!Bit(a, k) > 0 THEN 1 ELSE 0) = Arithmetic!Bit(a, k)
      BY <3>4
    <3>6. a % Pow2[k + 1] = (a % Pow2[k]) + Pow2[k] * Arithmetic!Bit(a, k)
      BY <1>4, <1>2
    <3>. QED BY <3>2, <3>3, <3>5, <3>6
  <2>2. CASE ~(k + 1 <= W)
    BY <2>2
  <2>. QED BY <2>1, <2>2
<1>10. \A k \in Nat : k \in V
  <2>. HIDE DEF V
  <2>. QED BY <1>8, <1>9, Induct
<1>11. f[W] = a
  <2>1. f[W] = a % B
    BY <1>1, <1>10
  <2>2. a % B = a
    <3>. HIDE DEF B
    <3>1. a = B * 0 + a /\ 0 \in Int
      BY <1>1
    <3>. QED BY <3>1, <1>1, <1>2, Quotient
  <2>. QED BY <2>1, <2>2
<1>12. f[W + 1] = f[W] + B * (IF l + 0 > 0 THEN 1 ELSE 0)
  <2>1. W + 1 \in 1 .. W + 1 /\ (W + 1) - 1 = W
    BY <1>1
  <2>. QED BY <2>1, <1>3, <1>1, <1>6, <1>7
<1>13. (IF l + 0 > 0 THEN 1 ELSE 0) = l
  OBVIOUS
<1>14. f[W + 1] = B * l + a
  <2>1. f[W + 1] = a + B * l
    BY <1>11, <1>12, <1>13
  <2>2. B * l \in Int
    BY <1>2 DEF m
  <2>. QED BY <2>1, <2>2, <1>2
<1>. QED BY <1>3, <1>14 DEF m

----------------------------------------------------------------------------
(* The registers and what they stand for.                                  *)

BWord == 0 .. B - 1
Regs == [LAC : Lac, MQ : BWord, SC : 0 .. Mk, gtf : {0, 1}, emode : {0, 1}]
D == B * B

\* Regs is the type of the registers.
LEMMA TypeOfR == Arithmetic!TypeOK <=> r \in Regs
BY DEF Arithmetic!TypeOK, Arithmetic!Word, Regs, Lac, BWord, B, Mk

\* A word of memory is a word.
LEMMA OperandWord == Operands \subseteq BWord
BY Widths, SamePowers DEF Arithmetic!WidthAssumption, BWord, B, Arithmetic!Link

\* The double word, its sign and its halves.
LEMMA Squares ==
    /\ B \in Nat \ {0} /\ Sg \in Nat \ {0} /\ B = 2 * Sg
    /\ D \in Nat \ {0} /\ D = B * B /\ Sg * B \in Nat \ {0} /\ D = 2 * (Sg * B)
<1>1. B \in Nat \ {0} /\ Sg \in Nat \ {0} /\ B = 2 * Sg
  BY Sizes
<1>. HIDE DEF B, Sg
<1>2. B * B \in Nat \ {0} /\ Sg * B \in Nat \ {0} /\ B * B = 2 * (Sg * B)
  BY <1>1
<1>. QED BY <1>1, <1>2 DEF D

\* What the registers stand for.
LEMMA Reading ==
    ASSUME NEW x \in Regs
    PROVE  /\ Arithmetic!AC(x) = x.LAC % B /\ Arithmetic!AC(x) \in 0 .. B - 1
           /\ Arithmetic!L(x) = x.LAC \div B /\ Arithmetic!L(x) \in 0 .. 1
           /\ x.LAC = B * Arithmetic!L(x) + Arithmetic!AC(x)
           /\ Arithmetic!Double(x) = B * Arithmetic!AC(x) + x.MQ
           /\ Arithmetic!Double(x) \in 0 .. D - 1
           /\ Arithmetic!Long(x) = D * Arithmetic!L(x) + Arithmetic!Double(x)
           /\ Arithmetic!Long(x) \in 0 .. 2 * D - 1
           /\ Arithmetic!AC(x) >= Sg <=> Arithmetic!Double(x) >= Sg * B
           /\ Arithmetic!Signed(x) = IF Arithmetic!Double(x) >= Sg * B
                                     THEN Arithmetic!Double(x) - D ELSE Arithmetic!Double(x)
           /\ Arithmetic!Signed(x) \in -(Sg * B) .. Sg * B - 1
<1>1. B \in Nat \ {0} /\ Sg \in Nat \ {0} /\ B = 2 * Sg /\ D = B * B /\ D = 2 * (Sg * B)
      /\ D \in Nat /\ Sg * B \in Nat
  BY Squares
<1>2. x.LAC \in Lac /\ x.MQ \in 0 .. B - 1
  BY DEF Regs, BWord
<1>. DEFINE l == Arithmetic!L(x)
            a == Arithmetic!AC(x)
            q == x.MQ
            d == Arithmetic!Double(x)
<1>3. a = x.LAC % B /\ l = x.LAC \div B
  BY DEF Arithmetic!AC, Arithmetic!L, B
<1>4. l \in 0 .. 1 /\ a \in 0 .. B - 1 /\ x.LAC = B * l + a
  <2>. HIDE DEF l, a
  <2>. QED BY <1>2, <1>3, Halves
<1>5. d = a * B + q /\ Arithmetic!Long(x) = x.LAC * B + q
  BY DEF Arithmetic!Double, Arithmetic!Long, B
<1>6. Arithmetic!Signed(x) = IF a >= Sg THEN d - B * B ELSE d
  BY DEF Arithmetic!Signed, B, Sg
<1>. HIDE DEF l, a, q, d, B, Sg, D
<1>7. a * B \in Int /\ a * B >= 0 /\ a * B <= (B - 1) * B /\ (B - 1) * B = D - B
  <2>1. a <= B - 1 /\ a >= 0 /\ a \in Int
    BY <1>4
  <2>. QED BY <2>1, <1>1
<1>8. q \in Int /\ q >= 0 /\ q <= B - 1
  BY <1>2, <1>1 DEF q
<1>9. d = B * a + q /\ d \in 0 .. D - 1
  <2>1. a * B = B * a
    BY <1>1, <1>4
  <2>. QED BY <2>1, <1>1, <1>5, <1>7, <1>8
<1>10. Arithmetic!Long(x) = D * l + d
  <2>1. (B * l + a) * B = D * l + a * B
    BY <1>1, <1>4
  <2>2. D * l \in Int
    BY <1>1, <1>4
  <2>. QED BY <2>1, <2>2, <1>4, <1>5, <1>7, <1>8
<1>11. Arithmetic!Long(x) \in 0 .. 2 * D - 1
  <2>1. D * l = 0 \/ D * l = D
    <3>1. l = 0 \/ l = 1
      BY <1>4
    <3>. QED BY <3>1, <1>1
  <2>. QED BY <2>1, <1>9, <1>10, <1>1
<1>12. a >= Sg <=> d >= Sg * B
  <2>1. ASSUME a >= Sg PROVE a * B >= Sg * B
    BY <2>1, <1>1, <1>4
  <2>2. ASSUME ~(a >= Sg) PROVE a * B <= Sg * B - B
    <3>1. a <= Sg - 1 /\ a \in Int
      BY <2>2, <1>1, <1>4
    <3>2. a * B <= (Sg - 1) * B
      BY <3>1, <1>1
    <3>3. (Sg - 1) * B = Sg * B - B
      BY <1>1
    <3>. QED BY <3>2, <3>3
  <2>. QED BY <2>1, <2>2, <1>1, <1>5, <1>7, <1>8
<1>13. Arithmetic!Signed(x) = IF d >= Sg * B THEN d - D ELSE d
  BY <1>1, <1>6, <1>12
<1>14. Arithmetic!Signed(x) \in -(Sg * B) .. Sg * B - 1
  BY <1>1, <1>9, <1>13
<1>. QED BY <1>3, <1>4, <1>9, <1>10, <1>11, <1>12, <1>13, <1>14 DEF l, a, q, d

\* What Holding puts into them.
LEMMA Held ==
    ASSUME NEW x \in Regs, NEW n \in Int
    PROVE  LET y == Arithmetic!Holding(x, n) IN
           /\ y \in Regs /\ y = [x EXCEPT !.LAC = (n \div B) % (2 * B), !.MQ = n % B]
           /\ y.SC = x.SC /\ y.gtf = x.gtf /\ y.emode = x.emode
           /\ y.LAC = (n \div B) % (2 * B) /\ y.MQ = n % B
           /\ Arithmetic!Long(y) = n % (2 * D) /\ Arithmetic!Double(y) = n % D
           /\ Arithmetic!L(y) = (n \div D) % 2
<1>. DEFINE y == Arithmetic!Holding(x, n)
            k == n \div B
            q == n % B
            v == k % (2 * B)
<1>1. B \in Nat \ {0} /\ D = B * B /\ D \in Nat \ {0}
  BY Squares
<1>2. /\ x.LAC \in Lac /\ x.MQ \in BWord /\ x.SC \in 0 .. Mk /\ x.gtf \in {0, 1} /\ x.emode \in {0, 1}
      /\ x = [LAC |-> x.LAC, MQ |-> x.MQ, SC |-> x.SC, gtf |-> x.gtf, emode |-> x.emode]
  BY DEF Regs
<1>3. y = [x EXCEPT !.LAC = v, !.MQ = q]
  BY DEF Arithmetic!Holding, B
<1>4. k \in Int /\ q \in 0 .. B - 1
  <2>. HIDE DEF B
  <2>. QED BY <1>1, Division
<1>5. v \in 0 .. 2 * B - 1
  <2>. HIDE DEF B, k
  <2>. QED BY <1>1, <1>4
<1>. HIDE DEF v, q, k, y, B
<1>6. /\ y.LAC = v /\ y.MQ = q /\ y.SC = x.SC /\ y.gtf = x.gtf /\ y.emode = x.emode
      /\ y = [LAC |-> v, MQ |-> q, SC |-> x.SC, gtf |-> x.gtf, emode |-> x.emode]
  BY <1>2, <1>3
<1>7. y \in Regs
  <2>1. v \in Lac /\ q \in BWord
    BY <1>4, <1>5 DEF Lac, BWord
  <2>. QED BY <2>1, <1>2, <1>6 DEF Regs
<1>8. v = B * ((k \div B) % 2) + (k % B) /\ k \div B = n \div D
  <2>1. k % (B * 2) = B * ((k \div B) % 2) + (k % B)
    <3>1. 2 \in Nat \ {0}
      OBVIOUS
    <3>. QED BY <3>1, <1>1, <1>4, Nested
  <2>2. B * 2 = 2 * B
    BY <1>1
  <2>3. (n \div B) \div B = n \div (B * B)
    <3>1. B \in Nat \ {0}
      BY <1>1
    <3>. QED BY <3>1, Nested, Zenon
  <2>. QED BY <2>1, <2>2, <2>3, <1>1 DEF v, k
<1>9. k % B \in 0 .. B - 1 /\ (k \div B) % 2 \in 0 .. 1 /\ k \div B \in Int
  BY <1>1, <1>4, Division
<1>10. v % B = k % B /\ v \div B = (k \div B) % 2
  <2>. DEFINE i == (k \div B) % 2
              t == k % B
  <2>1. i \in Int /\ t \in 0 .. B - 1 /\ v = B * i + t
    BY <1>8, <1>9
  <2>. HIDE DEF i, t
  <2>2. (B * i + t) \div B = i /\ (B * i + t) % B = t
    BY <2>1, <1>1, Splits
  <2>. QED BY <2>1, <2>2 DEF i, t
<1>11. Arithmetic!L(y) = (n \div D) % 2
  <2>1. Arithmetic!L(y) = y.LAC \div B
    BY DEF Arithmetic!L, B
  <2>. QED BY <2>1, <1>6, <1>8, <1>10
<1>12. Arithmetic!Double(y) = n % D
  <2>1. Arithmetic!Double(y) = (y.LAC % B) * B + y.MQ
    BY DEF Arithmetic!Double, Arithmetic!AC, B
  <2>2. n % (B * B) = B * (k % B) + q
    BY <1>1, Nested DEF k, q
  <2>3. (k % B) * B = B * (k % B)
    BY <1>1, <1>9
  <2>. QED BY <2>1, <2>2, <2>3, <1>6, <1>10, <1>1
<1>13. Arithmetic!Long(y) = n % (2 * D)
  <2>1. Arithmetic!Long(y) = y.LAC * B + y.MQ
    BY DEF Arithmetic!Long, B
  <2>2. n % (B * (2 * B)) = B * v + q
    <3>1. 2 * B \in Nat \ {0}
      BY <1>1
    <3>. QED BY <3>1, <1>1, Nested DEF k, q, v
  <2>3. v * B = B * v /\ B * (2 * B) = 2 * D
    BY <1>1, <1>5
  <2>. QED BY <2>1, <2>2, <2>3, <1>6
<1>14. y.LAC = (n \div B) % (2 * B) /\ y.MQ = n % B
  BY <1>6 DEF v, q, k
<1>15. y = [x EXCEPT !.LAC = (n \div B) % (2 * B), !.MQ = n % B]
  BY <1>3 DEF v, q, k
<1>. QED BY <1>6, <1>7, <1>11, <1>12, <1>13, <1>14, <1>15 DEF y

\* A signed double word that fits is held as it is.
LEMMA SignedHeld ==
    ASSUME NEW x \in Regs, NEW n \in -(Sg * B) .. Sg * B - 1
    PROVE  LET y == Arithmetic!Holding(x, n) IN
           Arithmetic!Signed(y) = n /\ Arithmetic!L(y) = (IF n < 0 THEN 1 ELSE 0)
<1>. DEFINE y == Arithmetic!Holding(x, n)
            h == Sg * B
<1>1. h \in Nat \ {0} /\ D = 2 * h /\ D \in Nat \ {0}
  BY Squares
<1>2. n \in Int /\ n >= -h /\ n <= h - 1
  <2>. HIDE DEF D
  <2>1. Sg * B \in Int
    BY <1>1
  <2>. HIDE DEF Sg, B
  <2>. QED BY <2>1
<1>3. y \in Regs /\ Arithmetic!Double(y) = n % D /\ Arithmetic!L(y) = (n \div D) % 2
  BY <1>2, Held
<1>. HIDE DEF y
<1>4. Arithmetic!Signed(y) = IF Arithmetic!Double(y) >= h THEN Arithmetic!Double(y) - D ELSE Arithmetic!Double(y)
  BY <1>3, Reading
<1>. HIDE DEF h, D
<1>5. CASE n < 0
  <2>1. n = D * (-1) + (n + D) /\ n + D \in 0 .. D - 1 /\ -1 \in Int
    BY <1>1, <1>2, <1>5
  <2>2. n \div D = -1 /\ n % D = n + D
    <3>. DEFINE t == n + D
    <3>1. t \in 0 .. D - 1 /\ n = D * (-1) + t /\ -1 \in Int
      BY <2>1
    <3>. HIDE DEF t
    <3>2. n \div D = -1 /\ n % D = t
      BY <3>1, <1>1, <1>2, Quotient
    <3>. QED BY <3>2 DEF t
  <2>3. (-1) % 2 = 1
    <3>1. -1 \in Int /\ 2 \in Nat \ {0} /\ 1 \in 0 .. 2 - 1 /\ -1 = 2 * (-1) + 1
      OBVIOUS
    <3>. QED BY <3>1, Quotient
  <2>. QED BY <2>2, <2>3, <1>1, <1>2, <1>3, <1>4, <1>5 DEF y
<1>6. CASE n >= 0
  <2>1. n = D * 0 + n /\ n \in 0 .. D - 1 /\ 0 \in Int
    BY <1>1, <1>2, <1>6
  <2>2. n \div D = 0 /\ n % D = n
    BY <2>1, <1>1, <1>2, Quotient
  <2>. QED BY <2>2, <1>1, <1>2, <1>3, <1>4, <1>6 DEF y
<1>. QED BY <1>2, <1>5, <1>6

----------------------------------------------------------------------------
(* MUY and DVI.                                                            *)

\* MUY adds the product of MQ and the operand to AC and clears the link.
LEMMA Multiplied ==
    ASSUME NEW x \in Regs, NEW m \in BWord
    PROVE  LET p == Arithmetic!MUY(x, m) IN
           /\ p \in Regs /\ Arithmetic!L(p) = 0
           /\ Arithmetic!Double(p) = x.MQ * m + Arithmetic!AC(x)
<1>. DEFINE z == [x EXCEPT !.LAC = 0]
            a == Arithmetic!AC(x)
            n == x.MQ * m + a
            h == Arithmetic!Holding(z, n)
            p == Arithmetic!MUY(x, m)
<1>1. B \in Nat \ {0} /\ D = B * B /\ D \in Nat \ {0} /\ W \in 0 .. Mk
  BY Squares, Sizes
<1>2. z \in Regs
  <2>1. 0 \in Lac
    BY <1>1 DEF Lac
  <2>. HIDE DEF B, Mk
  <2>. QED BY <2>1 DEF Regs
<1>3. a \in 0 .. B - 1
  BY Reading
<1>4. n \in Int /\ n >= 0 /\ n < D
  <2>. DEFINE q == x.MQ
  <2>1. q \in Int /\ q >= 0 /\ q <= B - 1 /\ m \in Int /\ m >= 0 /\ m <= B - 1
    BY <1>1 DEF Regs, BWord
  <2>. HIDE DEF q, B, D, a
  <2>2. q * m \in Int /\ q * m >= 0
    BY <2>1
  <2>3. q * m <= (B - 1) * m /\ (B - 1) * m <= (B - 1) * (B - 1)
    BY <2>1, <1>1
  <2>4. (B - 1) * (B - 1) = D - 2 * B + 1 /\ (B - 1) * m \in Int
    BY <1>1, <2>1
  <2>. QED BY <2>2, <2>3, <2>4, <1>1, <1>3 DEF q
<1>5. p = [h EXCEPT !.SC = W]
  BY DEF Arithmetic!MUY
<1>6. h \in Regs /\ Arithmetic!Double(h) = n % D /\ Arithmetic!L(h) = (n \div D) % 2
  <2>. HIDE DEF z, n
  <2>. QED BY <1>2, <1>4, Held
<1>. HIDE DEF z, a, n, h, p, D
<1>7. p \in Regs /\ p.LAC = h.LAC /\ p.MQ = h.MQ
  BY <1>1, <1>5, <1>6 DEF Regs
<1>8. Arithmetic!Double(p) = Arithmetic!Double(h) /\ Arithmetic!L(p) = Arithmetic!L(h)
  BY <1>7 DEF Arithmetic!Double, Arithmetic!AC, Arithmetic!L
<1>9. n \div D = 0 /\ n % D = n
  <2>1. n = D * 0 + n /\ n \in 0 .. D - 1 /\ 0 \in Int
    BY <1>1, <1>4
  <2>. QED BY <2>1, <1>1, <1>4, Quotient
<1>10. 0 % 2 = 0
  OBVIOUS
<1>. QED BY <1>6, <1>7, <1>8, <1>9, <1>10 DEF n, a, p

\* Comparing the divisor with AC tells whether the quotient fits MQ.
LEMMA LessThanQuotient ==
    ASSUME NEW b \in Nat \ {0}, NEW a \in Nat, NEW q \in 0 .. b - 1, NEW m \in Nat
    PROVE  m > a <=> m * b > b * a + q
<1>1. ASSUME m > a PROVE m * b > b * a + q
  <2>1. m >= a + 1
    BY <1>1
  <2>2. m * b >= (a + 1) * b
    BY <2>1
  <2>3. (a + 1) * b = b * a + b
    OBVIOUS
  <2>4. m * b \in Int /\ b * a \in Int
    OBVIOUS
  <2>. QED BY <2>2, <2>3, <2>4
<1>2. ASSUME m <= a PROVE m * b <= b * a + q
  <2>1. m * b <= a * b
    BY <1>2
  <2>2. a * b = b * a /\ m * b \in Int /\ b * a \in Int
    OBVIOUS
  <2>. QED BY <2>1, <2>2
<1>3. m * b \in Int /\ b * a + q \in Int
  OBVIOUS
<1>. QED BY <1>1, <1>2, <1>3

\* DVI leaves quotient and remainder, or sets the link when the quotient does not fit.
LEMMA Divided ==
    ASSUME NEW x \in Regs, NEW m \in BWord
    PROVE  LET d == Arithmetic!DVI(x, m) IN
           /\ d \in Regs
           /\ m > Arithmetic!AC(x) <=> m * B > Arithmetic!Double(x)
           /\ m > Arithmetic!AC(x) =>
                 /\ m # 0 /\ d.MQ = Arithmetic!Double(x) \div m /\ d.LAC = Arithmetic!Double(x) % m
                 /\ d.MQ * m + d.LAC = Arithmetic!Double(x) /\ d.LAC < m
           /\ ~(m > Arithmetic!AC(x)) => Arithmetic!L(d) = 1
<1>. DEFINE a == Arithmetic!AC(x)
            q == x.MQ
            n == Arithmetic!Double(x)
            d == Arithmetic!DVI(x, m)
<1>1. B \in Nat \ {0} /\ D = B * B /\ D \in Nat \ {0} /\ W + 1 \in 0 .. Mk /\ 0 \in 0 .. Mk
  BY Squares, Sizes
<1>2. a \in 0 .. B - 1 /\ n = B * a + q /\ n \in 0 .. D - 1
  BY Reading
<1>3. q \in 0 .. B - 1 /\ m \in 0 .. B - 1
  BY DEF Regs, BWord
<1>4. d = IF a >= m THEN [x EXCEPT !.LAC = B + a, !.MQ = (2 * q + 1) % B, !.SC = 0]
          ELSE [x EXCEPT !.LAC = n % m, !.MQ = n \div m, !.SC = W + 1]
  BY DEF Arithmetic!DVI, B
<1>. HIDE DEF a, q, n, d, B, D
<1>5. a \in Nat /\ m \in Nat /\ n \in Int /\ n >= 0
  BY <1>1, <1>2, <1>3
<1>6. m > a <=> m * B > n
  BY <1>1, <1>2, <1>3, <1>5, LessThanQuotient
<1>7. CASE m > a
  <2>1. m \in Nat \ {0} /\ ~(a >= m)
    BY <1>5, <1>7
  <2>. DEFINE i == n \div m
              t == n % m
  <2>2. i \in Int /\ t \in 0 .. m - 1 /\ n = m * i + t
    BY <2>1, <1>5, Division
  <2>3. d = [x EXCEPT !.LAC = t, !.MQ = i, !.SC = W + 1]
    BY <2>1, <1>4
  <2>4. n < m * B
    BY <1>6, <1>7
  <2>. HIDE DEF i, t
  <2>5. i < B
    <3>1. ASSUME i >= B PROVE m * i >= m * B
      BY <3>1, <2>1, <2>2, <1>1
    <3>2. m * i \in Int /\ m * B \in Int
      BY <2>1, <2>2, <1>1
    <3>. QED BY <3>1, <3>2, <2>2, <2>4, <1>1
  <2>6. i >= 0
    <3>1. ASSUME i <= -1 PROVE m * i <= m * (-1)
      BY <3>1, <2>1, <2>2
    <3>2. m * i \in Int /\ m * (-1) = -m
      BY <2>1, <2>2
    <3>. QED BY <3>1, <3>2, <2>2, <1>5
  <2>7. i \in BWord /\ t \in Lac
    BY <2>2, <2>5, <2>6, <1>1, <1>3 DEF BWord, Lac
  <2>8. d \in Regs /\ d.MQ = i /\ d.LAC = t
    BY <2>3, <2>7, <1>1 DEF Regs
  <2>9. i * m + t = n /\ t < m
    <3>1. i * m = m * i /\ i * m \in Int
      BY <2>1, <2>2
    <3>. QED BY <3>1, <2>2, <2>1
  <2>. QED BY <2>1, <2>8, <2>9, <1>6, <1>7 DEF i, t, a, n, d
<1>8. CASE ~(m > a)
  <2>1. a >= m
    BY <1>5, <1>8
  <2>2. d = [x EXCEPT !.LAC = B + a, !.MQ = (2 * q + 1) % B, !.SC = 0]
    BY <2>1, <1>4
  <2>3. (2 * q + 1) % B \in BWord /\ B + a \in Lac
    <3>1. 2 * q + 1 \in Int
      BY <1>3
    <3>2. (2 * q + 1) % B \in 0 .. B - 1
      BY <3>1, <1>1, Division
    <3>. QED BY <3>2, <1>1, <1>2 DEF BWord, Lac
  <2>4. d \in Regs /\ d.LAC = B + a
    BY <2>2, <2>3, <1>1 DEF Regs
  <2>5. Arithmetic!L(d) = 1
    <3>1. Arithmetic!L(d) = d.LAC \div B
      BY DEF Arithmetic!L, B
    <3>2. B + a = B * 1 + a /\ 1 \in Int /\ B + a \in Int
      BY <1>1, <1>2
    <3>3. (B + a) \div B = 1
      BY <3>2, <1>1, <1>2, Quotient
    <3>. QED BY <3>1, <3>3, <2>4
  <2>. QED BY <2>4, <2>5, <1>6, <1>8 DEF a, n, d
<1>. QED BY <1>7, <1>8

\* The property of MUY and DVI holds of any registers.
LEMMA MulDivExact == r \in Regs => Arithmetic!MultipliesAndDivides
<1>. SUFFICES ASSUME r \in Regs PROVE Arithmetic!MultipliesAndDivides
  OBVIOUS
<1>1. ASSUME NEW m \in Operands PROVE
        LET p == Arithmetic!MUY(r, m)
            d == Arithmetic!DVI(r, m)
        IN  /\ Arithmetic!Double(p) = r.MQ * m + Arithmetic!AC(r) /\ Arithmetic!L(p) = 0
            /\ m > Arithmetic!AC(r) =>
                  LET b == Arithmetic!DVI(p, m) IN b.MQ = r.MQ /\ b.LAC = Arithmetic!AC(r)
            /\ IF m * B > Arithmetic!Double(r)
               THEN d.MQ * m + d.LAC = Arithmetic!Double(r) /\ d.LAC < m
               ELSE Arithmetic!L(d) = 1
  <2>. DEFINE p == Arithmetic!MUY(r, m)
              d == Arithmetic!DVI(r, m)
              b == Arithmetic!DVI(p, m)
              a == Arithmetic!AC(r)
              q == r.MQ
              n == Arithmetic!Double(p)
  <2>1. m \in BWord
    BY OperandWord
  <2>2. p \in Regs /\ Arithmetic!L(p) = 0 /\ n = q * m + a
    BY <2>1, Multiplied
  <2>3. /\ m > a <=> m * B > Arithmetic!Double(r)
        /\ m > a => d.MQ * m + d.LAC = Arithmetic!Double(r) /\ d.LAC < m
        /\ ~(m > a) => Arithmetic!L(d) = 1
    BY <2>1, Divided
  <2>4. /\ m > Arithmetic!AC(p) <=> m * B > n
        /\ m > Arithmetic!AC(p) => m # 0 /\ b.MQ = n \div m /\ b.LAC = n % m
    <3>. HIDE DEF p
    <3>. QED BY <2>1, <2>2, Divided
  <2>5. a \in 0 .. B - 1 /\ q \in 0 .. B - 1 /\ m \in 0 .. B - 1 /\ B \in Nat \ {0}
    BY <2>1, Reading, Sizes DEF Regs, BWord
  <2>. HIDE DEF p, d, b, a, q, n, B
  <2>6. ASSUME m > a PROVE b.MQ = q /\ b.LAC = a
    <3>1. q * m <= (B - 1) * m /\ q * m \in Int
      BY <2>5
    <3>2. (B - 1) * m = m * B - m /\ m * B \in Int
      BY <2>5
    <3>3. m * B > n
      BY <3>1, <3>2, <2>2, <2>5, <2>6
    <3>4. m \in Nat \ {0} /\ b.MQ = n \div m /\ b.LAC = n % m
      BY <3>3, <2>4, <2>5
    <3>5. n \in Int /\ n = m * q + a /\ a \in 0 .. m - 1 /\ q \in Int
      BY <2>2, <2>5, <2>6, <3>1
    <3>6. n \div m = q /\ n % m = a
      BY <3>4, <3>5, Quotient
    <3>. QED BY <3>4, <3>6
  <2>7. IF m * B > Arithmetic!Double(r)
        THEN d.MQ * m + d.LAC = Arithmetic!Double(r) /\ d.LAC < m
        ELSE Arithmetic!L(d) = 1
    BY <2>3
  <2>. QED BY <2>2, <2>6, <2>7 DEF p, d, b, a, q, n
<1>. QED BY <1>1 DEF Arithmetic!MultipliesAndDivides, B

----------------------------------------------------------------------------
(* CLA, and the double precision instructions DAD, DPIC and DCM.           *)

\* CLA leaves the link alone.
LEMMA Cleared ==
    ASSUME NEW x \in Lac
    PROVE  Arithmetic!Without(x) = B * (x \div B) /\ Arithmetic!Without(x) \in Lac
<1>1. B \in Nat \ {0}
  BY Sizes
<1>2. x \div B \in 0 .. 1 /\ x % B \in 0 .. B - 1 /\ x = B * (x \div B) + (x % B)
  BY Halves
<1>3. Arithmetic!Without(x) = x - (x % B)
  BY DEF Arithmetic!Without, B
<1>. DEFINE l == x \div B
            a == x % B
<1>. HIDE DEF l, a, B
<1>4. B * l \in Int /\ B * l >= 0 /\ B * l <= B
  <2>1. l = 0 \/ l = 1
    BY <1>2 DEF l
  <2>. QED BY <2>1, <1>1
<1>5. Arithmetic!Without(x) = B * l
  BY <1>2, <1>3, <1>4 DEF l, a
<1>6. B * l \in Lac
  BY <1>4, <1>1 DEF Lac
<1>. QED BY <1>5, <1>6 DEF l

Group1Ops == {"CLA", "CLL", "CMA", "CML", "IAC"}

\* Group 1 keeps the types, whatever is combined.
LEMMA Group1Regs ==
    ASSUME NEW x \in Regs, NEW ops, NEW c \in {"none", "BSW", "RAL", "RTL", "RAR", "RTR"}
    PROVE  Arithmetic!Group1(x, ops, c) \in Regs
<1>. DEFINE u == x.LAC
            v == Arithmetic!Clear(ops, u)
            w == Arithmetic!Complement(ops, v)
            z == Arithmetic!Increment(ops, w)
<1>1. B \in Nat \ {0}
  BY Sizes
<1>2. u \in Lac
  BY DEF Regs
<1>3. v \in Lac
  <2>1. /\ v = (IF "CLL" \in ops THEN 0 ELSE Arithmetic!Without(u)) + (IF "CLA" \in ops THEN 0 ELSE u % B)
    BY DEF Arithmetic!Clear, B
  <2>2. Arithmetic!Without(u) = B * (u \div B) /\ u \div B \in 0 .. 1 /\ u % B \in 0 .. B - 1
    BY <1>2, Cleared, Halves
  <2>. HIDE DEF u, v, B
  <2>3. Arithmetic!Without(u) = 0 \/ Arithmetic!Without(u) = B
    <3>1. u \div B = 0 \/ u \div B = 1
      BY <2>2
    <3>. QED BY <3>1, <2>2, <1>1
  <2>. QED BY <2>1, <2>2, <2>3, <1>1 DEF Lac
<1>4. w \in Lac
  <2>1. w = (IF "CML" \in ops THEN B - Arithmetic!Without(v) ELSE Arithmetic!Without(v))
              + (IF "CMA" \in ops THEN B - 1 - (v % B) ELSE v % B)
    BY DEF Arithmetic!Complement, B
  <2>. HIDE DEF u, v, w, B
  <2>2. Arithmetic!Without(v) = B * (v \div B) /\ v \div B \in 0 .. 1 /\ v % B \in 0 .. B - 1
    BY <1>3, Cleared, Halves
  <2>3. Arithmetic!Without(v) = 0 \/ Arithmetic!Without(v) = B
    <3>1. v \div B = 0 \/ v \div B = 1
      BY <2>2
    <3>. QED BY <3>1, <2>2, <1>1
  <2>. DEFINE t == v % B
  <2>4. t \in 0 .. B - 1
    BY <2>2
  <2>5. w = (IF "CML" \in ops THEN B - Arithmetic!Without(v) ELSE Arithmetic!Without(v))
              + (IF "CMA" \in ops THEN B - 1 - t ELSE t)
    BY <2>1
  <2>. HIDE DEF t
  <2>. QED BY <2>3, <2>4, <2>5, <1>1 DEF Lac
<1>5. z \in Lac
  <2>1. z = IF "IAC" \in ops THEN (w + 1) % (2 * B) ELSE w
    BY DEF Arithmetic!Increment, B
  <2>. HIDE DEF w, z, B
  <2>2. (w + 1) % (2 * B) \in 0 .. 2 * B - 1
    <3>1. w + 1 \in Int /\ 2 * B \in Nat \ {0}
      BY <1>1, <1>4 DEF Lac
    <3>. QED BY <3>1, Division
  <2>. QED BY <2>1, <2>2, <1>4 DEF Lac
<1>6. Arithmetic!Group1(x, ops, c) = [x EXCEPT !.LAC = Arithmetic!Rotate(c, z)]
  BY DEF Arithmetic!Group1
<1>. HIDE DEF z
<1>7. Arithmetic!Rotate(c, z) \in Lac
  BY <1>5, Rotated1
<1>. QED BY <1>6, <1>7 DEF Regs

\* Group 3 keeps the types and the EAE's mode.
LEMMA Group3Regs ==
    ASSUME NEW x \in Regs, NEW ops
    PROVE  LET y == Arithmetic!Group3(x, ops) IN y \in Regs /\ y.emode = x.emode
<1>. DEFINE cleared == IF "CLA" \in ops THEN Arithmetic!Without(x.LAC) ELSE x.LAC
            moved == IF "MQL" \in ops THEN Arithmetic!Without(cleared) ELSE cleared
            y == Arithmetic!Group3(x, ops)
<1>1. B \in Nat \ {0}
  BY Sizes
<1>2. x.LAC \in Lac
  BY DEF Regs
<1>3. cleared \in Lac
  BY <1>2, Cleared
<1>4. moved \in Lac
  <2>. HIDE DEF cleared
  <2>. QED BY <1>3, Cleared
<1>5. y = [x EXCEPT !.MQ = IF "MQL" \in ops THEN cleared % B ELSE @,
                    !.LAC = IF "MQA" \in ops THEN Arithmetic!Or(moved, x.MQ) ELSE moved]
  BY DEF Arithmetic!Group3, B
<1>. HIDE DEF cleared, moved, y
<1>6. cleared % B \in BWord
  <2>1. cleared % B \in 0 .. B - 1
    BY <1>3, Halves
  <2>. QED BY <2>1 DEF BWord
<1>7. Arithmetic!Or(moved, x.MQ) \in Lac
  <2>1. moved \in Int /\ x.MQ \in Int
    BY <1>4, <1>1 DEF Lac, Regs, BWord
  <2>. QED BY <2>1, OrRange
<1>8. y \in Regs /\ y.emode = x.emode
  BY <1>4, <1>5, <1>6, <1>7 DEF Regs
<1>. QED BY <1>8 DEF y

\* MQA with MQL exchanges AC and MQ.
LEMMA Swapped ==
    ASSUME NEW x \in Regs
    PROVE  LET y == Arithmetic!Group3(x, {"MQA", "MQL"}) IN
           /\ y \in Regs /\ y.emode = x.emode
           /\ y.LAC = B * Arithmetic!L(x) + x.MQ /\ y.MQ = Arithmetic!AC(x)
           /\ Arithmetic!AC(y) = x.MQ /\ Arithmetic!L(y) = Arithmetic!L(x)
<1>. DEFINE ops == {"MQA", "MQL"}
            y == Arithmetic!Group3(x, ops)
            l == Arithmetic!L(x)
            a == Arithmetic!AC(x)
            q == x.MQ
<1>1. B \in Nat \ {0}
  BY Sizes
<1>2. x.LAC \in Lac /\ q \in 0 .. B - 1
  BY DEF Regs, BWord
<1>3. a = x.LAC % B /\ l = x.LAC \div B /\ l \in 0 .. 1 /\ a \in 0 .. B - 1
  BY Reading
<1>4. y \in Regs /\ y.emode = x.emode
  BY Group3Regs
<1>5. y = [x EXCEPT !.MQ = x.LAC % B, !.LAC = Arithmetic!Or(Arithmetic!Without(x.LAC), q)]
  BY DEF Arithmetic!Group3, B
<1>6. Arithmetic!Without(x.LAC) = B * l
  BY <1>2, <1>3, Cleared
<1>. HIDE DEF y, l, a, q
<1>7. Arithmetic!Or(B * l, q) = B * l + q
  BY <1>2, <1>3, OrJoins
<1>8. y.LAC = B * l + q /\ y.MQ = a
  BY <1>3, <1>5, <1>6, <1>7 DEF Regs
<1>9. (B * l + q) \div B = l /\ (B * l + q) % B = q
  <2>1. l \in Int
    BY <1>3
  <2>. QED BY <2>1, <1>1, <1>2, Splits
<1>10. Arithmetic!AC(y) = q /\ Arithmetic!L(y) = l
  BY <1>8, <1>9 DEF Arithmetic!AC, Arithmetic!L, B
<1>. QED BY <1>4, <1>8, <1>10 DEF y, l, a, q

\* DAD adds a double word, the carry in the link.
LEMMA Added ==
    ASSUME NEW x \in Regs, NEW low \in BWord, NEW high \in BWord
    PROVE  LET y == Arithmetic!DAD(x, low, high) IN
           y \in Regs /\ Arithmetic!Long(y) = Arithmetic!Double(x) + high * B + low
<1>. DEFINE a == Arithmetic!AC(x)
            q == x.MQ
            s == q + low
            c == s \div B
            t == s % B
            y == Arithmetic!DAD(x, low, high)
<1>1. B \in Nat \ {0}
  BY Sizes
<1>2. a \in 0 .. B - 1 /\ Arithmetic!Double(x) = B * a + q
  BY Reading
<1>3. q \in 0 .. B - 1 /\ low \in 0 .. B - 1 /\ high \in 0 .. B - 1
  BY DEF Regs, BWord
<1>4. y = [x EXCEPT !.MQ = t, !.LAC = a + high + c]
  BY DEF Arithmetic!DAD, Arithmetic!Added, B
<1>. HIDE DEF a, q, y, B
<1>5. c \in Int /\ t \in 0 .. B - 1 /\ s = B * c + t
  <2>1. s \in Int
    BY <1>3
  <2>. HIDE DEF s
  <2>. QED BY <2>1, <1>1, Division
<1>. HIDE DEF c, t
<1>6. c \in 0 .. 1
  BY <1>1, <1>3, <1>5
<1>7. a + high + c \in Lac /\ t \in BWord
  BY <1>1, <1>2, <1>3, <1>5, <1>6 DEF Lac, BWord
<1>8. y \in Regs /\ y.LAC = a + high + c /\ y.MQ = t
  BY <1>4, <1>7 DEF Regs
<1>9. Arithmetic!Long(y) = (a + high + c) * B + t
  BY <1>8 DEF Arithmetic!Long, B
<1>10. (a + high + c) * B + t = (B * a + q) + high * B + low
  <2>1. (a + high + c) * B = B * a + high * B + B * c
    BY <1>1, <1>2, <1>3, <1>6
  <2>2. B * a \in Int /\ high * B \in Int /\ B * c \in Int
    BY <1>1, <1>2, <1>3, <1>6
  <2>. QED BY <2>1, <2>2, <1>5, <1>3
<1>. QED BY <1>2, <1>8, <1>9, <1>10 DEF y

\* DPIC adds one to MQ,AC read the other way round.
LEMMA Incremented ==
    ASSUME NEW x \in Regs
    PROVE  LET y == Arithmetic!DPIC(x) IN
           /\ y \in Regs
           /\ Arithmetic!Long(y) = B * x.MQ + Arithmetic!AC(x) + 1
<1>. DEFINE l == Arithmetic!L(x)
            a == Arithmetic!AC(x)
            q == x.MQ
            low == (x.LAC + 1) % B
            y == Arithmetic!DPIC(x)
<1>1. B \in Nat \ {0}
  BY Sizes
<1>2. a \in 0 .. B - 1 /\ l \in 0 .. 1 /\ x.LAC = B * l + a
  BY Reading
<1>3. q \in 0 .. B - 1
  BY DEF Regs, BWord
<1>4. y = [x EXCEPT !.LAC = q + (IF low = 0 THEN 1 ELSE 0), !.MQ = low]
  BY DEF Arithmetic!DPIC, Arithmetic!Carry, B
<1>. HIDE DEF a, q, l, y, B
<1>5. /\ low \in 0 .. B - 1
      /\ (low = 0 /\ a + 1 = B) \/ (low # 0 /\ low = a + 1)
  <2>1. x.LAC + 1 \in Int /\ l \in Int /\ l + 1 \in Int
    BY <1>1, <1>2
  <2>2. CASE a + 1 = B
    <3>1. x.LAC + 1 = B * (l + 1) + 0 /\ 0 \in 0 .. B - 1
      BY <1>1, <1>2, <2>2
    <3>2. (x.LAC + 1) % B = 0
      BY <2>1, <3>1, <1>1, Quotient
    <3>. QED BY <3>2, <2>2, <3>1
  <2>3. CASE a + 1 < B
    <3>1. x.LAC + 1 = B * l + (a + 1) /\ a + 1 \in 0 .. B - 1
      BY <1>1, <1>2, <2>3
    <3>2. (x.LAC + 1) % B = a + 1
      BY <2>1, <3>1, <1>1, Quotient
    <3>. QED BY <3>2, <2>3, <3>1, <1>2
  <2>. QED BY <2>2, <2>3, <1>1, <1>2
<1>. HIDE DEF low
<1>. DEFINE c == IF low = 0 THEN 1 ELSE 0
<1>6. q + c \in Lac /\ low \in BWord
  BY <1>1, <1>3, <1>5 DEF Lac, BWord
<1>7. y \in Regs /\ y.LAC = q + c /\ y.MQ = low
  <2>. HIDE DEF c
  <2>1. y = [x EXCEPT !.LAC = q + c, !.MQ = low]
    BY <1>4 DEF c
  <2>. QED BY <2>1, <1>6 DEF Regs
<1>8. Arithmetic!Long(y) = (q + c) * B + low
  <2>. HIDE DEF c
  <2>. QED BY <1>7 DEF Arithmetic!Long, B
<1>9. (q + c) * B + low = B * q + a + 1
  <2>1. c \in {0, 1} /\ (q + c) * B = B * q + c * B /\ B * q \in Int
    BY <1>1, <1>3
  <2>. QED BY <2>1, <1>1, <1>2, <1>5
<1>. QED BY <1>7, <1>8, <1>9 DEF y, q, a

\* DCM negates MQ,AC read the other way round.
LEMMA Complemented ==
    ASSUME NEW x \in Regs
    PROVE  LET y == Arithmetic!DCM(x) IN
           /\ y \in Regs
           /\ Arithmetic!Long(y) = D - (B * x.MQ + Arithmetic!AC(x))
<1>. DEFINE l == Arithmetic!L(x)
            a == Arithmetic!AC(x)
            q == x.MQ
            low == (- x.LAC) % B
            y == Arithmetic!DCM(x)
<1>1. B \in Nat \ {0} /\ D = B * B
  BY Squares
<1>2. a \in 0 .. B - 1 /\ l \in 0 .. 1 /\ x.LAC = B * l + a
  BY Reading
<1>3. q \in 0 .. B - 1
  BY DEF Regs, BWord
<1>4. y = [x EXCEPT !.LAC = B - 1 - q + (IF low = 0 THEN 1 ELSE 0), !.MQ = low]
  BY DEF Arithmetic!DCM, Arithmetic!Carry, B
<1>. HIDE DEF a, q, l, y, B, D
<1>5. /\ low \in 0 .. B - 1
      /\ (low = 0 /\ a = 0) \/ (low # 0 /\ low = B - a)
  <2>1. - x.LAC \in Int /\ -l \in Int /\ -l - 1 \in Int
    BY <1>1, <1>2
  <2>2. CASE a = 0
    <3>1. - x.LAC = B * (-l) + 0 /\ 0 \in 0 .. B - 1
      BY <1>1, <1>2, <2>2
    <3>2. (- x.LAC) % B = 0
      BY <2>1, <3>1, <1>1, Quotient
    <3>. QED BY <3>2, <2>2, <3>1
  <2>3. CASE a > 0
    <3>1. - x.LAC = B * (-l - 1) + (B - a) /\ B - a \in 0 .. B - 1
      BY <1>1, <1>2, <2>3
    <3>2. (- x.LAC) % B = B - a
      BY <2>1, <3>1, <1>1, Quotient
    <3>. QED BY <3>2, <2>3, <3>1, <1>2, <1>1
  <2>. QED BY <2>2, <2>3, <1>1, <1>2
<1>. HIDE DEF low
<1>. DEFINE c == IF low = 0 THEN 1 ELSE 0
            v == B - 1 - q + c
<1>6. v \in Lac /\ low \in BWord
  BY <1>1, <1>3, <1>5 DEF Lac, BWord
<1>7. y \in Regs /\ y.LAC = v /\ y.MQ = low
  <2>1. y = [x EXCEPT !.LAC = v, !.MQ = low]
    BY <1>4
  <2>. HIDE DEF v
  <2>. QED BY <2>1, <1>6 DEF Regs
<1>8. Arithmetic!Long(y) = v * B + low
  <2>. HIDE DEF v
  <2>. QED BY <1>7 DEF Arithmetic!Long, B
<1>9. v * B + low = D - (B * q + a)
  <2>1. c \in {0, 1} /\ v * B = D - B - B * q + c * B /\ B * q \in Int /\ D \in Int
    BY <1>1, <1>3
  <2>. QED BY <2>1, <1>1, <1>2, <1>5
<1>. QED BY <1>7, <1>8, <1>9 DEF y, q, a

\* The property of the double precision instructions holds of any registers.
LEMMA DoubleExact == r \in Regs => Arithmetic!DoublePrecision
<1>. SUFFICES ASSUME r \in Regs PROVE Arithmetic!DoublePrecision
  OBVIOUS
<1>. DEFINE swp == Arithmetic!Group3(r, {"MQA", "MQL"})
<1>1. ASSUME NEW low \in Operands, NEW high \in Operands
      PROVE  Arithmetic!Long(Arithmetic!DAD(r, low, high)) = Arithmetic!Double(r) + high * B + low
  BY OperandWord, Added
<1>2. swp \in Regs /\ swp.MQ = Arithmetic!AC(r) /\ Arithmetic!AC(swp) = r.MQ
  BY Swapped
<1>3. Arithmetic!Double(r) = B * Arithmetic!AC(r) + r.MQ
  BY Reading
<1>. HIDE DEF swp
<1>4. Arithmetic!Long(Arithmetic!DPIC(swp)) = Arithmetic!Double(r) + 1
  BY <1>2, <1>3, Incremented
<1>5. Arithmetic!Long(Arithmetic!DCM(swp)) = B * B - Arithmetic!Double(r)
  BY <1>2, <1>3, Complemented DEF D
<1>. QED BY <1>1, <1>4, <1>5 DEF Arithmetic!DoublePrecision, swp, B

----------------------------------------------------------------------------
(* SAM, and the skips of OPR.                                              *)

\* The uppermost bit of a word is its sign.
LEMMA SignBit ==
    ASSUME NEW a \in BWord
    PROVE  Arithmetic!Bit(a, W - 1) = (IF a >= Sg THEN 1 ELSE 0)
<1>1. B \in Nat \ {0} /\ Sg \in Nat \ {0} /\ B = 2 * Sg /\ W - 1 \in Nat /\ a \in 0 .. B - 1
  BY Sizes DEF BWord
<1>2. Arithmetic!Bit(a, W - 1) = (a \div Sg) % 2
  BY SamePowers DEF Arithmetic!Bit, Sg, Arithmetic!Sign
<1>. DEFINE k == a \div Sg
            t == a % Sg
<1>. HIDE DEF B, Sg
<1>3. k \in Int /\ t \in 0 .. Sg - 1 /\ a = Sg * k + t
  BY <1>1, Division
<1>4. Arithmetic!Bit(a, W - 1) = k % 2
  BY <1>2
<1>. HIDE DEF k, t
<1>5. k = 0 \/ k = 1
  BY <1>1, <1>3
<1>6. CASE k = 0
  <2>1. a < Sg
    BY <1>1, <1>3, <1>6
  <2>. QED BY <2>1, <1>1, <1>4, <1>6
<1>7. CASE k = 1
  <2>1. a >= Sg
    BY <1>1, <1>3, <1>7
  <2>. QED BY <2>1, <1>4, <1>7
<1>. QED BY <1>5, <1>6, <1>7

\* SAM subtracts, and the link and GTF say how the two compare.
LEMMA Compared ==
    ASSUME NEW x \in Regs
    PROVE  LET y == Arithmetic!SAM(x) IN
           /\ y \in Regs
           /\ Arithmetic!AC(y) = (x.MQ - Arithmetic!AC(x)) % B
           /\ Arithmetic!L(y) = 1 <=> x.MQ >= Arithmetic!AC(x)
           /\ y.gtf = 1 <=> Arithmetic!Value(x.MQ) >= Arithmetic!Value(Arithmetic!AC(x))
<1>. DEFINE a == Arithmetic!AC(x)
            q == x.MQ
            u == q + (B - 1 - a) + 1
            y == Arithmetic!SAM(x)
            g == (a <= q) # (Arithmetic!Bit(a, W - 1) # Arithmetic!Bit(q, W - 1))
<1>1. B \in Nat \ {0} /\ Sg \in Nat \ {0} /\ B = 2 * Sg
  BY Sizes
<1>2. a \in 0 .. B - 1
  BY Reading
<1>3. q \in 0 .. B - 1
  BY DEF Regs, BWord
<1>4. y = [x EXCEPT !.LAC = u, !.gtf = IF g THEN 1 ELSE 0]
  BY DEF Arithmetic!SAM, B
<1>5. /\ Arithmetic!Bit(a, W - 1) = (IF a >= Sg THEN 1 ELSE 0)
      /\ Arithmetic!Bit(q, W - 1) = (IF q >= Sg THEN 1 ELSE 0)
  <2>. HIDE DEF a, q
  <2>. QED BY <1>2, <1>3, SignBit DEF BWord
<1>6. /\ Arithmetic!Value(q) = (IF q >= Sg THEN q - B ELSE q)
      /\ Arithmetic!Value(a) = (IF a >= Sg THEN a - B ELSE a)
  BY DEF Arithmetic!Value, B, Sg
<1>. HIDE DEF a, q, y, B, Sg
<1>7. u \in Lac /\ u = (q - a) + B * 1 /\ u \in 1 .. 2 * B - 1
  BY <1>1, <1>2, <1>3 DEF Lac
<1>. HIDE DEF u, g
<1>8. y \in Regs /\ y.LAC = u /\ y.gtf = IF g THEN 1 ELSE 0
  BY <1>4, <1>7 DEF Regs
<1>9. Arithmetic!AC(y) = (q - a) % B
  <2>1. Arithmetic!AC(y) = u % B
    BY <1>8 DEF Arithmetic!AC, B
  <2>2. q - a \in Int /\ 1 \in Int
    BY <1>1, <1>2, <1>3
  <2>3. ((q - a) + B * 1) % B = (q - a) % B
    BY <2>2, <1>1, Shift
  <2>. QED BY <2>1, <2>3, <1>7
<1>10. Arithmetic!L(y) = 1 <=> q >= a
  <2>1. Arithmetic!L(y) = u \div B
    BY <1>8 DEF Arithmetic!L, B
  <2>. DEFINE k == u \div B
              t == u % B
  <2>2. k \in Int /\ t \in 0 .. B - 1 /\ u = B * k + t
    <3>1. u \in Int
      BY <1>1, <1>7
    <3>. QED BY <3>1, <1>1, Division
  <2>. HIDE DEF k, t
  <2>3. k = 0 \/ k = 1
    BY <2>2, <1>7, <1>1
  <2>4. k = 1 <=> u >= B
    BY <2>2, <2>3, <1>7, <1>1
  <2>5. u = (q - a) + B
    BY <1>7, <1>1
  <2>. QED BY <2>1, <2>4, <2>5, <1>1, <1>2, <1>3 DEF k
<1>11. g <=> Arithmetic!Value(q) >= Arithmetic!Value(a)
  <2>1. g <=> ((a <= q) # ((IF a >= Sg THEN 1 ELSE 0) # (IF q >= Sg THEN 1 ELSE 0)))
    BY <1>5 DEF g
  <2>2. CASE a >= Sg /\ q >= Sg
    BY <2>1, <2>2, <1>1, <1>2, <1>3, <1>6
  <2>3. CASE a >= Sg /\ ~(q >= Sg)
    BY <2>1, <2>3, <1>1, <1>2, <1>3, <1>6
  <2>4. CASE ~(a >= Sg) /\ q >= Sg
    BY <2>1, <2>4, <1>1, <1>2, <1>3, <1>6
  <2>5. CASE ~(a >= Sg) /\ ~(q >= Sg)
    BY <2>1, <2>5, <1>1, <1>2, <1>3, <1>6
  <2>. QED BY <2>2, <2>3, <2>4, <2>5
<1>12. y.gtf = 1 <=> Arithmetic!Value(q) >= Arithmetic!Value(a)
  BY <1>8, <1>11
<1>. QED BY <1>8, <1>9, <1>10, <1>12 DEF y, q, a

\* The property of SAM holds of any registers.
LEMMA ComparesExact == r \in Regs => Arithmetic!Compares
BY Compared DEF Arithmetic!Compares, B

\* DPSZ tests the double word.
LEMMA DoubleZero ==
    ASSUME NEW x \in Regs
    PROVE  Arithmetic!DPSZ(x) <=> Arithmetic!Double(x) = 0
<1>1. B \in Nat \ {0}
  BY Sizes
<1>2. /\ Arithmetic!AC(x) \in 0 .. B - 1 /\ Arithmetic!Double(x) = B * Arithmetic!AC(x) + x.MQ
      /\ x.MQ \in 0 .. B - 1
  BY Reading DEF Regs, BWord
<1>3. Arithmetic!DPSZ(x) <=> (Arithmetic!AC(x) = 0 /\ x.MQ = 0)
  BY DEF Arithmetic!DPSZ
<1>. HIDE DEF B
<1>. DEFINE a == Arithmetic!AC(x)
            q == x.MQ
<1>. HIDE DEF a, q
<1>4. (a = 0 /\ q = 0) <=> B * a + q = 0
  <2>1. a \in Nat /\ q \in Nat
    BY <1>2, <1>1 DEF a, q
  <2>. QED BY <2>1, <1>1
<1>. QED BY <1>2, <1>3, <1>4 DEF a, q

\* The skips test AC's sign and value and the link, and the other sense negates them.
LEMMA SkipsAreConditions ==
    ASSUME NEW x \in Regs, NEW c \in SUBSET {"SMA", "SZA", "SNL"}
    PROVE  /\ Arithmetic!Skips(x.LAC, c) <=>
                 \/ "SMA" \in c /\ Arithmetic!Value(Arithmetic!AC(x)) < 0
                 \/ "SZA" \in c /\ Arithmetic!AC(x) = 0
                 \/ "SNL" \in c /\ Arithmetic!L(x) = 1
           /\ Arithmetic!SkipsUnless(x.LAC, c) <=> ~Arithmetic!Skips(x.LAC, c)
<1>. DEFINE u == x.LAC
            l == Arithmetic!L(x)
            a == Arithmetic!AC(x)
            b == Arithmetic!Link
            s == Arithmetic!Sign
<1>1. b \in Nat \ {0} /\ s \in Nat \ {0} /\ b = 2 * s
  BY Sizes DEF B, Sg
<1>2. l \in 0 .. 1 /\ a \in 0 .. b - 1 /\ u = b * l + a /\ u % b = a
  BY Reading DEF B
<1>3. Arithmetic!Value(a) = IF a >= s THEN a - b ELSE a
  BY DEF Arithmetic!Value
<1>4. /\ c = {} => (Arithmetic!Skips(u, c) <=> FALSE) /\ (Arithmetic!SkipsUnless(u, c) <=> TRUE)
      /\ c = {"SNL"} => /\ Arithmetic!Skips(u, c) <=> u >= b
                        /\ Arithmetic!SkipsUnless(u, c) <=> u < b
      /\ c = {"SZA"} => /\ Arithmetic!Skips(u, c) <=> u % b = 0
                        /\ Arithmetic!SkipsUnless(u, c) <=> u % b # 0
      /\ c = {"SZA", "SNL"} => /\ Arithmetic!Skips(u, c) <=> (u = 0 \/ u >= b)
                               /\ Arithmetic!SkipsUnless(u, c) <=> (u # 0 /\ u < b)
      /\ c = {"SMA"} => /\ Arithmetic!Skips(u, c) <=> u % b >= s
                        /\ Arithmetic!SkipsUnless(u, c) <=> u % b < s
      /\ c = {"SMA", "SNL"} => /\ Arithmetic!Skips(u, c) <=> u >= s
                               /\ Arithmetic!SkipsUnless(u, c) <=> u < s
      /\ c = {"SMA", "SZA"} => /\ Arithmetic!Skips(u, c) <=> (u % b >= s \/ u % b = 0)
                               /\ Arithmetic!SkipsUnless(u, c) <=> (u % b < s /\ u % b # 0)
      /\ c = {"SMA", "SZA", "SNL"} => /\ Arithmetic!Skips(u, c) <=> (u >= s \/ u = 0)
                                      /\ Arithmetic!SkipsUnless(u, c) <=> (u < s /\ u # 0)
  <2>. DEFINE A0 == {}
              A1 == {"SNL"}
              A2 == {"SZA"}
              A3 == {"SZA", "SNL"}
              A4 == {"SMA"}
              A5 == {"SMA", "SNL"}
              A6 == {"SMA", "SZA"}
              A7 == {"SMA", "SZA", "SNL"}
  <2>1. /\ A0 # A1 /\ A0 # A2 /\ A0 # A3 /\ A0 # A4 /\ A0 # A5 /\ A0 # A6 /\ A0 # A7
        /\ A1 # A2 /\ A1 # A3 /\ A1 # A4 /\ A1 # A5 /\ A1 # A6 /\ A1 # A7
        /\ A2 # A3 /\ A2 # A4 /\ A2 # A5 /\ A2 # A6 /\ A2 # A7
        /\ A3 # A4 /\ A3 # A5 /\ A3 # A6 /\ A3 # A7
        /\ A4 # A5 /\ A4 # A6 /\ A4 # A7 /\ A5 # A6 /\ A5 # A7 /\ A6 # A7
    <3>1. /\ "SNL" \notin A0 /\ "SZA" \notin A0 /\ "SMA" \notin A0
          /\ "SNL" \in A1 /\ "SZA" \notin A1 /\ "SMA" \notin A1
          /\ "SNL" \notin A2 /\ "SZA" \in A2 /\ "SMA" \notin A2
          /\ "SNL" \in A3 /\ "SZA" \in A3 /\ "SMA" \notin A3
          /\ "SNL" \notin A4 /\ "SZA" \notin A4 /\ "SMA" \in A4
          /\ "SNL" \in A5 /\ "SZA" \notin A5 /\ "SMA" \in A5
          /\ "SNL" \notin A6 /\ "SZA" \in A6 /\ "SMA" \in A6
          /\ "SNL" \in A7 /\ "SZA" \in A7 /\ "SMA" \in A7
      OBVIOUS
    <3>. HIDE DEF A0, A1, A2, A3, A4, A5, A6, A7
    <3>. QED BY <3>1
  <2>2. Arithmetic!Skips(u, c) =
          CASE c = A0 -> FALSE
            [] c = A1 -> u >= b
            [] c = A2 -> u % b = 0
            [] c = A3 -> u = 0 \/ u >= b
            [] c = A4 -> u % b >= s
            [] c = A5 -> u >= s
            [] c = A6 -> u % b >= s \/ u % b = 0
            [] c = A7 -> u >= s \/ u = 0
    BY DEF Arithmetic!Skips
  <2>3. Arithmetic!SkipsUnless(u, c) =
          CASE c = A0 -> TRUE
            [] c = A1 -> u < b
            [] c = A2 -> u % b # 0
            [] c = A3 -> u # 0 /\ u < b
            [] c = A4 -> u % b < s
            [] c = A5 -> u < s
            [] c = A6 -> u % b < s /\ u % b # 0
            [] c = A7 -> u < s /\ u # 0
    BY DEF Arithmetic!SkipsUnless
  <2>. HIDE DEF A0, A1, A2, A3, A4, A5, A6, A7, u, b, s
  <2>4. /\ c = A0 => (Arithmetic!Skips(u, c) <=> FALSE) /\ (Arithmetic!SkipsUnless(u, c) <=> TRUE)
        /\ c = A1 => /\ Arithmetic!Skips(u, c) <=> u >= b
                     /\ Arithmetic!SkipsUnless(u, c) <=> u < b
        /\ c = A2 => /\ Arithmetic!Skips(u, c) <=> u % b = 0
                     /\ Arithmetic!SkipsUnless(u, c) <=> u % b # 0
        /\ c = A3 => /\ Arithmetic!Skips(u, c) <=> (u = 0 \/ u >= b)
                     /\ Arithmetic!SkipsUnless(u, c) <=> (u # 0 /\ u < b)
        /\ c = A4 => /\ Arithmetic!Skips(u, c) <=> u % b >= s
                     /\ Arithmetic!SkipsUnless(u, c) <=> u % b < s
        /\ c = A5 => /\ Arithmetic!Skips(u, c) <=> u >= s
                     /\ Arithmetic!SkipsUnless(u, c) <=> u < s
        /\ c = A6 => /\ Arithmetic!Skips(u, c) <=> (u % b >= s \/ u % b = 0)
                     /\ Arithmetic!SkipsUnless(u, c) <=> (u % b < s /\ u % b # 0)
        /\ c = A7 => /\ Arithmetic!Skips(u, c) <=> (u >= s \/ u = 0)
                     /\ Arithmetic!SkipsUnless(u, c) <=> (u < s /\ u # 0)
    BY <2>1, <2>2, <2>3
  <2>. QED BY <2>4 DEF A0, A1, A2, A3, A4, A5, A6, A7
<1>. HIDE DEF u, l, a, b, s
<1>5. /\ Arithmetic!Value(a) < 0 <=> a >= s
      /\ u >= b <=> l = 1
      /\ u = 0 <=> (l = 0 /\ a = 0)
      /\ u < b <=> ~(l = 1)
      /\ u >= s <=> (l = 1 \/ a >= s)
      /\ u < s <=> ~(l = 1 \/ a >= s)
      /\ a < s <=> ~(a >= s)
  <2>1. CASE l = 0
    <3>1. u = a
      BY <1>1, <1>2, <2>1
    <3>. QED BY <3>1, <1>1, <1>2, <1>3, <2>1
  <2>2. CASE l = 1
    <3>1. u = b + a
      BY <1>1, <1>2, <2>2
    <3>. QED BY <3>1, <1>1, <1>2, <1>3, <2>2
  <2>. QED BY <1>2, <2>1, <2>2
<1>6. c = {} \/ c = {"SNL"} \/ c = {"SZA"} \/ c = {"SZA", "SNL"} \/ c = {"SMA"}
        \/ c = {"SMA", "SNL"} \/ c = {"SMA", "SZA"} \/ c = {"SMA", "SZA", "SNL"}
  OBVIOUS
<1>. DEFINE sma == "SMA" \in c
            sza == "SZA" \in c
            snl == "SNL" \in c
<1>7. /\ c = {} => ~sma /\ ~sza /\ ~snl
      /\ c = {"SNL"} => ~sma /\ ~sza /\ snl
      /\ c = {"SZA"} => ~sma /\ sza /\ ~snl
      /\ c = {"SZA", "SNL"} => ~sma /\ sza /\ snl
      /\ c = {"SMA"} => sma /\ ~sza /\ ~snl
      /\ c = {"SMA", "SNL"} => sma /\ ~sza /\ snl
      /\ c = {"SMA", "SZA"} => sma /\ sza /\ ~snl
      /\ c = {"SMA", "SZA", "SNL"} => sma /\ sza /\ snl
  OBVIOUS
<1>8. a >= s => a # 0
  BY <1>1, <1>2
<1>9. a >= s => u # 0
  BY <1>5, <1>8
<1>. SUFFICES /\ Arithmetic!Skips(u, c) <=>
                   \/ "SMA" \in c /\ Arithmetic!Value(a) < 0
                   \/ "SZA" \in c /\ a = 0
                   \/ "SNL" \in c /\ l = 1
              /\ Arithmetic!SkipsUnless(u, c) <=> ~Arithmetic!Skips(u, c)
  BY DEF u, a, l
<1>10. CASE c = {}
  BY <1>2, <1>4, <1>5, <1>7, <1>10
<1>11. CASE c = {"SNL"}
  BY <1>2, <1>4, <1>5, <1>7, <1>11
<1>12. CASE c = {"SZA"}
  BY <1>2, <1>4, <1>5, <1>7, <1>12
<1>13. CASE c = {"SZA", "SNL"}
  <2>1. (u = 0 \/ u >= b) <=> (a = 0 \/ l = 1)
    <3>1. l = 0 \/ l = 1
      BY <1>2
    <3>. QED BY <3>1, <1>5
  <2>2. (u # 0 /\ u < b) <=> ~(u = 0 \/ u >= b)
    BY <1>5
  <2>. QED BY <2>1, <2>2, <1>4, <1>7, <1>13
<1>14. CASE c = {"SMA"}
  BY <1>2, <1>4, <1>5, <1>7, <1>14
<1>15. CASE c = {"SMA", "SNL"}
  BY <1>2, <1>4, <1>5, <1>7, <1>15
<1>16. CASE c = {"SMA", "SZA"}
  BY <1>2, <1>4, <1>5, <1>7, <1>16
<1>17. CASE c = {"SMA", "SZA", "SNL"}
  <2>1. (u >= s \/ u = 0) <=> (a >= s \/ a = 0 \/ l = 1)
    <3>1. l = 0 \/ l = 1
      BY <1>2
    <3>. QED BY <3>1, <1>5
  <2>2. (u < s /\ u # 0) <=> ~(u >= s \/ u = 0)
    BY <1>5
  <2>. QED BY <2>1, <2>2, <1>4, <1>5, <1>7, <1>17
<1>. QED BY <1>6, <1>10, <1>11, <1>12, <1>13, <1>14, <1>15, <1>16, <1>17

\* The property of the combined microinstructions holds of any registers.
LEMMA MicrocodeExact == r \in Regs => Arithmetic!MicrocodeComposes
<1>. SUFFICES ASSUME r \in Regs PROVE Arithmetic!MicrocodeComposes
  OBVIOUS
<1>1. r.LAC \in Lac
  BY DEF Regs
<1>2. ASSUME NEW c \in SUBSET {"SMA", "SZA", "SNL"}
      PROVE  /\ Arithmetic!Skips(r.LAC, c) <=>
                 \/ "SMA" \in c /\ Arithmetic!Value(Arithmetic!AC(r)) < 0
                 \/ "SZA" \in c /\ Arithmetic!AC(r) = 0
                 \/ "SNL" \in c /\ Arithmetic!L(r) = 1
             /\ Arithmetic!SkipsUnless(r.LAC, c) <=> ~Arithmetic!Skips(r.LAC, c)
  BY SkipsAreConditions
<1>. DEFINE x == r.LAC
<1>3. /\ Arithmetic!Rotate("RTL", x) = Arithmetic!Rotate("RAL", Arithmetic!Rotate("RAL", x))
      /\ Arithmetic!Rotate("RTR", x) = Arithmetic!Rotate("RAR", Arithmetic!Rotate("RAR", x))
      /\ x = Arithmetic!Rotate("RAR", Arithmetic!Rotate("RAL", x))
      /\ x = Arithmetic!Rotate("RTR", Arithmetic!Rotate("RTL", x))
      /\ x = Arithmetic!Rotate("BSW", Arithmetic!Rotate("BSW", x))
  BY <1>1, TwiceLeft, TwiceRight, BackAgain
<1>4. Arithmetic!DPSZ(r) <=> Arithmetic!Double(r) = 0
  BY DoubleZero
<1>5. LET swp == Arithmetic!Group3(r, {"MQA", "MQL"})
      IN  /\ Arithmetic!AC(swp) = r.MQ /\ swp.MQ = Arithmetic!AC(r)
          /\ Arithmetic!L(swp) = Arithmetic!L(r)
  BY Swapped
<1>. QED BY <1>2, <1>3, <1>4, <1>5 DEF Arithmetic!MicrocodeComposes

----------------------------------------------------------------------------
(* The shifts.                                                             *)

\* The double words' sizes are powers of two.
LEMMA LongPower == 2 * D = Pow2[2 * W + 1] /\ D = Pow2[2 * W] /\ Sg * B = Pow2[2 * W - 1]
<1>1. W \in Nat /\ W - 1 \in Nat /\ B = Pow2[W] /\ B = 2 * Sg /\ Sg \in Nat
  BY Sizes
<1>2. Sg = Pow2[W - 1]
  BY SamePowers DEF Sg, Arithmetic!Sign
<1>3. Pow2[W + W] = Pow2[W] * Pow2[W]
  BY <1>1, Product
<1>4. Pow2[(W - 1) + W] = Pow2[W - 1] * Pow2[W]
  BY <1>1, Product
<1>5. Pow2[(2 * W) + 1] = 2 * Pow2[2 * W]
  <2>1. 2 * W \in Nat
    BY <1>1
  <2>. QED BY <2>1, PowerRecursion
<1>6. W + W = 2 * W /\ (W - 1) + W = 2 * W - 1
  BY <1>1
<1>. QED BY <1>1, <1>2, <1>3, <1>4, <1>5, <1>6 DEF D

\* An operand counts a natural number of steps.
LEMMA StepCount ==
    ASSUME NEW x \in Regs, NEW m \in BWord
    PROVE  Arithmetic!Steps(x, m) \in Nat
<1>1. Arithmetic!SCMask + 1 \in Nat \ {0} /\ m \in Int
  <2>1. Mk \in Nat /\ B \in Nat
    BY Sizes
  <2>. QED BY <2>1 DEF Mk, BWord
<1>2. m % (Arithmetic!SCMask + 1) \in Nat
  <2>. DEFINE d == Arithmetic!SCMask + 1
  <2>1. d \in Nat \ {0}
    BY <1>1
  <2>. HIDE DEF d
  <2>2. m % d \in Nat
    BY <1>1, <2>1, Division
  <2>. QED BY <2>2 DEF d
<1>. QED BY <1>2 DEF Arithmetic!Steps

\* Shifting right keeps the sign and ends in 0 or -1.
LEMMA SmallQuotient ==
    ASSUME NEW h \in Nat \ {0}, NEW n \in -h .. h - 1, NEW p \in Nat \ {0}
    PROVE  /\ n \div p \in -h .. h - 1 /\ (n \div p < 0 <=> n < 0)
           /\ p >= h => n \div p = (IF n < 0 THEN -1 ELSE 0)
<1>. DEFINE k == n \div p
            t == n % p
<1>1. k \in Int /\ t \in 0 .. p - 1 /\ n = p * k + t
  BY Division
<1>. HIDE DEF k, t
<1>2. n < 0 => k < 0
  <2>1. ASSUME k >= 0 PROVE p * k >= 0
    BY <1>1, <2>1
  <2>. QED BY <2>1, <1>1
<1>3. n >= 0 => k >= 0
  <2>1. ASSUME k <= -1 PROVE p * k <= p * (-1)
    BY <1>1, <2>1
  <2>2. p * k \in Int
    BY <1>1
  <2>. QED BY <2>1, <2>2, <1>1
<1>4. n >= 0 => k <= n
  <2>1. ASSUME k >= 0 PROVE p * k >= k
    BY <1>1, <2>1
  <2>2. p * k \in Int
    BY <1>1
  <2>. QED BY <2>1, <2>2, <1>1, <1>3
<1>5. n < 0 => k >= n
  <2>1. ASSUME n < 0, k <= n - 1 PROVE p * k <= p * (n - 1) /\ p * n <= n
    BY <1>1, <2>1
  <2>2. p * (n - 1) = p * n - p /\ p * k \in Int /\ p * n \in Int
    BY <1>1
  <2>. QED BY <2>1, <2>2, <1>1
<1>6. k \in -h .. h - 1 /\ (k < 0 <=> n < 0)
  BY <1>1, <1>2, <1>3, <1>4, <1>5
<1>7. ASSUME p >= h PROVE k = (IF n < 0 THEN -1 ELSE 0)
  <2>1. CASE n < 0
    <3>1. n \in Int /\ -1 \in Int /\ n = p * (-1) + (n + p) /\ n + p \in 0 .. p - 1
      BY <1>7, <2>1
    <3>. DEFINE i == n + p
    <3>2. i \in 0 .. p - 1 /\ n = p * (-1) + i
      BY <3>1
    <3>. HIDE DEF i
    <3>3. n \div p = -1
      BY <3>1, <3>2, Quotient
    <3>. QED BY <3>3, <2>1 DEF k
  <2>2. CASE n >= 0
    <3>1. n \in Int /\ 0 \in Int /\ n = p * 0 + n /\ n \in 0 .. p - 1
      BY <1>7, <2>2
    <3>2. n \div p = 0
      BY <3>1, Quotient
    <3>. QED BY <3>2, <2>2 DEF k
  <2>. QED BY <2>1, <2>2
<1>. QED BY <1>6, <1>7 DEF k

\* Shifted holds what Holding holds, and sets the step counter as the mode says.
LEMMA ShiftedHeld ==
    ASSUME NEW x \in Regs, NEW n \in Int
    PROVE  LET y == Arithmetic!Shifted(x, n)
               z == Arithmetic!Holding(x, n)
           IN  /\ y \in Regs /\ y.gtf = x.gtf /\ y.emode = x.emode
               /\ Arithmetic!Long(y) = n % (2 * D) /\ Arithmetic!Signed(y) = Arithmetic!Signed(z)
               /\ Arithmetic!L(y) = Arithmetic!L(z)
<1>. DEFINE z == Arithmetic!Holding(x, n)
            y == Arithmetic!Shifted(x, n)
<1>1. y = [z EXCEPT !.SC = IF x.emode = Arithmetic!Mode.A THEN 0 ELSE Mk]
  BY DEF Arithmetic!Shifted, Mk
<1>2. z \in Regs /\ z.gtf = x.gtf /\ z.emode = x.emode /\ Arithmetic!Long(z) = n % (2 * D)
  BY Held
<1>3. Mk \in Nat
  BY Sizes
<1>. HIDE DEF z, y, Mk
<1>4. y \in Regs /\ y.gtf = z.gtf /\ y.emode = z.emode /\ y.LAC = z.LAC /\ y.MQ = z.MQ
  BY <1>1, <1>2, <1>3 DEF Regs
<1>5. /\ Arithmetic!Long(y) = Arithmetic!Long(z) /\ Arithmetic!Signed(y) = Arithmetic!Signed(z)
      /\ Arithmetic!L(y) = Arithmetic!L(z)
  BY <1>4 DEF Arithmetic!Long, Arithmetic!Signed, Arithmetic!L, Arithmetic!Double, Arithmetic!AC
<1>. QED BY <1>2, <1>4, <1>5 DEF y, z

\* SHL multiplies by a power of two, modulo the registers' length.
LEMMA LeftShifts ==
    ASSUME NEW x \in Regs, NEW m \in BWord
    PROVE  LET y == Arithmetic!SHL(x, m) IN
           /\ y \in Regs
           /\ Arithmetic!Long(y) = (Arithmetic!Long(x) * Pow2[Arithmetic!Steps(x, m)]) % (2 * D)
<1>. DEFINE st == Arithmetic!Steps(x, m)
            n == Arithmetic!Long(x)
            y == Arithmetic!SHL(x, m)
            i == IF st > 2 * W + 1 THEN 0 ELSE n * Pow2[st]
<1>1. st \in Nat /\ 2 * W + 1 \in Nat /\ D \in Nat \ {0} /\ 2 * D \in Nat \ {0}
      /\ 2 * D = Pow2[2 * W + 1]
  <2>1. st \in Nat
    BY StepCount
  <2>2. D \in Nat \ {0} /\ 2 * D = Pow2[2 * W + 1] /\ W \in Nat
    BY Squares, LongPower, Sizes
  <2>. HIDE DEF D
  <2>. QED BY <2>1, <2>2
<1>2. n \in Int
  <2>1. n \in 0 .. 2 * D - 1
    BY Reading
  <2>. HIDE DEF n, D
  <2>. QED BY <2>1, <1>1
<1>3. y = Arithmetic!Shifted(x, i)
  BY SamePowers DEF Arithmetic!SHL
<1>. HIDE DEF st, n, y
<1>4. Pow2[st] \in Nat \ {0}
  BY <1>1, Positive
<1>5. i \in Int
  BY <1>2, <1>4
<1>6. i % (2 * D) = (n * Pow2[st]) % (2 * D)
  <2>1. CASE st > 2 * W + 1
    <3>. DEFINE e == st - (2 * W + 1)
                d == 2 * D
    <3>1. e \in Nat /\ (2 * W + 1) + e = st
      BY <1>1, <2>1
    <3>. HIDE DEF e
    <3>2. Pow2[st] = Pow2[2 * W + 1] * Pow2[e] /\ Pow2[e] \in Nat
      BY <1>1, <3>1, Product, Positive
    <3>3. Pow2[st] = d * Pow2[e] /\ d \in Nat \ {0}
      BY <3>2, <1>1
    <3>. HIDE DEF d
    <3>4. n * Pow2[st] = d * (n * Pow2[e]) + 0 /\ n * Pow2[e] \in Int /\ 0 \in 0 .. d - 1
      BY <3>2, <3>3, <1>2
    <3>5. (d * (n * Pow2[e]) + 0) % d = 0
      BY <3>3, <3>4, Splits
    <3>6. (d * 0 + 0) % d = 0 /\ d * 0 + 0 = 0
      BY <3>3, <3>4, Splits
    <3>. QED BY <3>4, <3>5, <3>6, <2>1 DEF d
  <2>2. CASE ~(st > 2 * W + 1)
    BY <2>2
  <2>. QED BY <2>1, <2>2
<1>. HIDE DEF i
<1>7. y \in Regs /\ Arithmetic!Long(y) = i % (2 * D)
  BY <1>3, <1>5, ShiftedHeld
<1>. QED BY <1>6, <1>7 DEF y, n, st

\* In mode B the last bit shifted out is kept in GTF.
LEMMA BitsOut ==
    ASSUME NEW x \in Regs, NEW n \in Int, NEW st \in Nat
    PROVE  LET y == Arithmetic!LastOut(x, n, st) IN
           /\ y \in Regs /\ y.LAC = x.LAC /\ y.MQ = x.MQ /\ y.emode = x.emode
           /\ x.emode = 1 /\ st = 1 => y.gtf = n % 2
<1>. DEFINE y == Arithmetic!LastOut(x, n, st)
<1>1. y = IF x.emode = 1 /\ st # 0 THEN [x EXCEPT !.gtf = (n \div Pow2[st - 1]) % 2] ELSE x
  BY SamePowers DEF Arithmetic!LastOut, Arithmetic!Mode
<1>. HIDE DEF y
<1>2. CASE x.emode = 1 /\ st # 0
  <2>. DEFINE g == (n \div Pow2[st - 1]) % 2
  <2>1. st - 1 \in Nat
    BY <1>2
  <2>2. Pow2[st - 1] \in Nat \ {0}
    BY <2>1, Positive
  <2>3. n \div Pow2[st - 1] \in Int
    BY <2>2, Division
  <2>4. g \in {0, 1}
    BY <2>3
  <2>5. st = 1 => g = n % 2
    <3>1. st = 1 => Pow2[st - 1] = 1
      BY PowerRecursion
    <3>2. n \div 1 = n
      OBVIOUS
    <3>. QED BY <3>1, <3>2
  <2>6. y = [x EXCEPT !.gtf = g]
    BY <1>1, <1>2
  <2>. HIDE DEF g
  <2>7. y \in Regs /\ y.LAC = x.LAC /\ y.MQ = x.MQ /\ y.emode = x.emode /\ y.gtf = g
    BY <2>4, <2>6 DEF Regs
  <2>. QED BY <2>5, <2>7 DEF y
<1>3. CASE ~(x.emode = 1 /\ st # 0)
  <2>1. y = x /\ ~(x.emode = 1 /\ st = 1)
    BY <1>1, <1>3
  <2>. QED BY <2>1 DEF y
<1>. QED BY <1>2, <1>3

\* The lowest bit of the double word is MQ's.
LEMMA LastBit ==
    ASSUME NEW x \in Regs
    PROVE  Arithmetic!Signed(x) % 2 = x.MQ % 2 /\ Arithmetic!Double(x) % 2 = x.MQ % 2
<1>. DEFINE a == Arithmetic!AC(x)
            q == x.MQ
            d == Arithmetic!Double(x)
            s == Arithmetic!Signed(x)
<1>1. /\ a \in 0 .. B - 1 /\ d = B * a + q /\ s = IF d >= Sg * B THEN d - D ELSE d
  BY Reading
<1>2. B \in Nat \ {0} /\ Sg \in Nat \ {0} /\ B = 2 * Sg /\ D = 2 * (Sg * B) /\ Sg * B \in Nat
      /\ q \in 0 .. B - 1
  BY Squares DEF Regs, BWord
<1>. HIDE DEF a, q, d, s, B, Sg, D
<1>3. q \in Int /\ d \in Int /\ Sg * a \in Int /\ d = q + 2 * (Sg * a)
  BY <1>1, <1>2
<1>4. d % 2 = q % 2
  <2>. DEFINE k == Sg * a
  <2>1. k \in Int /\ d = q + 2 * k
    BY <1>3
  <2>. HIDE DEF k
  <2>. QED BY <2>1, <1>3
<1>5. s % 2 = q % 2
  <2>. DEFINE k == Sg * B
  <2>1. k \in Int /\ (s = d - 2 * k \/ s = d)
    BY <1>1, <1>2
  <2>. HIDE DEF k
  <2>2. (d - 2 * k) % 2 = d % 2
    BY <2>1, <1>3
  <2>. QED BY <2>1, <2>2, <1>4
<1>. QED BY <1>4, <1>5 DEF q, d, s

\* What is read of the registers depends on LAC and MQ only.
LEMMA LoadedAgain ==
    ASSUME NEW x, NEW y, x.LAC = y.LAC, x.MQ = y.MQ
    PROVE  /\ Arithmetic!AC(x) = Arithmetic!AC(y) /\ Arithmetic!L(x) = Arithmetic!L(y)
           /\ Arithmetic!Long(x) = Arithmetic!Long(y) /\ Arithmetic!Double(x) = Arithmetic!Double(y)
           /\ Arithmetic!Signed(x) = Arithmetic!Signed(y)
BY DEF Arithmetic!AC, Arithmetic!L, Arithmetic!Long, Arithmetic!Double, Arithmetic!Signed

\* ASR divides the signed double word, rounding down, and the link tells its sign.
LEMMA SignedShifts ==
    ASSUME NEW x \in Regs, NEW m \in BWord
    PROVE  LET y == Arithmetic!ASR(x, m)
               st == Arithmetic!Steps(x, m)
           IN  /\ y \in Regs
               /\ Arithmetic!Signed(y) = Arithmetic!Signed(x) \div Pow2[st]
               /\ Arithmetic!L(y) = Arithmetic!AC(x) \div Sg
               /\ x.emode = 1 /\ st = 1 => y.gtf = x.MQ % 2
<1>. DEFINE st == Arithmetic!Steps(x, m)
            n == Arithmetic!Signed(x)
            a == Arithmetic!AC(x)
            h == Sg * B
            z == Arithmetic!LastOut(x, n, st)
            y == Arithmetic!ASR(x, m)
            v == IF st > 2 * W + 1 THEN (IF a >= Sg THEN -1 ELSE 0) ELSE n \div Pow2[st]
<1>1. st \in Nat /\ W \in Nat /\ W >= 2 /\ h = Pow2[2 * W - 1] /\ B \in Nat \ {0} /\ Sg \in Nat \ {0} /\ B = 2 * Sg
  BY StepCount, Sizes, LongPower
<1>2. h \in Nat \ {0}
  BY Squares
<1>3. /\ a \in 0 .. B - 1 /\ n \in -h .. h - 1
      /\ a >= Sg <=> n < 0
  <2>1. /\ a \in 0 .. B - 1 /\ n \in -h .. h - 1
        /\ a >= Sg <=> Arithmetic!Double(x) >= h
        /\ n = IF Arithmetic!Double(x) >= h THEN Arithmetic!Double(x) - D ELSE Arithmetic!Double(x)
        /\ Arithmetic!Double(x) \in 0 .. D - 1
    BY Reading
  <2>2. D \in Nat
    BY Squares
  <2>. HIDE DEF n, h, D, a, B
  <2>. QED BY <2>1, <2>2, <1>2
<1>4. y = Arithmetic!Shifted(z, v)
  BY SamePowers DEF Arithmetic!ASR, Sg
<1>5. n \in Int
  <2>. HIDE DEF n, h
  <2>. QED BY <1>2, <1>3
<1>6. /\ z \in Regs /\ z.LAC = x.LAC /\ z.MQ = x.MQ /\ z.emode = x.emode
      /\ x.emode = 1 /\ st = 1 => z.gtf = n % 2
  <2>. HIDE DEF n, st
  <2>. QED BY <1>1, <1>5, BitsOut
<1>. HIDE DEF st, n, a, h, z, y, B, Sg
<1>7. v = n \div Pow2[st] /\ v \in -h .. h - 1 /\ (v < 0 <=> n < 0)
  <2>. DEFINE p == Pow2[st]
  <2>1. p \in Nat \ {0}
    BY <1>1, Positive
  <2>2. st > 2 * W + 1 => p >= h
    <3>1. st > 2 * W + 1 => (2 * W - 1 \in Nat /\ 2 * W - 1 <= st)
      BY <1>1
    <3>2. st > 2 * W + 1 => Pow2[2 * W - 1] <= Pow2[st]
      BY <3>1, <1>1, Growing
    <3>3. p \in Int /\ h \in Int
      BY <2>1, <1>2
    <3>. QED BY <3>2, <3>3, <1>1
  <2>. HIDE DEF p
  <2>3. /\ n \div p \in -h .. h - 1 /\ (n \div p < 0 <=> n < 0)
        /\ p >= h => n \div p = (IF n < 0 THEN -1 ELSE 0)
    BY <1>2, <1>3, <2>1, SmallQuotient
  <2>4. v = IF st > 2 * W + 1 THEN (IF n < 0 THEN -1 ELSE 0) ELSE n \div p
    BY <1>3 DEF p
  <2>. QED BY <2>2, <2>3, <2>4 DEF p
<1>. HIDE DEF v
<1>8. v \in Int
  BY <1>2, <1>7
<1>9. /\ y \in Regs /\ y.gtf = z.gtf
      /\ Arithmetic!Signed(y) = Arithmetic!Signed(Arithmetic!Holding(z, v))
      /\ Arithmetic!L(y) = Arithmetic!L(Arithmetic!Holding(z, v))
  BY <1>4, <1>6, <1>8, ShiftedHeld
<1>10. /\ Arithmetic!Signed(Arithmetic!Holding(z, v)) = v
       /\ Arithmetic!L(Arithmetic!Holding(z, v)) = (IF v < 0 THEN 1 ELSE 0)
  <2>1. v \in -(Sg * B) .. Sg * B - 1
    BY <1>7 DEF h
  <2>. QED BY <2>1, <1>6, SignedHeld
<1>11. a \div Sg = (IF v < 0 THEN 1 ELSE 0)
  <2>. DEFINE k == a \div Sg
              t == a % Sg
  <2>1. a \in Int
    BY <1>1, <1>3
  <2>2. k \in Int /\ t \in 0 .. Sg - 1 /\ a = Sg * k + t
    BY <2>1, <1>1, Division
  <2>. HIDE DEF k, t
  <2>3. k = 0 \/ k = 1
    BY <2>2, <1>1, <1>3
  <2>4. k = 1 <=> a >= Sg
    BY <2>2, <2>3, <1>1
  <2>. QED BY <2>3, <2>4, <1>3, <1>7 DEF k
<1>12. x.emode = 1 /\ st = 1 => y.gtf = x.MQ % 2
  BY <1>6, <1>9, LastBit DEF n
<1>. QED BY <1>7, <1>9, <1>10, <1>11, <1>12 DEF y, st, n, a

\* LSR divides the unsigned double word.
LEMMA UnsignedShifts ==
    ASSUME NEW x \in Regs, NEW m \in BWord
    PROVE  LET y == Arithmetic!LSR(x, m)
               st == Arithmetic!Steps(x, m)
           IN  /\ y \in Regs
               /\ Arithmetic!Long(y) = Arithmetic!Double(x) \div Pow2[st]
               /\ x.emode = 1 /\ st = 1 => y.gtf = x.MQ % 2
<1>. DEFINE st == Arithmetic!Steps(x, m)
            n == Arithmetic!Double(x)
            z == Arithmetic!LastOut(x, n, st)
            y == Arithmetic!LSR(x, m)
            v == IF st > 2 * W THEN 0 ELSE n \div Pow2[st]
<1>1. st \in Nat /\ W \in Nat /\ W >= 2 /\ D = Pow2[2 * W] /\ D \in Nat \ {0}
  BY StepCount, Sizes, LongPower, Squares
<1>2. n \in 0 .. D - 1
  BY Reading
<1>3. y = Arithmetic!Shifted(z, v)
  BY SamePowers DEF Arithmetic!LSR
<1>4. n \in Int /\ n >= 0 /\ n < D /\ n \in -D .. D - 1
  <2>. HIDE DEF n, D
  <2>. QED BY <1>1, <1>2
<1>6. z \in Regs /\ (x.emode = 1 /\ st = 1 => z.gtf = n % 2)
  <2>. HIDE DEF n, st
  <2>. QED BY <1>1, <1>4, BitsOut
<1>. HIDE DEF st, n, z, y, D
<1>7. v = n \div Pow2[st] /\ v \in 0 .. D - 1
  <2>. DEFINE p == Pow2[st]
  <2>1. p \in Nat \ {0}
    BY <1>1, Positive
  <2>2. st > 2 * W => p >= D
    <3>1. st > 2 * W => (2 * W \in Nat /\ 2 * W <= st)
      BY <1>1
    <3>2. st > 2 * W => Pow2[2 * W] <= Pow2[st]
      BY <3>1, <1>1, Growing
    <3>3. p \in Int /\ D \in Int
      BY <2>1, <1>1
    <3>. QED BY <3>2, <3>3, <1>1
  <2>. HIDE DEF p
  <2>3. /\ n \div p \in -D .. D - 1 /\ (n \div p < 0 <=> n < 0)
        /\ p >= D => n \div p = (IF n < 0 THEN -1 ELSE 0)
    BY <1>1, <1>4, <2>1, SmallQuotient
  <2>4. v = IF st > 2 * W THEN 0 ELSE n \div p
    BY DEF p
  <2>. QED BY <2>2, <2>3, <2>4, <1>1, <1>4 DEF p
<1>. HIDE DEF v
<1>8. v \in Int
  BY <1>1, <1>7
<1>9. y \in Regs /\ y.gtf = z.gtf /\ Arithmetic!Long(y) = v % (2 * D)
  BY <1>3, <1>6, <1>8, ShiftedHeld
<1>10. v % (2 * D) = v
  <2>. DEFINE d == 2 * D
  <2>1. d \in Nat \ {0} /\ v = d * 0 + v /\ v \in 0 .. d - 1 /\ 0 \in Int
    BY <1>1, <1>7
  <2>. HIDE DEF d
  <2>2. v % d = v
    BY <2>1, <1>8, Quotient
  <2>. QED BY <2>2 DEF d
<1>11. x.emode = 1 /\ st = 1 => y.gtf = x.MQ % 2
  BY <1>6, <1>9, LastBit DEF n
<1>. QED BY <1>7, <1>9, <1>10, <1>11 DEF y, st, n

\* The property of the shifts holds of any registers.
LEMMA ShiftsExact == r \in Regs => Arithmetic!ShiftsByOnes
<1>. SUFFICES ASSUME r \in Regs PROVE Arithmetic!ShiftsByOnes
  OBVIOUS
<1>1. ASSUME NEW m \in Operands PROVE
        /\ Arithmetic!Long(Arithmetic!SHL(r, m))
              = (Arithmetic!Long(r) * Pow2[Arithmetic!Steps(r, m)]) % (2 * B * B)
        /\ Arithmetic!Signed(Arithmetic!ASR(r, m))
              = Arithmetic!Signed(r) \div Pow2[Arithmetic!Steps(r, m)]
        /\ Arithmetic!L(Arithmetic!ASR(r, m)) = Arithmetic!AC(r) \div Sg
        /\ Arithmetic!Long(Arithmetic!LSR(r, m))
              = Arithmetic!Double(r) \div Pow2[Arithmetic!Steps(r, m)]
        /\ r.emode = Arithmetic!Mode.B /\ m % (Arithmetic!SCMask + 1) = 1 =>
              Arithmetic!ASR(r, m).gtf = r.MQ % 2 /\ Arithmetic!LSR(r, m).gtf = r.MQ % 2
  <2>1. m \in BWord
    BY OperandWord
  <2>2. 2 * B * B = 2 * D
    <3>1. B \in Nat
      BY Sizes
    <3>. HIDE DEF B
    <3>. QED BY <3>1 DEF D
  <2>3. r.emode = Arithmetic!Mode.B /\ m % (Arithmetic!SCMask + 1) = 1 =>
            r.emode = 1 /\ Arithmetic!Steps(r, m) = 1
    BY DEF Arithmetic!Mode, Arithmetic!Steps
  <2>4. /\ Arithmetic!Long(Arithmetic!SHL(r, m))
              = (Arithmetic!Long(r) * Pow2[Arithmetic!Steps(r, m)]) % (2 * D)
    BY <2>1, LeftShifts
  <2>5. /\ Arithmetic!Signed(Arithmetic!ASR(r, m))
              = Arithmetic!Signed(r) \div Pow2[Arithmetic!Steps(r, m)]
        /\ Arithmetic!L(Arithmetic!ASR(r, m)) = Arithmetic!AC(r) \div Sg
        /\ r.emode = 1 /\ Arithmetic!Steps(r, m) = 1 => Arithmetic!ASR(r, m).gtf = r.MQ % 2
    BY <2>1, SignedShifts
  <2>6. /\ Arithmetic!Long(Arithmetic!LSR(r, m))
              = Arithmetic!Double(r) \div Pow2[Arithmetic!Steps(r, m)]
        /\ r.emode = 1 /\ Arithmetic!Steps(r, m) = 1 => Arithmetic!LSR(r, m).gtf = r.MQ % 2
    BY <2>1, UnsignedShifts
  <2>. QED BY <2>2, <2>3, <2>4, <2>5, <2>6
<1>. QED BY <1>1, SamePowers DEF Arithmetic!ShiftsByOnes, B, Sg

----------------------------------------------------------------------------
(* NMI.                                                                    *)

Quarter == Pow2[2 * W - 2]

\* A quarter of the double word: what its two upper bits tell apart.
LEMMA Quarters ==
    /\ Quarter \in Nat \ {0} /\ D = 4 * Quarter /\ Sg * B = 2 * Quarter
<1>1. W \in Nat /\ W >= 2 /\ 2 * W - 2 \in Nat /\ 2 * W - 1 \in Nat
  BY Sizes
<1>2. Quarter \in Nat \ {0}
  BY <1>1, Positive DEF Quarter
<1>3. Pow2[(2 * W - 2) + 1] = 2 * Pow2[2 * W - 2]
  BY <1>1, PowerRecursion
<1>4. Pow2[(2 * W - 1) + 1] = 2 * Pow2[2 * W - 1]
  BY <1>1, PowerRecursion
<1>5. (2 * W - 2) + 1 = 2 * W - 1 /\ (2 * W - 1) + 1 = 2 * W
  BY <1>1
<1>6. D = Pow2[2 * W] /\ Sg * B = Pow2[2 * W - 1]
  BY LongPower
<1>7. D = 2 * (2 * Quarter) /\ Sg * B = 2 * Quarter
  BY <1>3, <1>4, <1>5, <1>6 DEF Quarter
<1>8. 2 * (2 * Quarter) = 4 * Quarter
  BY <1>2
<1>. QED BY <1>2, <1>7, <1>8

\* Normal, in terms of the two upper bits and the rest.
LEMMA NormalForm ==
    ASSUME NEW n \in Int, NEW k \in Int, NEW c \in 0 .. 3, NEW t \in 0 .. Quarter - 1,
           n = (4 * Quarter) * k + Quarter * c + t
    PROVE  Arithmetic!Normal(n) <=> t = 0 \/ c = 1 \/ c = 2
<1>. DEFINE q == Quarter
<1>1. q \in Nat \ {0} /\ W \in Nat /\ W >= 2
  BY Quarters, Sizes
<1>2. Pow2[2 * W - 1] = 2 * q
  <2>1. 2 * W - 2 \in Nat /\ (2 * W - 2) + 1 = 2 * W - 1
    BY <1>1
  <2>2. Pow2[(2 * W - 2) + 1] = 2 * Pow2[2 * W - 2]
    BY <2>1, PowerRecursion
  <2>. QED BY <2>1, <2>2 DEF Quarter
<1>3. Arithmetic!Normal(n) <=> (n % q = 0 \/ (n \div (2 * q)) % 2 # (n \div q) % 2)
  BY SamePowers, <1>2 DEF Arithmetic!Normal, Arithmetic!Bit, Quarter
<1>4. t \in 0 .. q - 1 /\ n = (4 * q) * k + q * c + t
  OBVIOUS
<1>5. PICK i \in 0 .. 1, j \in 0 .. 1 : c = 2 * i + j
  <2>1. c = 2 * 0 + 0 \/ c = 2 * 0 + 1 \/ c = 2 * 1 + 0 \/ c = 2 * 1 + 1
    OBVIOUS
  <2>. QED BY <2>1
<1>. HIDE DEF q
<1>6. n \div q = 2 * (2 * k + i) + j /\ n % q = t
  <2>. DEFINE z == 2 * (2 * k + i) + j
  <2>1. z \in Int /\ n = q * z + t
    BY <1>1, <1>4, <1>5
  <2>. HIDE DEF z
  <2>2. n \div q = z /\ n % q = t
    BY <2>1, <1>1, <1>4, Quotient
  <2>. QED BY <2>2 DEF z
<1>7. n \div (2 * q) = 2 * k + i
  <2>. DEFINE z == 2 * k + i
              d == 2 * q
              e == q * j + t
  <2>1. z \in Int /\ d \in Nat \ {0} /\ n = d * z + e
    BY <1>1, <1>4, <1>5
  <2>2. e \in 0 .. d - 1
    <3>1. j = 0 \/ j = 1
      OBVIOUS
    <3>2. e = t \/ e = q + t
      BY <3>1, <1>1, <1>4
    <3>. QED BY <3>2, <1>1, <1>4
  <2>. HIDE DEF z, d, e
  <2>3. n \div d = z
    BY <2>1, <2>2, Quotient
  <2>. QED BY <2>3 DEF z, d
<1>8. (n \div q) % 2 = j /\ (n \div (2 * q)) % 2 = i
  <2>1. ASSUME NEW z \in Int, NEW e \in 0 .. 1 PROVE (2 * z + e) % 2 = e
    OBVIOUS
  <2>2. 2 * k + i \in Int
    OBVIOUS
  <2>3. (2 * k + i) % 2 = i
    BY <2>1
  <2>4. (2 * (2 * k + i) + j) % 2 = j
    BY <2>1, <2>2
  <2>. QED BY <2>3, <2>4, <1>6, <1>7
<1>9. (i # j) <=> (c = 1 \/ c = 2)
  BY <1>5
<1>. QED BY <1>3, <1>6, <1>8, <1>9

\* Any number has two upper bits and a rest.
LEMMA InQuarters ==
    ASSUME NEW n \in Int
    PROVE  \E k \in Int, c \in 0 .. 3, t \in 0 .. Quarter - 1 :
              n = (4 * Quarter) * k + Quarter * c + t /\ n % D = Quarter * c + t
<1>. DEFINE q == Quarter
            k == n \div D
            u == n % D
            c == u \div q
            t == u % q
<1>1. q \in Nat \ {0} /\ D = 4 * q /\ D \in Nat \ {0}
  BY Quarters, Squares
<1>. HIDE DEF q, D
<1>2. k \in Int /\ u \in 0 .. D - 1 /\ n = D * k + u
  BY <1>1, Division
<1>. HIDE DEF k, u
<1>3. u \in Int
  BY <1>1, <1>2
<1>4. c \in Int /\ t \in 0 .. q - 1 /\ u = q * c + t
  BY <1>1, <1>3, Division
<1>. HIDE DEF c, t
<1>5. c \in 0 .. 3
  <2>1. c < 4
    <3>1. ASSUME c >= 4 PROVE q * c >= q * 4
      BY <3>1, <1>1, <1>4
    <3>2. q * c \in Int
      BY <1>1, <1>4
    <3>. QED BY <3>1, <3>2, <1>1, <1>2, <1>4
  <2>2. c >= 0
    <3>1. ASSUME c <= -1 PROVE q * c <= q * (-1)
      BY <3>1, <1>1, <1>4
    <3>2. q * c \in Int
      BY <1>1, <1>4
    <3>. QED BY <3>1, <3>2, <1>1, <1>2, <1>4
  <2>. QED BY <2>1, <2>2, <1>4
<1>6. n = (4 * q) * k + q * c + t
  <2>1. (4 * q) * k \in Int /\ q * c \in Int
    BY <1>1, <1>2, <1>4
  <2>. QED BY <2>1, <1>1, <1>2, <1>4
<1>7. n % D = q * c + t
  BY <1>4 DEF u
<1>. QED BY <1>2, <1>4, <1>5, <1>6, <1>7 DEF q

\* Whether a number is normal depends on the double word only.
LEMMA NormalInD ==
    ASSUME NEW n \in Int
    PROVE  Arithmetic!Normal(n) <=> Arithmetic!Normal(n % D)
<1>1. PICK k \in Int, c \in 0 .. 3, t \in 0 .. Quarter - 1 :
              n = (4 * Quarter) * k + Quarter * c + t /\ n % D = Quarter * c + t
  BY InQuarters
<1>2. Quarter \in Nat \ {0}
  BY Quarters
<1>3. Arithmetic!Normal(n) <=> t = 0 \/ c = 1 \/ c = 2
  BY <1>1, NormalForm
<1>. HIDE DEF Quarter, D
<1>4. n % D = (4 * Quarter) * 0 + Quarter * c + t /\ n % D \in Int /\ 0 \in Int
  BY <1>1, <1>2
<1>5. Arithmetic!Normal(n % D) <=> t = 0 \/ c = 1 \/ c = 2
  <2>. DEFINE u == n % D
  <2>1. u = (4 * Quarter) * 0 + Quarter * c + t /\ u \in Int /\ 0 \in Int
    BY <1>4
  <2>. HIDE DEF u
  <2>2. Arithmetic!Normal(u) <=> t = 0 \/ c = 1 \/ c = 2
    BY <2>1, NormalForm
  <2>. QED BY <2>2 DEF u
<1>. QED BY <1>3, <1>5

\* What is not normal leaves room for one more shift.
LEMMA NotNormal ==
    ASSUME NEW n \in Int, NEW j \in Int, NEW s \in -(Sg * B) .. Sg * B - 1, n = D * j + s,
           ~Arithmetic!Normal(n)
    PROVE  s \in -Quarter .. Quarter - 1
<1>1. PICK k \in Int, c \in 0 .. 3, t \in 0 .. Quarter - 1 :
              n = (4 * Quarter) * k + Quarter * c + t /\ n % D = Quarter * c + t
  BY InQuarters
<1>2. Quarter \in Nat \ {0} /\ D = 4 * Quarter /\ Sg * B = 2 * Quarter
  BY Quarters
<1>3. t # 0 /\ (c = 0 \/ c = 3)
  BY <1>1, NormalForm
<1>. DEFINE q == Quarter
            h == Sg * B
            z == k - j
<1>4. s \in Int /\ s >= -(2 * q) /\ s <= 2 * q - 1
  <2>1. s \in -h .. h - 1
    OBVIOUS
  <2>. HIDE DEF h, q
  <2>. QED BY <2>1, <1>2 DEF h, q
<1>5. s = (4 * q) * z + q * c + t /\ z \in Int
  <2>1. n = (4 * q) * j + s
    BY <1>2
  <2>2. (4 * q) * z = (4 * q) * k - (4 * q) * j
    BY <1>2
  <2>3. (4 * q) * k \in Int /\ (4 * q) * j \in Int /\ q * c \in Int /\ t \in Int
    BY <1>2
  <2>. QED BY <1>1, <2>1, <2>2, <2>3, <1>4
<1>. HIDE DEF q, h, z
<1>6. ASSUME NEW i \in Int
      PROVE  /\ i >= 1 => (4 * q) * i >= 4 * q
             /\ i <= -1 => (4 * q) * i <= -(4 * q)
             /\ i <= -2 => (4 * q) * i <= -(8 * q)
             /\ i = 0 => (4 * q) * i = 0
             /\ i = -1 => (4 * q) * i = -(4 * q)
             /\ (4 * q) * i \in Int
  <2>1. q \in Nat \ {0}
    BY <1>2 DEF q
  <2>2. ASSUME NEW d \in Nat \ {0}
        PROVE  /\ i >= 1 => d * i >= d
               /\ i <= -1 => d * i <= -d
               /\ i <= -2 => d * i <= -(2 * d)
               /\ i = 0 => d * i = 0
               /\ i = -1 => d * i = -d
               /\ d * i \in Int
    <3>1. i <= -2 => d * i <= d * (-2)
      OBVIOUS
    <3>2. i <= -1 => d * i <= d * (-1)
      OBVIOUS
    <3>. QED BY <3>1, <3>2
  <2>3. 4 * q \in Nat \ {0} /\ 2 * (4 * q) = 8 * q
    BY <2>1
  <2>. QED BY <2>2, <2>3
<1>7. q \in Nat \ {0} /\ t \in 1 .. q - 1
  BY <1>2, <1>3 DEF q
<1>8. CASE c = 0
  <2>1. s = (4 * q) * z + t
    BY <1>5, <1>7, <1>8, <1>6
  <2>2. z = 0
    BY <2>1, <1>4, <1>5, <1>6, <1>7
  <2>3. s = t
    BY <2>1, <2>2, <1>6, <1>7
  <2>. QED BY <2>3, <1>7 DEF q
<1>9. CASE c = 3
  <2>1. s = (4 * q) * z + 3 * q + t
    BY <1>5, <1>7, <1>9, <1>6
  <2>2. z = -1
    BY <2>1, <1>4, <1>5, <1>6, <1>7
  <2>3. s = t - q
    BY <2>1, <2>2, <1>6, <1>7
  <2>. QED BY <2>3, <1>7 DEF q
<1>. QED BY <1>3, <1>8, <1>9

\* Bits shifted out of the link do not change the signed double word.
LEMMA ResidueHeld ==
    ASSUME NEW x \in Regs, NEW n \in Int, NEW j \in Int, NEW s \in -(Sg * B) .. Sg * B - 1,
           n = D * j + s
    PROVE  Arithmetic!Signed(Arithmetic!Holding(x, n)) = s
<1>. DEFINE y == Arithmetic!Holding(x, n)
            h == Sg * B
<1>1. h \in Nat \ {0} /\ D = 2 * h /\ D \in Nat \ {0}
  BY Squares
<1>2. s \in Int /\ s >= -h /\ s <= h - 1
  <2>1. s \in -h .. h - 1
    OBVIOUS
  <2>. HIDE DEF h
  <2>. QED BY <2>1, <1>1
<1>3. y \in Regs /\ Arithmetic!Double(y) = n % D
  BY Held
<1>. HIDE DEF y
<1>4. Arithmetic!Signed(y) = IF Arithmetic!Double(y) >= h THEN Arithmetic!Double(y) - D ELSE Arithmetic!Double(y)
  BY <1>3, Reading
<1>. HIDE DEF h, D
<1>5. CASE s < 0
  <2>. DEFINE t == s + D
              i == j - 1
  <2>1. t \in 0 .. D - 1 /\ i \in Int
    BY <1>1, <1>2, <1>5
  <2>2. n = D * i + t
    <3>1. D * (j - 1) = D * j - D
      BY <1>1
    <3>2. D * j \in Int
      BY <1>1
    <3>. QED BY <3>1, <3>2, <1>1, <1>2
  <2>. HIDE DEF t, i
  <2>3. n % D = t
    <3>1. D \in Nat \ {0}
      BY <1>1
    <3>. QED BY <2>1, <2>2, <3>1, Quotient
  <2>. QED BY <2>3, <1>1, <1>2, <1>3, <1>4, <1>5 DEF y, t
<1>6. CASE s >= 0
  <2>1. s \in 0 .. D - 1
    BY <1>1, <1>2, <1>6
  <2>2. n % D = s
    BY <2>1, <1>1, Quotient
  <2>. QED BY <2>2, <1>1, <1>2, <1>3, <1>4, <1>6 DEF y
<1>. QED BY <1>2, <1>5, <1>6

\* NMI multiplies by the power of two it counts and stops with a normal double word.
LEMMA Normalised ==
    ASSUME NEW x \in Regs
    PROVE  LET y == Arithmetic!NMI(x) IN
           /\ y \in Regs
           /\ \/ Arithmetic!Signed(y) = Arithmetic!Signed(x) * Pow2[y.SC]
              \/ x.emode = 1 /\ Arithmetic!Double(y) = 0
           /\ Arithmetic!Normal(Arithmetic!Double(y))
<1>. DEFINE g == Arithmetic!Long(x)
            v == Arithmetic!Signed(x)
            l == Arithmetic!L(x)
            T == {n \in 0 .. 2 * W : Arithmetic!Normal(g * Pow2[n])}
            steps == Arithmetic!Min(T)
            h == Arithmetic!Holding(x, g * Pow2[steps])
            y == Arithmetic!NMI(x)
            H == Sg * B
<1>1. /\ W \in Nat /\ W >= 2 /\ 2 * W \in 0 .. Mk /\ Mk \in Nat /\ B \in Nat \ {0}
      /\ H \in Nat \ {0} /\ D = 2 * H /\ D \in Nat \ {0}
      /\ Quarter \in Nat \ {0} /\ D = 4 * Quarter /\ H = 2 * Quarter
  BY Sizes, Squares, Quarters
<1>2. /\ l \in 0 .. 1 /\ g = D * l + Arithmetic!Double(x) /\ Arithmetic!Double(x) \in 0 .. D - 1
      /\ v = (IF Arithmetic!Double(x) >= H THEN Arithmetic!Double(x) - D ELSE Arithmetic!Double(x))
      /\ v \in -H .. H - 1
  BY Reading
<1>3. y = [h EXCEPT !.SC = steps,
                    !.LAC = IF x.emode = 1 /\ Arithmetic!AC(h) = Sg /\ h.MQ = 0
                            THEN Arithmetic!Without(@) ELSE @]
  BY SamePowers DEF Arithmetic!NMI, Arithmetic!Mode, Sg
<1>. HIDE DEF g, v, l, H, D, B, Sg, Mk, y, h
<1>4. /\ v \in Int /\ g \in Int
      /\ g = D * l + v \/ g = D * (l + 1) + v
  <2>. DEFINE d == Arithmetic!Double(x)
  <2>1. d \in Int /\ l \in Int /\ D * l \in Int /\ D * (l + 1) = D * l + D
    BY <1>1, <1>2
  <2>2. g = D * l + d /\ v = (IF d >= H THEN d - D ELSE d)
    BY <1>2
  <2>. HIDE DEF d
  <2>. QED BY <2>1, <2>2, <1>1
<1>5. PICK w \in Int : g = D * w + v
  BY <1>2, <1>4
<1>6. \A n \in Nat : Pow2[n] \in Nat \ {0}
  BY Positive
<1>7. T # {}
  <2>1. 2 * W \in 0 .. 2 * W /\ 2 * W \in Nat
    BY <1>1
  <2>2. Pow2[2 * W] = 4 * Quarter
    BY <1>1, LongPower
  <2>. DEFINE n == g * Pow2[2 * W]
  <2>3. n = (4 * Quarter) * g + Quarter * 0 + 0 /\ n \in Int
    BY <2>2, <1>1, <1>4
  <2>4. 0 \in 0 .. 3 /\ 0 \in 0 .. Quarter - 1
    BY <1>1
  <2>. HIDE DEF n
  <2>5. Arithmetic!Normal(n)
    BY <2>3, <2>4, <1>4, NormalForm
  <2>. QED BY <2>1, <2>5 DEF n
<1>8. steps \in T /\ \A n \in T : steps <= n
  <2>1. T \subseteq Nat
    BY <1>1
  <2>. HIDE DEF T
  <2>2. \E n \in T : \A m \in T : n <= m
    BY <2>1, <1>7, Least
  <2>. QED BY <2>2 DEF Arithmetic!Min
<1>. HIDE DEF steps
<1>9. steps \in 0 .. 2 * W /\ steps \in Nat /\ steps \in 0 .. Mk /\ Arithmetic!Normal(g * Pow2[steps])
  BY <1>1, <1>8
<1>10. ASSUME NEW i \in Nat, i < steps PROVE ~Arithmetic!Normal(g * Pow2[i])
  <2>1. i \in 0 .. 2 * W
    BY <1>1, <1>9, <1>10
  <2>2. i \notin T
    BY <1>8, <1>9, <1>10
  <2>. QED BY <2>1, <2>2
<1>11. ASSUME NEW i \in Nat PROVE /\ g * Pow2[i] = D * (w * Pow2[i]) + v * Pow2[i]
                                  /\ g * Pow2[i] \in Int /\ w * Pow2[i] \in Int /\ v * Pow2[i] \in Int
  <2>. DEFINE p == Pow2[i]
  <2>1. p \in Nat
    BY <1>6
  <2>. HIDE DEF p
  <2>2. g * p = D * (w * p) + v * p /\ g * p \in Int /\ w * p \in Int /\ v * p \in Int
    BY <2>1, <1>1, <1>4, <1>5
  <2>. QED BY <2>2 DEF p
<1>. HIDE DEF T
<1>. DEFINE U == {i \in Nat : i <= steps => v * Pow2[i] \in -H .. H - 1}
<1>12. 0 \in U
  <2>1. v * Pow2[0] = v
    BY <1>4, PowerRecursion
  <2>. QED BY <2>1, <1>2
<1>13. ASSUME NEW i \in Nat, i \in U PROVE i + 1 \in U
  <2>1. CASE i + 1 <= steps
    <3>. DEFINE s == v * Pow2[i]
                n == g * Pow2[i]
                j == w * Pow2[i]
    <3>1. i < steps
      BY <2>1, <1>9
    <3>2. s \in -H .. H - 1 /\ s \in Int
      BY <1>13, <3>1, <1>9, <1>11
    <3>3. ~Arithmetic!Normal(n)
      BY <1>10, <3>1
    <3>4. n = D * j + s /\ n \in Int /\ j \in Int
      BY <1>11
    <3>5. v * Pow2[i + 1] = 2 * s
      <4>1. Pow2[i + 1] = 2 * Pow2[i] /\ Pow2[i] \in Nat
        BY PowerRecursion
      <4>. QED BY <4>1, <1>4
    <3>. HIDE DEF s, n, j
    <3>6. s \in -(Sg * B) .. Sg * B - 1
      BY <3>2 DEF H
    <3>7. s \in -Quarter .. Quarter - 1
      BY <3>3, <3>4, <3>6, NotNormal
    <3>8. 2 * s \in -H .. H - 1
      BY <3>7, <3>2, <1>1
    <3>. QED BY <3>5, <3>8
  <2>2. CASE ~(i + 1 <= steps)
    BY <2>2
  <2>. QED BY <2>1, <2>2
<1>14. \A i \in Nat : i \in U
  <2>. HIDE DEF U
  <2>. QED BY <1>12, <1>13, Induct
<1>. DEFINE s == v * Pow2[steps]
            n == g * Pow2[steps]
            j == w * Pow2[steps]
<1>15. s \in -(Sg * B) .. Sg * B - 1
  <2>1. steps \in U /\ steps <= steps
    BY <1>9, <1>14
  <2>. QED BY <2>1 DEF H
<1>16. n = D * j + s /\ n \in Int /\ j \in Int
  BY <1>9, <1>11
<1>17. h = Arithmetic!Holding(x, n)
  BY DEF h
<1>18. Arithmetic!Normal(n)
  BY <1>9
<1>. HIDE DEF s, n, j, U
<1>19. h \in Regs /\ Arithmetic!Double(h) = n % D /\ Arithmetic!Signed(h) = s /\ h.emode = x.emode
  BY <1>15, <1>16, <1>17, Held, ResidueHeld
<1>20. Arithmetic!Normal(Arithmetic!Double(h))
  BY <1>16, <1>18, <1>19, NormalInD
<1>21. h.LAC \in Lac /\ h.MQ \in BWord
  BY <1>19 DEF Regs
<1>22. CASE ~(x.emode = 1 /\ Arithmetic!AC(h) = Sg /\ h.MQ = 0)
  <2>1. y = [h EXCEPT !.SC = steps, !.LAC = h.LAC]
    BY <1>3, <1>22
  <2>2. y \in Regs /\ y.LAC = h.LAC /\ y.MQ = h.MQ /\ y.SC = steps
    BY <2>1, <1>9, <1>19 DEF Regs
  <2>3. Arithmetic!Signed(y) = Arithmetic!Signed(h) /\ Arithmetic!Double(y) = Arithmetic!Double(h)
    BY <2>2, LoadedAgain
  <2>. QED BY <2>2, <2>3, <1>19, <1>20 DEF y, s, v
<1>23. CASE x.emode = 1 /\ Arithmetic!AC(h) = Sg /\ h.MQ = 0
  <2>1. y = [h EXCEPT !.SC = steps, !.LAC = Arithmetic!Without(h.LAC)]
    BY <1>3, <1>23
  <2>2. Arithmetic!Without(h.LAC) \in Lac /\ Arithmetic!Without(h.LAC) = B * (h.LAC \div B) /\ h.LAC \div B \in Int
    BY <1>21, Cleared, Halves
  <2>3. y \in Regs /\ y.LAC = B * (h.LAC \div B) /\ y.MQ = 0
    BY <2>1, <2>2, <1>9, <1>19, <1>23 DEF Regs
  <2>4. (B * (h.LAC \div B)) % B = 0
    <3>. DEFINE k == h.LAC \div B
    <3>1. k \in Int /\ 0 \in 0 .. B - 1
      BY <2>2, <1>1
    <3>. HIDE DEF k
    <3>2. (B * k + 0) % B = 0
      BY <3>1, <1>1, Splits
    <3>3. B * k + 0 = B * k
      BY <3>1, <1>1
    <3>. QED BY <3>2, <3>3 DEF k
  <2>5. Arithmetic!AC(y) = 0
    BY <2>3, <2>4 DEF Arithmetic!AC, B
  <2>6. Arithmetic!Double(y) = 0
    <3>1. Arithmetic!Double(y) = 0 * B + 0
      BY <2>3, <2>5 DEF Arithmetic!Double, B
    <3>. QED BY <3>1, <1>1
  <2>7. Arithmetic!Normal(0)
    <3>1. 0 \in Int /\ 0 \in 0 .. 3 /\ 0 \in 0 .. Quarter - 1 /\ 0 = (4 * Quarter) * 0 + Quarter * 0 + 0
      BY <1>1
    <3>. QED BY <3>1, NormalForm
  <2>. QED BY <2>3, <2>6, <2>7, <1>23 DEF y
<1>. QED BY <1>22, <1>23

\* The property of NMI holds of any registers.
LEMMA NormalExact == r \in Regs => Arithmetic!NormalisesBack
<1>. SUFFICES ASSUME r \in Regs PROVE Arithmetic!NormalisesBack
  OBVIOUS
<1>. DEFINE y == Arithmetic!NMI(r)
<1>1. /\ \/ Arithmetic!Signed(y) = Arithmetic!Signed(r) * Pow2[y.SC]
         \/ r.emode = 1 /\ Arithmetic!Double(y) = 0
      /\ Arithmetic!Normal(Arithmetic!Double(y))
  BY Normalised
<1>. HIDE DEF y
<1>. QED BY <1>1, SamePowers DEF Arithmetic!NormalisesBack, Arithmetic!Mode, y

----------------------------------------------------------------------------
(* Every instruction keeps the registers, so their types are inductive.    *)

\* SCL keeps the types.
LEMMA Loads ==
    ASSUME NEW x \in Regs, NEW m \in BWord
    PROVE  Arithmetic!SCL(x, m) \in Regs
<1>1. Mk + 1 \in Nat \ {0} /\ B \in Nat \ {0} /\ Mk \in Nat
  BY Sizes
<1>2. Arithmetic!SCL(x, m) = [x EXCEPT !.SC = (B - 1 - m) % (Mk + 1)]
  BY DEF Arithmetic!SCL, B, Mk
<1>. HIDE DEF B, Mk
<1>3. B - 1 - m \in Int
  BY <1>1 DEF BWord
<1>4. (B - 1 - m) % (Mk + 1) \in 0 .. Mk
  <2>. DEFINE d == Mk + 1
  <2>1. d \in Nat \ {0} /\ d - 1 = Mk
    BY <1>1
  <2>. HIDE DEF d
  <2>2. (B - 1 - m) % d \in 0 .. d - 1
    BY <2>1, <1>3, Division
  <2>. QED BY <2>1, <2>2 DEF d
<1>. QED BY <1>2, <1>4 DEF Regs

\* The step counter's instructions and the modes' keep them.
LEMMA Accumulates ==
    ASSUME NEW x \in Regs
    PROVE  /\ Arithmetic!SCA(x) \in Regs /\ Arithmetic!ACS(x) \in Regs
           /\ Arithmetic!Begin(x) \in Regs /\ Arithmetic!SWBA(x) \in Regs
           /\ Arithmetic!SWAB(x) \in Regs
<1>1. Mk + 1 \in Nat \ {0} /\ B \in Nat \ {0} /\ Mk \in Nat
  BY Sizes
<1>2. x.LAC \in Lac /\ x.LAC \in Int /\ x.SC \in Int
  <2>1. x.LAC \in Lac /\ x.SC \in 0 .. Mk
    BY DEF Regs
  <2>. HIDE DEF B, Mk
  <2>. QED BY <2>1, <1>1 DEF Lac
<1>3. Arithmetic!SCA(x) \in Regs
  <2>1. Arithmetic!SCA(x) = [x EXCEPT !.LAC = Arithmetic!Or(@, x.SC)]
    BY DEF Arithmetic!SCA
  <2>2. Arithmetic!Or(x.LAC, x.SC) \in Lac
    BY <1>2, OrRange
  <2>. HIDE DEF Lac
  <2>. QED BY <2>1, <2>2 DEF Regs
<1>4. Arithmetic!ACS(x) \in Regs
  <2>. DEFINE a == Arithmetic!AC(x)
  <2>1. Arithmetic!ACS(x) = [x EXCEPT !.SC = a % (Mk + 1), !.LAC = Arithmetic!Without(@)]
    BY DEF Arithmetic!ACS, Mk
  <2>2. a \in 0 .. B - 1
    BY Reading
  <2>3. Arithmetic!Without(x.LAC) \in Lac
    BY <1>2, Cleared
  <2>. HIDE DEF a, B, Mk, Lac
  <2>4. a % (Mk + 1) \in 0 .. Mk
    <3>. DEFINE d == Mk + 1
    <3>1. d \in Nat \ {0} /\ d - 1 = Mk /\ a \in Int
      BY <1>1, <2>2
    <3>. HIDE DEF d
    <3>2. a % d \in 0 .. d - 1
      BY <3>1, Division
    <3>. QED BY <3>1, <3>2 DEF d
  <2>. QED BY <2>1, <2>3, <2>4 DEF Regs
<1>5. Arithmetic!Begin(x) \in Regs /\ Arithmetic!SWBA(x) \in Regs
  <2>. HIDE DEF Lac, BWord, Mk
  <2>. QED BY DEF Arithmetic!Begin, Arithmetic!SWBA, Arithmetic!Mode, Regs
<1>6. Arithmetic!SWAB(x) \in Regs
  <2>. DEFINE y == Arithmetic!Group3(x, {"MQL"})
  <2>1. y \in Regs
    BY Group3Regs
  <2>2. Arithmetic!SWAB(x) = [y EXCEPT !.emode = 1]
    BY DEF Arithmetic!SWAB, Arithmetic!Mode
  <2>. HIDE DEF y, Lac, BWord, Mk
  <2>. QED BY <2>1, <2>2 DEF Regs
<1>. QED BY <1>3, <1>4, <1>5, <1>6

\* So do the instructions of both modes,
LEMMA InBothModes ==
    ASSUME NEW x \in Regs
    PROVE  Arithmetic!BothModes(x) \subseteq Regs
<1>1. Arithmetic!SCA(x) \in Regs /\ Arithmetic!NMI(x) \in Regs
  BY Accumulates, Normalised
<1>2. ASSUME NEW m \in Operands
      PROVE  {Arithmetic!MUY(x, m), Arithmetic!DVI(x, m), Arithmetic!SHL(x, m), Arithmetic!ASR(x, m),
              Arithmetic!LSR(x, m)} \subseteq Regs
  <2>1. m \in BWord
    BY OperandWord
  <2>2. Arithmetic!MUY(x, m) \in Regs /\ Arithmetic!DVI(x, m) \in Regs
    BY <2>1, Multiplied, Divided
  <2>3. Arithmetic!SHL(x, m) \in Regs
    BY <2>1, LeftShifts
  <2>4. Arithmetic!ASR(x, m) \in Regs
    BY <2>1, SignedShifts
  <2>5. Arithmetic!LSR(x, m) \in Regs
    BY <2>1, UnsignedShifts
  <2>. HIDE DEF Regs
  <2>. QED BY <2>2, <2>3, <2>4, <2>5
<1>. HIDE DEF Regs
<1>. QED BY <1>1, <1>2 DEF Arithmetic!BothModes

\* and those of either mode.
LEMMA InMode ==
    ASSUME NEW x \in Regs
    PROVE  Arithmetic!ModeA(x) \subseteq Regs /\ Arithmetic!ModeB(x) \subseteq Regs
<1>1. Arithmetic!SCA(x) \in Regs
  BY Accumulates
<1>2. Arithmetic!BothModes(Arithmetic!SCA(x)) \subseteq Regs /\ Arithmetic!BothModes(x) \subseteq Regs
  BY <1>1, InBothModes
<1>3. ASSUME NEW m \in Operands
      PROVE  Arithmetic!SCL(x, m) \in Regs /\ Arithmetic!SCL(Arithmetic!SCA(x), m) \in Regs
  BY <1>1, OperandWord, Loads
<1>4. ASSUME NEW low \in Operands, NEW high \in Operands
      PROVE  Arithmetic!DAD(x, low, high) \in Regs
  BY OperandWord, Added
<1>5. Arithmetic!ACS(x) \in Regs /\ Arithmetic!DPIC(x) \in Regs /\ Arithmetic!DCM(x) \in Regs
      /\ Arithmetic!SAM(x) \in Regs
  BY Accumulates, Incremented, Complemented, Compared
<1>. HIDE DEF Regs
<1>6. Arithmetic!ModeA(x) \subseteq Regs
  BY <1>2, <1>3 DEF Arithmetic!ModeA
<1>7. Arithmetic!ModeB(x) \subseteq Regs
  BY <1>4, <1>5 DEF Arithmetic!ModeB
<1>. QED BY <1>6, <1>7

\* The registers start with their types.
LEMMA RegsInit == Arithmetic!Init => r \in Regs
<1>1. B \in Nat \ {0} /\ Mk \in Nat
  BY Sizes
<1>. HIDE DEF B, Mk
<1>. QED BY <1>1 DEF Arithmetic!Init, Arithmetic!Mode, Regs, Lac, BWord

\* Every instruction keeps the types of the registers.
LEMMA RegsStep == r \in Regs /\ Arithmetic!Next => r' \in Regs
<1>. SUFFICES ASSUME r \in Regs, Arithmetic!Next PROVE r' \in Regs
  OBVIOUS
<1>1. CASE Arithmetic!Group1Step
  <2>1. \A c \in {"none", "BSW", "RAL", "RTL", "RAR", "RTR"} : \A ops : Arithmetic!Group1(r, ops, c) \in Regs
    BY Group1Regs
  <2>. HIDE DEF Regs
  <2>. QED BY <1>1, <2>1 DEF Arithmetic!Group1Step, Arithmetic!Rotations
<1>2. CASE Arithmetic!Group3Step
  <2>1. \A ops : Arithmetic!Group3(r, ops) \in Regs
    BY Group3Regs
  <2>2. \A ops : Arithmetic!Begin(Arithmetic!Group3(r, ops)) \in Regs
    <3>. HIDE DEF Regs
    <3>. QED BY <2>1, Accumulates
  <2>3. ASSUME NEW ops PROVE
           LET x == Arithmetic!Begin(Arithmetic!Group3(r, ops)) IN
           Arithmetic!BothModes(x) \subseteq Regs /\ Arithmetic!ModeA(x) \subseteq Regs
             /\ Arithmetic!ModeB(x) \subseteq Regs
    <3>. HIDE DEF Regs
    <3>. QED BY <2>2, InBothModes, InMode
  <2>. HIDE DEF Regs
  <2>4. CASE \E ops \in SUBSET {"CLA", "MQA", "MQL"} : r' = Arithmetic!Begin(Arithmetic!Group3(r, ops))
    BY <2>2, <2>4
  <2>5. CASE \E ops \in Combined :
               LET x == Arithmetic!Begin(Arithmetic!Group3(r, ops))
               IN  r' \in Arithmetic!BothModes(x) \union
                      (IF r.emode = Arithmetic!Mode.A THEN Arithmetic!ModeA(x) ELSE Arithmetic!ModeB(x))
    BY <2>3, <2>5
  <2>. QED BY <1>2, <2>4, <2>5 DEF Arithmetic!Group3Step
<1>3. CASE Arithmetic!ModeStep
  BY <1>3, Accumulates DEF Arithmetic!ModeStep
<1>. QED BY <1>1, <1>2, <1>3 DEF Arithmetic!Next

\* From the types alone follow all properties of the EAE and of OPR.
LEMMA EaeExact ==
    r \in Regs => Arithmetic!TypeOK /\ Arithmetic!EaeIsExact /\ Arithmetic!MicrocodeComposes
BY TypeOfR, MulDivExact, NormalExact, ShiftsExact, DoubleExact, ComparesExact, MicrocodeExact
   DEF Arithmetic!EaeIsExact

----------------------------------------------------------------------------
(* The numbers of FPP8A: a fraction of five words, of which a mode keeps   *)
(* two or all five, at a scale the exponent gives.  Pw(e) is the weight of *)
(* a unit at exponent e; the offset keeps the powers natural.              *)

X == ExpSize
Unit(mode) == Fpp!Lost(mode)
Lim(mode) == Pow2[Fpp!EXACT(mode) - 1]
Qu(mode) == Pow2[Fpp!EXACT(mode) - 2]
Top == Fpp!Half
Range5 == -Top .. Top - 1
Pw(e) == Pow2[e + 4 * X]

\* The sizes of a five word fraction and of an exponent.
LEMMA Widths5 ==
    /\ FppW \in Nat /\ FppW >= 2 /\ X \in Nat \ {0} /\ 5 * FppW <= 3 * X
    /\ Top = Pow2[5 * FppW - 1] /\ Top \in Nat \ {0}
    /\ Fractions \subseteq -(Pow2[2 * FppW - 1]) .. Pow2[2 * FppW - 1] - 1
    /\ Guards \subseteq 0 .. Pow2[3 * FppW] - 1 /\ Exponents \subseteq -X .. X - 1
<1>1. /\ FppW \in Nat \ {0, 1} /\ ExpSize \in Nat \ {0} /\ 5 * FppW <= 3 * ExpSize
      /\ Fractions \subseteq -(Pow2[2 * FppW - 1]) .. Pow2[2 * FppW - 1] - 1
      /\ Guards \subseteq 0 .. Pow2[3 * FppW] - 1
      /\ Exponents \subseteq -ExpSize .. ExpSize - 1
  BY FppSizes, SamePowers DEF Fpp!SizesAssumption, Fpp!EXTEND
<1>2. FppW \in Nat /\ FppW >= 2
  BY <1>1
<1>3. Top = Pow2[5 * FppW - 1]
  BY SamePowers DEF Top, Fpp!Half, Fpp!EXTEND
<1>4. Top \in Nat \ {0}
  <2>1. 5 * FppW - 1 \in Nat
    BY <1>2
  <2>. QED BY <2>1, <1>3, Positive
<1>. QED BY <1>1, <1>2, <1>3, <1>4 DEF X

\* What a mode keeps, and what it loses, of five words.
LEMMA Formats ==
    ASSUME NEW mode \in Fpp!Modes
    PROVE  /\ Fpp!EXACT(mode) = (IF mode = "EP" THEN 5 * FppW ELSE 2 * FppW)
           /\ Fpp!EXACT(mode) \in Nat /\ Fpp!EXACT(mode) >= 4
           /\ Unit(mode) = (IF mode = "EP" THEN 1 ELSE Pow2[3 * FppW])
           /\ Unit(mode) \in Nat \ {0} /\ Lim(mode) \in Nat \ {0} /\ Qu(mode) \in Nat \ {0}
           /\ Lim(mode) = 2 * Qu(mode) /\ Top = Lim(mode) * Unit(mode)
           /\ Top = 2 * (Qu(mode) * Unit(mode)) /\ Qu(mode) * Unit(mode) \in Nat \ {0}
<1>. DEFINE x == Fpp!EXACT(mode)
<1>1. FppW \in Nat /\ FppW >= 2
  BY Widths5
<1>2. x = (IF mode = "EP" THEN 5 * FppW ELSE 2 * FppW)
  BY DEF Fpp!EXACT, Fpp!EXTEND
<1>3. Unit(mode) = Pow2[5 * FppW - x]
  BY SamePowers DEF Unit, Fpp!Lost, Fpp!EXTEND
<1>. HIDE DEF x
<1>4. x \in Nat /\ x >= 4 /\ x <= 5 * FppW
  BY <1>1, <1>2
<1>5. Unit(mode) = (IF mode = "EP" THEN 1 ELSE Pow2[3 * FppW])
  <2>1. mode = "EP" => 5 * FppW - x = 0
    BY <1>1, <1>2
  <2>2. mode # "EP" => 5 * FppW - x = 3 * FppW
    BY <1>1, <1>2
  <2>. QED BY <2>1, <2>2, <1>3, PowerRecursion
<1>6. Lim(mode) = Pow2[x - 1] /\ Qu(mode) = Pow2[x - 2]
  BY DEF Lim, Qu, x
<1>7. x - 1 \in Nat /\ x - 2 \in Nat /\ (x - 2) + 1 = x - 1 /\ 5 * FppW - x \in Nat
  BY <1>1, <1>4
<1>8. Unit(mode) \in Nat \ {0} /\ Lim(mode) \in Nat \ {0} /\ Qu(mode) \in Nat \ {0}
  BY <1>3, <1>6, <1>7, Positive
<1>9. Lim(mode) = 2 * Qu(mode)
  <2>1. Pow2[(x - 2) + 1] = 2 * Pow2[x - 2]
    BY <1>7, PowerRecursion
  <2>. QED BY <2>1, <1>6, <1>7
<1>10. Top = Lim(mode) * Unit(mode)
  <2>1. Pow2[(x - 1) + (5 * FppW - x)] = Pow2[x - 1] * Pow2[5 * FppW - x]
    BY <1>7, Product
  <2>2. (x - 1) + (5 * FppW - x) = 5 * FppW - 1
    BY <1>1, <1>4
  <2>3. Top = Pow2[5 * FppW - 1]
    BY Widths5
  <2>. QED BY <2>1, <2>2, <2>3, <1>3, <1>6
<1>. DEFINE q == Qu(mode)
            u == Unit(mode)
<1>11. q \in Nat \ {0} /\ u \in Nat \ {0} /\ Top = (2 * q) * u
  BY <1>8, <1>9, <1>10
<1>. HIDE DEF q, u
<1>12. (2 * q) * u = 2 * (q * u) /\ q * u \in Nat \ {0}
  BY <1>11
<1>. QED BY <1>2, <1>4, <1>5, <1>8, <1>9, <1>10, <1>11, <1>12 DEF x, q, u

\* SignedMod wraps into the range and is the identity there.
LEMMA Wrapping ==
    ASSUME NEW n \in Int, NEW size \in Nat \ {0}
    PROVE  /\ Fpp!SignedMod(n, size) \in -size .. size - 1
           /\ n \in -size .. size - 1 => Fpp!SignedMod(n, size) = n
           /\ \E k \in Int : n = (2 * size) * k + Fpp!SignedMod(n, size)
<1>. DEFINE d == 2 * size
            k == (n + size) \div d
            t == (n + size) % d
<1>1. d \in Nat \ {0} /\ n + size \in Int
  OBVIOUS
<1>2. Fpp!SignedMod(n, size) = t - size
  BY DEF Fpp!SignedMod
<1>3. d = 2 * size
  OBVIOUS
<1>. HIDE DEF d
<1>4. k \in Int /\ t \in 0 .. d - 1 /\ n + size = d * k + t
  BY <1>1, Division
<1>5. n \in -size .. size - 1 => t = n + size
  <2>. DEFINE i == n + size
  <2>1. n \in -size .. size - 1 => i \in 0 .. d - 1
    BY <1>3
  <2>2. i \in Int /\ i = d * 0 + i /\ 0 \in Int
    BY <1>1
  <2>. HIDE DEF i
  <2>3. i \in 0 .. d - 1 => i % d = i
    <3>1. d \in Nat \ {0}
      BY <1>1
    <3>. QED BY <2>2, <3>1, Quotient
  <2>. QED BY <2>1, <2>3 DEF i
<1>. HIDE DEF k, t
<1>6. t - size \in -size .. size - 1
  BY <1>3, <1>4
<1>7. n = (2 * size) * k + (t - size)
  <2>1. d * k \in Int
    BY <1>1, <1>4
  <2>. QED BY <2>1, <1>3, <1>4, <1>1
<1>. QED BY <1>2, <1>4, <1>5, <1>6, <1>7

\* A shortened fraction fits the format,
LEMMA Shorter ==
    ASSUME NEW h \in Nat \ {0}, NEW p \in Nat \ {0}, NEW n \in -(h * p) .. h * p - 1
    PROVE  n \div p \in -h .. h - 1
<1>. DEFINE k == n \div p
            t == n % p
<1>1. h * p \in Nat \ {0} /\ n \in Int /\ n >= -(h * p) /\ n < h * p
  <2>. DEFINE w == h * p
  <2>1. w \in Nat \ {0} /\ n \in -w .. w - 1
    OBVIOUS
  <2>. HIDE DEF w
  <2>2. n \in Int /\ n >= -w /\ n < w
    BY <2>1
  <2>. QED BY <2>1, <2>2 DEF w
<1>2. k \in Int /\ t \in 0 .. p - 1 /\ n = p * k + t
  BY <1>1, Division
<1>. HIDE DEF k, t
<1>3. p * k \in Int /\ h * p = p * h /\ p * h \in Int
  BY <1>2
<1>4. k < h
  <2>1. ASSUME k >= h PROVE p * k >= p * h
    BY <2>1, <1>2
  <2>. QED BY <2>1, <1>1, <1>2, <1>3
<1>5. k >= -h
  <2>1. ASSUME k <= -h - 1 PROVE p * k <= p * (-h - 1)
    BY <2>1, <1>2
  <2>2. p * (-h - 1) = -(p * h) - p
    OBVIOUS
  <2>. QED BY <2>1, <2>2, <1>1, <1>2, <1>3
<1>. QED BY <1>2, <1>4, <1>5 DEF k

\* and with the guard words a fraction of the format fits the five words.
LEMMA Longer ==
    ASSUME NEW h \in Nat \ {0}, NEW p \in Nat \ {0}, NEW f \in -h .. h - 1, NEW g \in 0 .. p - 1
    PROVE  f * p + g \in -(h * p) .. h * p - 1
<1>1. f <= h - 1 /\ f >= -h /\ f \in Int
  OBVIOUS
<1>2. f * p <= (h - 1) * p /\ f * p >= (-h) * p /\ f * p \in Int
  BY <1>1
<1>3. (h - 1) * p = h * p - p /\ (-h) * p = -(h * p) /\ h * p \in Int
  OBVIOUS
<1>. DEFINE w == h * p
            z == f * p
<1>4. z \in Int /\ w \in Int /\ z <= w - p /\ z >= -w
  BY <1>2, <1>3
<1>. HIDE DEF w, z
<1>5. z + g \in -w .. w - 1
  BY <1>4
<1>. QED BY <1>5 DEF w, z

\* The greatest element of a bounded set is what Max chooses.
LEMMA Greatest ==
    ASSUME NEW N \in Nat, NEW T, T \subseteq 0 .. N, T # {}
    PROVE  Fpp!Max(T) \in T /\ \A n \in T : n <= Fpp!Max(T)
<1>. DEFINE U == {i \in Nat : \E n \in T : i = N - n}
<1>1. U \subseteq Nat /\ U # {}
  <2>1. PICK n \in T : TRUE
    OBVIOUS
  <2>2. N - n \in U
    OBVIOUS
  <2>. QED BY <2>2
<1>. HIDE DEF U
<1>2. PICK i \in U : \A j \in U : i <= j
  BY <1>1, Least
<1>3. PICK n \in T : i = N - n
  BY DEF U
<1>4. ASSUME NEW m \in T PROVE m <= n
  <2>1. m \in 0 .. N /\ n \in 0 .. N
    OBVIOUS
  <2>2. N - m \in U
    BY <2>1 DEF U
  <2>3. i <= N - m
    BY <1>2, <2>2
  <2>. QED BY <1>3, <2>1, <2>3
<1>5. \E k \in T : \A m \in T : k >= m
  BY <1>4
<1>6. Fpp!Max(T) \in T /\ \A m \in T : Fpp!Max(T) >= m
  BY <1>5 DEF Fpp!Max
<1>7. \A m \in T : m \in Int
  OBVIOUS
<1>. QED BY <1>6, <1>7

\* Leading is the farthest a fraction can be shifted.
LEMMA Leads ==
    ASSUME NEW f \in Range5
    PROVE  LET k == Fpp!Leading(f) IN
           /\ k \in 0 .. 5 * FppW - 1 /\ f * Pow2[k] \in Range5
           /\ \A j \in 0 .. 5 * FppW - 1 : f * Pow2[j] \in Range5 => j <= k
<1>. DEFINE N == 5 * FppW - 1
            T == {k \in 0 .. N : f * Pow2[k] \in Range5}
<1>1. N \in Nat
  BY Widths5
<1>2. Fpp!Leading(f) = Fpp!Max(T)
  BY SamePowers DEF Fpp!Leading, Fpp!EXTEND, Range5, Top
<1>3. T \subseteq 0 .. N
  OBVIOUS
<1>4. T # {}
  <2>1. Pow2[0] = 1 /\ 0 \in 0 .. N
    BY PowerRecursion, <1>1
  <2>2. f \in Int
    <3>1. Top \in Nat
      BY Widths5
    <3>. HIDE DEF Top
    <3>. QED BY <3>1 DEF Range5
  <2>3. f * 1 = f
    BY <2>2
  <2>4. f * Pow2[0] \in Range5
    BY <2>1, <2>3
  <2>. QED BY <2>1, <2>4
<1>5. Fpp!Max(T) \in T /\ \A n \in T : n <= Fpp!Max(T)
  <2>. HIDE DEF T, N
  <2>. QED BY <1>1, <1>3, <1>4, Greatest
<1>. HIDE DEF Range5
<1>. QED BY <1>2, <1>5

\* The fraction that normalizing leaves in front of everything else.
LEMMA LeadingBit ==
    ASSUME NEW f \in Range5, f # 0
    PROVE  LET k == Fpp!Leading(f)
               g == f * Pow2[k]
           IN  /\ k \in 0 .. 5 * FppW - 1 /\ g \in Range5 /\ g # 0
               /\ 2 * g >= Top \/ 2 * g < -Top
<1>. DEFINE k == Fpp!Leading(f)
            g == f * Pow2[k]
            N == 5 * FppW - 1
<1>1. N \in Nat /\ Top = Pow2[N] /\ Top \in Nat \ {0}
  BY Widths5
<1>2. k \in 0 .. N /\ g \in Range5 /\ \A j \in 0 .. N : f * Pow2[j] \in Range5 => j <= k
  BY Leads
<1>3. k \in Nat /\ f \in Int /\ f # 0
  <2>1. f \in -Top .. Top - 1
    BY DEF Range5
  <2>. HIDE DEF Top, N
  <2>. QED BY <1>1, <1>2, <2>1
<1>4. Pow2[k] \in Nat \ {0}
  BY <1>3, Positive
<1>. HIDE DEF k, N, Top
<1>5. g \in Int /\ g # 0
  <2>1. ASSUME NEW p \in Nat \ {0} PROVE f * p \in Int /\ f * p # 0
    BY <1>3
  <2>. QED BY <2>1, <1>4
<1>6. 2 * g >= Top \/ 2 * g < -Top
  <2>1. CASE k = N
    <3>1. g = f * Top
      BY <2>1, <1>1
    <3>2. f >= 1 \/ f <= -1
      BY <1>3
    <3>3. ASSUME f >= 1 PROVE f * Top >= Top
      BY <3>3, <1>1, <1>3
    <3>4. ASSUME f <= -1 PROVE f * Top <= -Top
      BY <3>4, <1>1, <1>3
    <3>. QED BY <3>1, <3>2, <3>3, <3>4, <1>1, <1>5
  <2>2. CASE k # N
    <3>1. k + 1 \in 0 .. N /\ ~(k + 1 <= k)
      BY <2>2, <1>1, <1>2
    <3>2. f * Pow2[k + 1] \notin Range5
      BY <3>1, <1>2
    <3>3. Pow2[k + 1] = 2 * Pow2[k]
      BY <1>3, PowerRecursion
    <3>4. f * Pow2[k + 1] = 2 * g
      BY <3>3, <1>3, <1>4
    <3>5. 2 * g \notin -Top .. Top - 1
      BY <3>2, <3>4 DEF Range5
    <3>. HIDE DEF g
    <3>. QED BY <3>5, <1>1, <1>5
  <2>. QED BY <2>1, <2>2
<1>. QED BY <1>2, <1>5, <1>6 DEF k, N

\* The three outcomes of fpp_norm.
LEMMA Normalising ==
    ASSUME NEW mode \in Fpp!Modes, NEW e \in Int, NEW f \in Range5
    PROVE  LET k == Fpp!Leading(f)
               g == f * Pow2[k]
               n == Fpp!fpp_norm(mode, Fpp!Number(e, f))
           IN  /\ f = 0 => n = [number |-> Fpp!Number(0, 0), exact |-> TRUE]
               /\ f # 0 /\ g \div Unit(mode) = -Lim(mode) =>
                     n = [number |-> Fpp!Number(e - k + 1, g + Qu(mode) * Unit(mode)),
                          exact |-> TRUE]
               /\ f # 0 /\ g \div Unit(mode) # -Lim(mode) =>
                     n = [number |-> Fpp!Number(e - k, g), exact |-> FALSE]
<1>. DEFINE k == Fpp!Leading(f)
            g == f * Pow2[k]
            n == Fpp!fpp_norm(mode, Fpp!Number(e, f))
            z == Fpp!Number(e, f)
<1>1. z.exp = e /\ z.fr = f
  BY DEF Fpp!Number
<1>2. Top \div 2 = Qu(mode) * Unit(mode)
  <2>. DEFINE w == Qu(mode) * Unit(mode)
  <2>1. Top = 2 * w /\ w \in Nat
    BY Formats
  <2>. HIDE DEF w
  <2>2. Top \div 2 = w
    BY <2>1
  <2>. QED BY <2>2 DEF w
<1>. HIDE DEF z
<1>3. n = LET i == Fpp!Number(e - k, g)
          IN CASE f = 0 -> [number |-> Fpp!Number(0, 0), exact |-> TRUE]
               [] f # 0 /\ Fpp!Illegal(mode, i.fr) ->
                     [number |-> Fpp!Number(i.exp + 1, i.fr + Fpp!Half \div 2), exact |-> TRUE]
               [] f # 0 /\ ~Fpp!Illegal(mode, i.fr) -> [number |-> i, exact |-> FALSE]
  BY <1>1, SamePowers DEF Fpp!fpp_norm, z
<1>4. Fpp!Number(e - k, g).fr = g /\ Fpp!Number(e - k, g).exp = e - k
  BY DEF Fpp!Number
<1>5. Fpp!Illegal(mode, g) <=> g \div Unit(mode) = -Lim(mode)
  BY SamePowers DEF Fpp!Illegal, Unit, Lim
<1>. HIDE DEF k, g, n
<1>6. f = 0 => n = [number |-> Fpp!Number(0, 0), exact |-> TRUE]
  BY <1>3
<1>7. f # 0 /\ g \div Unit(mode) = -Lim(mode) =>
         n = [number |-> Fpp!Number(e - k + 1, g + Qu(mode) * Unit(mode)), exact |-> TRUE]
  BY <1>2, <1>3, <1>4, <1>5 DEF Top
<1>8. f # 0 /\ g \div Unit(mode) # -Lim(mode) => n = [number |-> Fpp!Number(e - k, g), exact |-> FALSE]
  BY <1>3, <1>4, <1>5
<1>. QED BY <1>6, <1>7, <1>8 DEF k, g, n

----------------------------------------------------------------------------
(* Normalizing, rounding and aligning keep the five words.                 *)

Numbers == [exp : Int, fr : Range5]
HalfUp(f) == IF f < 0 THEN (Pow2[FppW - 1] - 1) * Pow2[2 * FppW] ELSE Pow2[FppW - 1] * Pow2[2 * FppW]

\* Normalizing keeps the five words, and the exponent falls by less than their length.
LEMMA NormRange ==
    ASSUME NEW mode \in Fpp!Modes, NEW e \in Int, NEW f \in Range5
    PROVE  LET n == Fpp!fpp_norm(mode, Fpp!Number(e, f)) IN
           /\ n.number \in Numbers /\ n.exact \in BOOLEAN
           /\ n.number.exp >= e - 5 * FppW + 1 \/ (f = 0 /\ n.number = Fpp!Number(0, 0))
<1>. DEFINE k == Fpp!Leading(f)
            g == f * Pow2[k]
            w == Qu(mode) * Unit(mode)
            n == Fpp!fpp_norm(mode, Fpp!Number(e, f))
            N == 5 * FppW - 1
<1>1. N \in Nat /\ Top \in Nat \ {0} /\ Top = 2 * w /\ w \in Nat \ {0}
      /\ Unit(mode) \in Nat \ {0} /\ Lim(mode) \in Nat \ {0}
  BY Widths5, Formats
<1>2. k \in 0 .. N /\ g \in Range5
  BY Leads
<1>3. /\ f = 0 => n = [number |-> Fpp!Number(0, 0), exact |-> TRUE]
      /\ f # 0 /\ g \div Unit(mode) = -Lim(mode) =>
             n = [number |-> Fpp!Number(e - k + 1, g + w), exact |-> TRUE]
      /\ f # 0 /\ g \div Unit(mode) # -Lim(mode) => n = [number |-> Fpp!Number(e - k, g), exact |-> FALSE]
  BY Normalising
<1>4. N = 5 * FppW - 1 /\ FppW \in Nat
  BY Widths5
<1>. HIDE DEF k, g, w, n, N, Top
<1>5. k \in Int /\ g \in Int /\ g >= -Top /\ g < Top /\ e - k \in Int /\ e - k + 1 \in Int
      /\ e - k >= e - 5 * FppW + 1 /\ e - k + 1 >= e - 5 * FppW + 1
  BY <1>1, <1>2, <1>4 DEF Range5
<1>6. CASE f = 0
  <2>1. 0 \in Range5
    BY <1>1 DEF Range5
  <2>2. n.number = Fpp!Number(0, 0) /\ n.exact = TRUE
    BY <1>3, <1>6
  <2>. HIDE DEF Range5
  <2>3. Fpp!Number(0, 0) \in Numbers
    BY <2>1 DEF Fpp!Number, Numbers
  <2>. QED BY <2>2, <2>3, <1>6 DEF n
<1>7. CASE f # 0 /\ g \div Unit(mode) = -Lim(mode)
  <2>1. g < 0
    <3>1. ASSUME g >= 0 PROVE FALSE
      <4>. DEFINE u == Unit(mode)
      <4>1. u \in Nat \ {0} /\ g \in 0 .. g
        BY <1>1, <1>5, <3>1
      <4>. HIDE DEF u
      <4>2. g \in -(g + 1) .. (g + 1) - 1 /\ g + 1 \in Nat \ {0}
        BY <1>5, <3>1
      <4>3. g \div u < 0 <=> g < 0
        <5>. DEFINE h == g + 1
        <5>1. h \in Nat \ {0} /\ g \in -h .. h - 1
          BY <4>2
        <5>. HIDE DEF h
        <5>. QED BY <5>1, <4>1, SmallQuotient
      <4>. QED BY <4>3, <3>1, <1>1, <1>5, <1>7 DEF u
    <3>. QED BY <3>1, <1>5
  <2>2. g + w \in Range5
    BY <2>1, <1>1, <1>5 DEF Range5
  <2>3. n.number = Fpp!Number(e - k + 1, g + w) /\ n.exact = TRUE
    BY <1>3, <1>7
  <2>. HIDE DEF Range5
  <2>4. Fpp!Number(e - k + 1, g + w) \in Numbers /\ Fpp!Number(e - k + 1, g + w).exp = e - k + 1
    BY <2>2, <1>5 DEF Fpp!Number, Numbers
  <2>. QED BY <2>3, <2>4, <1>5 DEF n
<1>8. CASE f # 0 /\ g \div Unit(mode) # -Lim(mode)
  <2>1. n.number = Fpp!Number(e - k, g) /\ n.exact = FALSE
    BY <1>3, <1>8
  <2>. HIDE DEF Range5
  <2>2. Fpp!Number(e - k, g) \in Numbers /\ Fpp!Number(e - k, g).exp = e - k
    BY <1>2, <1>5 DEF Fpp!Number, Numbers
  <2>. QED BY <2>1, <2>2, <1>5 DEF n
<1>. QED BY <1>6, <1>7, <1>8

\* What rounding adds is less than a unit, and half of it or just below.
LEMMA HalfUnit ==
    ASSUME NEW f \in Range5
    PROVE  /\ HalfUp(f) \in Nat /\ 2 * HalfUp(f) <= Pow2[3 * FppW] /\ HalfUp(f) < Pow2[3 * FppW]
           /\ f >= 0 => 2 * HalfUp(f) = Pow2[3 * FppW]
           /\ 2 * Pow2[3 * FppW] <= Top
           /\ Pow2[3 * FppW] >= 4
<1>1. FppW \in Nat /\ FppW >= 2 /\ Top = Pow2[5 * FppW - 1] /\ Top \in Nat \ {0}
  BY Widths5
<1>. DEFINE a == Pow2[FppW - 1]
            b == Pow2[2 * FppW]
            c == Pow2[3 * FppW]
<1>2. a \in Nat \ {0} /\ b \in Nat \ {0} /\ c \in Nat \ {0}
  <2>1. FppW - 1 \in Nat /\ 2 * FppW \in Nat /\ 3 * FppW \in Nat
    BY <1>1
  <2>. QED BY <2>1, Positive
<1>3. c = 2 * (a * b)
  <2>1. FppW - 1 \in Nat /\ 2 * FppW \in Nat /\ (FppW - 1) + 2 * FppW \in Nat
        /\ ((FppW - 1) + 2 * FppW) + 1 = 3 * FppW
    BY <1>1
  <2>2. Pow2[(FppW - 1) + 2 * FppW] = a * b
    BY <2>1, Product
  <2>3. Pow2[((FppW - 1) + 2 * FppW) + 1] = 2 * Pow2[(FppW - 1) + 2 * FppW]
    BY <2>1, PowerRecursion
  <2>. QED BY <2>1, <2>2, <2>3
<1>4. 2 * c <= Top
  <2>1. 3 * FppW \in Nat /\ 3 * FppW + 1 \in Nat /\ 5 * FppW - 1 \in Nat /\ 3 * FppW + 1 <= 5 * FppW - 1
    BY <1>1
  <2>2. Pow2[3 * FppW + 1] = 2 * c
    BY <2>1, PowerRecursion
  <2>3. Pow2[3 * FppW + 1] <= Pow2[5 * FppW - 1]
    BY <2>1, Growing
  <2>. QED BY <2>2, <2>3, <1>1
<1>5. c >= 4
  <2>1. Pow2[0 + 1] = 2 * Pow2[0] /\ Pow2[0] = 1
    BY PowerRecursion
  <2>2. Pow2[1 + 1] = 2 * Pow2[1]
    BY PowerRecursion
  <2>3. 2 \in Nat /\ 3 * FppW \in Nat /\ 2 <= 3 * FppW
    BY <1>1
  <2>4. Pow2[2] <= Pow2[3 * FppW]
    BY <2>3, Growing
  <2>. QED BY <2>1, <2>2, <2>4
<1>6. HalfUp(f) = (IF f < 0 THEN (a - 1) * b ELSE a * b)
  BY DEF HalfUp
<1>7. f \in Int
  <2>1. f \in -Top .. Top - 1
    BY DEF Range5
  <2>. HIDE DEF Top
  <2>. QED BY <2>1, <1>1
<1>. HIDE DEF a, b, c, Top
<1>8. (a - 1) * b = a * b - b /\ (a - 1) * b \in Nat /\ a * b \in Nat \ {0}
  BY <1>2
<1>9. /\ HalfUp(f) \in Nat /\ 2 * HalfUp(f) <= c /\ HalfUp(f) < c
      /\ f >= 0 => 2 * HalfUp(f) = c
  BY <1>2, <1>3, <1>6, <1>7, <1>8
<1>. QED BY <1>4, <1>5, <1>9 DEF c

\* The two outcomes of fpp_round: with a carry out of the fraction and without.
LEMMA Rounds ==
    ASSUME NEW mode \in Fpp!Modes \ {"EP"}, NEW e \in Int, NEW f \in Range5
    PROVE  LET n == Fpp!fpp_round(mode, Fpp!Number(e, f))
           IN  /\ f + HalfUp(f) >= Top => n = Fpp!Number(e + 1, (f + HalfUp(f)) \div 2)
               /\ f + HalfUp(f) < Top => n = Fpp!Number(e, f + HalfUp(f))
<1>. DEFINE z == Fpp!Number(e, f)
            n == Fpp!fpp_round(mode, z)
            a == Pow2[FppW - 1]
            b == Pow2[2 * FppW]
<1>1. z.exp = e /\ z.fr = f
  BY DEF Fpp!Number
<1>2. n = LET fr == f + (IF f < 0 THEN a - 1 ELSE a) * b
          IN  IF mode = "EP" THEN z
              ELSE IF fr >= Top THEN Fpp!Number(e + 1, fr \div 2)
              ELSE Fpp!Number(e, fr)
  BY <1>1, SamePowers DEF Fpp!fpp_round, Fpp!Rounding, Top
<1>3. (IF f < 0 THEN a - 1 ELSE a) * b = HalfUp(f)
  BY DEF HalfUp
<1>4. HalfUp(f) \in Nat /\ Top \in Nat /\ f \in Int
  <2>1. f \in -Top .. Top - 1 /\ Top \in Nat
    BY Widths5 DEF Range5
  <2>2. HalfUp(f) \in Nat
    BY HalfUnit
  <2>. HIDE DEF Top, HalfUp
  <2>. QED BY <2>1, <2>2
<1>. HIDE DEF z, n, a, b, Top, HalfUp
<1>5. n = IF f + HalfUp(f) >= Top THEN Fpp!Number(e + 1, (f + HalfUp(f)) \div 2)
          ELSE Fpp!Number(e, f + HalfUp(f))
  BY <1>2, <1>3
<1>. QED BY <1>4, <1>5 DEF n, z

\* Rounding keeps the five words and never lowers the exponent.
LEMMA RoundRange ==
    ASSUME NEW mode \in Fpp!Modes, NEW n \in Numbers
    PROVE  Fpp!fpp_round(mode, n) \in Numbers /\ Fpp!fpp_round(mode, n).exp >= n.exp
<1>. DEFINE e == n.exp
            f == n.fr
            v == Fpp!fpp_round(mode, n)
<1>1. e \in Int /\ f \in Range5 /\ n = Fpp!Number(e, f)
  BY DEF Numbers, Fpp!Number
<1>2. CASE mode = "EP"
  <2>1. v = n
    BY <1>2 DEF Fpp!fpp_round
  <2>. QED BY <2>1, <1>1
<1>3. CASE mode # "EP"
  <2>1. /\ f + HalfUp(f) >= Top => v = Fpp!Number(e + 1, (f + HalfUp(f)) \div 2)
        /\ f + HalfUp(f) < Top => v = Fpp!Number(e, f + HalfUp(f))
    BY <1>1, <1>3, Rounds
  <2>2. HalfUp(f) \in Nat /\ HalfUp(f) < Pow2[3 * FppW] /\ 2 * Pow2[3 * FppW] <= Top
        /\ Pow2[3 * FppW] \in Nat
    <3>1. Pow2[3 * FppW] \in Nat
      <4>1. 3 * FppW \in Nat
        BY Widths5
      <4>. QED BY <4>1, Positive
    <3>. QED BY <1>1, <3>1, HalfUnit
  <2>3. f \in -Top .. Top - 1 /\ Top \in Nat
    BY <1>1, Widths5 DEF Range5
  <2>. DEFINE s == f + HalfUp(f)
  <2>. HIDE DEF e, f, v, Top, HalfUp
  <2>4. s \in Int /\ s >= -Top /\ s < 2 * Top
    BY <2>2, <2>3
  <2>5. s >= Top \/ s < Top
    BY <2>3, <2>4
  <2>6. CASE s >= Top
    <3>1. v = Fpp!Number(e + 1, s \div 2)
      BY <2>1, <2>6
    <3>2. s \div 2 \in Range5
      BY <2>3, <2>4, <2>6 DEF Range5
    <3>3. e + 1 \in Int /\ e + 1 >= e
      BY <1>1
    <3>. HIDE DEF Range5, s
    <3>. QED BY <3>1, <3>2, <3>3 DEF Fpp!Number, Numbers, v, e
  <2>7. CASE s < Top
    <3>1. v = Fpp!Number(e, s)
      BY <2>1, <2>7
    <3>2. s \in Range5
      BY <2>3, <2>4, <2>7 DEF Range5
    <3>3. e >= e
      BY <1>1
    <3>. HIDE DEF Range5, s
    <3>. QED BY <3>1, <3>2, <3>3, <1>1 DEF Fpp!Number, Numbers, v, e
  <2>. QED BY <2>5, <2>6, <2>7
<1>. QED BY <1>2, <1>3

\* So do the two of them, in the order of the code.
LEMMA NormRoundRange ==
    ASSUME NEW mode \in Fpp!Modes, NEW n \in Numbers
    PROVE  LET z == Fpp!NormRound(mode, n) IN
           z \in Numbers /\ (z.exp >= n.exp - 5 * FppW + 1 \/ (n.fr = 0 /\ z = Fpp!Number(0, 0)))
<1>. DEFINE e == n.exp
            f == n.fr
            m == Fpp!fpp_norm(mode, n)
            z == Fpp!NormRound(mode, n)
<1>1. e \in Int /\ f \in Range5 /\ n = Fpp!Number(e, f)
  BY DEF Numbers, Fpp!Number
<1>2. /\ m.number \in Numbers /\ m.exact \in BOOLEAN
      /\ m.number.exp >= e - 5 * FppW + 1 \/ (f = 0 /\ m.number = Fpp!Number(0, 0))
  BY <1>1, NormRange
<1>3. z = IF m.exact THEN m.number ELSE Fpp!fpp_round(mode, m.number)
  BY DEF Fpp!NormRound
<1>4. f = 0 => m.exact = TRUE
  <2>1. f = 0 => m = [number |-> Fpp!Number(0, 0), exact |-> TRUE]
    BY <1>1, Normalising
  <2>. QED BY <2>1
<1>5. Fpp!fpp_round(mode, m.number) \in Numbers /\ Fpp!fpp_round(mode, m.number).exp >= m.number.exp
  BY <1>2, RoundRange
<1>6. /\ m.number.exp \in Int /\ Fpp!fpp_round(mode, m.number).exp \in Int
      /\ e - 5 * FppW + 1 \in Int
  <2>1. FppW \in Nat
    BY Widths5
  <2>. QED BY <1>1, <1>2, <1>5, <2>1 DEF Numbers
<1>. HIDE DEF e, f, m, z, Numbers
<1>7. CASE f = 0
  BY <1>2, <1>3, <1>4, <1>7 DEF e, f, z
<1>8. CASE f # 0
  BY <1>2, <1>3, <1>5, <1>6, <1>8 DEF e, f, z
<1>. QED BY <1>7, <1>8

\* What is kept of five words fits the format.
LEMMA ExactRange ==
    ASSUME NEW mode \in Fpp!Modes, NEW n \in Numbers
    PROVE  LET z == Fpp!Exactly(mode, n) IN
           /\ z = [exp |-> n.exp, fr |-> n.fr \div Unit(mode)]
           /\ z.exp = n.exp /\ z.exp \in Int /\ z.fr \in -Lim(mode) .. Lim(mode) - 1
<1>. DEFINE f == n.fr
            h == Lim(mode)
            p == Unit(mode)
            z == Fpp!Exactly(mode, n)
<1>1. h \in Nat \ {0} /\ p \in Nat \ {0} /\ Top = h * p
  BY Formats
<1>2. n.exp \in Int /\ f \in -(h * p) .. h * p - 1
  BY <1>1 DEF Numbers, Range5
<1>3. f \div p \in -h .. h - 1
  <2>. HIDE DEF f, h, p
  <2>. QED BY <1>1, <1>2, Shorter
<1>4. z = [exp |-> n.exp, fr |-> f \div p]
  BY DEF Fpp!Exactly, Fpp!Number, Unit
<1>. QED BY <1>2, <1>3, <1>4

\* The sum of two aligned fractions fits five words.
LEMMA AlignedRange ==
    ASSUME NEW mode \in Fpp!Modes, NEW x \in Numbers, NEW y \in Numbers, x.exp >= y.exp
    PROVE  LET z == Fpp!Aligned(mode, x, y) IN
           z \in Numbers /\ z.exp >= x.exp
<1>. DEFINE d == x.exp - y.exp
            p == Pow2[d]
            f == x.fr
            g == y.fr \div p
            sum == f + g
            z == Fpp!Aligned(mode, x, y)
<1>1. x.exp \in Int /\ y.exp \in Int /\ f \in -Top .. Top - 1 /\ y.fr \in -Top .. Top - 1 /\ Top \in Nat \ {0}
  BY Widths5 DEF Numbers, Range5
<1>2. d \in Nat
  BY <1>1
<1>3. p \in Nat \ {0}
  <2>. HIDE DEF d
  <2>. QED BY <1>2, Positive
<1>4. z = IF d > Fpp!Overshift(mode) THEN x
          ELSE IF ((f < 0) = (y.fr < 0)) /\ (f < 0 \/ sum >= Top)
               THEN Fpp!Number(x.exp + 1, sum \div 2) ELSE Fpp!Number(x.exp, sum)
  BY SamePowers DEF Fpp!Aligned, Top
<1>. HIDE DEF d, p, f, z, Top
<1>5. g \in -Top .. Top - 1 /\ (g < 0 <=> y.fr < 0)
  BY <1>1, <1>3, SmallQuotient
<1>. HIDE DEF g
<1>6. sum \in Int /\ sum >= -(2 * Top) /\ sum < 2 * Top
  BY <1>1, <1>5
<1>7. CASE d > Fpp!Overshift(mode)
  <2>1. z = x
    BY <1>4, <1>7
  <2>. QED BY <2>1, <1>1 DEF z
<1>8. CASE ~(d > Fpp!Overshift(mode)) /\ ((f < 0) = (y.fr < 0)) /\ (f < 0 \/ sum >= Top)
  <2>1. z = Fpp!Number(x.exp + 1, sum \div 2)
    BY <1>4, <1>8
  <2>2. sum \div 2 \in Range5
    BY <1>1, <1>6 DEF Range5
  <2>3. x.exp + 1 \in Int /\ x.exp + 1 >= x.exp
    BY <1>1
  <2>. HIDE DEF Range5, sum
  <2>. QED BY <2>1, <2>2, <2>3 DEF Fpp!Number, Numbers, z
<1>9. CASE ~(d > Fpp!Overshift(mode)) /\ ~(((f < 0) = (y.fr < 0)) /\ (f < 0 \/ sum >= Top))
  <2>1. z = Fpp!Number(x.exp, sum)
    BY <1>4, <1>9
  <2>2. sum \in Range5
    <3>1. CASE (f < 0) = (y.fr < 0)
      <4>1. ~(f < 0) /\ ~(sum >= Top)
        BY <1>9, <3>1
      <4>2. ~(g < 0)
        BY <1>5, <3>1, <4>1
      <4>. QED BY <4>1, <4>2, <1>1, <1>5, <1>6 DEF Range5
    <3>2. CASE (f < 0) # (y.fr < 0)
      <4>1. (f < 0 /\ ~(g < 0)) \/ (~(f < 0) /\ g < 0)
        BY <1>5, <3>2
      <4>. QED BY <4>1, <1>1, <1>5, <1>6 DEF Range5
    <3>. QED BY <3>1, <3>2
  <2>3. x.exp >= x.exp
    BY <1>1
  <2>. HIDE DEF Range5, sum
  <2>. QED BY <2>1, <2>2, <2>3, <1>1 DEF Fpp!Number, Numbers, z
<1>. QED BY <1>7, <1>8, <1>9

Format(mode) == [exp : Int, fr : -Lim(mode) .. Lim(mode) - 1]

\* An operand fits five words, its guard words clear.
LEMMA ExtendedRange ==
    ASSUME NEW mode \in Fpp!Modes, NEW e \in Int, NEW f \in -Lim(mode) .. Lim(mode) - 1
    PROVE  /\ f * Unit(mode) \in Range5
           /\ f * Unit(mode) = 0 <=> f = 0
           /\ \A a : a.exp = e /\ a.fr = f =>
                 /\ Fpp!Extended(mode, a) = Fpp!Number(e, f * Unit(mode))
                 /\ Fpp!Extended(mode, a) \in Numbers
<1>. DEFINE h == Lim(mode)
            p == Unit(mode)
<1>1. h \in Nat \ {0} /\ p \in Nat \ {0} /\ Top = h * p
  BY Formats
<1>2. f \in -h .. h - 1
  OBVIOUS
<1>. HIDE DEF h, p
<1>3. f \in Int
  BY <1>1, <1>2
<1>4. 0 \in 0 .. p - 1
  BY <1>1
<1>5. f * p + 0 \in -(h * p) .. h * p - 1
  BY <1>1, <1>2, <1>4, Longer
<1>6. f * p + 0 = f * p
  BY <1>1, <1>3
<1>7. f * p \in Range5
  BY <1>1, <1>5, <1>6 DEF Range5
<1>8. f * p = 0 <=> f = 0
  BY <1>1, <1>3
<1>9. ASSUME NEW a, a.exp = e, a.fr = f
      PROVE  /\ Fpp!Extended(mode, a) = Fpp!Number(e, f * p)
             /\ Fpp!Extended(mode, a) \in Numbers
  <2>1. Fpp!Extended(mode, a) = Fpp!Number(e, f * p)
    BY <1>9 DEF Fpp!Extended, Unit, p
  <2>. DEFINE i == f * p
  <2>2. i \in Range5
    BY <1>7
  <2>. HIDE DEF i, Range5
  <2>3. Fpp!Number(e, i) \in Numbers
    BY <2>2 DEF Fpp!Number, Numbers
  <2>. QED BY <2>1, <2>3 DEF i
<1>. QED BY <1>7, <1>8, <1>9 DEF p

\* The sum before it is normalized fits five words.
LEMMA FloatSumRange ==
    ASSUME NEW mode \in Fpp!Modes, NEW a, NEW b,
           a.exp \in Int, a.fr \in -Lim(mode) .. Lim(mode) - 1,
           b.exp \in Int, b.fr \in -Lim(mode) .. Lim(mode) - 1
    PROVE  LET z == Fpp!FloatSum(mode, a, b) IN
           z \in Numbers /\ (z.exp >= a.exp \/ z.exp >= b.exp)
<1>. DEFINE x == Fpp!Extended(mode, a)
            y == Fpp!Extended(mode, b)
            z == Fpp!FloatSum(mode, a, b)
<1>1. x \in Numbers /\ x.exp = a.exp /\ y \in Numbers /\ y.exp = b.exp
  <2>1. x \in Numbers /\ x = Fpp!Number(a.exp, a.fr * Unit(mode))
    BY ExtendedRange
  <2>2. y \in Numbers /\ y = Fpp!Number(b.exp, b.fr * Unit(mode))
    BY ExtendedRange
  <2>. QED BY <2>1, <2>2 DEF Fpp!Number
<1>2. z = CASE b.fr = 0 -> x
            [] b.fr # 0 /\ a.fr = 0 -> y
            [] b.fr # 0 /\ a.fr # 0 ->
                 IF x.exp < y.exp THEN Fpp!Aligned(mode, y, x) ELSE Fpp!Aligned(mode, x, y)
  BY DEF Fpp!FloatSum
<1>. HIDE DEF x, y, z, Numbers
<1>3. x.exp \in Int /\ y.exp \in Int /\ x.exp >= x.exp /\ y.exp >= y.exp
  BY <1>1
<1>4. CASE b.fr = 0
  <2>1. z = x
    BY <1>2, <1>4
  <2>. QED BY <2>1, <1>1, <1>3 DEF z
<1>5. CASE b.fr # 0 /\ a.fr = 0
  <2>1. z = y
    BY <1>2, <1>5
  <2>. QED BY <2>1, <1>1, <1>3 DEF z
<1>6. CASE b.fr # 0 /\ a.fr # 0 /\ x.exp < y.exp
  <2>1. z = Fpp!Aligned(mode, y, x)
    BY <1>2, <1>6
  <2>2. z \in Numbers /\ z.exp >= y.exp
    BY <2>1, <1>1, <1>3, <1>6, AlignedRange
  <2>. QED BY <2>2, <1>1 DEF z
<1>7. CASE b.fr # 0 /\ a.fr # 0 /\ ~(x.exp < y.exp)
  <2>1. z = Fpp!Aligned(mode, x, y)
    BY <1>2, <1>7
  <2>2. x.exp >= y.exp
    BY <1>3, <1>7
  <2>3. z \in Numbers /\ z.exp >= x.exp
    BY <2>1, <2>2, <1>1, <1>3, AlignedRange
  <2>. QED BY <2>3, <1>1 DEF z
<1>. QED BY <1>4, <1>5, <1>6, <1>7

\* fpp_add leaves a fraction of the format.
LEMMA SumRange ==
    ASSUME NEW mode \in Fpp!Modes, NEW a, NEW b,
           a.exp \in Int, a.fr \in -Lim(mode) .. Lim(mode) - 1,
           b.exp \in Int, b.fr \in -Lim(mode) .. Lim(mode) - 1
    PROVE  LET z == Fpp!fpp_add(mode, a, b) IN
           z.exp \in Int /\ z.fr \in -Lim(mode) .. Lim(mode) - 1
<1>. DEFINE z == Fpp!fpp_add(mode, a, b)
<1>1. CASE mode = "DP"
  <2>. DEFINE size == Pow2[2 * FppW - 1]
              fr == Fpp!SignedMod(a.fr + b.fr, size)
  <2>1. z.exp = a.exp /\ z.fr = fr
    BY <1>1, SamePowers DEF Fpp!fpp_add, Fpp!Result, Fpp!Number
  <2>2. Lim(mode) = size
    BY <1>1 DEF Lim, Fpp!EXACT
  <2>3. Lim(mode) \in Nat \ {0}
    BY Formats
  <2>4. a.fr + b.fr \in Int
    <3>. DEFINE h == Lim(mode)
    <3>1. h \in Nat /\ a.fr \in -h .. h - 1 /\ b.fr \in -h .. h - 1
      BY <2>3
    <3>. HIDE DEF h
    <3>. QED BY <3>1
  <2>. HIDE DEF size
  <2>5. fr \in -size .. size - 1
    BY <2>2, <2>3, <2>4, Wrapping
  <2>. HIDE DEF fr, z
  <2>. QED BY <2>1, <2>2, <2>5 DEF z
<1>2. CASE mode # "DP"
  <2>. DEFINE s == Fpp!FloatSum(mode, a, b)
              n == Fpp!NormRound(mode, s)
              w == Fpp!Exactly(mode, n)
  <2>1. z.exp = w.exp /\ z.fr = w.fr
    BY <1>2 DEF Fpp!fpp_add, Fpp!Result
  <2>2. s \in Numbers
    BY FloatSumRange
  <2>3. n \in Numbers
    <3>. HIDE DEF s
    <3>. QED BY <2>2, NormRoundRange
  <2>4. w.exp \in Int /\ w.fr \in -Lim(mode) .. Lim(mode) - 1
    <3>. HIDE DEF n
    <3>. QED BY <2>3, ExactRange
  <2>. HIDE DEF w, z
  <2>. QED BY <2>1, <2>4 DEF z
<1>. QED BY <1>1, <1>2

----------------------------------------------------------------------------
(* The accumulator, which every instruction keeps.                         *)

Facs == {a \in [mode : Fpp!Modes, exp : -X .. X - 1, fr : Int] :
            a.fr \in -Lim(a.mode) .. Lim(a.mode) - 1}

\* The accumulator's parts.
LEMMA OfFac ==
    ASSUME NEW a \in Facs
    PROVE  /\ a.mode \in Fpp!Modes /\ a.exp \in -X .. X - 1 /\ a.exp \in Int
           /\ a.fr \in -Lim(a.mode) .. Lim(a.mode) - 1 /\ a.fr \in Int
           /\ a = [mode |-> a.mode, exp |-> a.exp, fr |-> a.fr]
<1>1. a \in [mode : Fpp!Modes, exp : -X .. X - 1, fr : Int] /\ a.fr \in -Lim(a.mode) .. Lim(a.mode) - 1
  BY DEF Facs
<1>2. X \in Nat
  BY Widths5
<1>. HIDE DEF X
<1>. QED BY <1>1, <1>2

\* A fraction of the format makes an accumulator, the exponent cut to its word.
LEMMA Fits ==
    ASSUME NEW mode \in Fpp!Modes, NEW e \in Int, NEW f \in -Lim(mode) .. Lim(mode) - 1
    PROVE  /\ [mode |-> mode, exp |-> Fpp!SEXT12(e), fr |-> f] \in Facs
           /\ e \in -X .. X - 1 => [mode |-> mode, exp |-> e, fr |-> f] \in Facs
<1>1. X \in Nat \ {0} /\ Lim(mode) \in Nat
  BY Widths5, Formats
<1>2. Fpp!SEXT12(e) = Fpp!SignedMod(e, X)
  BY DEF Fpp!SEXT12, X
<1>3. Fpp!SEXT12(e) \in -X .. X - 1
  <2>. HIDE DEF X
  <2>. QED BY <1>1, <1>2, Wrapping
<1>. HIDE DEF X
<1>4. f \in Int
  <2>. DEFINE h == Lim(mode)
  <2>1. f \in -h .. h - 1 /\ h \in Nat
    BY <1>1
  <2>. HIDE DEF h
  <2>. QED BY <2>1
<1>5. ASSUME NEW i \in -X .. X - 1 PROVE [mode |-> mode, exp |-> i, fr |-> f] \in Facs
  BY <1>4 DEF Facs
<1>. QED BY <1>3, <1>5

\* A number in memory has the format's parts.
LEMMA Remembered ==
    ASSUME NEW mode \in Fpp!Modes, NEW b \in Fpp!InMemory(mode)
    PROVE  b.exp \in Int /\ b.exp \in -X .. X - 1 /\ b.fr \in -Lim(mode) .. Lim(mode) - 1
<1>1. X \in Nat \ {0} /\ FppW \in Nat /\ FppW >= 2 /\ Exponents \subseteq -X .. X - 1
      /\ Fractions \subseteq -(Pow2[2 * FppW - 1]) .. Pow2[2 * FppW - 1] - 1
      /\ Guards \subseteq 0 .. Pow2[3 * FppW] - 1
  BY Widths5
<1>. DEFINE h == Pow2[2 * FppW - 1]
            p == Pow2[3 * FppW]
<1>2. h \in Nat \ {0} /\ p \in Nat \ {0}
  <2>1. 2 * FppW - 1 \in Nat /\ 3 * FppW \in Nat
    BY <1>1
  <2>. QED BY <2>1, Positive
<1>3. Lim(mode) = (IF mode = "EP" THEN h * p ELSE h)
  <2>1. mode = "EP" => Lim(mode) = Top
    <3>1. mode = "EP" => Unit(mode) = 1 /\ Top = Lim(mode) * Unit(mode) /\ Lim(mode) \in Nat
      BY Formats
    <3>. QED BY <3>1
  <2>2. Top = h * p
    <3>1. 2 * FppW - 1 \in Nat /\ 3 * FppW \in Nat /\ (2 * FppW - 1) + 3 * FppW = 5 * FppW - 1
      BY <1>1
    <3>2. Pow2[(2 * FppW - 1) + 3 * FppW] = h * p
      BY <3>1, Product
    <3>. QED BY <3>1, <3>2, Widths5
  <2>3. mode # "EP" => Lim(mode) = h
    BY DEF Lim, Fpp!EXACT
  <2>. QED BY <2>1, <2>2, <2>3
<1>4. PICK e \in Exponents, f \in
          (IF mode = "EP" THEN {i * p + g : i \in Fractions, g \in Guards} ELSE Fractions) : b = Fpp!Number(e, f)
  BY SamePowers DEF Fpp!InMemory
<1>5. b.exp = e /\ b.fr = f
  BY <1>4 DEF Fpp!Number
<1>. HIDE DEF X, h, p
<1>6. f \in -Lim(mode) .. Lim(mode) - 1
  <2>1. CASE mode = "EP"
    <3>1. PICK i \in Fractions, g \in Guards : f = i * p + g
      BY <1>4, <2>1
    <3>2. i \in -h .. h - 1 /\ g \in 0 .. p - 1
      BY <1>1, <3>1 DEF h, p
    <3>3. i * p + g \in -(h * p) .. h * p - 1
      BY <1>2, <3>2, Longer
    <3>. QED BY <3>1, <3>3, <1>3, <2>1
  <2>2. CASE mode # "EP"
    <3>1. f \in Fractions
      BY <1>4, <2>2
    <3>2. f \in -h .. h - 1
      BY <1>1, <3>1 DEF h
    <3>. QED BY <3>2, <1>3, <2>2
  <2>. QED BY <2>1, <2>2
<1>7. e \in -X .. X - 1
  BY <1>1, <1>4
<1>8. e \in Int
  BY <1>1, <1>7
<1>. QED BY <1>5, <1>6, <1>7, <1>8

\* fpp_fr_neg negates, the lowest fraction excepted.
LEMMA Opposite ==
    ASSUME NEW mode \in Fpp!Modes, NEW f \in -Lim(mode) .. Lim(mode) - 1
    PROVE  /\ Fpp!fpp_fr_neg(mode, f) \in -Lim(mode) .. Lim(mode) - 1
           /\ f # -Lim(mode) => Fpp!fpp_fr_neg(mode, f) = -f
<1>. DEFINE h == Lim(mode)
<1>1. h \in Nat \ {0} /\ f \in -h .. h - 1
  BY Formats
<1>2. Fpp!fpp_fr_neg(mode, f) = Fpp!SignedMod(-f, h)
  BY SamePowers DEF Fpp!fpp_fr_neg, Lim
<1>. HIDE DEF h
<1>3. -f \in Int /\ (f # -h => -f \in -h .. h - 1)
  BY <1>1
<1>4. Fpp!SignedMod(-f, h) \in -h .. h - 1 /\ (f # -h => Fpp!SignedMod(-f, h) = -f)
  BY <1>1, <1>3, Wrapping
<1>. QED BY <1>2, <1>4 DEF h

\* Shifting either way leaves a fraction of the format.
LEMMA ShiftRange ==
    ASSUME NEW mode \in Fpp!Modes, NEW f \in -Lim(mode) .. Lim(mode) - 1, NEW places \in Int
    PROVE  Fpp!Shifted(mode, f, places) \in -Lim(mode) .. Lim(mode) - 1
<1>. DEFINE h == Lim(mode)
<1>1. h \in Nat \ {0} /\ f \in -h .. h - 1
  BY Formats
<1>2. Fpp!Shifted(mode, f, places) =
        IF places < 0 THEN Fpp!SignedMod(f * Pow2[-places], h) ELSE f \div Pow2[places]
  BY SamePowers DEF Fpp!Shifted, Lim
<1>. HIDE DEF h
<1>3. CASE places < 0
  <2>1. -places \in Nat
    BY <1>3
  <2>2. Pow2[-places] \in Nat
    BY <2>1, Positive
  <2>3. f * Pow2[-places] \in Int
    BY <1>1, <2>2
  <2>4. Fpp!SignedMod(f * Pow2[-places], h) \in -h .. h - 1
    BY <1>1, <2>3, Wrapping
  <2>. QED BY <1>2, <1>3, <2>4 DEF h
<1>4. CASE ~(places < 0)
  <2>1. places \in Nat
    BY <1>4
  <2>2. Pow2[places] \in Nat \ {0}
    BY <2>1, Positive
  <2>3. f \div Pow2[places] \in -h .. h - 1
    BY <1>1, <2>2, SmallQuotient
  <2>. QED BY <1>2, <1>4, <2>3 DEF h
<1>. QED BY <1>3, <1>4

\* So does normalizing,
LEMMA NormExactRange ==
    ASSUME NEW mode \in Fpp!Modes, NEW n \in Numbers
    PROVE  LET z == Fpp!Exactly(mode, Fpp!fpp_norm(mode, n).number) IN
           z.exp \in Int /\ z.fr \in -Lim(mode) .. Lim(mode) - 1
<1>. DEFINE m == Fpp!fpp_norm(mode, n).number
<1>1. n.exp \in Int /\ n.fr \in Range5 /\ n = Fpp!Number(n.exp, n.fr)
  BY DEF Numbers, Fpp!Number
<1>2. m \in Numbers
  BY <1>1, NormRange
<1>. HIDE DEF m
<1>3. LET z == Fpp!Exactly(mode, m) IN z.exp \in Int /\ z.fr \in -Lim(mode) .. Lim(mode) - 1
  BY <1>2, ExactRange
<1>. QED BY <1>3 DEF m

\* ALN,
LEMMA AlignKeeps == ASSUME NEW a \in Facs, NEW wd \in Int PROVE
    /\ Fpp!ALN(a, wd).exp \in Int /\ Fpp!ALN(a, wd).fr \in -Lim(a.mode) .. Lim(a.mode) - 1
<1>. DEFINE places == IF a.mode = "DP" THEN wd ELSE Fpp!SEXT12(wd - a.exp)
            fr == Fpp!Shifted(a.mode, a.fr, places)
            z == Fpp!ALN(a, wd)
<1>1. a.mode \in Fpp!Modes /\ a.exp \in Int /\ a.fr \in -Lim(a.mode) .. Lim(a.mode) - 1
      /\ a = [mode |-> a.mode, exp |-> a.exp, fr |-> a.fr]
  BY OfFac
<1>2. places \in Int
  <2>1. X \in Nat \ {0} /\ wd - a.exp \in Int
    BY <1>1, Widths5
  <2>2. Fpp!SEXT12(wd - a.exp) = Fpp!SignedMod(wd - a.exp, X)
    BY DEF Fpp!SEXT12, X
  <2>. HIDE DEF X
  <2>3. Fpp!SignedMod(wd - a.exp, X) \in -X .. X - 1
    BY <2>1, Wrapping
  <2>4. Fpp!SignedMod(wd - a.exp, X) \in Int
    BY <2>1, <2>3
  <2>. QED BY <2>2, <2>4
<1>3. fr \in -Lim(a.mode) .. Lim(a.mode) - 1
  <2>. HIDE DEF places
  <2>. QED BY <1>1, <1>2, ShiftRange
<1>4. z = [a EXCEPT !.fr = fr, !.exp = IF fr = 0 THEN 0 ELSE IF a.mode = "DP" THEN @ ELSE wd]
  BY DEF Fpp!ALN
<1>. HIDE DEF fr, places, z
<1>5. z.exp = (IF fr = 0 THEN 0 ELSE IF a.mode = "DP" THEN a.exp ELSE wd) /\ z.fr = fr
  BY <1>1, <1>4
<1>. QED BY <1>1, <1>3, <1>5 DEF z

\* FNORM,
LEMMA NormKeeps == ASSUME NEW a \in Facs PROVE
    /\ Fpp!FNORM(a).exp \in Int /\ Fpp!FNORM(a).fr \in -Lim(a.mode) .. Lim(a.mode) - 1
<1>1. a.mode \in Fpp!Modes /\ a.exp \in Int /\ a.fr \in -Lim(a.mode) .. Lim(a.mode) - 1
      /\ a = [mode |-> a.mode, exp |-> a.exp, fr |-> a.fr]
  BY OfFac
<1>. DEFINE x == Fpp!Extended(a.mode, a)
            z == Fpp!Exactly(a.mode, Fpp!fpp_norm(a.mode, x).number)
            y == Fpp!FNORM(a)
<1>2. x \in Numbers
  BY <1>1, ExtendedRange
<1>3. z.exp \in Int /\ z.fr \in -Lim(a.mode) .. Lim(a.mode) - 1
  <2>. HIDE DEF x
  <2>. QED BY <1>1, <1>2, NormExactRange
<1>4. y = IF a.mode = "DP" THEN a ELSE [a EXCEPT !.exp = z.exp, !.fr = z.fr]
  BY DEF Fpp!FNORM
<1>. HIDE DEF z, y
<1>. QED BY <1>1, <1>3, <1>4 DEF y

\* FNEG,
LEMMA NegKeeps == ASSUME NEW a \in Facs PROVE
    /\ Fpp!FNEG(a).exp \in Int /\ Fpp!FNEG(a).fr \in -Lim(a.mode) .. Lim(a.mode) - 1
<1>1. a.mode \in Fpp!Modes /\ a.exp \in Int /\ a.fr \in -Lim(a.mode) .. Lim(a.mode) - 1
      /\ a = [mode |-> a.mode, exp |-> a.exp, fr |-> a.fr]
  BY OfFac
<1>. DEFINE g == Fpp!fpp_fr_neg(a.mode, a.fr)
<1>2. g \in -Lim(a.mode) .. Lim(a.mode) - 1
  BY <1>1, Opposite
<1>3. Fpp!FNEG(a) = [a EXCEPT !.fr = g]
  BY DEF Fpp!FNEG
<1>. HIDE DEF g
<1>. QED BY <1>1, <1>2, <1>3

Index(xr) == Fpp!SignedMod(xr, Pow2[FppW - 1])

\* An index register, read as a signed word, fits the upper words of five.
LEMMA IndexRange ==
    ASSUME NEW xr \in Int
    PROVE  /\ Index(xr) \in -Pow2[FppW - 1] .. Pow2[FppW - 1] - 1 /\ Index(xr) \in Int
           /\ Index(xr) * Pow2[3 * FppW] \in Range5
           /\ (Index(xr) * Pow2[3 * FppW]) \div Pow2[3 * FppW] = Index(xr)
<1>. DEFINE h == Pow2[FppW - 1]
            p == Pow2[3 * FppW]
            i == Index(xr)
<1>1. FppW \in Nat /\ FppW >= 2 /\ Top = Pow2[5 * FppW - 1] /\ Top \in Nat
  BY Widths5
<1>2. h \in Nat \ {0} /\ p \in Nat \ {0}
  <2>1. FppW - 1 \in Nat /\ 3 * FppW \in Nat
    BY <1>1
  <2>. QED BY <2>1, Positive
<1>3. i \in -h .. h - 1
  <2>1. Index(xr) = Fpp!SignedMod(xr, h)
    BY DEF Index
  <2>. HIDE DEF h
  <2>. QED BY <2>1, <1>2, Wrapping
<1>4. h * p <= Top
  <2>1. FppW - 1 \in Nat /\ 3 * FppW \in Nat /\ (FppW - 1) + 3 * FppW \in Nat /\ 5 * FppW - 1 \in Nat
        /\ (FppW - 1) + 3 * FppW <= 5 * FppW - 1
    BY <1>1
  <2>2. Pow2[(FppW - 1) + 3 * FppW] = h * p
    BY <2>1, Product
  <2>3. Pow2[(FppW - 1) + 3 * FppW] <= Pow2[5 * FppW - 1]
    BY <2>1, Growing
  <2>. QED BY <2>2, <2>3, <1>1
<1>. HIDE DEF h, p, i, Top
<1>5. i \in Int /\ 0 \in 0 .. p - 1
  BY <1>2, <1>3
<1>6. i * p + 0 \in -(h * p) .. h * p - 1 /\ i * p + 0 = i * p /\ h * p \in Nat
  <2>1. i * p + 0 \in -(h * p) .. h * p - 1
    BY <1>2, <1>3, <1>5, Longer
  <2>2. i * p + 0 = i * p /\ h * p \in Nat
    BY <1>2, <1>5
  <2>. QED BY <2>1, <2>2
<1>7. i * p \in Range5
  <2>. DEFINE z == i * p
              w == h * p
  <2>1. z \in -w .. w - 1 /\ w \in Nat /\ w <= Top
    BY <1>4, <1>6
  <2>. HIDE DEF z, w
  <2>2. z \in -Top .. Top - 1
    BY <2>1, <1>1
  <2>. QED BY <2>2 DEF z, Range5
<1>8. (i * p) \div p = i
  <2>1. (p * i + 0) \div p = i
    BY <1>2, <1>5, Splits
  <2>2. p * i + 0 = i * p
    BY <1>2, <1>5
  <2>. QED BY <2>1, <2>2
<1>. QED BY <1>3, <1>5, <1>7, <1>8 DEF h, p, i

\* XTA leaves a fraction of the format,
LEMMA LoadKeeps == ASSUME NEW mode \in Fpp!Modes, NEW xr \in Int PROVE
    /\ Fpp!XTA(mode, xr).exp \in Int /\ Fpp!XTA(mode, xr).fr \in -Lim(mode) .. Lim(mode) - 1
<1>. DEFINE i == Index(xr)
            f == i * Pow2[3 * FppW]
            n == Fpp!Number(2 * FppW - 1, f)
            m == Fpp!fpp_norm(mode, n).number
            z == Fpp!Exactly(mode, IF mode = "DP" THEN n ELSE m)
            y == Fpp!XTA(mode, xr)
<1>1. f \in Range5
  BY IndexRange
<1>2. n \in Numbers
  <2>1. 2 * FppW - 1 \in Int
    BY Widths5
  <2>. HIDE DEF f, Range5
  <2>. QED BY <2>1, <1>1 DEF Fpp!Number, Numbers
<1>3. y = [mode |-> mode, exp |-> z.exp, fr |-> z.fr]
  BY SamePowers DEF Fpp!XTA, Index
<1>. HIDE DEF n
<1>4. z.exp \in Int /\ z.fr \in -Lim(mode) .. Lim(mode) - 1
  <2>1. CASE mode = "DP"
    <3>1. LET v == Fpp!Exactly(mode, n) IN v.exp \in Int /\ v.fr \in -Lim(mode) .. Lim(mode) - 1
      BY <1>2, ExactRange
    <3>. QED BY <3>1, <2>1
  <2>2. CASE mode # "DP"
    <3>1. LET v == Fpp!Exactly(mode, m) IN v.exp \in Int /\ v.fr \in -Lim(mode) .. Lim(mode) - 1
      BY <1>2, NormExactRange
    <3>. HIDE DEF m
    <3>. QED BY <3>1, <2>2
  <2>. QED BY <2>1, <2>2
<1>. HIDE DEF z, y
<1>. QED BY <1>3, <1>4 DEF y

\* and a change of the mode does.
LEMMA StartKeeps == ASSUME NEW a \in Facs PROVE
    Fpp!STARTF(a) \in Facs /\ Fpp!STARTD(a) \in Facs /\ Fpp!STARTE(a) \in Facs
<1>1. a.mode \in Fpp!Modes /\ a.exp \in Int /\ a.exp \in -X .. X - 1 /\ a.fr \in -Lim(a.mode) .. Lim(a.mode) - 1
      /\ a = [mode |-> a.mode, exp |-> a.exp, fr |-> a.fr] /\ a.fr \in Int
  BY OfFac
<1>. DEFINE p == Pow2[3 * FppW]
            h == Lim("FP")
            f == a.fr
            lo == IF a.mode = "EP" THEN f \div p ELSE f
            hi == IF a.mode = "EP" THEN f ELSE f * p
<1>2. "FP" \in Fpp!Modes /\ "DP" \in Fpp!Modes /\ "EP" \in Fpp!Modes /\ Fpp!Modes = {"FP", "DP", "EP"}
  BY DEF Fpp!Modes
<1>3. /\ Lim("FP") \in Nat \ {0} /\ Unit("FP") = p /\ Unit("FP") \in Nat \ {0}
      /\ Top = Lim("FP") * Unit("FP") /\ Top = Lim("EP") * Unit("EP") /\ Unit("EP") = 1
      /\ Lim("EP") \in Nat \ {0}
  BY <1>2, Formats
<1>4. Lim("DP") = Lim("FP")
  BY DEF Lim, Fpp!EXACT
<1>5. h \in Nat \ {0} /\ p \in Nat \ {0} /\ Lim("EP") = h * p
  BY <1>3
<1>. DEFINE To(m, i) == [mode |-> m, exp |-> a.exp, fr |-> i]
            Other(m, i) == [a EXCEPT !.mode = m, !.fr = i]
<1>6. /\ Fpp!STARTF(a) = To("FP", lo)
      /\ Fpp!STARTD(a) = To("DP", lo)
      /\ Fpp!STARTE(a) = To("EP", hi)
  <2>1. ASSUME NEW m, NEW i PROVE Other(m, i) = To(m, i)
    <3>. DEFINE z == [a EXCEPT !.mode = m]
    <3>1. ASSUME NEW k, NEW e, NEW g, NEW y, y = [mode |-> k, exp |-> e, fr |-> g]
          PROVE  [y EXCEPT !.fr = i] = [mode |-> k, exp |-> e, fr |-> i]
      BY <3>1
    <3>2. ASSUME NEW k, NEW e, NEW g, NEW y, y = [mode |-> k, exp |-> e, fr |-> g]
          PROVE  [y EXCEPT !.mode = m] = [mode |-> m, exp |-> e, fr |-> g]
      BY <3>2
    <3>3. a = [mode |-> a.mode, exp |-> a.exp, fr |-> a.fr]
      BY <1>1
    <3>4. z = [mode |-> m, exp |-> a.exp, fr |-> a.fr]
      BY <3>2, <3>3
    <3>5. Other(m, i) = [z EXCEPT !.fr = i]
      OBVIOUS
    <3>. HIDE DEF z, Other
    <3>6. [z EXCEPT !.fr = i] = [mode |-> m, exp |-> a.exp, fr |-> i]
      BY <3>1, <3>4
    <3>. QED BY <3>5, <3>6
  <2>2. Fpp!STARTF(a) = Other("FP", lo) /\ Fpp!STARTD(a) = Other("DP", lo)
        /\ Fpp!STARTE(a) = Other("EP", hi)
    BY SamePowers DEF Fpp!STARTF, Fpp!STARTD, Fpp!STARTE
  <2>. HIDE DEF To, Other
  <2>. QED BY <2>1, <2>2
<1>. HIDE DEF p, h, f
<1>7. lo \in -h .. h - 1
  <2>1. CASE a.mode = "EP"
    <3>1. f \in -(h * p) .. h * p - 1
      BY <1>1, <1>5, <2>1 DEF f
    <3>2. f \div p \in -h .. h - 1
      BY <3>1, <1>5, Shorter
    <3>. QED BY <3>2, <2>1
  <2>2. CASE a.mode # "EP"
    <3>1. a.mode = "FP" \/ a.mode = "DP"
      BY <1>1, <1>2, <2>2
    <3>2. f \in -h .. h - 1
      BY <3>1, <1>1, <1>4 DEF f, h
    <3>. QED BY <3>2, <2>2
  <2>. QED BY <2>1, <2>2
<1>8. hi \in -Lim("EP") .. Lim("EP") - 1
  <2>1. CASE a.mode = "EP"
    BY <1>1, <2>1 DEF f
  <2>2. CASE a.mode # "EP"
    <3>1. a.mode = "FP" \/ a.mode = "DP"
      BY <1>1, <1>2, <2>2
    <3>2. f \in -h .. h - 1
      BY <3>1, <1>1, <1>4 DEF f, h
    <3>3. 0 \in 0 .. p - 1 /\ f \in Int
      BY <1>5, <3>2
    <3>4. f * p + 0 \in -(h * p) .. h * p - 1
      BY <3>2, <3>3, <1>5, Longer
    <3>5. f * p + 0 = f * p
      BY <3>3, <1>5
    <3>. QED BY <3>4, <3>5, <1>5, <2>2
  <2>. QED BY <2>1, <2>2
<1>. HIDE DEF lo, hi, X
<1>9. ASSUME NEW mode \in Fpp!Modes, NEW i \in -Lim(mode) .. Lim(mode) - 1
      PROVE  To(mode, i) \in Facs
  <2>1. a.exp \in Int /\ a.exp \in -X .. X - 1
    BY <1>1
  <2>. QED BY <2>1, Fits
<1>. HIDE DEF To
<1>10. lo \in -Lim("FP") .. Lim("FP") - 1 /\ lo \in -Lim("DP") .. Lim("DP") - 1
  BY <1>4, <1>7 DEF h
<1>11. Fpp!STARTF(a) \in Facs
  BY <1>2, <1>6, <1>9, <1>10
<1>12. Fpp!STARTD(a) \in Facs
  BY <1>2, <1>6, <1>9, <1>10
<1>13. Fpp!STARTE(a) \in Facs
  BY <1>2, <1>6, <1>8, <1>9
<1>. QED BY <1>11, <1>12, <1>13

\* The accumulator starts with its type.
LEMMA FacsInit == Fpp!Init => fac \in Facs
<1>1. X \in Nat \ {0} /\ "FP" \in Fpp!Modes
  BY Widths5 DEF Fpp!Modes
<1>2. Lim("FP") \in Nat \ {0}
  BY <1>1, Formats
<1>. HIDE DEF X
<1>3. 0 \in -Lim("FP") .. Lim("FP") - 1 /\ 0 \in -X .. X - 1 /\ 0 \in Int
  BY <1>1, <1>2
<1>4. [mode |-> "FP", exp |-> 0, fr |-> 0] \in Facs
  BY <1>1, <1>3, Fits
<1>. QED BY <1>4 DEF Fpp!Init

\* Every instruction keeps the accumulator's type.
LEMMA FacsStep == fac \in Facs /\ Fpp!Next => fac' \in Facs
<1>. SUFFICES ASSUME fac \in Facs, Fpp!Next PROVE fac' \in Facs
  OBVIOUS
<1>. DEFINE mode == fac.mode
<1>1. mode \in Fpp!Modes /\ fac.exp \in Int /\ fac.exp \in -X .. X - 1 /\ fac.fr \in -Lim(mode) .. Lim(mode) - 1
  BY OfFac
<1>. HIDE DEF Facs, mode
<1>2. ASSUME NEW n, n.exp \in Int, n.fr \in -Lim(mode) .. Lim(mode) - 1
      PROVE  Fpp!Kept(n) \in Facs
  <2>1. Fpp!Kept(n) = [mode |-> mode, exp |-> Fpp!SEXT12(n.exp), fr |-> n.fr]
    BY DEF Fpp!Kept, mode
  <2>. QED BY <2>1, <1>1, <1>2, Fits
<1>3. CASE Fpp!FLDA
  <2>1. PICK b \in Fpp!InMemory(mode) :
            fac' = Fpp!Kept(IF mode = "DP" THEN Fpp!Number(fac.exp, b.fr) ELSE b)
    BY <1>3 DEF Fpp!FLDA, mode
  <2>2. b.exp \in Int /\ b.fr \in -Lim(mode) .. Lim(mode) - 1
    BY <1>1, Remembered
  <2>3. Fpp!Number(fac.exp, b.fr).exp = fac.exp /\ Fpp!Number(fac.exp, b.fr).fr = b.fr
    BY DEF Fpp!Number
  <2>4. Fpp!Kept(Fpp!Number(fac.exp, b.fr)) \in Facs /\ Fpp!Kept(b) \in Facs
    BY <1>1, <1>2, <2>2, <2>3
  <2>. QED BY <2>1, <2>4
<1>4. ASSUME NEW b, b.exp \in Int, b.fr \in -Lim(mode) .. Lim(mode) - 1, Fpp!Sum(b) PROVE fac' \in Facs
  <2>1. fac' = Fpp!Kept(Fpp!fpp_add(mode, fac, b))
    BY <1>4 DEF Fpp!Sum, mode
  <2>2. Fpp!fpp_add(mode, fac, b).exp \in Int /\ Fpp!fpp_add(mode, fac, b).fr \in -Lim(mode) .. Lim(mode) - 1
    BY <1>1, <1>4, SumRange
  <2>. QED BY <2>1, <2>2, <1>2
<1>5. CASE Fpp!FADD
  <2>1. PICK b \in Fpp!InMemory(mode) : Fpp!Sum(b)
    BY <1>5 DEF Fpp!FADD, mode
  <2>2. b.exp \in Int /\ b.fr \in -Lim(mode) .. Lim(mode) - 1
    BY <1>1, Remembered
  <2>. QED BY <2>1, <2>2, <1>4
<1>6. CASE Fpp!FSUB
  <2>1. PICK b \in Fpp!InMemory(mode) : Fpp!Sum(Fpp!Negated(mode, b))
    BY <1>6 DEF Fpp!FSUB, mode
  <2>2. b.exp \in Int /\ b.fr \in -Lim(mode) .. Lim(mode) - 1
    BY <1>1, Remembered
  <2>. DEFINE c == Fpp!Negated(mode, b)
  <2>3. c.exp = b.exp /\ c.fr = Fpp!fpp_fr_neg(mode, b.fr)
    BY DEF Fpp!Negated, Fpp!Number
  <2>4. Fpp!fpp_fr_neg(mode, b.fr) \in -Lim(mode) .. Lim(mode) - 1
    BY <1>1, <2>2, Opposite
  <2>. HIDE DEF c
  <2>. QED BY <2>1, <2>2, <2>3, <2>4, <1>4 DEF c
<1>7. CASE \E wd \in Exponents : fac' = Fpp!Kept(Fpp!ALN(fac, wd))
  <2>1. PICK wd \in Exponents : fac' = Fpp!Kept(Fpp!ALN(fac, wd))
    BY <1>7
  <2>2. wd \in Int
    <3>1. X \in Nat /\ wd \in -X .. X - 1
      BY Widths5
    <3>. HIDE DEF X
    <3>. QED BY <3>1
  <2>3. Fpp!ALN(fac, wd).exp \in Int /\ Fpp!ALN(fac, wd).fr \in -Lim(mode) .. Lim(mode) - 1
    BY <2>2, AlignKeeps DEF mode
  <2>. QED BY <2>1, <2>3, <1>2
<1>8. CASE \E xr \in 0 .. Fpp!Pow2[FppW] - 1 : fac' = Fpp!Kept(Fpp!XTA(mode, xr))
  <2>1. PICK xr \in 0 .. Fpp!Pow2[FppW] - 1 : fac' = Fpp!Kept(Fpp!XTA(mode, xr))
    BY <1>8
  <2>2. xr \in Int
    <3>1. Fpp!Pow2[FppW] = Pow2[FppW] /\ FppW \in Nat
      BY SamePowers, Widths5
    <3>2. Pow2[FppW] \in Nat
      BY <3>1, Positive
    <3>. QED BY <3>1, <3>2
  <2>3. Fpp!XTA(mode, xr).exp \in Int /\ Fpp!XTA(mode, xr).fr \in -Lim(mode) .. Lim(mode) - 1
    BY <1>1, <2>2, LoadKeeps
  <2>. QED BY <2>1, <2>3, <1>2
<1>9. Fpp!Kept(Fpp!FNORM(fac)) \in Facs /\ Fpp!Kept(Fpp!FNEG(fac)) \in Facs
  <2>1. Fpp!FNORM(fac).exp \in Int /\ Fpp!FNORM(fac).fr \in -Lim(mode) .. Lim(mode) - 1
    BY NormKeeps DEF mode
  <2>2. Fpp!FNEG(fac).exp \in Int /\ Fpp!FNEG(fac).fr \in -Lim(mode) .. Lim(mode) - 1
    BY NegKeeps DEF mode
  <2>. QED BY <2>1, <2>2, <1>2
<1>10. Fpp!STARTF(fac) \in Facs /\ Fpp!STARTD(fac) \in Facs /\ Fpp!STARTE(fac) \in Facs
  BY StartKeeps
<1>. QED BY <1>3, <1>5, <1>6, <1>7, <1>8, <1>9, <1>10 DEF Fpp!Next, mode

\* The type of the accumulator is the module's TypeOK.
LEMMA TypeOfFac == fac \in Facs => Fpp!TypeOK
BY OfFac, SamePowers DEF Fpp!TypeOK, X, Lim

----------------------------------------------------------------------------
(* Double precision, and the index registers.                              *)

\* The property of double precision sums holds of any accumulator.
LEMMA IntegersExact == fac \in Facs => Fpp!IntegerSum
<1>. SUFFICES ASSUME fac \in Facs, fac.mode = "DP", NEW b \in Fpp!InMemory("DP")
              PROVE  LET z == Fpp!fpp_add("DP", fac, b) IN z.trap = "none" <=> z.fr = fac.fr + b.fr
  BY DEF Fpp!IntegerSum
<1>. DEFINE h == Lim("DP")
            x == fac.fr
            y == b.fr
            s == x + y
            m == Fpp!SignedMod(s, h)
            z == Fpp!fpp_add("DP", fac, b)
<1>1. "DP" \in Fpp!Modes
  BY DEF Fpp!Modes
<1>2. h \in Nat \ {0} /\ x \in -h .. h - 1 /\ y \in -h .. h - 1
  BY <1>1, Formats, OfFac, Remembered
<1>3. z.fr = m /\ z.trap = (IF (x < 0) = (y < 0) /\ (m < 0) # (x < 0) THEN "IOVX" ELSE "none")
  <2>1. Fpp!Pow2[2 * FppW - 1] = h
    BY SamePowers DEF Lim, Fpp!EXACT
  <2>. HIDE DEF h
  <2>2. z = [exp |-> fac.exp, fr |-> m,
             trap |-> IF (x < 0) = (y < 0) /\ (m < 0) # (x < 0) THEN "IOVX" ELSE "none"]
    BY <2>1 DEF Fpp!fpp_add, Fpp!Result, Fpp!Number
  <2>. HIDE DEF m, x, y, z
  <2>. QED BY <2>2
<1>. HIDE DEF h, x, y, z
<1>4. s \in Int /\ x \in Int /\ y \in Int
  BY <1>2
<1>5. PICK k \in Int : s = (2 * h) * k + m
  BY <1>2, <1>4, Wrapping
<1>6. m \in -h .. h - 1 /\ (s \in -h .. h - 1 => m = s)
  BY <1>2, <1>4, Wrapping
<1>. HIDE DEF m
<1>7. ASSUME NEW i \in Int, (2 * h) * i < 2 * h, (2 * h) * i > -(2 * h) PROVE i = 0
  <2>. DEFINE d == 2 * h
  <2>1. d \in Nat \ {0} /\ d * i < d /\ d * i > -d
    BY <1>2, <1>7
  <2>. HIDE DEF d
  <2>. QED BY <2>1
<1>8. ((x < 0) = (y < 0) => (m < 0) = (x < 0)) => m = s
  <2>1. CASE s \in -h .. h - 1
    BY <1>6, <2>1
  <2>2. CASE ~(s \in -h .. h - 1) /\ ((x < 0) = (y < 0) => (m < 0) = (x < 0))
    <3>. DEFINE t == (2 * h) * k
    <3>1. t = s - m /\ t \in Int
      BY <1>2, <1>4, <1>5, <1>6
    <3>. HIDE DEF t
    <3>2. t < 2 * h /\ t > -(2 * h)
      BY <1>2, <1>4, <1>6, <2>2, <3>1
    <3>3. k = 0
      BY <1>7, <3>2 DEF t
    <3>4. t = 0
      BY <1>2, <3>3 DEF t
    <3>. QED BY <3>1, <3>4, <1>4, <1>6, <1>2
  <2>. QED BY <2>1, <2>2
<1>9. m = s => ((x < 0) = (y < 0) => (m < 0) = (x < 0))
  BY <1>2, <1>4
<1>. QED BY <1>3, <1>8, <1>9 DEF z, x, y

\* SecondWord takes the word that ATX stores.
LEMMA Second ==
    ASSUME NEW mode \in Fpp!Modes, NEW f
    PROVE  Fpp!SecondWord(mode, f) =
              (f \div (IF mode = "EP" THEN Pow2[3 * FppW] ELSE 1)) % Pow2[FppW]
<1>1. FppW \in Nat
  BY Widths5
<1>2. Fpp!SecondWord(mode, f) = (f \div Pow2[Fpp!EXACT(mode) - 2 * FppW]) % Pow2[FppW]
  BY SamePowers DEF Fpp!SecondWord
<1>3. CASE mode = "EP"
  <2>1. Fpp!EXACT(mode) = 5 * FppW
    BY <1>3, Formats
  <2>2. Fpp!EXACT(mode) - 2 * FppW = 3 * FppW
    BY <2>1, <1>1
  <2>. QED BY <1>2, <1>3, <2>2
<1>4. CASE mode # "EP"
  <2>1. Fpp!EXACT(mode) = 2 * FppW
    BY <1>4, Formats
  <2>2. Fpp!EXACT(mode) - 2 * FppW = 0
    BY <2>1, <1>1
  <2>3. Pow2[0] = 1
    BY PowerRecursion
  <2>. QED BY <1>2, <1>4, <2>2, <2>3
<1>. QED BY <1>3, <1>4

\* A word read as signed and cut to a word again is the word.
LEMMA IndexBack ==
    ASSUME NEW xr \in 0 .. Pow2[FppW] - 1
    PROVE  xr \in Int /\ Index(xr) % Pow2[FppW] = xr
<1>. DEFINE h == Pow2[FppW - 1]
            d == Pow2[FppW]
            i == Index(xr)
<1>1. FppW \in Nat /\ FppW >= 2
  BY Widths5
<1>2. h \in Nat \ {0} /\ d \in Nat \ {0} /\ d = 2 * h
  <2>1. FppW - 1 \in Nat /\ (FppW - 1) + 1 = FppW
    BY <1>1
  <2>2. Pow2[(FppW - 1) + 1] = 2 * Pow2[FppW - 1]
    BY <2>1, PowerRecursion
  <2>. QED BY <1>1, <2>1, <2>2, Positive
<1>3. xr \in 0 .. d - 1
  OBVIOUS
<1>. HIDE DEF h, d
<1>4. xr \in Int
  BY <1>2, <1>3
<1>5. i = Fpp!SignedMod(xr, h)
  BY DEF Index, h
<1>. HIDE DEF i
<1>6. PICK k \in Int : xr = (2 * h) * k + i
  BY <1>2, <1>4, <1>5, Wrapping
<1>7. i \in Int
  <2>1. i \in -h .. h - 1
    BY <1>2, <1>4, <1>5, Wrapping
  <2>. QED BY <2>1, <1>2
<1>8. i = d * (-k) + xr /\ -k \in Int
  <2>1. xr = d * k + i
    BY <1>2, <1>6
  <2>. QED BY <2>1, <1>2, <1>4, <1>7
<1>9. i % d = xr
  BY <1>2, <1>3, <1>7, <1>8, Quotient
<1>. QED BY <1>4, <1>9 DEF i, d

\* A multiple is divided without a remainder.
LEMMA Multiple ==
    ASSUME NEW u \in Nat \ {0}, NEW q \in Int
    PROVE  (u * q) \div u = q /\ (q * u) \div u = q
<1>1. 0 \in 0 .. u - 1
  OBVIOUS
<1>2. (u * q + 0) \div u = q
  BY <1>1, Splits
<1>3. u * q + 0 = u * q /\ u * q = q * u
  OBVIOUS
<1>. QED BY <1>2, <1>3

\* An index register that is not zero is only shifted by normalizing.
LEMMA IndexNormal ==
    ASSUME NEW mode \in Fpp!Modes, NEW xr \in 0 .. Pow2[FppW] - 1, Index(xr) # 0
    PROVE  \E j \in Nat :
              Fpp!fpp_norm(mode, Fpp!Number(2 * FppW - 1, Index(xr) * Pow2[3 * FppW])).number
                 = Fpp!Number(2 * FppW - 1 - j, (Index(xr) * Pow2[3 * FppW]) * Pow2[j])
<1>. DEFINE i == Index(xr)
            p == Pow2[3 * FppW]
            h == Pow2[FppW - 1]
            f == i * p
            e == 2 * FppW - 1
            k == Fpp!Leading(f)
            u == Unit(mode)
            L == Lim(mode)
            Q == Qu(mode) * u
            g == f * Pow2[k]
            n == Fpp!fpp_norm(mode, Fpp!Number(e, f))
<1>1. FppW \in Nat /\ FppW >= 2 /\ e \in Int /\ Top = Pow2[5 * FppW - 1] /\ Top \in Nat \ {0}
  BY Widths5
<1>2. h \in Nat \ {0} /\ p \in Nat \ {0}
  <2>1. FppW - 1 \in Nat /\ 3 * FppW \in Nat
    BY <1>1
  <2>. QED BY <2>1, Positive
<1>3. i \in -h .. h - 1 /\ i \in Int /\ f \in Range5 /\ i # 0
  <2>1. xr \in Int
    BY IndexBack
  <2>. QED BY <2>1, IndexRange
<1>4. u \in Nat \ {0} /\ u = (IF mode = "EP" THEN 1 ELSE p) /\ L \in Nat \ {0}
      /\ Top = L * u /\ Top = 2 * Q /\ Q \in Nat \ {0}
  BY Formats
<1>5. 2 * (h * p) <= Top
  <2>1. FppW - 1 \in Nat /\ 3 * FppW \in Nat /\ (FppW - 1) + 3 * FppW \in Nat /\ 5 * FppW - 1 \in Nat
        /\ ((FppW - 1) + 3 * FppW) + 1 <= 5 * FppW - 1 /\ ((FppW - 1) + 3 * FppW) + 1 \in Nat
    BY <1>1
  <2>2. Pow2[(FppW - 1) + 3 * FppW] = h * p
    BY <2>1, Product
  <2>3. Pow2[((FppW - 1) + 3 * FppW) + 1] = 2 * (h * p)
    BY <2>1, <2>2, PowerRecursion
  <2>4. Pow2[((FppW - 1) + 3 * FppW) + 1] <= Pow2[5 * FppW - 1]
    BY <2>1, Growing
  <2>. QED BY <2>3, <2>4, <1>1
<1>. HIDE DEF i, p, h, u, L, Q, e, Top, Range5
<1>6. f \in Int /\ f # 0
  BY <1>2, <1>3
<1>7. f # -Top
  <2>1. i * p >= -(h * p)
    <3>1. -h \in Int /\ -h <= i
      BY <1>2, <1>3
    <3>2. (-h) * p <= i * p
      BY <3>1, <1>2, <1>3, Times
    <3>3. (-h) * p = -(h * p)
      BY <1>2
    <3>. QED BY <3>2, <3>3
  <2>2. h * p \in Nat \ {0} /\ i * p \in Int
    BY <1>2, <1>3
  <2>. QED BY <2>1, <2>2, <1>1, <1>5
<1>. HIDE DEF f
<1>8. k \in 0 .. 5 * FppW - 1 /\ k \in Nat
  <2>1. k \in 0 .. 5 * FppW - 1
    BY <1>3, Leads
  <2>. HIDE DEF k
  <2>. QED BY <2>1, <1>1
<1>9. CASE g \div u = -L
  <2>1. n.number = Fpp!Number(e - k + 1, g + Q)
    <3>1. n = [number |-> Fpp!Number(e - k + 1, g + Qu(mode) * Unit(mode)), exact |-> TRUE]
      BY <1>1, <1>3, <1>6, <1>9, Normalising DEF u, L
    <3>. HIDE DEF n, g, k
    <3>. QED BY <3>1 DEF Q, u
  <2>. HIDE DEF k
  <2>2. Pow2[k] \in Nat \ {0}
    BY <1>8, Positive
  <2>3. g = -Top
    <3>. DEFINE c == Pow2[k]
    <3>. HIDE DEF c
    <3>1. c \in Nat \ {0} /\ g = f * c /\ f = i * p
      BY <2>2 DEF c, f
    <3>. HIDE DEF g
    <3>2. CASE mode = "EP"
      <4>1. u = 1 /\ g \in Int
        BY <1>4, <1>6, <3>1, <3>2
      <4>2. (1 * g) \div 1 = g /\ 1 * g = g
        BY <4>1, Multiple
      <4>3. g = -L /\ Top = L
        BY <4>1, <4>2, <1>9, <1>4
      <4>. QED BY <4>3
    <3>3. CASE mode # "EP"
      <4>1. u = p
        BY <1>4, <3>3
      <4>2. g = u * (i * c) /\ i * c \in Int
        BY <3>1, <4>1, <1>2, <1>3
      <4>3. (u * (i * c)) \div u = i * c
        BY <1>4, <4>2, Multiple
      <4>4. i * c = -L
        BY <4>2, <4>3, <1>9
      <4>5. u * (-L) = -(L * u)
        BY <1>4
      <4>. QED BY <4>2, <4>4, <4>5, <1>4
    <3>. QED BY <3>2, <3>3
  <2>4. k # 0
    <3>1. Pow2[0] = 1
      BY PowerRecursion
    <3>. QED BY <3>1, <2>3, <1>6, <1>7
  <2>5. k - 1 \in Nat /\ (k - 1) + 1 = k
    BY <1>8, <2>4
  <2>. DEFINE j == k - 1
              c == Pow2[j]
  <2>6. c \in Nat \ {0} /\ Pow2[k] = 2 * c
    <3>1. Pow2[j + 1] = 2 * Pow2[j]
      BY <2>5, PowerRecursion
    <3>. QED BY <3>1, <2>5, Positive
  <2>7. e - k + 1 = e - j
    BY <1>1, <1>8
  <2>. HIDE DEF c
  <2>8. g = 2 * (f * c) /\ f * c \in Int
    BY <2>6, <1>6
  <2>9. g + Q = f * c
    BY <2>3, <2>8, <1>4
  <2>10. n.number = Fpp!Number(e - j, f * Pow2[j])
    BY <2>1, <2>7, <2>9 DEF c
  <2>. HIDE DEF n
  <2>. QED BY <2>5, <2>10 DEF n, e, f, i, p
<1>10. CASE g \div u # -L
  <2>1. n.number = Fpp!Number(e - k, g)
    <3>1. n = [number |-> Fpp!Number(e - k, g), exact |-> FALSE]
      BY <1>1, <1>3, <1>6, <1>10, Normalising DEF u, L
    <3>. HIDE DEF n, g, k
    <3>. QED BY <3>1
  <2>. HIDE DEF n, k
  <2>. QED BY <2>1, <1>8 DEF n, e, f, i, p
<1>. QED BY <1>9, <1>10

\* ATX stores what XTA has loaded, in every mode.
LEMMA IndexReturns ==
    ASSUME NEW mode \in Fpp!Modes, NEW xr \in 0 .. Pow2[FppW] - 1
    PROVE  Fpp!ATX(Fpp!XTA(mode, xr)) = xr
<1>. DEFINE i == Index(xr)
            p == Pow2[3 * FppW]
            d == Pow2[FppW]
            f == i * p
            e == 2 * FppW - 1
            u == Unit(mode)
            w == IF mode = "EP" THEN p ELSE 1
            n == Fpp!Number(e, f)
            s == IF mode = "DP" THEN n ELSE Fpp!fpp_norm(mode, n).number
            y == Fpp!XTA(mode, xr)
<1>1. FppW \in Nat /\ FppW >= 2 /\ e \in Int /\ e \in Nat
  BY Widths5
<1>2. p \in Nat \ {0} /\ d \in Nat \ {0}
  <2>1. FppW \in Nat /\ 3 * FppW \in Nat
    BY <1>1
  <2>. QED BY <2>1, Positive
<1>3. xr \in Int /\ i % d = xr
  BY IndexBack
<1>4. i \in Int /\ f \in Range5
  BY <1>3, IndexRange
<1>5. u \in Nat \ {0} /\ u = (IF mode = "EP" THEN 1 ELSE p)
  BY Formats
<1>6. w \in Nat \ {0} /\ u * w = p
  BY <1>2, <1>5
<1>7. y = [mode |-> mode, exp |-> s.exp, fr |-> s.fr \div u]
  BY SamePowers DEF Fpp!XTA, Fpp!Exactly, Fpp!Number, Index, Unit
<1>8. ASSUME NEW g PROVE Fpp!SecondWord(mode, g) = (g \div w) % d
  BY Second
<1>. HIDE DEF i, p, d, f, e, u, w, n
<1>9. CASE mode = "DP"
  <2>1. s.fr = f
    BY <1>9 DEF n, Fpp!Number
  <2>2. y.mode = mode /\ y.fr = f \div u
    <3>. HIDE DEF s, y
    <3>. QED BY <2>1, <1>7
  <2>3. f \div u = i
    <3>1. u = p
      BY <1>5, <1>9
    <3>. QED BY <3>1, <1>2, <1>4, Multiple DEF f
  <2>. HIDE DEF y
  <2>4. Fpp!ATX(y) = (i \div 1) % d
    <3>1. Fpp!ATX(y) = Fpp!SecondWord(mode, y.fr)
      BY <2>2, <1>9 DEF Fpp!ATX
    <3>2. w = 1
      BY <1>9 DEF w
    <3>. QED BY <3>1, <3>2, <2>2, <2>3, <1>8
  <2>5. i \div 1 = i
    <3>1. (1 * i) \div 1 = i /\ 1 * i = i
      BY <1>4, Multiple
    <3>. QED BY <3>1
  <2>. QED BY <2>4, <2>5, <1>3 DEF y
<1>10. ASSUME mode # "DP", NEW j \in Int, e - j \in Nat, s = Fpp!Number(j, (i * p) * Pow2[e - j])
       PROVE  Fpp!ATX(y) = xr
  <2>. DEFINE c == Pow2[e - j]
              v == i * w
  <2>1. c \in Nat \ {0} /\ v \in Int
    BY <1>4, <1>6, <1>10, Positive
  <2>2. s.exp = j /\ s.fr = (i * p) * c
    BY <1>10 DEF Fpp!Number
  <2>. HIDE DEF c, s, y
  <2>3. (i * p) * c = u * (v * c) /\ v * c \in Int
    BY <1>4, <1>5, <1>6, <2>1
  <2>. HIDE DEF v
  <2>4. s.fr \div u = v * c
    BY <2>2, <2>3, <1>5, Multiple
  <2>5. y.mode = mode /\ y.exp = j /\ y.fr = v * c
    BY <1>7, <2>2, <2>4
  <2>6. Fpp!Shifted(mode, v * c, e - j) = v
    <3>1. ~(e - j < 0)
      BY <1>10
    <3>2. Fpp!Shifted(mode, v * c, e - j) = (v * c) \div c
      BY <3>1, SamePowers DEF Fpp!Shifted, c
    <3>. QED BY <3>2, <2>1, Multiple
  <2>7. Fpp!ATX(y) = Fpp!SecondWord(mode, v)
    BY <2>5, <2>6, <1>10 DEF Fpp!ATX, e
  <2>8. v \div w = i
    BY <1>4, <1>6, Multiple DEF v
  <2>. QED BY <2>7, <2>8, <1>3, <1>8
<1>11. CASE mode # "DP" /\ i # 0
  <2>1. PICK j \in Nat : Fpp!fpp_norm(mode, Fpp!Number(e, i * p)).number
                            = Fpp!Number(e - j, (i * p) * Pow2[j])
    BY <1>11, IndexNormal DEF i, p, e
  <2>2. s = Fpp!Number(e - j, (i * p) * Pow2[j])
    BY <2>1, <1>11 DEF n, f
  <2>3. e - j \in Int /\ e - (e - j) = j
    BY <1>1
  <2>. HIDE DEF s, y
  <2>. QED BY <2>2, <2>3, <1>10, <1>11 DEF y
<1>12. CASE mode # "DP" /\ i = 0
  <2>1. f = 0
    BY <1>2, <1>12 DEF f
  <2>2. Fpp!fpp_norm(mode, Fpp!Number(e, f)) = [number |-> Fpp!Number(0, 0), exact |-> TRUE]
    BY <1>1, <1>4, <2>1, Normalising
  <2>3. s = Fpp!Number(0, 0)
    BY <2>2, <1>12 DEF n
  <2>4. (i * p) * Pow2[e - 0] = 0
    <3>1. e - 0 = e /\ Pow2[e] \in Nat
      BY <1>1, Positive
    <3>. QED BY <3>1, <1>2, <1>12
  <2>5. e - 0 \in Nat
    BY <1>1
  <2>. HIDE DEF s, y
  <2>. QED BY <2>3, <2>4, <2>5, <1>10, <1>12 DEF y
<1>. QED BY <1>9, <1>11, <1>12

\* Times two to the power of n, between two powers with the same distance.
LEMMA SameDistance ==
    ASSUME NEW f \in Int, NEW m \in Nat, NEW n \in Nat, NEW c \in Nat
    PROVE  (f * Pow2[m + c]) \div Pow2[n + c] = (f * Pow2[m]) \div Pow2[n]
<1>. DEFINE a == Pow2[c]
            b == Pow2[n]
            x == Pow2[m]
<1>1. a \in Nat \ {0} /\ b \in Nat \ {0} /\ x \in Nat \ {0}
  BY Positive
<1>2. Pow2[m + c] = x * a /\ Pow2[n + c] = b * a
  BY Product
<1>. HIDE DEF a, b, x
<1>3. f * (x * a) = a * (f * x) /\ b * a = a * b /\ f * x \in Int
  BY <1>1
<1>4. (a * (f * x)) \div (a * b) = (f * x) \div b
  BY <1>1, <1>3, Cancelling
<1>. QED BY <1>2, <1>3, <1>4 DEF x, b

\* ATX stores the whole part of a number whose whole part fits the register.
LEMMA WholePart ==
    ASSUME NEW a \in Facs, a.mode # "DP",
           NEW whole, whole = Fpp!Value(a) \div Pow2[Fpp!EXACT(a.mode) - 1 + 4 * X],
           whole \in 0 .. Pow2[FppW] - 1
    PROVE  Fpp!ATX(a) = whole
<1>. DEFINE mode == a.mode
            fr == a.fr
            exp == a.exp
            E == Fpp!EXACT(mode)
            t == E - 2 * FppW
            w == Pow2[t]
            d == Pow2[FppW]
            h == Lim(mode)
            places == (2 * FppW - 1) - exp
            s == Fpp!Shifted(mode, fr, places)
<1>1. FppW \in Nat /\ FppW >= 2 /\ X \in Nat \ {0}
  BY Widths5
<1>2. mode \in Fpp!Modes /\ exp \in -X .. X - 1 /\ exp \in Int /\ fr \in Int /\ mode # "DP"
  BY OfFac
<1>3. E \in Nat /\ E >= 2 * FppW /\ h \in Nat \ {0}
  <2>1. E = (IF mode = "EP" THEN 5 * FppW ELSE 2 * FppW) /\ h \in Nat \ {0}
    BY <1>2, Formats
  <2>. HIDE DEF h, E, mode
  <2>. QED BY <2>1, <1>1
<1>4. whole = (fr * Pow2[exp + 4 * X]) \div Pow2[E - 1 + 4 * X]
  BY SamePowers DEF Fpp!Value, X
<1>5. Fpp!ATX(a) = (s \div w) % d
  <2>1. Fpp!ATX(a) = Fpp!SecondWord(mode, s)
    BY <1>2 DEF Fpp!ATX
  <2>. HIDE DEF s
  <2>. QED BY <2>1, SamePowers DEF Fpp!SecondWord
<1>6. s = IF places < 0 THEN Fpp!SignedMod(fr * Pow2[-places], h) ELSE fr \div Pow2[places]
  BY SamePowers DEF Fpp!Shifted, Lim
<1>7. h = Pow2[E - 1]
  BY DEF Lim
<1>. HIDE DEF mode, fr, exp, E, X, h, s
<1>8. t \in Nat /\ places \in Int
  BY <1>1, <1>2, <1>3
<1>9. w \in Nat \ {0} /\ d \in Nat \ {0}
  <2>. HIDE DEF t
  <2>. QED BY <1>1, <1>8, Positive
<1>10. whole \in 0 .. d - 1
  OBVIOUS
<1>11. s \div w = whole
  <2>1. CASE places < 0
    <3>. DEFINE q == -places
                c == (2 * FppW - 1) + 4 * X
                z == fr * Pow2[q]
    <3>1. q \in Nat /\ c \in Nat /\ exp + 4 * X = q + c /\ E - 1 + 4 * X = t + c
      BY <1>1, <1>2, <1>3, <1>8, <2>1
    <3>2. whole = z \div w
      <4>. HIDE DEF q, c, t
      <4>1. fr \in Int /\ q \in Nat /\ t \in Nat /\ c \in Nat
        BY <3>1, <1>2, <1>8
      <4>2. (fr * Pow2[q + c]) \div Pow2[t + c] = (fr * Pow2[q]) \div Pow2[t]
        BY <4>1, SameDistance, Zenon
      <4>. QED BY <4>2, <3>1, <1>4
    <3>3. z \in Int
      <4>. HIDE DEF q
      <4>1. Pow2[q] \in Nat
        BY <3>1, Positive
      <4>. QED BY <4>1, <1>2
    <3>4. d * w <= h
      <4>1. FppW + t \in Nat /\ E - 1 \in Nat /\ FppW + t <= E - 1
        BY <1>1, <1>3, <1>8
      <4>2. Pow2[FppW + t] = d * w
        <5>. HIDE DEF t
        <5>. QED BY <1>1, <1>8, Product
      <4>3. Pow2[FppW + t] <= Pow2[E - 1]
        <5>. HIDE DEF t
        <5>. QED BY <4>1, Growing
      <4>. QED BY <4>2, <4>3, <1>7
    <3>5. s = Fpp!SignedMod(z, h)
      BY <1>6, <2>1
    <3>. HIDE DEF z, w, d, t, q, places
    <3>6. z \in -h .. h - 1
      <4>. DEFINE k == z \div w
                  m == z % w
      <4>1. k \in Int /\ m \in 0 .. w - 1 /\ z = w * k + m
        BY <3>3, <1>9, Division
      <4>2. k >= 0 /\ k <= d - 1
        BY <3>2, <1>9, <1>10
      <4>. HIDE DEF k, m
      <4>3. w * k >= 0 /\ w * k <= w * (d - 1) /\ w * k \in Int
        BY <4>1, <4>2, <1>9
      <4>4. w * (d - 1) = d * w - w /\ d * w \in Int
        BY <1>9
      <4>. QED BY <4>1, <4>3, <4>4, <1>3, <1>9, <3>3, <3>4
    <3>7. s = z
      BY <3>3, <3>5, <3>6, <1>3, Wrapping
    <3>. QED BY <3>2, <3>7
  <2>2. CASE ~(places < 0)
    <3>. DEFINE c == exp + 4 * X
                n == places + t
                b == Pow2[places]
    <3>1. places \in Nat /\ c \in Nat /\ n \in Nat /\ E - 1 + 4 * X = n + c /\ c = 0 + c
      BY <1>1, <1>2, <1>3, <1>8, <2>2
    <3>. HIDE DEF c, places, t
    <3>2. Pow2[n] = b * w
      BY <3>1, <1>8, Product
    <3>. HIDE DEF n
    <3>3. whole = fr \div (b * w)
      <4>1. (fr * Pow2[0 + c]) \div Pow2[n + c] = (fr * Pow2[0]) \div Pow2[n]
        BY <3>1, <1>2, SameDistance
      <4>2. whole = (fr * Pow2[0 + c]) \div Pow2[n + c]
        BY <1>4, <3>1 DEF c
      <4>3. Pow2[0] = 1 /\ fr * 1 = fr
        BY <1>2, PowerRecursion
      <4>. QED BY <4>1, <4>2, <4>3, <3>2
    <3>4. s = fr \div b
      BY <1>6, <2>2
    <3>5. b \in Nat \ {0}
      BY <3>1, Positive
    <3>. HIDE DEF b, w
    <3>. QED BY <3>3, <3>4, <3>5, <1>2, <1>9, Nested
  <2>. QED BY <2>1, <2>2
<1>12. whole % d = whole
  <2>1. whole \in Int /\ whole = d * 0 + whole
    BY <1>9, <1>10
  <2>. HIDE DEF d
  <2>. QED BY <2>1, <1>9, <1>10, Quotient
<1>. QED BY <1>5, <1>11, <1>12

\* The property of the index registers holds of any accumulator.
LEMMA IndexExact == fac \in Facs => Fpp!IndexSurvives
<1>. SUFFICES ASSUME fac \in Facs PROVE Fpp!IndexSurvives
  OBVIOUS
<1>1. fac.mode \in Fpp!Modes
  BY OfFac
<1>2. ASSUME NEW xr \in 0 .. Fpp!Pow2[FppW] - 1 PROVE Fpp!ATX(Fpp!XTA(fac.mode, xr)) = xr
  <2>1. xr \in 0 .. Pow2[FppW] - 1
    BY <1>2, SamePowers
  <2>. QED BY <2>1, <1>1, IndexReturns
<1>3. ASSUME fac.mode # "DP",
             Fpp!Value(fac) \div Fpp!Pow2[Fpp!EXACT(fac.mode) - 1 + 4 * ExpSize]
                \in 0 .. Fpp!Pow2[FppW] - 1
      PROVE  Fpp!ATX(fac) = Fpp!Value(fac) \div Fpp!Pow2[Fpp!EXACT(fac.mode) - 1 + 4 * ExpSize]
  <2>. DEFINE whole == Fpp!Value(fac) \div Pow2[Fpp!EXACT(fac.mode) - 1 + 4 * X]
  <2>1. whole = Fpp!Value(fac) \div Fpp!Pow2[Fpp!EXACT(fac.mode) - 1 + 4 * ExpSize]
    BY SamePowers DEF X
  <2>2. whole \in 0 .. Pow2[FppW] - 1
    BY <2>1, <1>3, SamePowers
  <2>3. whole = Fpp!Value(fac) \div Pow2[Fpp!EXACT(fac.mode) - 1 + 4 * X]
    OBVIOUS
  <2>. HIDE DEF whole
  <2>4. Fpp!ATX(fac) = whole
    BY <2>2, <2>3, <1>3, WholePart
  <2>. QED BY <2>1, <2>4
<1>. QED BY <1>2, <1>3 DEF Fpp!IndexSurvives

----------------------------------------------------------------------------
(* How far normalizing and rounding are off.                               *)

NormalFractions(mode) == Qu(mode) .. 2 * Qu(mode) - 1 \cup 1 - 2 * Qu(mode) .. -Qu(mode)

\* One more in the exponent doubles what a fraction counts.
LEMMA Scale ==
    ASSUME NEW e \in Int, e >= -(4 * X)
    PROVE  /\ e + 4 * X \in Nat /\ Pw(e) \in Nat \ {0} /\ Pw(e + 1) = 2 * Pw(e)
           /\ \A k \in Nat : Pw(e + k) = Pw(e) * Pow2[k]
<1>1. X \in Nat \ {0} /\ e + 4 * X \in Nat
  BY Widths5
<1>. HIDE DEF X
<1>2. Pow2[e + 4 * X] \in Nat \ {0}
  BY <1>1, Positive
<1>3. (e + 1) + 4 * X = (e + 4 * X) + 1
  BY <1>1
<1>4. Pow2[(e + 4 * X) + 1] = 2 * Pow2[e + 4 * X]
  BY <1>1, PowerRecursion
<1>5. ASSUME NEW k \in Nat PROVE Pw(e + k) = Pw(e) * Pow2[k]
  <2>1. (e + k) + 4 * X = (e + 4 * X) + k
    BY <1>1
  <2>2. Pow2[(e + 4 * X) + k] = Pow2[e + 4 * X] * Pow2[k]
    BY <1>1, Product
  <2>. QED BY <2>1, <2>2 DEF Pw
<1>. QED BY <1>1, <1>2, <1>3, <1>4, <1>5 DEF Pw

\* The fraction that is kept is less than a unit off and normalized.
LEMMA RoundedUp ==
    ASSUME NEW u \in Nat \ {0}, NEW q \in Nat \ {0}, NEW g \in Int, NEW c \in Nat, c < u,
           g < 2 * (q * u), g >= -(2 * (q * u)), g \div u # -(2 * q), g + c < 2 * (q * u),
           g >= q * u \/ g < -(q * u)
    PROVE  LET f == (g + c) \div u IN
           /\ f \in q .. 2 * q - 1 \/ f \in 1 - 2 * q .. -q
           /\ f * u - g < u /\ g - f * u < u
<1>. DEFINE n == g + c
            f == n \div u
            t == n % u
            v == q * u
<1>1. n \in Int /\ v \in Nat \ {0}
  OBVIOUS
<1>2. f \in Int /\ t \in 0 .. u - 1 /\ n = u * f + t
  <2>. HIDE DEF n
  <2>. QED BY <1>1, Division
<1>. DEFINE z == f * u
<1>3. z \in Int /\ n = z + t
  <2>. HIDE DEF f, t, n
  <2>. QED BY <1>2
<1>4. c \in Nat /\ c < u /\ g < 2 * v /\ g >= -(2 * v) /\ n = g + c /\ n < 2 * v
      /\ (g >= v \/ g < -v)
  OBVIOUS
<1>5. z - g < u /\ g - z < u
  <2>. HIDE DEF z, v, n, t, f
  <2>. QED BY <1>2, <1>3, <1>4
<1>6. ASSUME NEW i \in Int, z < i * u PROVE f < i
  <2>. HIDE DEF f
  <2>. QED BY <1>2, <1>6, Times
<1>7. ASSUME NEW i \in Int, i * u < z PROVE i < f
  <2>. HIDE DEF f
  <2>. QED BY <1>2, <1>7, Times
<1>8. z < 2 * v /\ (2 * q) * u = 2 * v
  <2>1. z < 2 * v
    <3>. HIDE DEF z, v, n, t, f
    <3>. QED BY <1>1, <1>2, <1>3, <1>4
  <2>. QED BY <2>1
<1>9. f < 2 * q
  <2>. HIDE DEF z, v, f
  <2>. QED BY <1>6, <1>8
<1>10. CASE g >= v
  <2>1. (q - 1) * u = v - u
    OBVIOUS
  <2>2. v - u < z
    <3>. HIDE DEF z, v, n, t, f
    <3>. QED BY <1>1, <1>2, <1>3, <1>4, <1>10
  <2>. HIDE DEF z, v, f
  <2>3. q - 1 < f
    BY <1>7, <2>1, <2>2
  <2>4. f \in q .. 2 * q - 1
    BY <2>3, <1>2, <1>9
  <2>. QED BY <2>4, <1>5 DEF z, f
<1>11. CASE g < -v
  <2>1. (1 - q) * u = u - v
    OBVIOUS
  <2>2. z < u - v
    <3>. HIDE DEF z, v, n, t, f
    <3>. QED BY <1>1, <1>2, <1>3, <1>4, <1>11
  <2>3. f < 1 - q
    <3>. HIDE DEF z, v, f
    <3>. QED BY <1>6, <2>1, <2>2
  <2>4. f > -(2 * q)
    <3>. DEFINE k == g \div u
                m == g % u
    <3>1. k \in Int /\ m \in 0 .. u - 1 /\ g = u * k + m
      BY Division
    <3>. HIDE DEF k, m
    <3>2. k > -(2 * q)
      <4>1. k # -(2 * q)
        BY DEF k
      <4>2. u * k = k * u /\ k * u \in Int /\ (-(2 * q) - 1) * u = -(2 * v) - u
        BY <3>1
      <4>. DEFINE x == k * u
      <4>3. x > -(2 * v) - u
        <5>1. g = x + m
          BY <3>1, <4>2
        <5>2. x \in Int
          BY <4>2
        <5>. HIDE DEF x, v
        <5>. QED BY <5>1, <5>2, <3>1, <1>1, <1>4
      <4>4. (-(2 * q) - 1) * u < k * u
        BY <4>2, <4>3
      <4>5. -(2 * q) - 1 < k
        BY <4>4, <3>1, Times
      <4>. QED BY <4>1, <4>5, <3>1
    <3>3. k <= f
      <4>1. ASSUME f < k PROVE FALSE
        <5>. HIDE DEF f
        <5>1. f <= k - 1 /\ k - 1 \in Int
          BY <4>1, <1>2, <3>1
        <5>2. f * u <= (k - 1) * u
          BY <5>1, <1>2, Times
        <5>3. (k - 1) * u = u * k - u /\ u * k \in Int
          BY <3>1
        <5>. QED BY <5>2, <5>3, <1>2, <1>3, <1>4, <3>1
      <4>. HIDE DEF f
      <4>. QED BY <4>1, <1>2, <3>1
    <3>. HIDE DEF f
    <3>. QED BY <3>2, <3>3, <3>1, <1>2
  <2>. HIDE DEF z, v, f
  <2>5. f \in 1 - 2 * q .. -q
    BY <2>3, <2>4, <1>2
  <2>. QED BY <2>5, <1>5 DEF z, f
<1>. QED BY <1>4, <1>10, <1>11

\* A carry out of rounding leaves the smallest fraction.
LEMMA CarriedOut ==
    ASSUME NEW u \in Nat \ {0}, NEW q \in Nat \ {0}, NEW g \in Int, NEW c \in Nat,
           2 * c <= u, u >= 4, g < 2 * (q * u), g + c >= 2 * (q * u)
    PROVE  ((g + c) \div 2) \div u = q /\ 2 * (q * u) - g > 0 /\ 2 * (q * u) - g < u
<1>. DEFINE v == q * u
            t == (g + c) - 2 * v
            s == t \div 2
<1>1. v \in Nat \ {0} /\ t \in Int
  OBVIOUS
<1>. HIDE DEF v
<1>2. g < 2 * v /\ g + c >= 2 * v /\ 2 * c <= u /\ u >= 4
  BY DEF v
<1>3. t >= 0 /\ t < c
  BY <1>1, <1>2
<1>4. g + c = 2 * v + t
  BY <1>1
<1>. HIDE DEF t
<1>5. s \in 0 .. u - 1
  BY <1>1, <1>2, <1>3
<1>6. (g + c) \div 2 = v + s
  BY <1>1, <1>4
<1>. HIDE DEF s
<1>7. v + s = u * q + s
  BY <1>5 DEF v
<1>8. (u * q + s) \div u = q
  BY <1>5, Splits
<1>9. 2 * v - g > 0 /\ 2 * v - g < u
  BY <1>1, <1>2, <1>3, <1>4
<1>. QED BY <1>6, <1>7, <1>8, <1>9 DEF v

\* 1.0...0 becomes 1.1...0 with the next exponent.
LEMMA Replaced ==
    ASSUME NEW u \in Nat \ {0}, NEW q \in Nat \ {0}, NEW g \in Int, g \div u = -(2 * q)
    PROVE  (g + q * u) \div u = -q /\ g + 2 * (q * u) >= 0 /\ g + 2 * (q * u) < u
<1>. DEFINE m == g % u
            v == q * u
<1>1. m \in 0 .. u - 1 /\ g = u * (-(2 * q)) + m
  <2>1. g = u * (g \div u) + (g % u) /\ g % u \in 0 .. u - 1
    BY Division
  <2>. QED BY <2>1
<1>2. v \in Nat \ {0} /\ u * (-(2 * q)) = -(2 * v) /\ u * (-q) = -v
  OBVIOUS
<1>. HIDE DEF m, v
<1>3. g + v = u * (-q) + m
  BY <1>1, <1>2
<1>4. (u * (-q) + m) \div u = -q
  BY <1>1, Splits
<1>5. g + 2 * v >= 0 /\ g + 2 * v < u
  BY <1>1, <1>2
<1>. QED BY <1>3, <1>4, <1>5 DEF v

\* Less than a unit off is less than a unit off at any scale,
LEMMA Off ==
    ASSUME NEW m \in Int, NEW g \in Int, NEW u \in Nat \ {0}, NEW p \in Nat \ {0},
           m - g < u, g - m < u
    PROVE  m * p - g * p < u * p /\ g * p - m * p < u * p
<1>1. m - g \in Int /\ g - m \in Int /\ (m - g) * p = m * p - g * p /\ (g - m) * p = g * p - m * p
  OBVIOUS
<1>2. (m - g) * p < u * p
  BY <1>1, Times
<1>3. (g - m) * p < u * p
  BY <1>1, Times
<1>. QED BY <1>1, <1>2, <1>3

\* and at the next scale after the fraction was halved.
LEMMA OffHalf ==
    ASSUME NEW i \in Int, NEW g \in Int, NEW u \in Nat \ {0}, NEW p \in Nat \ {0},
           2 * (i * u) - g < u, g - 2 * (i * u) < u
    PROVE  (i * u) * (2 * p) - g * p < u * (2 * p) /\ g * p - (i * u) * (2 * p) < u * (2 * p)
<1>. DEFINE m == 2 * (i * u)
<1>1. m \in Int /\ m * p = (i * u) * (2 * p) /\ u * p \in Nat /\ u * (2 * p) = 2 * (u * p)
  OBVIOUS
<1>2. m - g < u /\ g - m < u
  OBVIOUS
<1>3. m * p - g * p < u * p /\ g * p - m * p < u * p
  <2>. HIDE DEF m
  <2>. QED BY <1>1, <1>2, Off
<1>4. g * p \in Int /\ m * p \in Int
  BY <1>1
<1>. HIDE DEF m
<1>5. m * p - g * p < u * (2 * p) /\ g * p - m * p < u * (2 * p)
  BY <1>1, <1>3, <1>4
<1>. QED BY <1>1, <1>5

Kept5(mode, e, f) == Fpp!Exactly(mode, Fpp!NormRound(mode, Fpp!Number(e, f)))

\* Normalizing changes the fraction and the exponent and not the number.
LEMMA Shifting ==
    ASSUME NEW e \in Int, e >= -X, NEW f \in Range5, f # 0
    PROVE  LET k == Fpp!Leading(f)
               g == f * Pow2[k]
           IN  /\ k \in 0 .. 5 * FppW - 1 /\ g \in Range5 /\ g # 0 /\ g \in Int
               /\ 2 * g >= Top \/ 2 * g < -Top
               /\ e - k \in Int /\ e - k >= -(4 * X) /\ f * Pw(e) = g * Pw(e - k)
<1>. DEFINE k == Fpp!Leading(f)
            c == Pow2[k]
            g == f * c
<1>1. X \in Nat /\ 5 * FppW <= 3 * X /\ FppW \in Nat /\ Top \in Nat
  BY Widths5
<1>2. k \in 0 .. 5 * FppW - 1 /\ g \in Range5 /\ g # 0 /\ (2 * g >= Top \/ 2 * g < -Top)
  BY LeadingBit
<1>. HIDE DEF k, X, Top
<1>3. g \in Int
  <2>. HIDE DEF g
  <2>. QED BY <1>1, <1>2 DEF Range5
<1>4. f \in Int
  BY <1>1 DEF Range5
<1>5. k \in Nat /\ e - k \in Int /\ e - k >= -(4 * X) /\ (e - k) + k = e
  BY <1>1, <1>2
<1>6. Pw((e - k) + k) = Pw(e - k) * c /\ Pw(e - k) \in Nat /\ c \in Nat
  <2>1. e - k \in Int /\ e - k >= -(4 * X)
    BY <1>5
  <2>. DEFINE i == e - k
  <2>. HIDE DEF i
  <2>2. i \in Int /\ i >= -(4 * X)
    BY <2>1 DEF i
  <2>3. Pw(i + k) = Pw(i) * Pow2[k] /\ Pw(i) \in Nat
    BY <2>2, <1>5, Scale
  <2>. QED BY <2>3, <1>5, Positive DEF i
<1>7. f * Pw(e) = g * Pw(e - k)
  <2>1. Pw(e) = Pw(e - k) * c
    BY <1>5, <1>6
  <2>. DEFINE p == Pw(e - k)
  <2>2. p \in Nat /\ Pw(e) = p * c
    BY <2>1, <1>6
  <2>. HIDE DEF p, c
  <2>3. f * (p * c) = (f * c) * p
    BY <2>2, <1>4, <1>6
  <2>. QED BY <2>2, <2>3 DEF p
<1>. QED BY <1>2, <1>3, <1>5, <1>7 DEF k, X, Top

\* Normalized and rounded, a number in FP is normalized and less than a unit off.
LEMMA FpRounds ==
    ASSUME NEW e \in Int, e >= -X, NEW f \in Range5, f # 0
    PROVE  LET z == Kept5("FP", e, f)
               u == Unit("FP")
           IN  /\ z.exp \in Int /\ z.exp >= -(4 * X) /\ z.fr \in NormalFractions("FP")
               /\ (z.fr * u) * Pw(z.exp) - f * Pw(e) < u * Pw(z.exp)
               /\ f * Pw(e) - (z.fr * u) * Pw(z.exp) < u * Pw(z.exp)
<1>. DEFINE k == Fpp!Leading(f)
            g == f * Pow2[k]
            i == e - k
            u == Unit("FP")
            q == Qu("FP")
            v == q * u
            c == HalfUp(g)
            p == Pw(i)
            n == Fpp!fpp_norm("FP", Fpp!Number(e, f))
            m == Fpp!NormRound("FP", Fpp!Number(e, f))
            val == Kept5("FP", e, f)
<1>1. "FP" \in Fpp!Modes \ {"EP"} /\ "FP" \in Fpp!Modes
  BY DEF Fpp!Modes
<1>2. u \in Nat \ {0} /\ u = Pow2[3 * FppW] /\ q \in Nat \ {0} /\ Lim("FP") = 2 * q
      /\ Top = 2 * v /\ v \in Nat \ {0}
  BY <1>1, Formats
<1>3. /\ g \in Range5 /\ g # 0 /\ g \in Int
      /\ 2 * g >= Top \/ 2 * g < -Top
      /\ i \in Int /\ i >= -(4 * X) /\ f * Pw(e) = g * p
  BY Shifting
<1>4. /\ g \div u = -Lim("FP") => n = [number |-> Fpp!Number(e - k + 1, g + v), exact |-> TRUE]
      /\ g \div u # -Lim("FP") => n = [number |-> Fpp!Number(e - k, g), exact |-> FALSE]
  BY <1>1, Normalising
<1>5. val = [exp |-> m.exp, fr |-> m.fr \div u]
  BY DEF Kept5, Fpp!Exactly, Fpp!Number, Unit
<1>6. m = IF n.exact THEN n.number ELSE Fpp!fpp_round("FP", n.number)
  BY DEF Fpp!NormRound
<1>. HIDE DEF k, u, q, n, m, val, Top
<1>7. e - k + 1 = i + 1 /\ i + 1 \in Int /\ i + 1 >= -(4 * X)
  <2>1. X \in Nat /\ k \in Int
    <3>1. k \in 0 .. 5 * FppW - 1 /\ X \in Nat /\ FppW \in Nat
      BY Leads, Widths5 DEF k
    <3>. HIDE DEF X
    <3>. QED BY <3>1
  <2>. HIDE DEF X
  <2>. QED BY <2>1, <1>3
<1>8. p \in Nat \ {0} /\ Pw(i + 1) = 2 * p
  <2>. HIDE DEF i, X
  <2>. QED BY <1>3, Scale
<1>. HIDE DEF g, p
<1>9. c \in Nat /\ 2 * c <= u /\ c < u /\ u >= 4
  BY <1>2, <1>3, HalfUnit
<1>10. g < 2 * v /\ g >= -(2 * v) /\ (g >= v \/ g < -v)
  <2>. HIDE DEF v
  <2>1. g >= -Top /\ g <= Top - 1
    BY <1>2, <1>3 DEF Range5
  <2>. QED BY <2>1, <1>2, <1>3
<1>. HIDE DEF c, i
<1>11. ASSUME val.exp = i, val.fr \in NormalFractions("FP"), val.fr \in Int,
              val.fr * u - g < u, g - val.fr * u < u
       PROVE  /\ val.exp \in Int /\ val.exp >= -(4 * X) /\ val.fr \in NormalFractions("FP")
              /\ (val.fr * u) * Pw(val.exp) - f * Pw(e) < u * Pw(val.exp)
              /\ f * Pw(e) - (val.fr * u) * Pw(val.exp) < u * Pw(val.exp)
  <2>. DEFINE z == val.fr * u
  <2>1. z \in Int /\ z - g < u /\ g - z < u
    BY <1>2, <1>11
  <2>2. z * p - g * p < u * p /\ g * p - z * p < u * p
    <3>. HIDE DEF z
    <3>. QED BY <2>1, <1>2, <1>3, <1>8, Off
  <2>. QED BY <2>2, <1>3, <1>11 DEF p
<1>12. ASSUME val.exp = i + 1, val.fr \in NormalFractions("FP"), val.fr \in Int,
              2 * (val.fr * u) - g < u, g - 2 * (val.fr * u) < u
       PROVE  /\ val.exp \in Int /\ val.exp >= -(4 * X) /\ val.fr \in NormalFractions("FP")
              /\ (val.fr * u) * Pw(val.exp) - f * Pw(e) < u * Pw(val.exp)
              /\ f * Pw(e) - (val.fr * u) * Pw(val.exp) < u * Pw(val.exp)
  <2>1. /\ (val.fr * u) * (2 * p) - g * p < u * (2 * p)
        /\ g * p - (val.fr * u) * (2 * p) < u * (2 * p)
    BY <1>2, <1>3, <1>8, <1>12, OffHalf
  <2>. QED BY <2>1, <1>3, <1>7, <1>8, <1>12
<1>13. ASSUME NEW j \in Int, j \in q .. 2 * q - 1 \/ j \in 1 - 2 * q .. -q
       PROVE  j \in NormalFractions("FP")
  BY <1>13 DEF NormalFractions, q
<1>14. CASE g \div u = -Lim("FP")
  <2>1. n.exact = TRUE /\ n.number = Fpp!Number(i + 1, g + v)
    BY <1>4, <1>7, <1>14
  <2>2. m.exp = i + 1 /\ m.fr = g + v
    BY <2>1, <1>6 DEF Fpp!Number
  <2>3. val.exp = i + 1 /\ val.fr = (g + v) \div u
    BY <2>2, <1>5
  <2>4. (g + v) \div u = -q /\ g + 2 * v >= 0 /\ g + 2 * v < u
    BY <1>2, <1>3, <1>14, Replaced
  <2>5. -q \in Int /\ -q \in 1 - 2 * q .. -q
    BY <1>2
  <2>6. (-q) * u = -v
    <3>1. q \in Int /\ u \in Int
      BY <1>2
    <3>. QED BY <3>1
  <2>7. 2 * (-v) - g < u /\ g - 2 * (-v) < u
    <3>. HIDE DEF v
    <3>. QED BY <2>4, <1>2, <1>3
  <2>8. val.fr = -q
    BY <2>3, <2>4
  <2>9. 2 * (val.fr * u) - g < u /\ g - 2 * (val.fr * u) < u
    BY <2>6, <2>7, <2>8
  <2>10. val.fr \in NormalFractions("FP") /\ val.fr \in Int
    BY <2>5, <2>8, <1>13
  <2>. QED BY <2>3, <2>9, <2>10, <1>12 DEF val, u
<1>15. ASSUME g \div u # -Lim("FP") PROVE m = Fpp!fpp_round("FP", Fpp!Number(i, g))
  BY <1>4, <1>6, <1>15 DEF i
<1>16. CASE g \div u # -Lim("FP") /\ g + c >= Top
  <2>1. m = Fpp!Number(i + 1, (g + c) \div 2)
    BY <1>1, <1>3, <1>15, <1>16, Rounds DEF c
  <2>2. m.exp = i + 1 /\ m.fr = (g + c) \div 2
    BY <2>1 DEF Fpp!Number
  <2>3. val.exp = i + 1 /\ val.fr = ((g + c) \div 2) \div u
    BY <2>2, <1>5
  <2>4. ((g + c) \div 2) \div u = q /\ 2 * (q * u) - g > 0 /\ 2 * (q * u) - g < u
    <3>1. g < 2 * (q * u) /\ g + c >= 2 * (q * u)
      BY <1>2, <1>10, <1>16
    <3>2. g \in Int /\ c \in Nat /\ 2 * c <= u /\ u >= 4 /\ u \in Nat \ {0} /\ q \in Nat \ {0}
      BY <1>2, <1>3, <1>9
    <3>. QED BY <3>1, <3>2, CarriedOut
  <2>5. val.fr = q
    BY <2>3, <2>4
  <2>6. g - 2 * v < u /\ 2 * v - g < u
    <3>1. 2 * v - g > 0 /\ 2 * v - g < u
      BY <2>4
    <3>. HIDE DEF v
    <3>. QED BY <3>1, <1>2, <1>3
  <2>7. q \in Int /\ q \in q .. 2 * q - 1
    BY <1>2
  <2>8. val.fr \in NormalFractions("FP") /\ val.fr \in Int
    BY <2>5, <2>7, <1>13
  <2>. QED BY <2>3, <2>5, <2>6, <2>8, <1>12 DEF val, u
<1>17. CASE g \div u # -Lim("FP") /\ ~(g + c >= Top)
  <2>1. g + c < Top
    BY <1>2, <1>3, <1>9, <1>17
  <2>2. m = Fpp!Number(i, g + c)
    BY <2>1, <1>1, <1>3, <1>15, <1>17, Rounds DEF c
  <2>3. m.exp = i /\ m.fr = g + c
    BY <2>2 DEF Fpp!Number
  <2>4. val.exp = i /\ val.fr = (g + c) \div u
    BY <2>3, <1>5
  <2>. DEFINE j == (g + c) \div u
  <2>5. (j \in q .. 2 * q - 1 \/ j \in 1 - 2 * q .. -q) /\ j * u - g < u /\ g - j * u < u
    <3>1. g \div u # -(2 * q)
      BY <1>2, <1>17
    <3>2. g < 2 * (q * u) /\ g >= -(2 * (q * u)) /\ (g >= q * u \/ g < -(q * u)) /\ g + c < 2 * (q * u)
      BY <2>1, <1>2, <1>10
    <3>. QED BY <3>1, <3>2, <1>2, <1>3, <1>9, RoundedUp
  <2>. HIDE DEF j
  <2>6. j \in Int
    BY <2>5, <1>2
  <2>7. val.fr = j
    BY <2>4 DEF j
  <2>8. val.fr \in NormalFractions("FP") /\ val.fr \in Int
    BY <2>5, <2>6, <2>7, <1>13
  <2>. QED BY <2>4, <2>5, <2>7, <2>8, <1>11 DEF val, u
<1>. QED BY <1>14, <1>16, <1>17

\* A zero is kept as zero with exponent zero.
LEMMA KeptZero ==
    ASSUME NEW mode \in Fpp!Modes, NEW e \in Int
    PROVE  Kept5(mode, e, 0) = [exp |-> 0, fr |-> 0]
<1>1. 0 \in Range5 /\ Unit(mode) \in Nat \ {0}
  <2>1. Top \in Nat \ {0}
    BY Widths5
  <2>. HIDE DEF Top
  <2>. QED BY <2>1, Formats DEF Range5
<1>. DEFINE n == Fpp!fpp_norm(mode, Fpp!Number(e, 0))
<1>2. n = [number |-> Fpp!Number(0, 0), exact |-> TRUE]
  BY <1>1, Normalising
<1>. HIDE DEF n
<1>3. Fpp!NormRound(mode, Fpp!Number(e, 0)) = Fpp!Number(0, 0)
  BY <1>2 DEF Fpp!NormRound, n
<1>4. 0 \div Unit(mode) = 0
  <2>. DEFINE u == Unit(mode)
  <2>1. u \in Nat \ {0}
    BY <1>1
  <2>. HIDE DEF u
  <2>2. (u * 0) \div u = 0 /\ u * 0 = 0
    BY <2>1, Multiple
  <2>. QED BY <2>2 DEF u
<1>. QED BY <1>3, <1>4 DEF Kept5, Fpp!Exactly, Fpp!Number, Unit

\* Normalized, a number in EP is normalized and exact, for nothing is rounded.
LEMMA EpKeeps ==
    ASSUME NEW e \in Int, e >= -X, NEW f \in Range5, f # 0
    PROVE  LET z == Kept5("EP", e, f)
           IN  /\ z.exp \in Int /\ z.exp >= -(4 * X) /\ z.fr \in NormalFractions("EP")
               /\ z.fr * Pw(z.exp) = f * Pw(e)
<1>. DEFINE k == Fpp!Leading(f)
            g == f * Pow2[k]
            i == e - k
            u == Unit("EP")
            q == Qu("EP")
            p == Pw(i)
            n == Fpp!fpp_norm("EP", Fpp!Number(e, f))
            val == Kept5("EP", e, f)
<1>1. "EP" \in Fpp!Modes
  BY DEF Fpp!Modes
<1>2. u = 1 /\ q \in Nat \ {0} /\ Lim("EP") = 2 * q /\ Top = 2 * q
  <2>1. u = 1 /\ q \in Nat \ {0} /\ Lim("EP") = 2 * q /\ Top = Lim("EP") * u
    BY <1>1, Formats
  <2>. HIDE DEF u, q
  <2>. QED BY <2>1
<1>3. /\ g \in Range5 /\ g # 0 /\ g \in Int
      /\ 2 * g >= Top \/ 2 * g < -Top
      /\ i \in Int /\ i >= -(4 * X) /\ f * Pw(e) = g * p
  BY Shifting
<1>4. /\ g \div u = -Lim("EP") => n = [number |-> Fpp!Number(e - k + 1, g + q * u), exact |-> TRUE]
      /\ g \div u # -Lim("EP") => n = [number |-> Fpp!Number(e - k, g), exact |-> FALSE]
  BY <1>1, Normalising
<1>5. val = [exp |-> n.number.exp, fr |-> n.number.fr \div u]
  <2>1. Fpp!NormRound("EP", Fpp!Number(e, f)) = n.number
    BY DEF Fpp!NormRound, Fpp!fpp_round
  <2>. HIDE DEF n
  <2>. QED BY <2>1 DEF Kept5, Fpp!Exactly, Fpp!Number, Unit
<1>. HIDE DEF u, q, n, val, Top
<1>6. ASSUME NEW j \in Int PROVE j \div u = j
  <2>1. (1 * j) \div 1 = j /\ 1 * j = j
    BY Multiple
  <2>. QED BY <2>1, <1>2
<1>7. e - k + 1 = i + 1 /\ i + 1 \in Int /\ i + 1 >= -(4 * X)
  <2>1. X \in Nat /\ k \in Int
    <3>1. k \in 0 .. 5 * FppW - 1 /\ X \in Nat /\ FppW \in Nat
      BY Leads, Widths5
    <3>. HIDE DEF X, k
    <3>. QED BY <3>1
  <2>. HIDE DEF X, k
  <2>. QED BY <2>1, <1>3
<1>8. p \in Nat \ {0} /\ Pw(i + 1) = 2 * p
  <2>. HIDE DEF i, X
  <2>. QED BY <1>3, Scale
<1>. HIDE DEF g, p, k
<1>9. ASSUME NEW j \in Int, j \in q .. 2 * q - 1 \/ j \in 1 - 2 * q .. -q
      PROVE  j \in NormalFractions("EP")
  BY <1>9 DEF NormalFractions, q
<1>10. g >= -(2 * q) /\ g <= 2 * q - 1 /\ (g >= q \/ g < -q)
  <2>1. g >= -Top /\ g <= Top - 1
    BY <1>2, <1>3 DEF Range5
  <2>. QED BY <2>1, <1>2, <1>3
<1>. HIDE DEF i
<1>11. CASE g \div u = -Lim("EP")
  <2>1. n = [number |-> Fpp!Number(i + 1, g + q * u), exact |-> TRUE]
    BY <1>4, <1>7, <1>11
  <2>2. g = -(2 * q) /\ g + q * u = -q
    BY <1>2, <1>3, <1>6, <1>11
  <2>3. val.exp = i + 1 /\ val.fr = -q
    <3>1. val.exp = i + 1 /\ val.fr = (-q) \div u
      BY <2>1, <2>2, <1>5 DEF Fpp!Number
    <3>2. -q \in Int
      BY <1>2
    <3>. QED BY <3>1, <3>2, <1>6
  <2>4. (-q) * (2 * p) = (-(2 * q)) * p
    <3>1. q \in Int /\ p \in Int
      BY <1>2, <1>8
    <3>. QED BY <3>1
  <2>5. -q \in NormalFractions("EP")
    <3>1. -q \in Int /\ -q \in 1 - 2 * q .. -q
      BY <1>2
    <3>. QED BY <3>1, <1>9
  <2>. QED BY <2>2, <2>3, <2>4, <2>5, <1>3, <1>7, <1>8 DEF val
<1>12. CASE g \div u # -Lim("EP")
  <2>1. n = [number |-> Fpp!Number(i, g), exact |-> FALSE]
    BY <1>4, <1>12 DEF i
  <2>2. val.exp = i /\ val.fr = g
    BY <2>1, <1>3, <1>5, <1>6 DEF Fpp!Number
  <2>3. g # -(2 * q)
    BY <1>2, <1>3, <1>6, <1>12
  <2>4. g \in NormalFractions("EP")
    <3>1. g \in q .. 2 * q - 1 \/ g \in 1 - 2 * q .. -q
      BY <2>3, <1>2, <1>3, <1>10
    <3>. QED BY <3>1, <1>3, <1>9
  <2>. QED BY <2>2, <2>4, <1>3 DEF val, p
<1>. QED BY <1>11, <1>12

\* A normalized number comes back from five words as it was.
LEMMA ReturnedAsIs ==
    ASSUME NEW e \in Int, NEW f \in NormalFractions("FP")
    PROVE  Kept5("FP", e, f * Unit("FP")) = [exp |-> e, fr |-> f]
<1>. DEFINE u == Unit("FP")
            q == Qu("FP")
            v == q * u
            x == f * u
            k == Fpp!Leading(x)
            g == x * Pow2[k]
            c == HalfUp(g)
            n == Fpp!fpp_norm("FP", Fpp!Number(e, x))
            m == Fpp!NormRound("FP", Fpp!Number(e, x))
            val == Kept5("FP", e, x)
<1>1. "FP" \in Fpp!Modes \ {"EP"} /\ "FP" \in Fpp!Modes
  BY DEF Fpp!Modes
<1>2. u \in Nat \ {0} /\ u = Pow2[3 * FppW] /\ q \in Nat \ {0} /\ Lim("FP") = 2 * q
      /\ Top = 2 * v /\ v \in Nat \ {0}
  BY <1>1, Formats
<1>3. f \in q .. 2 * q - 1 \/ f \in 1 - 2 * q .. -q
  BY DEF NormalFractions
<1>4. f \in -Lim("FP") .. Lim("FP") - 1 /\ f \in Int /\ f # 0
  <2>. HIDE DEF q
  <2>. QED BY <1>2, <1>3
<1>5. x \in Range5 /\ x # 0 /\ x \in Int
  <2>1. x \in Range5 /\ x # 0
    <3>. HIDE DEF Range5
    <3>. QED BY <1>1, <1>4, ExtendedRange
  <2>2. x \in Int
    <3>. HIDE DEF u
    <3>. QED BY <1>2, <1>4
  <2>. QED BY <2>1, <2>2
<1>6. k \in 0 .. 5 * FppW - 1 /\ g \in Range5 /\ \A j \in 0 .. 5 * FppW - 1 : x * Pow2[j] \in Range5 => j <= k
  <2>. HIDE DEF x
  <2>. QED BY <1>5, Leads
<1>7. /\ g \div u = -Lim("FP") => n = [number |-> Fpp!Number(e - k + 1, g + v), exact |-> TRUE]
      /\ g \div u # -Lim("FP") => n = [number |-> Fpp!Number(e - k, g), exact |-> FALSE]
  <2>. HIDE DEF x
  <2>. QED BY <1>1, <1>5, Normalising
<1>8. val = [exp |-> m.exp, fr |-> m.fr \div u]
  BY DEF Kept5, Fpp!Exactly, Fpp!Number, Unit
<1>9. m = IF n.exact THEN n.number ELSE Fpp!fpp_round("FP", n.number)
  BY DEF Fpp!NormRound
<1>10. FppW \in Nat /\ FppW >= 2 /\ Pow2[0] = 1 /\ Pow2[1] = 2 /\ Pow2[2] = 4
  <2>1. Pow2[0] = 1 /\ Pow2[0 + 1] = 2 * Pow2[0] /\ Pow2[1 + 1] = 2 * Pow2[1]
    BY PowerRecursion
  <2>2. 0 + 1 = 1 /\ 1 + 1 = 2
    OBVIOUS
  <2>. QED BY <2>1, <2>2, Widths5
<1>. HIDE DEF u, q, n, m, val, Top, k, x
<1>11. k \in Nat /\ Pow2[k] \in Nat \ {0}
  <2>1. k \in Nat
    BY <1>6, <1>10
  <2>. QED BY <2>1, Positive
<1>12. CASE f = -q
  <2>1. x = -v
    <3>1. q \in Int /\ u \in Int
      BY <1>2
    <3>2. (-q) * u = -(q * u)
      BY <3>1
    <3>. QED BY <3>2, <1>12 DEF x
  <2>2. x * 2 = -Top /\ x * 4 = -(2 * Top)
    <3>. HIDE DEF v
    <3>. QED BY <2>1, <1>2
  <2>3. k >= 1
    <3>1. x * Pow2[1] \in Range5
      BY <2>2, <1>2, <1>10 DEF Range5
    <3>2. 1 \in 0 .. 5 * FppW - 1
      BY <1>10
    <3>. QED BY <3>1, <3>2, <1>6, <1>11
  <2>4. k < 2
    <3>1. ASSUME k >= 2 PROVE FALSE
      <4>1. 4 <= Pow2[k]
        BY <3>1, <1>10, <1>11, Growing
      <4>. DEFINE z == Pow2[k]
      <4>2. z \in Nat \ {0} /\ 4 <= z /\ -x \in Nat \ {0}
        <5>. HIDE DEF v
        <5>. QED BY <4>1, <2>1, <1>2, <1>11
      <4>. HIDE DEF z
      <4>3. 4 * (-x) <= z * (-x)
        BY <4>2, Times
      <4>4. z * (-x) = -(x * z) /\ x * z \in Int
        BY <4>2, <1>5
      <4>5. x * z >= -Top
        <5>. HIDE DEF v
        <5>. QED BY <1>2, <1>6 DEF Range5, z
      <4>. DEFINE y == x * z
      <4>6. y \in Int /\ y >= -Top /\ 4 * (-x) <= -y
        BY <4>3, <4>4, <4>5
      <4>. HIDE DEF y, v
      <4>. QED BY <4>6, <2>1, <1>2
    <3>. QED BY <3>1, <1>11
  <2>5. k = 1
    BY <2>3, <2>4, <1>11
  <2>6. g = -Top
    BY <2>2, <2>5, <1>10
  <2>7. g \div u = -Lim("FP")
    <3>1. g = u * (-(2 * q)) /\ -(2 * q) \in Int
      <4>1. u \in Int /\ q \in Int
        BY <1>2
      <4>2. u * (-(2 * q)) = -(2 * (q * u))
        BY <4>1
      <4>. QED BY <4>1, <4>2, <2>6, <1>2
    <3>2. (u * (-(2 * q))) \div u = -(2 * q)
      BY <3>1, <1>2, Multiple
    <3>. QED BY <3>1, <3>2, <1>2
  <2>8. n = [number |-> Fpp!Number(e, x), exact |-> TRUE]
    <3>1. n = [number |-> Fpp!Number(e - k + 1, g + v), exact |-> TRUE]
      BY <2>7, <1>7
    <3>2. e - k + 1 = e
      BY <2>5
    <3>3. g + v = x
      <4>. HIDE DEF v
      <4>. QED BY <2>1, <2>6, <1>2
    <3>. QED BY <3>1, <3>2, <3>3
  <2>9. m.exp = e /\ m.fr = x
    BY <2>8, <1>9 DEF Fpp!Number
  <2>10. x \div u = f
    BY <1>2, <1>4, Multiple DEF x
  <2>. QED BY <2>9, <2>10, <1>8 DEF val, x, u
<1>13. CASE f # -q
  <2>. DEFINE z == Pow2[k]
  <2>1. f >= q \/ f <= -q - 1
    BY <1>2, <1>3, <1>13
  <2>2. x >= v \/ x <= -v - u
    <3>1. q \in Int /\ -q - 1 \in Int /\ (-q - 1) * u = -(q * u) - u
      <4>1. u \in Int /\ q \in Int
        BY <1>2
      <4>. QED BY <4>1
    <3>2. CASE f >= q
      <4>1. q * u <= f * u
        BY <3>1, <3>2, <1>2, <1>4, Times
      <4>. QED BY <4>1, <1>2, <1>5 DEF x
    <3>3. CASE f <= -q - 1
      <4>1. f * u <= (-q - 1) * u
        BY <3>1, <3>3, <1>2, <1>4, Times
      <4>. QED BY <4>1, <3>1 DEF x
    <3>. QED BY <2>1, <3>2, <3>3
  <2>3. ~(k >= 1)
    <3>1. ASSUME k >= 1 PROVE FALSE
      <4>1. 2 <= z
        BY <3>1, <1>10, <1>11, Growing
      <4>2. x * z \in Int /\ x * z >= -Top /\ x * z < Top
        <5>1. x * z \in Int
          <6>. HIDE DEF z
          <6>. QED BY <1>5, <1>11 DEF z
        <5>2. x * z \in Range5
          BY <1>6
        <5>. DEFINE y == x * z
        <5>. HIDE DEF y, v
        <5>3. y \in -Top .. Top - 1 /\ y \in Int
          BY <5>1, <5>2 DEF y, Range5
        <5>4. y >= -Top /\ y < Top
          BY <5>3, <1>2
        <5>. QED BY <5>3, <5>4 DEF y
      <4>. DEFINE y == x * z
      <4>3. CASE x >= v
        <5>1. x \in Nat \ {0} /\ z \in Int
          <6>. HIDE DEF v, z
          <6>. QED BY <4>3, <1>2, <1>5, <1>11 DEF z
        <5>. HIDE DEF z, v
        <5>2. 2 * x <= z * x /\ z * x = x * z
          BY <5>1, <4>1, Times
        <5>. QED BY <5>2, <4>2, <4>3, <1>2, <1>5
      <4>4. CASE x <= -v - u
        <5>1. -x \in Nat \ {0} /\ z \in Int
          <6>. HIDE DEF v, z
          <6>. QED BY <4>4, <1>2, <1>5, <1>11 DEF z
        <5>. HIDE DEF z, v
        <5>2. 2 * (-x) <= z * (-x)
          BY <5>1, <4>1, Times
        <5>3. z * (-x) = -(x * z)
          BY <5>1, <1>5
        <5>. QED BY <5>2, <5>3, <4>2, <4>4, <1>2, <1>5
      <4>. QED BY <4>3, <4>4, <2>2
    <3>. QED BY <3>1
  <2>4. k = 0
    BY <2>3, <1>11
  <2>5. g = x
    <3>1. Pow2[k] = 1
      BY <2>4, <1>10
    <3>. QED BY <3>1, <1>5
  <2>6. x \div u = f
    BY <1>2, <1>4, Multiple DEF x
  <2>7. g \div u # -Lim("FP")
    BY <2>5, <2>6, <1>2, <1>3
  <2>8. n = [number |-> Fpp!Number(e, x), exact |-> FALSE]
    <3>1. e - k = e
      BY <2>4
    <3>. QED BY <3>1, <2>5, <2>7, <1>7
  <2>9. c \in Nat /\ c < u
    <3>. HIDE DEF g
    <3>. QED BY <1>2, <1>6, HalfUnit
  <2>10. x + c < Top
    <3>1. f <= 2 * q - 1
      BY <1>2, <1>3
    <3>2. 2 * q - 1 \in Int /\ (2 * q - 1) * u = 2 * (q * u) - u
      <4>1. u \in Int /\ q \in Int
        BY <1>2
      <4>. QED BY <4>1
    <3>3. f * u <= (2 * q - 1) * u
      BY <3>1, <3>2, <1>2, <1>4, Times
    <3>4. x <= 2 * v - u
      BY <3>2, <3>3 DEF x
    <3>. HIDE DEF v, c
    <3>. QED BY <3>4, <2>9, <1>2, <1>5
  <2>11. m = Fpp!Number(e, x + c)
    <3>1. m = Fpp!fpp_round("FP", Fpp!Number(e, x))
      BY <2>8, <1>9
    <3>2. c = HalfUp(x)
      BY <2>5
    <3>. HIDE DEF c, g
    <3>. QED BY <3>1, <3>2, <2>10, <1>1, <1>5, Rounds
  <2>12. (x + c) \div u = f
    <3>1. c \in 0 .. u - 1
      BY <2>9, <1>2
    <3>2. (u * f + c) \div u = f
      BY <3>1, <1>2, <1>4, Splits
    <3>3. x = u * f
      BY <1>2, <1>4 DEF x
    <3>. QED BY <3>2, <3>3
  <2>13. m.exp = e /\ m.fr = x + c
    BY <2>11 DEF Fpp!Number
  <2>. QED BY <2>12, <2>13, <1>8 DEF val, x, u
<1>. QED BY <1>12, <1>13

----------------------------------------------------------------------------
(* How far aligning is off.                                                *)

\* The sum of two fractions in FP at their exponents, aligned, is exact.
ExactlyAligned(e1, f1, e2, f2) ==
    LET u == Unit("FP")
        s == Fpp!Aligned("FP", Fpp!Number(e1, f1 * u), Fpp!Number(e2, f2 * u))
    IN  s.fr * Pw(s.exp) = (f1 * u) * Pw(e1) + (f2 * u) * Pw(e2)

\* The guard words hold all that aligning shifts out.
LEMMA FpAligned ==
    ASSUME NEW e1 \in Int, NEW e2 \in Int, e2 >= -X, e1 >= e2, e1 - e2 <= 2 * FppW,
           NEW f1 \in Int, NEW f2 \in Int
    PROVE  ExactlyAligned(e1, f1, e2, f2)
<1>. DEFINE u == Unit("FP")
            d == e1 - e2
            p == Pow2[d]
            c == 3 * FppW - d
            h == Pow2[c - 1]
            P == Pw(e1)
            R == Pw(e2)
            x == f1 * u
            y == f2 * u
            sum == x + y \div p
            s == Fpp!Aligned("FP", Fpp!Number(e1, x), Fpp!Number(e2, y))
<1>1. FppW \in Nat /\ FppW >= 2 /\ X \in Nat
  BY Widths5
<1>2. d \in Nat /\ d <= 2 * FppW /\ c - 1 \in Nat /\ (c - 1) + 1 = c /\ d + c = 3 * FppW /\ e2 + d = e1
      /\ e2 >= -(4 * X) /\ e1 >= -(4 * X)
  <2>. HIDE DEF X
  <2>. QED BY <1>1
<1>3. p \in Nat \ {0} /\ h \in Nat \ {0} /\ u = (2 * h) * p
  <2>1. "FP" \in Fpp!Modes
    BY DEF Fpp!Modes
  <2>2. u = Pow2[3 * FppW]
    BY <2>1, Formats
  <2>. HIDE DEF d, c, u
  <2>3. c \in Nat
    BY <1>2
  <2>4. Pow2[d + c] = Pow2[d] * Pow2[c] /\ Pow2[(c - 1) + 1] = 2 * Pow2[c - 1]
    BY <2>3, <1>2, Product, PowerRecursion
  <2>5. Pow2[c] = 2 * h /\ Pow2[d + c] = u
    BY <2>2, <2>4, <1>2
  <2>6. p \in Nat \ {0} /\ h \in Nat \ {0}
    BY <1>2, Positive
  <2>7. p * (2 * h) = (2 * h) * p
    BY <2>6
  <2>. QED BY <2>4, <2>5, <2>6, <2>7
<1>4. R \in Nat \ {0} /\ P \in Nat \ {0} /\ P = R * p /\ Pw(e1 + 1) = 2 * P
  <2>. HIDE DEF d, X
  <2>1. Pw(e2 + d) = Pw(e2) * Pow2[d] /\ Pw(e2) \in Nat \ {0}
    BY <1>2, Scale
  <2>2. Pw(e1) \in Nat \ {0} /\ Pw(e1 + 1) = 2 * Pw(e1)
    BY <1>2, Scale
  <2>. QED BY <2>1, <2>2, <1>2
<1>5. s = Fpp!Number(e1 + 1, sum \div 2) \/ s = Fpp!Number(e1, sum)
  <2>1. ~(d > Fpp!Overshift("FP"))
    BY <1>1, <1>2 DEF Fpp!Overshift
  <2>2. s = IF ((x < 0) = (y < 0)) /\ (x < 0 \/ sum >= Fpp!Half)
            THEN Fpp!Number(e1 + 1, sum \div 2) ELSE Fpp!Number(e1, sum)
    BY <2>1, SamePowers DEF Fpp!Aligned, Fpp!Number
  <2>. HIDE DEF s, sum, x, y
  <2>. QED BY <2>2
<1>. HIDE DEF u, d, p, h, P, R, s
<1>6. y \div p = f2 * (2 * h) /\ y = (f2 * (2 * h)) * p
  <2>1. y = (f2 * (2 * h)) * p /\ f2 * (2 * h) \in Int
    BY <1>3
  <2>2. ((f2 * (2 * h)) * p) \div p = f2 * (2 * h)
    BY <2>1, <1>3, Multiple
  <2>. QED BY <2>1, <2>2
<1>. DEFINE t == f2 * h
            z == f1 * (h * p) + t
<1>7. t \in Int /\ z \in Int
  BY <1>3
<1>8. sum = 2 * z
  <2>1. x = 2 * (f1 * (h * p)) /\ f2 * (2 * h) = 2 * t /\ f1 * (h * p) \in Int
    BY <1>3
  <2>. QED BY <2>1, <1>6, <1>7
<1>9. x * P + y * R = (2 * z) * P
  <2>1. y * R = (2 * t) * P
    <3>1. y = (2 * t) * p
      <4>1. f2 * (2 * h) = 2 * t
        BY <1>3
      <4>. QED BY <4>1, <1>6
    <3>. HIDE DEF t, y
    <3>2. ((2 * t) * p) * R = (2 * t) * (R * p)
      BY <1>3, <1>4, <1>7
    <3>. QED BY <3>1, <3>2, <1>4
  <2>2. x = 2 * (f1 * (h * p)) /\ f1 * (h * p) \in Int
    BY <1>3
  <2>. DEFINE b == f1 * (h * p)
  <2>3. x = 2 * b /\ b \in Int /\ z = b + t
    BY <2>2
  <2>. HIDE DEF b, t, x, y, z
  <2>4. (2 * b) * P + (2 * t) * P = (2 * (b + t)) * P
    BY <2>3, <1>4, <1>7
  <2>. QED BY <2>1, <2>3, <2>4
<1>. HIDE DEF sum, z
<1>10. sum \div 2 = z
  <2>1. (2 * z) \div 2 = z
    BY <1>7, Multiple
  <2>. QED BY <2>1, <1>8
<1>11. s.fr * Pw(s.exp) = (2 * z) * P
  <2>1. CASE s = Fpp!Number(e1, sum)
    BY <2>1, <1>8 DEF Fpp!Number, P
  <2>2. CASE s = Fpp!Number(e1 + 1, sum \div 2)
    <3>1. s.exp = e1 + 1 /\ s.fr = z
      BY <2>2, <1>10 DEF Fpp!Number
    <3>2. z * (2 * P) = (2 * z) * P
      BY <1>4, <1>7
    <3>. QED BY <3>1, <3>2, <1>4
  <2>. QED BY <2>1, <2>2, <1>5
<1>15. s.fr * Pw(s.exp) = x * P + y * R
  BY <1>9, <1>11
<1>. QED BY <1>15, Zenon DEF ExactlyAligned, s, x, y, P, R, u

\* In extended precision what is shifted out is lost, less than one unit of the sum.
LEMMA EpAligned ==
    ASSUME NEW e1 \in Int, NEW e2 \in Int, e2 >= -X, e1 >= e2, e1 - e2 <= 5 * FppW - 1,
           NEW f1 \in Int, NEW f2 \in Int
    PROVE  LET s == Fpp!Aligned("EP", Fpp!Number(e1, f1), Fpp!Number(e2, f2))
               lost == (f1 * Pw(e1) + f2 * Pw(e2)) - s.fr * Pw(s.exp)
           IN  lost >= 0 /\ lost < 2 * Pw(e1)
<1>. DEFINE d == e1 - e2
            p == Pow2[d]
            P == Pw(e1)
            R == Pw(e2)
            t == f2 \div p
            m == f2 % p
            sum == f1 + t
            s == Fpp!Aligned("EP", Fpp!Number(e1, f1), Fpp!Number(e2, f2))
<1>1. FppW \in Nat /\ FppW >= 2 /\ X \in Nat
  BY Widths5
<1>2. d \in Nat /\ d <= 5 * FppW - 1 /\ e2 + d = e1 /\ e2 >= -(4 * X) /\ e1 >= -(4 * X)
  <2>. HIDE DEF X
  <2>. QED BY <1>1
<1>3. p \in Nat \ {0}
  <2>. HIDE DEF d
  <2>. QED BY <1>2, Positive
<1>4. R \in Nat \ {0} /\ P \in Nat \ {0} /\ P = R * p /\ Pw(e1 + 1) = 2 * P
  <2>. HIDE DEF d, X
  <2>1. Pw(e2 + d) = Pw(e2) * Pow2[d] /\ Pw(e2) \in Nat \ {0}
    BY <1>2, Scale
  <2>2. Pw(e1) \in Nat \ {0} /\ Pw(e1 + 1) = 2 * Pw(e1)
    BY <1>2, Scale
  <2>. QED BY <2>1, <2>2, <1>2
<1>5. s = Fpp!Number(e1 + 1, sum \div 2) \/ s = Fpp!Number(e1, sum)
  <2>1. ~(d > Fpp!Overshift("EP"))
    BY <1>1, <1>2 DEF Fpp!Overshift, Fpp!EXTEND
  <2>2. s = IF ((f1 < 0) = (f2 < 0)) /\ (f1 < 0 \/ sum >= Fpp!Half)
            THEN Fpp!Number(e1 + 1, sum \div 2) ELSE Fpp!Number(e1, sum)
    BY <2>1, SamePowers DEF Fpp!Aligned, Fpp!Number
  <2>. HIDE DEF s, sum
  <2>. QED BY <2>2
<1>. HIDE DEF d, p, P, R, s
<1>6. t \in Int /\ m \in 0 .. p - 1 /\ m \in Int /\ f2 = p * t + m
  <2>1. t \in Int /\ m \in 0 .. p - 1 /\ f2 = p * t + m
    BY <1>3, Division
  <2>. HIDE DEF t, m
  <2>. QED BY <2>1, <1>3
<1>. HIDE DEF t, m
<1>. DEFINE n == m * R
            whole == sum * P
<1>7. n \in Int /\ n >= 0 /\ n < P
  <2>1. 0 * R <= m * R /\ 0 * R = 0
    BY <1>3, <1>4, <1>6, Times
  <2>2. m < p /\ p \in Int
    BY <1>3, <1>6
  <2>3. m * R < p * R /\ p * R = R * p
    BY <2>2, <1>4, <1>6, Times
  <2>. QED BY <2>1, <2>3, <1>4, <1>6
<1>8. f1 * P + f2 * R = whole + n /\ whole \in Int /\ sum \in Int
  <2>1. f2 * R = t * P + m * R
    <3>1. (p * t + m) * R = t * (R * p) + m * R
      BY <1>3, <1>4, <1>6
    <3>. QED BY <3>1, <1>4, <1>6
  <2>2. (f1 + t) * P = f1 * P + t * P
    BY <1>4, <1>6
  <2>3. f1 * P \in Int /\ t * P \in Int /\ m * R \in Int /\ sum \in Int
    BY <1>4, <1>6
  <2>. QED BY <2>1, <2>2, <2>3
<1>. HIDE DEF sum, n
<1>9. s.fr * Pw(s.exp) <= whole /\ s.fr * Pw(s.exp) >= whole - P /\ s.fr * Pw(s.exp) \in Int
  <2>1. CASE s = Fpp!Number(e1, sum)
    <3>1. s.fr * Pw(s.exp) = whole
      BY <2>1 DEF Fpp!Number, P
    <3>. HIDE DEF whole
    <3>. QED BY <3>1, <1>4, <1>8
  <2>2. CASE s = Fpp!Number(e1 + 1, sum \div 2)
    <3>. DEFINE z == sum \div 2
                b == sum % 2
    <3>1. z \in Int /\ b \in 0 .. 1 /\ b \in Int /\ sum = 2 * z + b
      BY <1>8
    <3>. HIDE DEF z, b
    <3>2. s.fr * Pw(s.exp) = z * (2 * P)
      BY <2>2, <1>4 DEF Fpp!Number, z
    <3>3. whole = z * (2 * P) + b * P
      <4>1. (2 * z + b) * P = z * (2 * P) + b * P
        BY <3>1, <1>4
      <4>. QED BY <4>1, <3>1
    <3>4. b * P = 0 \/ b * P = P
      BY <3>1, <1>4
    <3>5. z * (2 * P) \in Int
      BY <3>1, <1>4
    <3>. DEFINE y == z * (2 * P)
                x == b * P
    <3>6. y \in Int /\ x \in {0, P} /\ whole = y + x /\ s.fr * Pw(s.exp) = y
      BY <3>2, <3>3, <3>4, <3>5
    <3>. HIDE DEF y, x, whole
    <3>7. y <= whole /\ y >= whole - P
      BY <3>6, <1>4
    <3>. QED BY <3>6, <3>7
  <2>. QED BY <2>1, <2>2, <1>5
<1>. DEFINE kept == s.fr * Pw(s.exp)
            lost == (f1 * P + f2 * R) - kept
<1>10. lost = (whole + n) - kept
  BY <1>8
<1>11. kept \in Int /\ kept <= whole /\ kept >= whole - P
  BY <1>9
<1>. HIDE DEF kept, whole, lost
<1>12. lost >= 0 /\ lost < 2 * P
  BY <1>4, <1>7, <1>8, <1>10, <1>11
<1>. QED BY <1>12 DEF lost, kept, s, P, R

\* Beyond the overshift there is less than a unit to add.
LEMMA TooSmall ==
    ASSUME NEW mode \in Fpp!Modes, NEW e1 \in Int, NEW e2 \in Int, e2 >= -X,
           e1 - e2 >= Fpp!EXACT(mode) - 1, NEW f \in NormalFractions(mode)
    PROVE  f \in Int /\ f * Pw(e2) < Pw(e1) /\ -Pw(e1) < f * Pw(e2)
<1>. DEFINE q == Qu(mode)
            E == Fpp!EXACT(mode)
            h == Lim(mode)
            d == e1 - e2
            p == Pow2[d]
            P == Pw(e1)
            R == Pw(e2)
<1>1. q \in Nat \ {0} /\ h = 2 * q /\ E \in Nat /\ E >= 4 /\ h \in Nat \ {0}
  BY Formats
<1>2. f \in q .. 2 * q - 1 \/ f \in 1 - 2 * q .. -q
  BY DEF NormalFractions
<1>3. h = Pow2[E - 1]
  BY DEF Lim
<1>. HIDE DEF q, h
<1>4. f \in Int /\ f < h /\ -h < f
  BY <1>1, <1>2
<1>5. d \in Nat /\ d >= E - 1 /\ E - 1 \in Nat /\ e2 + d = e1 /\ e2 >= -(4 * X)
  <2>1. X \in Nat /\ d >= E - 1
    BY Widths5
  <2>. HIDE DEF X, E
  <2>. QED BY <2>1, <1>1
<1>. HIDE DEF d, E
<1>6. h <= p /\ p \in Nat \ {0}
  BY <1>3, <1>5, Growing, Positive
<1>7. R \in Nat \ {0} /\ P = R * p
  <2>. HIDE DEF X
  <2>1. Pw(e2 + d) = Pw(e2) * Pow2[d] /\ Pw(e2) \in Nat \ {0}
    BY <1>5, Scale
  <2>. QED BY <2>1, <1>5
<1>. HIDE DEF p, P, R
<1>8. f < p /\ -p < f /\ -p \in Int
  BY <1>1, <1>4, <1>6
<1>9. f * R < p * R /\ (-p) * R < f * R
  BY <1>4, <1>6, <1>7, <1>8, Times
<1>10. p * R = R * p /\ (-p) * R = -(R * p)
  BY <1>6, <1>7
<1>. QED BY <1>4, <1>7, <1>9, <1>10 DEF P, R

----------------------------------------------------------------------------
(* The floating sum.                                                       *)

\* A normalized fraction fits its format, is not zero and has an opposite.
LEMMA OfNormal ==
    ASSUME NEW mode \in Fpp!Modes, NEW f \in NormalFractions(mode)
    PROVE  f \in Int /\ f # 0 /\ f \in -Lim(mode) .. Lim(mode) - 1 /\ f # -Lim(mode)
           /\ -f \in NormalFractions(mode)
<1>. DEFINE q == Qu(mode)
            h == Lim(mode)
<1>1. q \in Nat \ {0} /\ h = 2 * q
  BY Formats
<1>2. f \in q .. 2 * q - 1 \/ f \in 1 - 2 * q .. -q
  BY DEF NormalFractions
<1>3. ASSUME NEW i \in Int, i \in q .. 2 * q - 1 \/ i \in 1 - 2 * q .. -q
      PROVE  i \in NormalFractions(mode)
  BY <1>3 DEF NormalFractions
<1>. HIDE DEF q, h
<1>4. f \in Int /\ f # 0 /\ f \in -h .. h - 1 /\ f # -h
  BY <1>1, <1>2
<1>5. -f \in Int /\ (-f \in q .. 2 * q - 1 \/ -f \in 1 - 2 * q .. -q)
  BY <1>1, <1>2
<1>6. -f \in NormalFractions(mode)
  BY <1>3, <1>5
<1>. QED BY <1>4, <1>6 DEF h

\* A normalized result.
Sound(mode, z) ==
    /\ z.exp \in Int /\ z.exp >= -(4 * X)
    /\ (z.fr = 0 /\ z.exp = 0) \/ z.fr \in NormalFractions(mode)

\* The sum of two numbers, the first with the larger exponent.
Ordered(mode, e1, f1, e2, f2) ==
    Fpp!Exactly(mode, Fpp!NormRound(mode,
        Fpp!Aligned(mode, Fpp!Number(e1, f1 * Unit(mode)), Fpp!Number(e2, f2 * Unit(mode)))))

\* The sum of two ordered operands is aligned, normalized and rounded.
LEMMA OrderedSum ==
    ASSUME NEW mode \in Fpp!Modes, NEW e1 \in Int, NEW e2 \in Int, e2 >= -X, e1 >= e2,
           NEW f1 \in NormalFractions(mode), NEW f2 \in NormalFractions(mode)
    PROVE  LET s == Fpp!Aligned(mode, Fpp!Number(e1, f1 * Unit(mode)),
                                      Fpp!Number(e2, f2 * Unit(mode)))
           IN  /\ s.exp \in Int /\ s.exp >= -X /\ s.fr \in Range5
               /\ Ordered(mode, e1, f1, e2, f2) = Kept5(mode, s.exp, s.fr)
<1>. DEFINE x == Fpp!Number(e1, f1 * Unit(mode))
            y == Fpp!Number(e2, f2 * Unit(mode))
            s == Fpp!Aligned(mode, x, y)
<1>1. x \in Numbers /\ y \in Numbers /\ x.exp = e1 /\ y.exp = e2
  <2>1. f1 \in -Lim(mode) .. Lim(mode) - 1 /\ f2 \in -Lim(mode) .. Lim(mode) - 1
    BY OfNormal
  <2>2. f1 * Unit(mode) \in Range5 /\ f2 * Unit(mode) \in Range5
    BY <2>1, ExtendedRange
  <2>. DEFINE g == f1 * Unit(mode)
              h == f2 * Unit(mode)
  <2>. HIDE DEF g, h, Range5
  <2>3. Fpp!Number(e1, g) \in Numbers /\ Fpp!Number(e2, h) \in Numbers
    BY <2>2 DEF g, h, Fpp!Number, Numbers
  <2>4. Fpp!Number(e1, g).exp = e1 /\ Fpp!Number(e2, h).exp = e2
    BY DEF Fpp!Number
  <2>. QED BY <2>3, <2>4 DEF g, h
<1>. HIDE DEF x, y
<1>2. s \in Numbers /\ s.exp >= e1
  BY <1>1, AlignedRange
<1>3. X \in Nat
  BY Widths5
<1>. HIDE DEF s, X
<1>4. s.exp \in Int /\ s.fr \in Range5 /\ s = Fpp!Number(s.exp, s.fr)
  <2>. HIDE DEF Range5
  <2>. QED BY <1>2 DEF Numbers, Fpp!Number
<1>5. s.exp >= -X
  BY <1>2, <1>3, <1>4
<1>6. Ordered(mode, e1, f1, e2, f2) = Kept5(mode, s.exp, s.fr)
  <2>1. Ordered(mode, e1, f1, e2, f2) = Fpp!Exactly(mode, Fpp!NormRound(mode, s))
    BY DEF Ordered, s, x, y
  <2>. QED BY <2>1, <1>4 DEF Kept5
<1>. QED BY <1>4, <1>5, <1>6 DEF s, x, y

\* In FP the sum is less than one unit of the result off.
LEMMA FpSum ==
    ASSUME NEW e1 \in Int, NEW e2 \in Int, e2 >= -X, e1 >= e2,
           NEW f1 \in NormalFractions("FP"), NEW f2 \in NormalFractions("FP")
    PROVE  LET z == Ordered("FP", e1, f1, e2, f2)
               v == z.fr * Pw(z.exp)
               exact == f1 * Pw(e1) + f2 * Pw(e2)
           IN  Sound("FP", z) /\ v - exact < Pw(z.exp) /\ exact - v < Pw(z.exp)
<1>. DEFINE u == Unit("FP")
            s == Fpp!Aligned("FP", Fpp!Number(e1, f1 * u), Fpp!Number(e2, f2 * u))
            z == Ordered("FP", e1, f1, e2, f2)
            P == Pw(e1)
            R == Pw(e2)
            Z == Pw(z.exp)
            exact == f1 * P + f2 * R
<1>1. "FP" \in Fpp!Modes /\ X \in Nat \ {0} /\ FppW \in Nat /\ FppW >= 2
  BY Widths5 DEF Fpp!Modes
<1>2. u \in Nat \ {0} /\ Fpp!EXACT("FP") = 2 * FppW
  BY <1>1, Formats
<1>3. f1 \in Int /\ f2 \in Int
  BY <1>1, OfNormal
<1>4. s.exp \in Int /\ s.exp >= -X /\ s.fr \in Range5 /\ z = Kept5("FP", s.exp, s.fr)
  BY <1>1, OrderedSum
<1>5. e1 >= -(4 * X) /\ e2 >= -(4 * X) /\ 0 >= -(4 * X) /\ 0 \in Int
  <2>. HIDE DEF X
  <2>. QED BY <1>1
<1>6. P \in Nat \ {0} /\ R \in Nat \ {0} /\ Pw(0) \in Nat \ {0}
  <2>. HIDE DEF X
  <2>. QED BY <1>5, Scale
<1>. HIDE DEF u, P, R, X
<1>7. CASE e1 - e2 <= 2 * FppW
  <2>1. s.fr * Pw(s.exp) = (f1 * u) * P + (f2 * u) * R
    <3>1. e1 - e2 <= 2 * FppW
      BY <1>7
    <3>2. ExactlyAligned(e1, f1, e2, f2)
      BY <3>1, <1>3, FpAligned
    <3>. QED BY <3>2, Zenon DEF ExactlyAligned, s, u, P, R
  <2>2. (f1 * u) * P + (f2 * u) * R = exact * u /\ exact \in Int
    <3>1. (f1 * u) * P + (f2 * u) * R = (f1 * P + f2 * R) * u
      BY <1>2, <1>3, <1>6
    <3>2. f1 * P \in Int /\ f2 * R \in Int
      BY <1>3, <1>6
    <3>. QED BY <3>1, <3>2
  <2>. HIDE DEF exact, s
  <2>3. CASE s.fr = 0
    <3>1. z = [exp |-> 0, fr |-> 0]
      BY <2>3, <1>1, <1>4, KeptZero
    <3>2. s.fr * Pw(s.exp) = 0
      <4>1. Pw(s.exp) \in Int
        <5>1. s.exp \in Int /\ s.exp >= -(4 * X)
          BY <1>1, <1>4
        <5>. QED BY <5>1, Scale
      <4>. QED BY <4>1, <2>3
    <3>3. exact = 0
      <4>1. exact * u = 0 * u
        BY <3>2, <2>1, <2>2, <1>2
      <4>. QED BY <4>1, <2>2, <1>2, Times
    <3>. HIDE DEF z
    <3>4. z.exp = 0 /\ z.fr = 0
      BY <3>1
    <3>5. z.fr * Z = 0
      BY <3>4, <1>6
    <3>6. Sound("FP", z)
      BY <3>4, <1>5 DEF Sound
    <3>. QED BY <3>3, <3>4, <3>5, <3>6, <1>6 DEF exact, z, P, R
  <2>4. CASE s.fr # 0
    <3>1. /\ z.exp \in Int /\ z.exp >= -(4 * X) /\ z.fr \in NormalFractions("FP")
          /\ (z.fr * u) * Z - s.fr * Pw(s.exp) < u * Z
          /\ s.fr * Pw(s.exp) - (z.fr * u) * Z < u * Z
      BY <2>4, <1>4, FpRounds DEF u
    <3>. HIDE DEF z
    <3>2. z.fr \in Int
      BY <3>1, <1>1, OfNormal
    <3>3. Z \in Nat \ {0}
      BY <3>1, Scale
    <3>. DEFINE v == z.fr * Z
    <3>4. v \in Int
      BY <3>2, <3>3
    <3>5. (z.fr * u) * Z = v * u /\ u * Z = Z * u
      BY <3>2, <3>3, <1>2
    <3>6. v * u - exact * u < Z * u /\ exact * u - v * u < Z * u
      BY <3>1, <3>5, <2>1, <2>2
    <3>. HIDE DEF v, Z
    <3>7. v - exact \in Int /\ (v - exact) * u = v * u - exact * u
      BY <3>4, <2>2, <1>2
    <3>8. exact - v \in Int /\ (exact - v) * u = exact * u - v * u
      BY <3>4, <2>2, <1>2
    <3>9. v - exact < Z /\ exact - v < Z
      BY <3>3, <3>6, <3>7, <3>8, <1>2, Times
    <3>10. Sound("FP", z)
      BY <3>1 DEF Sound
    <3>. QED BY <3>9, <3>10 DEF v, Z, z, exact, P, R
  <2>. QED BY <2>3, <2>4
<1>8. CASE ~(e1 - e2 <= 2 * FppW)
  <2>1. e1 - e2 > 2 * FppW
    BY <1>1, <1>8
  <2>2. s = Fpp!Number(e1, f1 * u)
    <3>1. e1 - e2 > Fpp!Overshift("FP")
      BY <2>1 DEF Fpp!Overshift
    <3>. QED BY <3>1 DEF Fpp!Aligned, Fpp!Number
  <2>3. z = [exp |-> e1, fr |-> f1]
    <3>1. s.exp = e1 /\ s.fr = f1 * u
      BY <2>2 DEF Fpp!Number
    <3>2. z = Kept5("FP", e1, f1 * u)
      BY <3>1, <1>4
    <3>. QED BY <3>2, ReturnedAsIs DEF u
  <2>. HIDE DEF z
  <2>4. z.exp = e1 /\ z.fr = f1
    BY <2>3
  <2>5. f2 * R < P /\ -P < f2 * R
    <3>1. e1 - e2 >= Fpp!EXACT("FP") - 1
      BY <2>1, <1>1, <1>2
    <3>. QED BY <3>1, <1>1, TooSmall DEF P, R
  <2>6. f1 * P \in Int /\ f2 * R \in Int
    BY <1>3, <1>6
  <2>. DEFINE b == f1 * P
              c == f2 * R
  <2>7. b - (b + c) < P /\ (b + c) - b < P
    <3>1. b \in Int /\ c \in Int /\ c < P /\ -P < c
      BY <2>5, <2>6
    <3>. HIDE DEF b, c
    <3>. QED BY <3>1, <1>6
  <2>8. Sound("FP", z)
    BY <2>4, <1>5 DEF Sound
  <2>. QED BY <2>4, <2>7, <2>8 DEF z, P, R
<1>. QED BY <1>7, <1>8

\* In EP it is less than two units of the greater operand off.
LEMMA EpSum ==
    ASSUME NEW e1 \in Int, NEW e2 \in Int, e2 >= -X, e1 >= e2,
           NEW f1 \in NormalFractions("EP"), NEW f2 \in NormalFractions("EP")
    PROVE  LET z == Ordered("EP", e1, f1, e2, f2)
               v == z.fr * Pw(z.exp)
               exact == f1 * Pw(e1) + f2 * Pw(e2)
           IN  Sound("EP", z) /\ v - exact < 2 * Pw(e1) /\ exact - v < 2 * Pw(e1)
<1>. DEFINE u == Unit("EP")
            s == Fpp!Aligned("EP", Fpp!Number(e1, f1 * u), Fpp!Number(e2, f2 * u))
            z == Ordered("EP", e1, f1, e2, f2)
            P == Pw(e1)
            R == Pw(e2)
            v == z.fr * Pw(z.exp)
            exact == f1 * P + f2 * R
<1>1. "EP" \in Fpp!Modes /\ X \in Nat \ {0} /\ FppW \in Nat /\ FppW >= 2
  BY Widths5 DEF Fpp!Modes
<1>2. u = 1 /\ Fpp!EXACT("EP") = 5 * FppW
  BY <1>1, Formats
<1>3. f1 \in Int /\ f2 \in Int /\ f1 # 0
  BY <1>1, OfNormal
<1>4. s.exp \in Int /\ s.exp >= -X /\ s.fr \in Range5 /\ z = Kept5("EP", s.exp, s.fr)
  BY <1>1, OrderedSum
<1>5. e1 >= -(4 * X) /\ e2 >= -(4 * X) /\ 0 >= -(4 * X) /\ 0 \in Int
  <2>. HIDE DEF X
  <2>. QED BY <1>1
<1>6. P \in Nat \ {0} /\ R \in Nat \ {0} /\ Pw(0) \in Nat \ {0}
  <2>. HIDE DEF X
  <2>. QED BY <1>5, Scale
<1>7. f1 * u = f1 /\ f2 * u = f2
  BY <1>2, <1>3
<1>8. s = Fpp!Aligned("EP", Fpp!Number(e1, f1), Fpp!Number(e2, f2))
  BY <1>7
<1>. HIDE DEF u, P, R, X, s
<1>9. f1 * P \in Int /\ f2 * R \in Int
  BY <1>3, <1>6
<1>10. CASE e1 - e2 <= 5 * FppW - 1
  <2>. DEFINE kept == s.fr * Pw(s.exp)
              lost == exact - kept
  <2>1. lost >= 0 /\ lost < 2 * P
    <3>1. e1 - e2 <= 5 * FppW - 1
      BY <1>10
    <3>. QED BY <3>1, <1>3, <1>8, EpAligned DEF P, R
  <2>2. kept \in Int
    <3>1. s.exp \in Int /\ s.exp >= -(4 * X)
      BY <1>1, <1>4
    <3>2. Pw(s.exp) \in Int
      BY <3>1, Scale
    <3>3. s.fr \in Int
      <4>1. Top \in Nat
        BY Widths5
      <4>. HIDE DEF Top
      <4>. QED BY <4>1, <1>4 DEF Range5
    <3>. QED BY <3>2, <3>3
  <2>3. exact \in Int
    BY <1>9
  <2>4. v = kept /\ Sound("EP", z)
    <3>1. CASE s.fr = 0
      <4>1. z = [exp |-> 0, fr |-> 0]
        BY <3>1, <1>1, <1>4, KeptZero
      <4>. HIDE DEF z
      <4>2. z.exp = 0 /\ z.fr = 0
        BY <4>1
      <4>3. Pw(s.exp) \in Int
        <5>1. s.exp \in Int /\ s.exp >= -(4 * X)
          BY <1>1, <1>4
        <5>. QED BY <5>1, Scale
      <4>4. v = 0 /\ kept = 0
        BY <4>2, <4>3, <3>1, <1>6
      <4>5. Sound("EP", z)
        BY <4>2, <1>5 DEF Sound
      <4>. QED BY <4>4, <4>5 DEF z
    <3>2. CASE s.fr # 0
      <4>1. z.exp \in Int /\ z.exp >= -(4 * X) /\ z.fr \in NormalFractions("EP") /\ v = kept
        BY <3>2, <1>4, EpKeeps
      <4>. HIDE DEF z, v
      <4>. QED BY <4>1 DEF Sound
    <3>. QED BY <3>1, <3>2
  <2>. HIDE DEF kept, v, exact, z
  <2>5. v - exact < 2 * P /\ exact - v < 2 * P
    BY <2>1, <2>2, <2>3, <2>4, <1>6
  <2>. QED BY <2>4, <2>5 DEF v, exact, z, P, R
<1>11. CASE ~(e1 - e2 <= 5 * FppW - 1)
  <2>1. e1 - e2 > 5 * FppW - 1
    BY <1>1, <1>11
  <2>2. s = Fpp!Number(e1, f1)
    <3>1. e1 - e2 > Fpp!Overshift("EP")
      BY <2>1 DEF Fpp!Overshift, Fpp!EXTEND
    <3>. QED BY <3>1, <1>8 DEF Fpp!Aligned, Fpp!Number
  <2>3. /\ z.exp \in Int /\ z.exp >= -(4 * X) /\ z.fr \in NormalFractions("EP")
        /\ v = f1 * P
    <3>1. s.exp = e1 /\ s.fr = f1
      BY <2>2 DEF Fpp!Number
    <3>2. z = Kept5("EP", e1, f1) /\ f1 \in Range5
      BY <3>1, <1>4
    <3>3. e1 >= -X
      BY <1>1
    <3>. QED BY <3>2, <3>3, <1>3, EpKeeps DEF P
  <2>4. f2 * R < P /\ -P < f2 * R
    <3>1. e1 - e2 >= Fpp!EXACT("EP") - 1
      BY <2>1, <1>1, <1>2
    <3>. QED BY <3>1, <1>1, TooSmall DEF P, R
  <2>. DEFINE b == f1 * P
              c == f2 * R
  <2>5. b - (b + c) < 2 * P /\ (b + c) - b < 2 * P
    <3>1. b \in Int /\ c \in Int /\ c < P /\ -P < c
      BY <2>4, <1>9
    <3>. HIDE DEF b, c
    <3>. QED BY <3>1, <1>6
  <2>. HIDE DEF z, v
  <2>6. Sound("EP", z)
    BY <2>3 DEF Sound
  <2>. QED BY <2>3, <2>5, <2>6 DEF z, v, P, R
<1>. QED BY <1>10, <1>11

\* The unit grows with the exponent.
LEMMA Wider == \A e, m \in Int : e >= -(4 * X) /\ e <= m => Pw(e) <= Pw(m) /\ Pw(m) \in Nat \ {0}
<1>. SUFFICES ASSUME NEW e \in Int, NEW m \in Int, e >= -(4 * X), e <= m
              PROVE  Pw(e) <= Pw(m) /\ Pw(m) \in Nat \ {0}
  OBVIOUS
<1>1. X \in Nat
  BY Widths5
<1>. HIDE DEF X
<1>2. e + 4 * X \in Nat /\ m + 4 * X \in Nat /\ e + 4 * X <= m + 4 * X
  BY <1>1
<1>3. Pow2[e + 4 * X] <= Pow2[m + 4 * X] /\ Pow2[m + 4 * X] \in Nat \ {0}
  BY <1>2, Growing, Positive
<1>. QED BY <1>3 DEF Pw

\* A number alone keeps its value.
LEMMA Single ==
    ASSUME NEW mode \in {"FP", "EP"}, NEW e \in Int, e >= -X,
           NEW f \in Int, f = 0 \/ f \in NormalFractions(mode)
    PROVE  LET z == Kept5(mode, e, f * Unit(mode))
           IN  Sound(mode, z) /\ z.fr * Pw(z.exp) = f * Pw(e)
<1>. DEFINE u == Unit(mode)
            z == Kept5(mode, e, f * u)
<1>1. mode \in Fpp!Modes /\ X \in Nat \ {0}
  BY Widths5 DEF Fpp!Modes
<1>2. u \in Nat \ {0}
  BY <1>1, Formats
<1>3. e >= -(4 * X) /\ 0 >= -(4 * X) /\ 0 \in Int
  <2>. HIDE DEF X
  <2>. QED BY <1>1
<1>4. Pw(0) \in Int /\ Pw(e) \in Int
  <2>. HIDE DEF X
  <2>. QED BY <1>3, Scale
<1>5. CASE f = 0
  <2>1. f * u = 0
    <3>. HIDE DEF u
    <3>. QED BY <1>2, <1>5
  <2>2. z = [exp |-> 0, fr |-> 0]
    BY <2>1, <1>1, KeptZero
  <2>. HIDE DEF z, X
  <2>3. z.exp = 0 /\ z.fr = 0
    BY <2>2
  <2>4. z.fr * Pw(z.exp) = f * Pw(e)
    BY <2>3, <1>4, <1>5
  <2>5. Sound(mode, z)
    BY <2>3, <1>3 DEF Sound, X
  <2>. QED BY <2>4, <2>5 DEF z
<1>6. CASE f # 0 /\ mode = "FP"
  <2>1. z = [exp |-> e, fr |-> f]
    BY <1>6, ReturnedAsIs
  <2>. HIDE DEF z
  <2>2. z.exp = e /\ z.fr = f /\ f \in NormalFractions(mode)
    BY <2>1, <1>6
  <2>3. Sound(mode, z)
    BY <2>2, <1>3 DEF Sound
  <2>. QED BY <2>2, <2>3 DEF z
<1>7. CASE f # 0 /\ mode = "EP"
  <2>1. f \in NormalFractions(mode)
    BY <1>7
  <2>2. u = 1 /\ f * u \in Range5
    <3>1. f \in -Lim(mode) .. Lim(mode) - 1
      BY <2>1, <1>1, OfNormal
    <3>2. f * u \in Range5
      <4>. HIDE DEF Range5
      <4>. QED BY <3>1, <1>1, ExtendedRange
    <3>. QED BY <3>2, <1>1, <1>7, Formats
  <2>3. f * u = f
    BY <2>2
  <2>4. z.exp \in Int /\ z.exp >= -(4 * X) /\ z.fr \in NormalFractions("EP")
        /\ z.fr * Pw(z.exp) = f * Pw(e)
    <3>1. z = Kept5("EP", e, f) /\ f \in Range5
      BY <2>2, <2>3, <1>7
    <3>. HIDE DEF z
    <3>. QED BY <3>1, <1>7, EpKeeps
  <2>. HIDE DEF z
  <2>5. Sound(mode, z)
    BY <2>4, <1>7 DEF Sound
  <2>. QED BY <2>4, <2>5 DEF z
<1>. QED BY <1>5, <1>6, <1>7

\* The sum of two numbers as the format has it.
Whole(mode, a, b) == Fpp!Exactly(mode, Fpp!NormRound(mode, Fpp!FloatSum(mode, a, b)))

\* A number of the format, normalized.
Tidy(mode, a) ==
    /\ a.exp \in -X .. X - 1 /\ a.exp \in Int /\ a.fr \in Int
    /\ (a.fr = 0 /\ a.exp = 0) \/ a.fr \in NormalFractions(mode)

\* All cases of the sum: one operand zero, the other, or neither, in either order.
LEMMA WholeSum ==
    ASSUME NEW mode \in {"FP", "EP"}, NEW a, NEW b, Tidy(mode, a), Tidy(mode, b)
    PROVE  LET z == Whole(mode, a, b)
               v == z.fr * Pw(z.exp)
               exact == a.fr * Pw(a.exp) + b.fr * Pw(b.exp)
           IN  /\ Sound(mode, z) /\ v \in Int /\ exact \in Int
               /\ mode = "FP" => v - exact < Pw(z.exp) /\ exact - v < Pw(z.exp)
               /\ mode = "EP" => \A m \in Int : m >= a.exp /\ m >= b.exp =>
                                    v - exact < 2 * Pw(m) /\ exact - v < 2 * Pw(m)
<1>. DEFINE z == Whole(mode, a, b)
            v == z.fr * Pw(z.exp)
            AA == a.fr * Pw(a.exp)
            BB == b.fr * Pw(b.exp)
            exact == AA + BB
<1>1. mode \in Fpp!Modes /\ X \in Nat \ {0}
  BY Widths5 DEF Fpp!Modes
<1>2. /\ a.exp \in Int /\ a.exp >= -X /\ a.fr \in Int /\ (a.fr = 0 \/ a.fr \in NormalFractions(mode))
      /\ b.exp \in Int /\ b.exp >= -X /\ b.fr \in Int /\ (b.fr = 0 \/ b.fr \in NormalFractions(mode))
  <2>. HIDE DEF X
  <2>. QED BY <1>1 DEF Tidy
<1>3. a.exp >= -(4 * X) /\ b.exp >= -(4 * X)
  <2>. HIDE DEF X
  <2>. QED BY <1>1, <1>2
<1>4. Pw(a.exp) \in Nat \ {0} /\ Pw(b.exp) \in Nat \ {0}
  <2>. HIDE DEF X
  <2>. QED BY <1>2, <1>3, Scale
<1>5. AA \in Int /\ BB \in Int /\ exact \in Int
  BY <1>2, <1>4
<1>. HIDE DEF X
<1>6. ASSUME Sound(mode, z)
      PROVE  v \in Int /\ Pw(z.exp) \in Nat \ {0}
  <2>1. z.exp \in Int /\ z.exp >= -(4 * X) /\ z.fr \in Int
    <3>. HIDE DEF z
    <3>. QED BY <1>1, <1>6, OfNormal DEF Sound
  <2>. HIDE DEF z
  <2>2. Pw(z.exp) \in Nat \ {0}
    BY <2>1, Scale
  <2>. QED BY <2>1, <2>2
<1>7. ASSUME NEW m \in Int, m >= a.exp, m >= b.exp
      PROVE  Pw(m) \in Nat \ {0} /\ Pw(a.exp) <= Pw(m) /\ Pw(b.exp) <= Pw(m)
  BY <1>2, <1>3, <1>7, Wider
<1>8. ASSUME Sound(mode, z), v = exact
      PROVE  /\ Sound(mode, z) /\ v \in Int /\ exact \in Int
             /\ mode = "FP" => v - exact < Pw(z.exp) /\ exact - v < Pw(z.exp)
             /\ mode = "EP" => \A m \in Int : m >= a.exp /\ m >= b.exp =>
                                  v - exact < 2 * Pw(m) /\ exact - v < 2 * Pw(m)
  <2>1. v \in Int /\ Pw(z.exp) \in Nat \ {0}
    BY <1>6, <1>8
  <2>2. v - exact = 0 /\ exact - v = 0
    <3>1. v = exact /\ exact \in Int
      BY <1>5, <1>8
    <3>. HIDE DEF v, exact
    <3>. QED BY <3>1
  <2>3. ASSUME NEW m \in Int, m >= a.exp, m >= b.exp
        PROVE  v - exact < 2 * Pw(m) /\ exact - v < 2 * Pw(m)
    <3>1. Pw(m) \in Nat \ {0}
      BY <1>7, <2>3
    <3>. HIDE DEF v, exact
    <3>. QED BY <3>1, <2>2
  <2>4. v - exact < Pw(z.exp) /\ exact - v < Pw(z.exp)
    <3>. HIDE DEF v, exact, z
    <3>. QED BY <2>1, <2>2
  <2>. QED BY <2>1, <2>3, <2>4, <1>5, <1>8
<1>9. ASSUME NEW c \in {a.exp, b.exp}, Sound(mode, z), v \in Int,
             mode = "FP" => v - exact < Pw(z.exp) /\ exact - v < Pw(z.exp),
             mode = "EP" => v - exact < 2 * Pw(c) /\ exact - v < 2 * Pw(c)
      PROVE  /\ Sound(mode, z) /\ v \in Int /\ exact \in Int
             /\ mode = "FP" => v - exact < Pw(z.exp) /\ exact - v < Pw(z.exp)
             /\ mode = "EP" => \A m \in Int : m >= a.exp /\ m >= b.exp =>
                                  v - exact < 2 * Pw(m) /\ exact - v < 2 * Pw(m)
  <2>1. ASSUME mode = "EP", NEW m \in Int, m >= a.exp, m >= b.exp
        PROVE  v - exact < 2 * Pw(m) /\ exact - v < 2 * Pw(m)
    <3>1. Pw(m) \in Nat \ {0} /\ Pw(c) <= Pw(m) /\ Pw(c) \in Int
      BY <1>4, <1>7, <1>9, <2>1
    <3>2. v - exact < 2 * Pw(c) /\ exact - v < 2 * Pw(c) /\ v \in Int /\ exact \in Int
      BY <1>5, <1>9, <2>1
    <3>. HIDE DEF v, exact
    <3>. QED BY <3>1, <3>2
  <2>. QED BY <2>1, <1>5, <1>9
<1>10. /\ Fpp!Extended(mode, a) = Fpp!Number(a.exp, a.fr * Unit(mode))
       /\ Fpp!Extended(mode, b) = Fpp!Number(b.exp, b.fr * Unit(mode))
  BY DEF Fpp!Extended, Unit
<1>11. Fpp!FloatSum(mode, a, b) =
         CASE b.fr = 0 -> Fpp!Number(a.exp, a.fr * Unit(mode))
           [] b.fr # 0 /\ a.fr = 0 -> Fpp!Number(b.exp, b.fr * Unit(mode))
           [] b.fr # 0 /\ a.fr # 0 ->
                IF a.exp < b.exp
                THEN Fpp!Aligned(mode, Fpp!Number(b.exp, b.fr * Unit(mode)),
                                       Fpp!Number(a.exp, a.fr * Unit(mode)))
                ELSE Fpp!Aligned(mode, Fpp!Number(a.exp, a.fr * Unit(mode)),
                                       Fpp!Number(b.exp, b.fr * Unit(mode)))
  <2>1. Fpp!Extended(mode, a).exp = a.exp /\ Fpp!Extended(mode, b).exp = b.exp
    BY DEF Fpp!Extended, Fpp!Number
  <2>. QED BY <2>1, <1>10 DEF Fpp!FloatSum
<1>12. CASE b.fr = 0
  <2>1. z = Kept5(mode, a.exp, a.fr * Unit(mode))
    BY <1>11, <1>12 DEF Whole, Kept5
  <2>. HIDE DEF z
  <2>2. Sound(mode, z) /\ v = AA
    BY <2>1, <1>2, Single
  <2>3. exact = AA
    <3>1. BB = 0
      BY <1>4, <1>12
    <3>. HIDE DEF AA, BB
    <3>. QED BY <3>1, <1>5
  <2>. QED BY <2>2, <2>3, <1>8 DEF z
<1>13. CASE b.fr # 0 /\ a.fr = 0
  <2>1. z = Kept5(mode, b.exp, b.fr * Unit(mode))
    BY <1>11, <1>13 DEF Whole, Kept5
  <2>. HIDE DEF z
  <2>2. Sound(mode, z) /\ v = BB
    BY <2>1, <1>2, Single
  <2>3. exact = BB
    <3>1. AA = 0
      BY <1>4, <1>13
    <3>. HIDE DEF AA, BB
    <3>. QED BY <3>1, <1>5
  <2>. QED BY <2>2, <2>3, <1>8 DEF z
<1>14. ASSUME NEW e1 \in Int, NEW e2 \in Int, e2 >= -X, e1 >= e2, e1 \in {a.exp, b.exp},
              NEW f1 \in NormalFractions(mode), NEW f2 \in NormalFractions(mode),
              z = Ordered(mode, e1, f1, e2, f2), exact = f1 * Pw(e1) + f2 * Pw(e2)
       PROVE  /\ Sound(mode, z) /\ v \in Int /\ exact \in Int
              /\ mode = "FP" => v - exact < Pw(z.exp) /\ exact - v < Pw(z.exp)
              /\ mode = "EP" => \A m \in Int : m >= a.exp /\ m >= b.exp =>
                                   v - exact < 2 * Pw(m) /\ exact - v < 2 * Pw(m)
  <2>. HIDE DEF z, exact
  <2>1. CASE mode = "FP"
    <3>1. Sound("FP", z) /\ v - exact < Pw(z.exp) /\ exact - v < Pw(z.exp)
      BY <2>1, <1>14, FpSum
    <3>2. Sound(mode, z)
      BY <3>1, <2>1
    <3>3. v \in Int
      BY <3>2, <1>6 DEF z
    <3>. HIDE DEF v
    <3>. QED BY <3>1, <3>2, <3>3, <2>1, <1>5 DEF z, v, exact
  <2>2. CASE mode = "EP"
    <3>1. Sound("EP", z) /\ v - exact < 2 * Pw(e1) /\ exact - v < 2 * Pw(e1)
      BY <2>2, <1>14, EpSum
    <3>2. Sound(mode, z)
      BY <3>1, <2>2
    <3>3. v \in Int
      BY <3>2, <1>6 DEF z
    <3>4. mode # "FP"
      BY <2>2
    <3>. HIDE DEF v
    <3>. QED BY <3>1, <3>2, <3>3, <3>4, <1>9, <1>14 DEF z, v, exact
  <2>. QED BY <2>1, <2>2
<1>15. CASE b.fr # 0 /\ a.fr # 0 /\ a.exp < b.exp
  <2>1. z = Ordered(mode, b.exp, b.fr, a.exp, a.fr)
    BY <1>11, <1>15 DEF Whole, Ordered
  <2>2. exact = BB + AA
    <3>. HIDE DEF AA, BB
    <3>. QED BY <1>5
  <2>3. a.fr \in NormalFractions(mode) /\ b.fr \in NormalFractions(mode) /\ b.exp >= a.exp
    BY <1>2, <1>15
  <2>. HIDE DEF z, exact
  <2>. QED BY <2>1, <2>2, <2>3, <1>2, <1>14 DEF z, exact
<1>16. CASE b.fr # 0 /\ a.fr # 0 /\ ~(a.exp < b.exp)
  <2>1. z = Ordered(mode, a.exp, a.fr, b.exp, b.fr)
    BY <1>11, <1>16 DEF Whole, Ordered
  <2>2. exact = AA + BB
    OBVIOUS
  <2>3. a.fr \in NormalFractions(mode) /\ b.fr \in NormalFractions(mode) /\ a.exp >= b.exp
    BY <1>2, <1>16
  <2>. HIDE DEF z, exact
  <2>. QED BY <2>1, <2>2, <2>3, <1>2, <1>14 DEF z, exact
<1>. QED BY <1>12, <1>13, <1>15, <1>16

----------------------------------------------------------------------------
(* The theorem.                                                            *)

\* Max of three integers is not less than any of them.
LEMMA LargestOfThree ==
    ASSUME NEW a \in Int, NEW b \in Int, NEW c \in Int
    PROVE  LET m == Fpp!Max({a, b, c}) IN m \in Int /\ m >= a /\ m >= b /\ m >= c
<1>. DEFINE T == {a, b, c}
<1>1. \E x \in T : \A y \in T : x >= y
  <2>1. CASE a >= b /\ a >= c
    <3>1. a >= a
      OBVIOUS
    <3>. QED BY <2>1, <3>1
  <2>2. CASE b >= a /\ b >= c
    <3>1. b >= b
      OBVIOUS
    <3>. QED BY <2>2, <3>1
  <2>3. CASE c >= a /\ c >= b
    <3>1. c >= c
      OBVIOUS
    <3>. QED BY <2>3, <3>1
  <2>4. (a >= b /\ a >= c) \/ (b >= a /\ b >= c) \/ (c >= a /\ c >= b)
    OBVIOUS
  <2>. QED BY <2>1, <2>2, <2>3, <2>4
<1>2. Fpp!Max(T) \in T /\ \A y \in T : Fpp!Max(T) >= y
  <2>. HIDE DEF T
  <2>. QED BY <1>1 DEF Fpp!Max
<1>. QED BY <1>2

\* Tidy is what Normal says of a number in range.
LEMMA NormalIsTidy ==
    ASSUME NEW mode \in Fpp!Modes, NEW n, n.exp \in -X .. X - 1, n.fr \in Int
    PROVE  Fpp!Normal(mode, n) <=> Tidy(mode, n)
<1>. DEFINE q == Qu(mode)
<1>1. Fpp!Normal(mode, n) <=>
        (\/ n.fr = 0 /\ n.exp = 0
         \/ n.fr \in q .. 2 * q - 1
         \/ n.fr \in 1 - 2 * q .. -q)
  BY SamePowers DEF Fpp!Normal, Qu
<1>2. n.fr \in NormalFractions(mode) <=> (n.fr \in q .. 2 * q - 1 \/ n.fr \in 1 - 2 * q .. -q)
  BY DEF NormalFractions
<1>3. n.exp \in Int
  <2>1. X \in Nat
    BY Widths5
  <2>. HIDE DEF X
  <2>. QED BY <2>1
<1>. HIDE DEF q, X
<1>. QED BY <1>1, <1>2, <1>3 DEF Tidy

\* A sound result is normalized.
LEMMA SoundIsNormal ==
    ASSUME NEW mode \in Fpp!Modes, NEW z, Sound(mode, z)
    PROVE  Fpp!Normal(mode, z) /\ z.fr \in Int
<1>. DEFINE q == Qu(mode)
<1>1. Fpp!Normal(mode, z) <=>
        (\/ z.fr = 0 /\ z.exp = 0
         \/ z.fr \in q .. 2 * q - 1
         \/ z.fr \in 1 - 2 * q .. -q)
  BY SamePowers DEF Fpp!Normal, Qu
<1>2. z.fr \in NormalFractions(mode) <=> (z.fr \in q .. 2 * q - 1 \/ z.fr \in 1 - 2 * q .. -q)
  BY DEF NormalFractions
<1>. HIDE DEF q
<1>3. z.fr \in Int
  BY OfNormal DEF Sound
<1>. QED BY <1>1, <1>2, <1>3 DEF Sound

\* The opposite of a normalized number in memory is one.
LEMMA NegatedIsTidy ==
    ASSUME NEW mode \in Fpp!Modes, NEW b, Tidy(mode, b)
    PROVE  Tidy(mode, Fpp!Negated(mode, b))
<1>. DEFINE c == Fpp!Negated(mode, b)
            h == Lim(mode)
<1>1. h \in Nat \ {0}
  BY Formats
<1>2. c.exp = b.exp /\ c.fr = Fpp!fpp_fr_neg(mode, b.fr)
  BY DEF Fpp!Negated, Fpp!Number
<1>3. b.exp \in -X .. X - 1 /\ b.exp \in Int /\ b.fr \in Int
      /\ ((b.fr = 0 /\ b.exp = 0) \/ b.fr \in NormalFractions(mode))
  BY DEF Tidy
<1>. HIDE DEF c, X
<1>4. CASE b.fr = 0 /\ b.exp = 0
  <2>1. 0 \in -h .. h - 1 /\ 0 # -h
    <3>. HIDE DEF h
    <3>. QED BY <1>1
  <2>2. Fpp!fpp_fr_neg(mode, 0) = -0
    BY <2>1, Opposite
  <2>3. c.fr = 0 /\ c.exp = 0
    BY <2>2, <1>2, <1>4
  <2>. QED BY <2>3, <1>2, <1>3 DEF Tidy, c
<1>5. CASE b.fr \in NormalFractions(mode)
  <2>1. b.fr \in -Lim(mode) .. Lim(mode) - 1 /\ b.fr # -Lim(mode) /\ -b.fr \in NormalFractions(mode)
    BY <1>5, OfNormal
  <2>2. c.fr = -b.fr
    BY <2>1, <1>2, Opposite
  <2>3. c.fr \in NormalFractions(mode) /\ c.fr \in Int
    BY <2>1, <2>2, <1>3
  <2>. QED BY <2>3, <1>2, <1>3 DEF Tidy, c
<1>. QED BY <1>3, <1>4, <1>5

\* A multiple of the unit that is less than a unit off is the number itself.
LEMMA OnTheUnit ==
    ASSUME NEW g \in Int, NEW k \in Nat \ {0}, NEW E \in Int, E % k = 0,
           g * k - E < k, E - g * k < k
    PROVE  g * k = E
<1>. DEFINE m == E \div k
<1>1. m \in Int /\ E = k * m
  <2>1. m \in Int /\ E = k * m + (E % k)
    BY Division
  <2>. HIDE DEF m
  <2>. QED BY <2>1
<1>. HIDE DEF m
<1>2. g - m \in Int /\ k * (g - m) < k /\ k * (g - m) > -k
  <2>1. k * (g - m) = g * k - E
    BY <1>1
  <2>2. g * k \in Int /\ k \in Int
    OBVIOUS
  <2>. DEFINE y == g * k
  <2>3. y \in Int /\ y - E < k /\ E - y < k /\ k * (g - m) = y - E
    BY <2>1, <2>2
  <2>. HIDE DEF y
  <2>4. y - E < k /\ y - E > -k
    BY <2>3
  <2>. QED BY <2>3, <2>4, <1>1
<1>3. ASSUME NEW i \in Int, k * i < k, k * i > -k PROVE i = 0
  BY <1>3
<1>4. g - m = 0
  BY <1>2, <1>3
<1>5. g = m
  BY <1>1, <1>4
<1>. QED BY <1>1, <1>5

\* fpp_add of two normalized numbers keeps the promise.
LEMMA SumOfTidy ==
    ASSUME NEW mode \in {"FP", "EP"}, NEW a, NEW y, Tidy(mode, a), Tidy(mode, y)
    PROVE  LET z == Fpp!fpp_add(mode, a, y)
               exact == Fpp!Value(a) + Fpp!Value(y)
               exp == Fpp!Max({z.exp, a.exp, y.exp})
           IN  /\ Fpp!Normal(mode, z)
               /\ Fpp!Near(z, exact, IF mode = "FP" THEN Fpp!Ulp(z) ELSE 2 * Fpp!Ulp([exp |-> exp]))
               /\ mode = "FP" /\ exact % Fpp!Ulp(z) = 0 => Fpp!Value(z) = exact
               /\ z.trap = "FOVX" <=> z.exp > X - 1
<1>. DEFINE z == Fpp!fpp_add(mode, a, y)
            w == Whole(mode, a, y)
            v == w.fr * Pw(w.exp)
            exact == a.fr * Pw(a.exp) + y.fr * Pw(y.exp)
            exp == Fpp!Max({z.exp, a.exp, y.exp})
<1>1. mode \in Fpp!Modes
  BY DEF Fpp!Modes
<1>2. /\ Sound(mode, w) /\ v \in Int /\ exact \in Int
      /\ mode = "FP" => v - exact < Pw(w.exp) /\ exact - v < Pw(w.exp)
      /\ mode = "EP" => \A m \in Int : m >= a.exp /\ m >= y.exp =>
                           v - exact < 2 * Pw(m) /\ exact - v < 2 * Pw(m)
  BY WholeSum
<1>3. z.exp = w.exp /\ z.fr = w.fr /\ z.trap = Fpp!fpp_test_xp(w.exp)
  <2>. DEFINE n == Fpp!NormRound(mode, Fpp!FloatSum(mode, a, y))
  <2>1. z = [exp |-> Fpp!Exactly(mode, n).exp, fr |-> Fpp!Exactly(mode, n).fr,
             trap |-> Fpp!fpp_test_xp(n.exp)]
    BY DEF Fpp!fpp_add, Fpp!Result
  <2>2. w = Fpp!Exactly(mode, n)
    BY DEF Whole
  <2>. HIDE DEF n, z, w
  <2>3. Fpp!Exactly(mode, n).exp = n.exp
    BY DEF Fpp!Exactly, Fpp!Number
  <2>. QED BY <2>1, <2>2, <2>3
<1>4. /\ Fpp!Value(z) = z.fr * Pw(z.exp) /\ Fpp!Value(a) = a.fr * Pw(a.exp)
      /\ Fpp!Value(y) = y.fr * Pw(y.exp) /\ Fpp!Ulp(z) = Pw(z.exp)
      /\ Fpp!Ulp([exp |-> exp]) = Pw(exp)
  <2>. HIDE DEF z
  <2>. QED BY SamePowers DEF Fpp!Value, Fpp!Ulp, Pw, X
<1>. HIDE DEF z, w
<1>5. Fpp!Value(z) = v /\ Fpp!Value(a) + Fpp!Value(y) = exact /\ Fpp!Ulp(z) = Pw(w.exp)
  BY <1>3, <1>4
<1>6. w.exp \in Int /\ w.exp >= -(4 * X) /\ w.fr \in Int
  BY <1>1, <1>2, SoundIsNormal DEF Sound
<1>7. Fpp!Normal(mode, z)
  <2>1. Sound(mode, z)
    BY <1>2, <1>3 DEF Sound
  <2>. QED BY <2>1, <1>1, SoundIsNormal
<1>8. exp \in Int /\ exp >= a.exp /\ exp >= y.exp
  <2>1. a.exp \in Int /\ y.exp \in Int /\ z.exp \in Int
    BY <1>3, <1>6 DEF Tidy
  <2>. QED BY <2>1, LargestOfThree
<1>. HIDE DEF v, exact, exp
<1>9. Fpp!Near(z, exact, IF mode = "FP" THEN Fpp!Ulp(z) ELSE 2 * Fpp!Ulp([exp |-> exp]))
  <2>1. CASE mode = "FP"
    <3>1. v - exact < Fpp!Ulp(z) /\ exact - v < Fpp!Ulp(z)
      BY <2>1, <1>2, <1>5
    <3>. QED BY <3>1, <2>1, <1>5 DEF Fpp!Near
  <2>2. CASE mode = "EP"
    <3>1. v - exact < 2 * Pw(exp) /\ exact - v < 2 * Pw(exp)
      BY <2>2, <1>2, <1>8
    <3>. QED BY <3>1, <2>2, <1>4, <1>5 DEF Fpp!Near
  <2>. QED BY <2>1, <2>2
<1>10. mode = "FP" /\ exact % Fpp!Ulp(z) = 0 => Fpp!Value(z) = exact
  <2>. SUFFICES ASSUME mode = "FP", exact % Fpp!Ulp(z) = 0 PROVE v = exact
    BY <1>5
  <2>. DEFINE k == Pw(w.exp)
              g == w.fr
  <2>1. k \in Nat \ {0}
    BY <1>6, Scale
  <2>2. exact % k = 0
    BY <1>5
  <2>3. v = g * k
    BY DEF v
  <2>4. g * k - exact < k /\ exact - g * k < k
    BY <2>3, <1>2
  <2>. HIDE DEF k, g
  <2>5. g \in Int /\ exact \in Int
    BY <1>2, <1>6 DEF g
  <2>6. g * k = exact
    BY <2>1, <2>2, <2>4, <2>5, OnTheUnit
  <2>. QED BY <2>3, <2>6
<1>11. z.trap = "FOVX" <=> z.exp > X - 1
  BY <1>3 DEF Fpp!fpp_test_xp, X
<1>. QED BY <1>5, <1>7, <1>9, <1>10, <1>11 DEF z, exp

\* The property of floating sums holds of any accumulator.
LEMMA SumExact == fac \in Facs => Fpp!SumIsFaithful
<1>. DEFINE mode == fac.mode
<1>. SUFFICES ASSUME fac \in Facs, mode # "DP", Fpp!Normal(mode, fac),
                     NEW b \in Fpp!InMemory(mode), Fpp!Normal(mode, b),
                     NEW y \in {b, Fpp!Negated(mode, b)}
              PROVE  LET z == Fpp!fpp_add(mode, fac, y)
                         exact == Fpp!Value(fac) + Fpp!Value(y)
                         exp == Fpp!Max({z.exp, fac.exp, y.exp})
                     IN  /\ Fpp!Normal(mode, z)
                         /\ Fpp!Near(z, exact, IF mode = "FP" THEN Fpp!Ulp(z)
                                               ELSE 2 * Fpp!Ulp([exp |-> exp]))
                         /\ mode = "FP" /\ exact % Fpp!Ulp(z) = 0 => Fpp!Value(z) = exact
                         /\ z.trap = "FOVX" <=> z.exp > X - 1
  BY DEF Fpp!SumIsFaithful, X
<1>1. mode \in Fpp!Modes /\ fac.exp \in -X .. X - 1 /\ fac.fr \in Int
  BY OfFac
<1>. HIDE DEF X, mode
<1>2. mode \in {"FP", "EP"}
  BY <1>1 DEF Fpp!Modes
<1>3. Tidy(mode, fac)
  BY <1>1, NormalIsTidy DEF X
<1>4. Tidy(mode, b)
  <2>1. b.exp \in -X .. X - 1 /\ b.fr \in -Lim(mode) .. Lim(mode) - 1
    BY <1>1, Remembered DEF X
  <2>2. b.fr \in Int
    <3>. DEFINE h == Lim(mode)
    <3>1. h \in Nat /\ b.fr \in -h .. h - 1
      BY <2>1, <1>1, Formats
    <3>. HIDE DEF h
    <3>. QED BY <3>1
  <2>. QED BY <2>1, <2>2, <1>1, NormalIsTidy DEF X
<1>5. Tidy(mode, y)
  BY <1>1, <1>4, NegatedIsTidy
<1>. QED BY <1>2, <1>3, <1>5, SumOfTidy DEF X

\* In every state of the processor the instruction about to be executed computes what it
\* promises, for words, exponents and fractions of any width the code's sizes are a case
\* of: OPR's rotations compose and its skips test what they say (pdp8_cpu.c); the EAE's
\* MUY and DVI are inverse, DAD, DPIC and DCM compute with double words, SAM compares, SHL,
\* ASR and LSR multiply and divide by powers of two and NMI normalizes back; and FPP8A's
\* integer sums are exact or trap, its floating sums are normalized and within the units of
\* their last place, and XTA and ATX take an index register there and back.
THEOREM ArithmeticExact == ProcessorSpec => []ArithmeticIsExact
<1>. DEFINE Inv == r \in Regs /\ fac \in Facs
<1>1. ProcessorInit => Inv
  BY RegsInit, FacsInit DEF ProcessorInit
<1>2. ASSUME Inv, [ProcessorNext]_processorvars PROVE Inv'
  <2>1. CASE UNCHANGED processorvars
    BY <1>2, <2>1 DEF processorvars, Regs, Facs
  <2>2. CASE part = "control" /\ HNext /\ UNCHANGED <<part, r, fac, unfx>>
    BY <1>2, <2>2 DEF Regs, Facs
  <2>3. CASE part = "arithmetic" /\ Arithmetic!Next /\ UNCHANGED <<part, fac, unfx, hvars>>
    <3>1. r' \in Regs
      BY <1>2, <2>3, RegsStep
    <3>2. fac' \in Facs
      BY <1>2, <2>3
    <3>. QED BY <3>1, <3>2
  <2>4. CASE part = "floating" /\ Fpp!Next /\ UNCHANGED <<part, r, hvars>>
    <3>1. fac' \in Facs
      BY <1>2, <2>4, FacsStep
    <3>2. r' \in Regs
      BY <1>2, <2>4
    <3>. QED BY <3>1, <3>2
  <2>. QED BY <1>2, <2>1, <2>2, <2>3, <2>4 DEF ProcessorNext
<1>3. Inv => ArithmeticIsExact
  BY EaeExact, TypeOfFac, SumExact, IntegersExact, IndexExact DEF ArithmeticIsExact
<1>. QED BY <1>1, <1>2, <1>3, PTL DEF ProcessorSpec
=============================================================================
