----------------------------- MODULE Numbers_proofs -----------------------------
(***************************************************************************)
(* Facts about numbers that the proofs of several modules rest on.         *)
(*                                                                         *)
(* Induction is stated over sets, so that it needs no operator for a       *)
(* parameter: a set of naturals that holds 0 and every successor of its    *)
(* members holds them all.  It follows from the well-foundedness of strict *)
(* inclusion between finite sets, by taking the interval 1..n for n.  From *)
(* it follows that a definition by recursion over the naturals has a       *)
(* solution.                                                               *)
(***************************************************************************)
EXTENDS Float, TLAPS, FiniteSetTheorems, WellFoundedInduction

(* Induction over the naturals: the sums of ingestion and the powers of two  *)
(* of the conversions are defined by recursion.                              *)
LEMMA NatSetInduction ==
  ASSUME NEW S, 0 \in S, \A n \in Nat : n \in S => n + 1 \in S
  PROVE  Nat \subseteq S
<1> SUFFICES ASSUME NEW n \in Nat, n \notin S PROVE FALSE
  OBVIOUS
<1> DEFINE T == {1..m : m \in Nat \ S}
<1>1. T \subseteq FiniteSubsetsOf(Nat) /\ T # {}
  <2>1. \A m \in Nat : IsFiniteSet(1..m)
    BY FS_Interval
  <2>2. \A m \in Nat : 1..m \in SUBSET Nat
    OBVIOUS
  <2> QED
    BY <2>1, <2>2 DEF FiniteSubsetsOf
<1>2. PICK t \in T : \A u \in T : ~(<<u, t>> \in StrictSubsetOrdering(Nat))
  BY <1>1, FS_StrictSubsetOrderingWellFounded, WFMin, Zenon
<1>3. PICK m \in Nat \ S : t = 1..m
  OBVIOUS
<1>4. m - 1 \in Nat \ S
  BY <1>3
<1>5. 1..(m - 1) \in T
  BY <1>4
<1>6. 1..(m - 1) \subseteq 1..m /\ m \in 1..m /\ m \notin 1..(m - 1)
  BY <1>3
<1>7. <<1..(m - 1), 1..m>> \in StrictSubsetOrdering(Nat)
  <2>1. 1..(m - 1) \in SUBSET Nat /\ 1..m \in SUBSET Nat
    BY <1>3
  <2> QED
    BY <1>6, <2>1, Zenon DEF StrictSubsetOrdering
<1> QED
  BY <1>2, <1>3, <1>5, <1>7, Zenon

(* The first n + 1 values of a recursion that begins with c and goes from    *)
(* the value for i - 1 to the value for i by step[i].                        *)
Runs(c, D, step, n) ==
  {f \in [0..n -> D] : f[0] = c /\ \A i \in 1..n : f[i] = step[i][f[i - 1]]}

(* Two runs agree as far as both go: the recursions of the code have one     *)
(* result.                                                                   *)
LEMMA RunsAgree ==
  ASSUME NEW D, NEW c \in D, NEW step \in [Nat -> [D -> D]],
         NEW m \in Nat, NEW n \in Nat,
         NEW f \in Runs(c, D, step, m), NEW g \in Runs(c, D, step, n)
  PROVE  \A i \in 0..m : i <= n => f[i] = g[i]
<1> DEFINE S == {i \in Nat : i <= m /\ i <= n => f[i] = g[i]}
<1>1. 0 \in S
  BY DEF Runs
<1>2. \A i \in Nat : i \in S => i + 1 \in S
  <2> SUFFICES ASSUME NEW i \in Nat, i \in S, i + 1 <= m, i + 1 <= n
               PROVE  f[i + 1] = g[i + 1]
    OBVIOUS
  <2>1. f[i] = g[i]
    OBVIOUS
  <2>2. i + 1 \in 1..m /\ i + 1 \in 1..n /\ (i + 1) - 1 = i
    OBVIOUS
  <2> QED
    BY <2>1, <2>2 DEF Runs
<1> HIDE DEF S
<1>3. Nat \subseteq S
  BY <1>1, <1>2, NatSetInduction
<1> QED
  BY <1>3 DEF S

(* There is a run of every length, as the code's loops compute.              *)
LEMMA RunsExist ==
  ASSUME NEW D, NEW c \in D, NEW step \in [Nat -> [D -> D]]
  PROVE  \A n \in Nat : Runs(c, D, step, n) # {}
<1> DEFINE S == {n \in Nat : Runs(c, D, step, n) # {}}
<1>1. 0 \in S
  <2>1. [i \in 0..0 |-> c] \in Runs(c, D, step, 0)
    BY DEF Runs
  <2> QED
    BY <2>1
<1>2. \A n \in Nat : n \in S => n + 1 \in S
  <2> SUFFICES ASSUME NEW n \in Nat, NEW f \in Runs(c, D, step, n)
               PROVE  Runs(c, D, step, n + 1) # {}
    OBVIOUS
  <2> DEFINE g == [i \in 0..(n + 1) |-> IF i <= n THEN f[i] ELSE step[n + 1][f[n]]]
  <2>1. f \in [0..n -> D] /\ f[0] = c /\ \A i \in 1..n : f[i] = step[i][f[i - 1]]
    BY DEF Runs
  <2>2. step[n + 1][f[n]] \in D
    BY <2>1
  <2>3. g \in [0..(n + 1) -> D] /\ g[0] = c
    BY <2>1, <2>2
  <2>4. ASSUME NEW i \in 1..(n + 1) PROVE g[i] = step[i][g[i - 1]]
    <3>1. CASE i <= n
      <4>1. i \in 1..n /\ i \in 0..(n + 1) /\ i - 1 \in 0..(n + 1) /\ i - 1 <= n
        BY <3>1
      <4> QED
        BY <2>1, <4>1, <3>1
    <3>2. CASE i = n + 1
      <4>1. n + 1 \in 0..(n + 1) /\ n \in 0..(n + 1) /\ ~(n + 1 <= n) /\ (n + 1) - 1 = n
        OBVIOUS
      <4> QED
        BY <4>1, <3>2
    <3> QED
      BY <3>1, <3>2
  <2> HIDE DEF g
  <2> QED
    BY <2>3, <2>4 DEF Runs
<1> HIDE DEF S
<1>3. Nat \subseteq S
  BY <1>1, <1>2, NatSetInduction
<1> QED
  BY <1>3 DEF S

(* The solutions of the recursion over all naturals. *)
Recursive(c, D, step) ==
  {g \in [Nat -> D] : g[0] = c /\ \A i \in Nat \ {0} : g[i] = step[i][g[i - 1]]}

(* A recursion over the naturals has a solution: the sums and powers that    *)
(* model loops and casts of the code are well defined.                       *)
LEMMA PrimitiveRecursion ==
  ASSUME NEW D, NEW c \in D, NEW step \in [Nat -> [D -> D]]
  PROVE  Recursive(c, D, step) # {}
<1> DEFINE R(n) == CHOOSE f \in Runs(c, D, step, n) : TRUE
           g == [n \in Nat |-> R(n)[n]]
<1>1. \A n \in Nat : R(n) \in Runs(c, D, step, n)
  BY RunsExist
<1> HIDE DEF R
<1>2. ASSUME NEW n \in Nat
      PROVE  R(n) \in [0..n -> D] /\ R(n)[0] = c /\ \A i \in 1..n : R(n)[i] = step[i][R(n)[i - 1]]
  BY <1>1 DEF Runs
<1>3. g \in [Nat -> D] /\ g[0] = c
  BY <1>2
<1>4. ASSUME NEW i \in Nat \ {0} PROVE g[i] = step[i][g[i - 1]]
  <2>1. R(i)[i] = step[i][R(i)[i - 1]]
    BY <1>2 DEF Recursive
  <2>2. R(i)[i - 1] = R(i - 1)[i - 1]
    <3>1. i - 1 \in Nat /\ i - 1 \in 0..i /\ i - 1 <= i - 1
      OBVIOUS
    <3>2. R(i) \in Runs(c, D, step, i) /\ R(i - 1) \in Runs(c, D, step, i - 1)
      BY <1>1, <3>1
    <3> QED
      BY <3>1, <3>2, RunsAgree
  <2> QED
    BY <2>1, <2>2
<1> HIDE DEF g
<1> QED
  BY <1>3, <1>4 DEF Recursive

-----------------------------------------------------------------------------
(* The powers of two, by which floats are scaled.                            *)
LEMMA Pow2Def ==
  /\ Pow2 \in [Nat -> Nat \ {0}]
  /\ Pow2[0] = 1
  /\ \A n \in Nat : Pow2[n + 1] = 2 * Pow2[n]
<1> DEFINE D == Nat \ {0}
           step == [i \in Nat |-> [x \in D |-> 2 * x]]
           Recurs(f) == f = [n \in Nat |-> IF n = 0 THEN 1 ELSE 2 * f[n - 1]]
<1>1. 1 \in D /\ step \in [Nat -> [D -> D]] /\ \A i \in Nat, x \in D : step[i][x] = 2 * x
  OBVIOUS
<1>2. Recursive(1, D, step) # {}
  <2> HIDE DEF step, D
  <2> QED
    BY <1>1, PrimitiveRecursion
<1>3. PICK g \in [Nat -> D] : g[0] = 1 /\ \A i \in Nat \ {0} : g[i] = 2 * g[i - 1]
  <2>1. PICK g \in [Nat -> D] : g[0] = 1 /\ \A i \in Nat \ {0} : g[i] = step[i][g[i - 1]]
    BY <1>2 DEF Recursive
  <2>2. ASSUME NEW i \in Nat \ {0} PROVE g[i] = 2 * g[i - 1]
    <3>1. i - 1 \in Nat /\ g[i - 1] \in D
      OBVIOUS
    <3> HIDE DEF step
    <3> QED
      BY <1>1, <2>1, <3>1
  <2> QED
    BY <2>1, <2>2
<1>4. Recurs(g)
  BY <1>3
<1>5. Recurs(Pow2)
  BY <1>4 DEF Pow2
<1>6. Pow2[0] = 1 /\ \A n \in Nat : Pow2[n + 1] = 2 * Pow2[n]
  BY <1>5
<1>7. \A n \in Nat : Pow2[n] \in D
  <2> DEFINE S == {n \in Nat : Pow2[n] \in D}
  <2>1. 0 \in S /\ \A n \in Nat : n \in S => n + 1 \in S
    BY <1>6
  <2> HIDE DEF S
  <2>2. Nat \subseteq S
    BY <2>1, NatSetInduction
  <2> QED
    BY <2>2 DEF S
<1>8. Pow2 \in [Nat -> D]
  BY <1>5, <1>7
<1> QED
  BY <1>6, <1>8

(* Powers of two as facts about one argument.                                *)
LEMMA Pow2Pos == \A n \in Nat : Pow2[n] \in Nat /\ Pow2[n] > 0
  BY Pow2Def

(* Exponents add where powers multiply: scaling twice is scaling once.       *)
LEMMA Pow2Sum == \A m, n \in Nat : Pow2[m + n] = Pow2[m] * Pow2[n]
<1> SUFFICES ASSUME NEW m \in Nat PROVE \A n \in Nat : Pow2[m + n] = Pow2[m] * Pow2[n]
  OBVIOUS
<1> DEFINE S == {n \in Nat : Pow2[m + n] = Pow2[m] * Pow2[n]}
<1>1. 0 \in S
  BY Pow2Def, Pow2Pos
<1>2. ASSUME NEW n \in Nat, n \in S PROVE n + 1 \in S
  <2>1. Pow2[m + (n + 1)] = 2 * Pow2[m + n] /\ Pow2[n + 1] = 2 * Pow2[n]
    <3>1. m + (n + 1) = (m + n) + 1 /\ m + n \in Nat
      OBVIOUS
    <3> QED
      BY <3>1, Pow2Def
  <2>2. Pow2[m + n] = Pow2[m] * Pow2[n]
    BY <1>2
  <2>3. Pow2[m] \in Nat /\ Pow2[n] \in Nat
    BY Pow2Pos
  <2>4. Pow2[m + (n + 1)] = Pow2[m] * Pow2[n + 1]
    BY <2>1, <2>2, <2>3
  <2> QED
    BY <2>4
<1> HIDE DEF S
<1>3. Nat \subseteq S
  BY <1>1, <1>2, NatSetInduction
<1> QED
  BY <1>3 DEF S

(* A larger exponent at least doubles the power.                             *)
LEMMA Pow2Grows == \A m, n \in Nat : m < n => 2 * Pow2[m] <= Pow2[n]
<1> SUFFICES ASSUME NEW m \in Nat, NEW n \in Nat, m < n PROVE 2 * Pow2[m] <= Pow2[n]
  OBVIOUS
<1>1. n = (m + 1) + (n - (m + 1)) /\ n - (m + 1) \in Nat /\ m + 1 \in Nat
  OBVIOUS
<1>2. Pow2[n] = Pow2[m + 1] * Pow2[n - (m + 1)] /\ Pow2[m + 1] = 2 * Pow2[m]
  BY <1>1, Pow2Sum, Pow2Def
<1>3. Pow2[m] \in Nat /\ Pow2[n - (m + 1)] \in Nat /\ Pow2[n - (m + 1)] >= 1
  BY <1>1, Pow2Pos
<1> QED
  BY <1>2, <1>3

(* Every positive number lies between two powers of two: a float's exponent. *)
LEMMA BinaryLog ==
  ASSUME NEW a \in Nat \ {0}
  PROVE  \A n \in Nat : a < Pow2[n] => \E k \in 0..(n - 1) : Pow2[k] <= a /\ a < Pow2[k + 1]
<1> DEFINE S == {n \in Nat : a < Pow2[n] => \E k \in 0..(n - 1) : Pow2[k] <= a /\ a < Pow2[k + 1]}
<1>1. 0 \in S
  BY Pow2Def
<1>2. ASSUME NEW n \in Nat, n \in S PROVE n + 1 \in S
  <2> SUFFICES ASSUME a < Pow2[n + 1]
               PROVE  \E k \in 0..n : Pow2[k] <= a /\ a < Pow2[k + 1]
    OBVIOUS
  <2>1. CASE a < Pow2[n]
    <3>1. PICK k \in 0..(n - 1) : Pow2[k] <= a /\ a < Pow2[k + 1]
      BY <1>2, <2>1
    <3> QED
      BY <3>1
  <2>2. CASE ~(a < Pow2[n])
    <3>1. Pow2[n] \in Nat /\ n \in 0..n
      BY Pow2Pos
    <3> QED
      BY <2>2, <3>1
  <2> QED
    BY <2>1, <2>2
<1> HIDE DEF S
<1>3. Nat \subseteq S
  BY <1>1, <1>2, NatSetInduction
<1> QED
  BY <1>3 DEF S

-----------------------------------------------------------------------------
(* The finite numbers: fractions with a positive denominator.                *)
Rational == [num : Int, den : Nat \ {0}]

(* Products and quotients of integers, as the provers need them.             *)
LEMMA ProductOrder == \A a, b, c \in Int : c > 0 => (a <= b <=> a * c <= b * c) /\ (a < b <=> a * c < b * c)
OBVIOUS

(* Euclidean division: div_euclid of a multiple, with its remainder.         *)
LEMMA DivisionOfMultiple == \A a \in Int, d \in Nat \ {0} : (a * d) \div d = a /\ (a * d) % d = 0
OBVIOUS

LEMMA Division ==
  \A a \in Int, d \in Nat \ {0} :
    /\ a \div d \in Int /\ a % d \in Int
    /\ 0 <= a % d /\ a % d < d
    /\ a = ((a \div d) * d) + (a % d)
OBVIOUS

(* A fraction that is a whole number is that number when truncated.          *)
LEMMA TruncWhole ==
  ASSUME NEW q \in Rational, NEW n \in Int, q.num = n * q.den
  PROVE  Trunc(q) = n
<1>1. q.den \in Nat \ {0} /\ q.num \in Int
  BY DEF Rational
<1>2. CASE n >= 0
  <2>1. q.num >= 0
    BY <1>1, <1>2, ProductOrder
  <2> QED
    BY <1>1, <2>1, DivisionOfMultiple DEF Trunc
<1>3. CASE n < 0
  <2>1. q.num < 0 /\ -q.num = (-n) * q.den
    BY <1>1, <1>3, ProductOrder
  <2>2. (-q.num) \div q.den = -n
    BY <1>1, <2>1, DivisionOfMultiple
  <2> QED
    BY <2>1, <2>2 DEF Trunc
<1> QED
  BY <1>2, <1>3

(* A whole number is the nearest to itself.                                  *)
LEMMA NearestWhole ==
  ASSUME NEW q \in Rational, NEW n \in Int, q.num = n * q.den
  PROVE  NearestEven(q) = n
<1>1. q.den \in Nat \ {0} /\ q.num \div q.den = n /\ q.num % q.den = 0
  BY DivisionOfMultiple DEF Rational
<1> QED
  BY <1>1 DEF NearestEven

(* Scaling by a power of two, up or down, gives a fraction again.            *)
LEMMA ScaledType ==
  ASSUME NEW q \in Rational, NEW e \in Int
  PROVE  /\ Scaled(q, e) \in Rational
         /\ e >= 0 => Scaled(q, e) = [num |-> q.num, den |-> q.den * Pow2[e]]
         /\ e <= 0 => Scaled(q, e) = [num |-> q.num * Pow2[-e], den |-> q.den]
<1>1. q.den \in Nat \ {0} /\ q.num \in Int
  BY DEF Rational
<1>2. CASE e > 0
  <2>1. Scaled(q, e) = [num |-> q.num, den |-> q.den * Pow2[e]]
    BY <1>2 DEF Scaled, Over, Frac
  <2>2. q.den * Pow2[e] \in Nat \ {0}
    BY <1>1, <1>2, Pow2Pos
  <2> QED
    BY <1>1, <1>2, <2>1, <2>2 DEF Rational
<1>3. CASE e < 0
  <2>1. Scaled(q, e) = [num |-> q.num * Pow2[-e], den |-> q.den]
    BY <1>3 DEF Scaled, Times, Frac
  <2>2. q.num * Pow2[-e] \in Int
    BY <1>1, <1>3, Pow2Pos
  <2> QED
    BY <1>1, <1>3, <2>1, <2>2 DEF Rational
<1>4. CASE e = 0
  <2>1. Pow2[0] = 1 /\ Pow2[e] = 1 /\ Pow2[-e] = 1
    <3>1. Pow2[0] = 1
      BY Pow2Def
    <3> DEFINE d == -e
    <3>2. d \in Nat /\ d <= 0
      BY <1>4
    <3> HIDE DEF d
    <3>3. Pow2[d] = 1
      BY <3>1, <3>2
    <3> QED
      BY <1>4, <3>1, <3>3 DEF d
  <2>2. Scaled(q, e) = [num |-> q.num, den |-> q.den * Pow2[e]]
    BY <1>4 DEF Scaled, Over, Frac
  <2>3. q.den * Pow2[e] = q.den /\ q.num * Pow2[-e] = q.num
    BY <1>1, <1>4, <2>1
  <2> QED
    BY <1>1, <1>4, <2>2, <2>3 DEF Rational
<1> QED
  BY <1>2, <1>3, <1>4

(* What Exponent chooses: q / 2^e has p bits before the point.               *)
LEMMA ExponentFits ==
  ASSUME NEW q, NEW p, NEW d \in Exponents, Fits(q, p, d)
  PROVE  /\ Exponent(q, p) \in Exponents /\ Exponent(q, p) \in Int
         /\ Fits(q, p, Exponent(q, p))
<1>1. Exponent(q, p) = CHOOSE e \in Exponents : Fits(q, p, e)
  BY DEF Exponent
<1>2. Exponents \subseteq Int
  BY ExponentAssumption DEF Exponents
<1> QED
  BY <1>1, <1>2

(* A positive whole number of at most p bits is not scaled down.             *)
LEMMA ExponentOfWhole ==
  ASSUME NEW p \in Nat \ {0}, NEW q \in Rational, NEW a \in Nat \ {0},
         p <= ExpBelow + 1, q.num = a * q.den, a < Pow2[p]
  PROVE  Exponent(q, p) \in Int /\ Exponent(q, p) <= 0
<1>0. q.den \in Nat \ {0} /\ q.num \in Int
  BY DEF Rational
<1>1. PICK k \in 0..(p - 1) : Pow2[k] <= a /\ a < Pow2[k + 1]
  BY BinaryLog
<1> DEFINE f == p - 1 - k
           e == -f
<1>2. f \in Nat /\ e \in Exponents /\ e <= 0 /\ -e = f
  BY ExponentAssumption DEF Exponents
<1>3. Scaled(q, e) = [num |-> q.num * Pow2[f], den |-> q.den]
  <2>1. e \in Int
    BY <1>2
  <2> HIDE DEF e, f
  <2> QED
    BY <1>2, <2>1, ScaledType
<1>4. Pow2[p - 1] = Pow2[k] * Pow2[f] /\ Pow2[p] = Pow2[k + 1] * Pow2[f]
  <2>1. p - 1 = k + f /\ p = (k + 1) + f /\ k \in Nat /\ k + 1 \in Nat /\ f \in Nat
    BY <1>2
  <2> HIDE DEF f
  <2> QED
    BY <2>1, Pow2Sum
<1>5. /\ Pow2[k] * Pow2[f] * q.den <= a * q.den * Pow2[f]
      /\ a * q.den * Pow2[f] < Pow2[k + 1] * Pow2[f] * q.den
  <2>1. Pow2[f] \in Nat \ {0} /\ Pow2[k] \in Nat /\ Pow2[k + 1] \in Nat
    BY <1>2, Pow2Pos
  <2> DEFINE c == Pow2[f] * q.den
  <2>2. c \in Int /\ c > 0
    BY <1>0, <2>1
  <2>3. Pow2[k] * c <= a * c /\ a * c < Pow2[k + 1] * c
    <3> HIDE DEF c
    <3> QED
      BY <1>1, <2>1, <2>2, ProductOrder
  <2> HIDE DEF f
  <2> QED
    BY <1>0, <2>1, <2>3
<1>6. Fits(q, p, e)
  <2> HIDE DEF e, f
  <2> QED
    BY <1>3, <1>4, <1>5 DEF Fits
<1>7. Exponent(q, p) \in Int /\ Fits(q, p, Exponent(q, p))
  <2> HIDE DEF e
  <2> QED
    BY <1>2, <1>6, ExponentFits
<1>8. ASSUME NEW d \in Int, d > 0, Fits(q, p, d) PROVE FALSE
  <2>1. Scaled(q, d) = [num |-> q.num, den |-> q.den * Pow2[d]]
    <3>1. d \in Int /\ d >= 0
      BY <1>8
    <3> QED
      BY <3>1, ScaledType
  <2>2. Pow2[p - 1] * (q.den * Pow2[d]) <= a * q.den
    BY <1>8, <2>1 DEF Fits
  <2>3. Pow2[d] >= 2 /\ Pow2[d] \in Nat /\ Pow2[p - 1] \in Nat /\ Pow2[p] = 2 * Pow2[p - 1]
    <3>1. 2 * Pow2[0] <= Pow2[d] /\ Pow2[0] = 1
      BY <1>8, Pow2Grows, Pow2Def
    <3>2. p - 1 \in Nat /\ (p - 1) + 1 = p
      OBVIOUS
    <3> QED
      BY <1>8, <3>1, <3>2, Pow2Pos, Pow2Def
  <2>4. (Pow2[p - 1] * Pow2[d]) * q.den <= a * q.den
    BY <1>0, <2>2, <2>3
  <2>5. Pow2[p - 1] * Pow2[d] <= a
    BY <1>0, <2>3, <2>4, ProductOrder
  <2>6. Pow2[p - 1] * 2 <= Pow2[p - 1] * Pow2[d]
    BY <2>3
  <2> QED
    BY <2>3, <2>5, <2>6
<1> QED
  BY <1>7, <1>8

-----------------------------------------------------------------------------
(* The significand that a float keeps is a whole number.                     *)
LEMMA NearestType == \A q \in Rational : NearestEven(q) \in Int
BY DEF NearestEven, Rational

(* Round with the sign given. *)
RoundSigned(q, p, s) ==
  LET e == Exponent(Times(q, s), p)
  IN  Scaled(Whole(s * NearestEven(Scaled(Times(q, s), e))), -e)

LEMMA RoundIsSigned ==
  ASSUME NEW p, NEW q, IsFinite(q), q.num # 0
  PROVE  Round(q, p) = RoundSigned(q, p, Sign(q))
BY Zenon DEF Round, RoundSigned

(* What Round does to a positive number: it keeps the significand that       *)
(* Exponent leaves before the point, and scales it back.                     *)
LEMMA RoundPositive ==
  ASSUME NEW p, NEW q \in Rational, q.num > 0, Exponent(q, p) \in Int
  PROVE  /\ NearestEven(Scaled(q, Exponent(q, p))) \in Int
         /\ Round(q, p) = Scaled(Whole(NearestEven(Scaled(q, Exponent(q, p)))), -Exponent(q, p))
<1>1. q.num \in Int /\ q.den \in Nat \ {0} /\ q = [num |-> q.num, den |-> q.den]
  BY DEF Rational
<1>2. IsFinite(q) /\ q.num # 0 /\ ~(q.num < 0)
  BY <1>1 DEF IsFinite
<1>3. Times(q, 1) = q
  BY <1>1 DEF Times, Frac
<1>4. NearestEven(Scaled(q, Exponent(q, p))) \in Int
  BY ScaledType, NearestType
<1>5. 1 * NearestEven(Scaled(q, Exponent(q, p))) = NearestEven(Scaled(q, Exponent(q, p)))
  BY <1>4
<1>6. Round(q, p) = RoundSigned(q, p, 1)
  BY <1>2, RoundIsSigned DEF Sign
<1> QED
  BY <1>3, <1>4, <1>5, <1>6 DEF RoundSigned

(* And to a negative one: the same on the other side of zero.                *)
LEMMA RoundNegative ==
  ASSUME NEW p, NEW q \in Rational, q.num < 0
  PROVE  LET r == [num |-> -q.num, den |-> q.den]
             e == Exponent(r, p)
         IN  /\ r \in Rational /\ r.num > 0
             /\ Round(q, p) = Scaled(Whole((-1) * NearestEven(Scaled(r, e))), -e)
<1>1. q.num \in Int /\ q.den \in Nat \ {0}
  BY DEF Rational
<1>2. IsFinite(q) /\ q.num # 0
  BY <1>1 DEF IsFinite
<1>3. Times(q, -1) = [num |-> -q.num, den |-> q.den]
  BY <1>1 DEF Times, Frac
<1>4. [num |-> -q.num, den |-> q.den] \in Rational /\ -q.num > 0
  BY <1>1 DEF Rational
<1>5. Sign(q) = -1
  BY DEF Sign
<1>6. Round(q, p) = RoundSigned(q, p, -1)
  BY <1>2, <1>5, RoundIsSigned
<1> QED
  BY <1>3, <1>4, <1>6 DEF RoundSigned

(* A whole number that is scaled up and back is itself, as a fraction.       *)
LEMMA ScaledBack ==
  ASSUME NEW q \in Rational, NEW n \in Int, NEW e \in Int, e <= 0, q.num = n * q.den
  PROVE  /\ NearestEven(Scaled(q, e)) = n * Pow2[-e]
         /\ \A s \in Int : LET r == Scaled(Whole(s * (n * Pow2[-e])), -e)
                           IN  r \in Rational /\ r.num = (s * n) * r.den
<1>0. q.num \in Int /\ q.den \in Nat \ {0}
  BY DEF Rational
<1>1. -e \in Nat /\ Pow2[-e] \in Nat \ {0}
  <2>1. -e \in Nat
    OBVIOUS
  <2> QED
    BY <2>1, Pow2Pos
<1>2. Scaled(q, e) \in Rational /\ Scaled(q, e) = [num |-> q.num * Pow2[-e], den |-> q.den]
  BY ScaledType
<1>3. q.num * Pow2[-e] = (n * Pow2[-e]) * q.den /\ n * Pow2[-e] \in Int
  BY <1>0, <1>1
<1>4. NearestEven(Scaled(q, e)) = n * Pow2[-e]
  <2>1. Scaled(q, e).num = (n * Pow2[-e]) * Scaled(q, e).den
    BY <1>2, <1>3
  <2> QED
    BY <1>2, <1>3, <2>1, NearestWhole
<1>5. ASSUME NEW s \in Int
      PROVE  LET r == Scaled(Whole(s * (n * Pow2[-e])), -e)
             IN  r \in Rational /\ r.num = (s * n) * r.den
  <2> DEFINE w == Whole(s * (n * Pow2[-e]))
             d == -e
  <2>1. s * (n * Pow2[-e]) \in Int /\ w \in Rational /\ w.num = s * (n * Pow2[-e]) /\ w.den = 1
    BY <1>1 DEF Whole, Frac, Rational
  <2>2. d \in Int /\ d >= 0
    BY <1>1
  <2>3. Scaled(w, d) \in Rational /\ Scaled(w, d) = [num |-> w.num, den |-> w.den * Pow2[d]]
    <3> HIDE DEF w, d
    <3> QED
      BY <2>1, <2>2, ScaledType
  <2>4. 1 * Pow2[d] = Pow2[d] /\ s * (n * Pow2[d]) = (s * n) * Pow2[d]
    BY <1>1
  <2> QED
    BY <2>1, <2>3, <2>4
<1> QED
  BY <1>4, <1>5

(* A whole number of at most p bits, however it is written as a fraction,    *)
(* is rounded to itself: f64 holds every number up to 2^53 - 1 exactly.      *)
LEMMA ExactRound ==
  ASSUME NEW p \in Nat \ {0}, NEW q \in Rational, NEW n \in Int,
         p <= ExpBelow + 1, q.num = n * q.den, Magnitude(n) < Pow2[p]
  PROVE  Round(q, p) \in Rational /\ Round(q, p).num = n * Round(q, p).den
<1>0. q.num \in Int /\ q.den \in Nat \ {0}
  BY DEF Rational
<1>1. CASE n = 0
  <2>1. q.num = 0
    BY <1>0, <1>1
  <2> QED
    BY <1>1, <2>1 DEF Round
<1>2. CASE n > 0
  <2>1. n \in Nat \ {0} /\ n < Pow2[p]
    BY <1>2 DEF Magnitude
  <2>2. Exponent(q, p) \in Int /\ Exponent(q, p) <= 0
    BY <2>1, ExponentOfWhole
  <2>3. q.num > 0
    BY <1>0, <1>2, ProductOrder
  <2> DEFINE e == Exponent(q, p)
  <2>4. Round(q, p) = Scaled(Whole(NearestEven(Scaled(q, e))), -e)
    BY <2>2, <2>3, RoundPositive
  <2> HIDE DEF e
  <2>5. NearestEven(Scaled(q, e)) = n * Pow2[-e] /\ n * Pow2[-e] = 1 * (n * Pow2[-e])
    <3>1. e \in Int /\ e <= 0
      BY <2>2 DEF e
    <3>2. -e \in Nat
      BY <3>1
    <3>3. Pow2[-e] \in Nat
      BY <3>2, Pow2Pos
    <3>4. NearestEven(Scaled(q, e)) = n * Pow2[-e]
      BY <3>1, ScaledBack
    <3> QED
      BY <3>3, <3>4
  <2>6. LET r == Scaled(Whole(1 * (n * Pow2[-e])), -e) IN r \in Rational /\ r.num = (1 * n) * r.den
    <3>1. e \in Int /\ e <= 0 /\ 1 \in Int
      BY <2>2 DEF e
    <3> QED
      BY <3>1, ScaledBack
  <2> QED
    BY <2>4, <2>5, <2>6
<1>3. CASE n < 0
  <2> DEFINE r == [num |-> -q.num, den |-> q.den]
             m == -n
             e == Exponent(r, p)
  <2>1. m \in Nat \ {0} /\ m < Pow2[p] /\ q.num < 0 /\ -q.num = m * q.den
    BY <1>0, <1>3, ProductOrder DEF Magnitude
  <2>2. r \in Rational /\ r.num > 0 /\ Round(q, p) = Scaled(Whole((-1) * NearestEven(Scaled(r, e))), -e)
    BY <2>1, RoundNegative
  <2>3. r.num = m * r.den
    BY <2>1
  <2> HIDE DEF r, m
  <2>4. e \in Int /\ e <= 0
    BY <2>1, <2>2, <2>3, ExponentOfWhole
  <2> HIDE DEF e
  <2>5. NearestEven(Scaled(r, e)) = m * Pow2[-e]
    BY <2>1, <2>2, <2>3, <2>4, ScaledBack
  <2>6. LET x == Scaled(Whole((-1) * (m * Pow2[-e])), -e) IN x \in Rational /\ x.num = ((-1) * m) * x.den
    <3>1. -1 \in Int /\ m \in Int
      BY <2>1
    <3>2. \A s \in Int : LET x == Scaled(Whole(s * (m * Pow2[-e])), -e)
                        IN  x \in Rational /\ x.num = (s * m) * x.den
      BY <2>2, <2>3, <2>4, <3>1, ScaledBack
    <3> QED
      BY <3>1, <3>2, Zenon
  <2>7. (-1) * m = n
    BY DEF m
  <2> QED
    BY <2>2, <2>5, <2>6, <2>7
<1> QED
  BY <1>1, <1>2, <1>3

-----------------------------------------------------------------------------
(* The exponent of a whole number that is less than 2^(p + ExpAbove), as all *)
(* of 64 bits are.                                                           *)
LEMMA ExponentExists ==
  ASSUME NEW p \in Nat \ {0}, NEW n \in Nat \ {0}, p <= ExpBelow + 1, n < Pow2[p + ExpAbove]
  PROVE  /\ Exponent(Whole(n), p) \in Exponents /\ Exponent(Whole(n), p) \in Int
         /\ Fits(Whole(n), p, Exponent(Whole(n), p))
<1>0. Whole(n) \in Rational /\ Whole(n).num = n /\ Whole(n).den = 1
  BY DEF Whole, Frac, Rational
<1>1. p + ExpAbove \in Nat /\ ExpAbove \in Nat /\ ExpBelow \in Nat
  BY ExponentAssumption
<1>2. PICK k \in 0..(p + ExpAbove - 1) : Pow2[k] <= n /\ n < Pow2[k + 1]
  <2> DEFINE l == p + ExpAbove
  <2>1. l \in Nat /\ n < Pow2[l]
    BY <1>1
  <2> HIDE DEF l
  <2>2. \E k \in 0..(l - 1) : Pow2[k] <= n /\ n < Pow2[k + 1]
    BY <2>1, BinaryLog
  <2> QED
    BY <1>1, <2>2 DEF l
<1> DEFINE e == k - (p - 1)
<1>3. e \in Exponents /\ e \in Int
  BY <1>1 DEF Exponents
<1>4. k \in Nat /\ k + 1 \in Nat /\ Pow2[k] \in Nat /\ Pow2[k + 1] \in Nat
  BY <1>1, Pow2Pos
<1>5. CASE e >= 0
  <2>1. k = (p - 1) + e /\ k + 1 = p + e /\ e \in Nat /\ p - 1 \in Nat
    BY <1>3, <1>5
  <2> HIDE DEF e
  <2>2. Pow2[k] = Pow2[p - 1] * Pow2[e] /\ Pow2[k + 1] = Pow2[p] * Pow2[e]
    BY <2>1, Pow2Sum
  <2>3. Scaled(Whole(n), e) = [num |-> n, den |-> 1 * Pow2[e]] /\ 1 * Pow2[e] = Pow2[e]
    <3>1. Pow2[e] \in Nat
      BY <2>1, Pow2Pos
    <3>2. Scaled(Whole(n), e) = [num |-> Whole(n).num, den |-> Whole(n).den * Pow2[e]]
      <4>1. e \in Int /\ e >= 0
        BY <2>1
      <4> QED
        BY <1>0, <4>1, ScaledType
    <3> QED
      BY <1>0, <3>1, <3>2
  <2>4. Fits(Whole(n), p, e)
    BY <1>2, <2>2, <2>3 DEF Fits
  <2> QED
    BY <1>3, <2>4, ExponentFits
<1>6. CASE e < 0
  <2> DEFINE f == -e
  <2>1. p - 1 = k + f /\ p = (k + 1) + f /\ f \in Nat /\ -e = f /\ e <= 0
    BY <1>3, <1>6
  <2> HIDE DEF e, f
  <2>2. Pow2[p - 1] = Pow2[k] * Pow2[f] /\ Pow2[p] = Pow2[k + 1] * Pow2[f]
    BY <1>4, <2>1, Pow2Sum
  <2>3. Scaled(Whole(n), e) = [num |-> n * Pow2[f], den |-> 1]
    BY <1>0, <1>3, <2>1, ScaledType
  <2>4. Pow2[f] \in Nat /\ Pow2[f] > 0
    BY <2>1, Pow2Pos
  <2>5. Pow2[k] * Pow2[f] <= n * Pow2[f] /\ n * Pow2[f] < Pow2[k + 1] * Pow2[f]
    BY <1>2, <1>4, <2>4, ProductOrder
  <2>6. Pow2[p - 1] * 1 = Pow2[p - 1] /\ Pow2[p] * 1 = Pow2[p]
    <3>1. p - 1 \in Nat
      OBVIOUS
    <3> QED
      BY <3>1, Pow2Pos
  <2>7. Fits(Whole(n), p, e)
    BY <2>2, <2>3, <2>5, <2>6 DEF Fits
  <2> QED
    BY <1>3, <2>7, ExponentFits
<1> QED
  BY <1>3, <1>5, <1>6

(* Rounding to a whole number never passes another one.                      *)
LEMMA NearestBounds ==
  ASSUME NEW q \in Rational, NEW a \in Int
  PROVE  /\ a * q.den <= q.num => a <= NearestEven(q)
         /\ q.num <= a * q.den => NearestEven(q) <= a
<1> DEFINE low == q.num \div q.den
           rest == q.num % q.den
<1>1. q.num \in Int /\ q.den \in Nat \ {0}
  BY DEF Rational
<1>2. low \in Int /\ rest \in Int /\ 0 <= rest /\ rest < q.den /\ q.num = (low * q.den) + rest
  BY <1>1, Division
<1>3. NearestEven(q) \in {low, low + 1} /\ (rest = 0 => NearestEven(q) = low)
  BY <1>1, <1>2 DEF NearestEven
<1> HIDE DEF low, rest
<1>4. ASSUME a * q.den <= q.num PROVE a <= low
  <2>1. a * q.den < (low + 1) * q.den
    BY <1>1, <1>2, <1>4
  <2>2. a < low + 1
    BY <1>1, <1>2, <2>1, ProductOrder
  <2> QED
    BY <1>2, <2>2
<1>5. ASSUME q.num <= a * q.den PROVE IF rest = 0 THEN low <= a ELSE low + 1 <= a
  <2>1. CASE rest = 0
    <3>1. low * q.den <= a * q.den
      BY <1>1, <1>2, <1>5, <2>1
    <3>2. low <= a
      BY <1>1, <1>2, <3>1, ProductOrder
    <3> QED
      BY <2>1, <3>2
  <2>2. CASE rest # 0
    <3>1. low * q.den < a * q.den
      BY <1>1, <1>2, <1>5, <2>2
    <3>2. low < a
      BY <1>1, <1>2, <3>1, ProductOrder
    <3> QED
      BY <1>2, <2>2, <3>2
  <2> QED
    BY <2>1, <2>2
<1> QED
  BY <1>2, <1>3, <1>4, <1>5

(* Of two numbers the larger one is not rounded to the smaller whole number. *)
LEMMA NearestOrder ==
  ASSUME NEW d \in Nat \ {0}, NEW m \in Int, NEW n \in Int, m <= n
  PROVE  NearestEven([num |-> m, den |-> d]) <= NearestEven([num |-> n, den |-> d])
<1> DEFINE low(x) == x \div d
           rest(x) == x % d
           nearest(x) == NearestEven([num |-> x, den |-> d])
<1>1. ASSUME NEW x \in Int
      PROVE  /\ low(x) \in Int /\ rest(x) \in Int /\ 0 <= rest(x) /\ rest(x) < d
             /\ x = (low(x) * d) + rest(x)
             /\ nearest(x) = IF 2 * rest(x) > d \/ (2 * rest(x) = d /\ low(x) % 2 = 1)
                               THEN low(x) + 1 ELSE low(x)
             /\ low(x) <= nearest(x) /\ nearest(x) <= low(x) + 1
  <2>1. nearest(x) = IF 2 * rest(x) > d \/ (2 * rest(x) = d /\ low(x) % 2 = 1)
                       THEN low(x) + 1 ELSE low(x)
    BY DEF NearestEven
  <2> HIDE DEF nearest
  <2> QED
    BY <2>1, Division
<1> HIDE DEF low, rest, nearest
<1>3. low(m) <= low(n)
  <2>1. low(m) * d < (low(n) + 1) * d
    BY <1>1
  <2>2. low(m) < low(n) + 1
    BY <1>1, <2>1, ProductOrder
  <2> QED
    BY <1>1, <2>2
<1>4. nearest(m) <= nearest(n)
  <2>1. CASE low(m) = low(n)
    <3>1. rest(m) <= rest(n)
      BY <1>1, <2>1
    <3>2. \A x \in {m, n} :
            nearest(x) = IF 2 * rest(x) > d \/ (2 * rest(x) = d /\ low(m) % 2 = 1)
                           THEN low(m) + 1 ELSE low(m)
      BY <1>1, <2>1
    <3>3. low(m) \in Int /\ rest(m) \in Int /\ rest(n) \in Int
      BY <1>1
    <3> QED
      BY <3>1, <3>2, <3>3
  <2>2. CASE low(m) < low(n)
    <3>1. nearest(m) <= low(m) + 1 /\ low(n) <= nearest(n)
      BY <1>1
    <3>2. \A x \in {m, n} : low(x) \in Int /\ nearest(x) \in Int
      BY <1>1
    <3> QED
      BY <2>2, <3>1, <3>2
  <2> QED
    BY <1>1, <1>3, <2>1, <2>2
<1> QED
  BY <1>4 DEF nearest

(* What becomes of a whole number: up to p bits it stays, and beyond them it *)
(* becomes a significand of p bits times a power of two.                     *)
Kept(n, p) ==
  /\ n < Pow2[p]
  /\ Round(Whole(n), p) \in Rational
  /\ Round(Whole(n), p).num = n * Round(Whole(n), p).den
Shortened(n, p, e) ==
  /\ Pow2[p - 1] * Pow2[e] <= n /\ n < Pow2[p] * Pow2[e]
  /\ Round(Whole(n), p) =
       [num |-> NearestEven([num |-> n, den |-> Pow2[e]]) * Pow2[e], den |-> 1]

LEMMA RoundWhole ==
  ASSUME NEW p \in Nat \ {0}, NEW n \in Nat, p <= ExpBelow + 1, n < Pow2[p + ExpAbove]
  PROVE  Kept(n, p) \/ \E e \in Nat \ {0} : Shortened(n, p, e)
<1>0. Whole(n) \in Rational /\ Whole(n).num = n /\ Whole(n).den = 1
  BY DEF Whole, Frac, Rational
<1>1. CASE n < Pow2[p]
  <2>1. Magnitude(n) < Pow2[p] /\ Whole(n).num = n * Whole(n).den /\ n \in Int
    BY <1>0, <1>1 DEF Magnitude
  <2>2. Round(Whole(n), p) \in Rational /\ Round(Whole(n), p).num = n * Round(Whole(n), p).den
    BY <1>0, <2>1, ExactRound
  <2> QED
    BY <1>1, <2>2 DEF Kept
<1>2. CASE ~(n < Pow2[p])
  <2> DEFINE q == Whole(n)
             e == Exponent(q, p)
  <2>0. n \in Nat \ {0}
    <3>1. Pow2[p] \in Nat /\ Pow2[p] > 0
      BY Pow2Pos
    <3> QED
      BY <1>2, <3>1
  <2>1. e \in Int /\ Fits(q, p, e)
    BY <2>0, ExponentExists
  <2>2. e \in Int
    BY <2>1
  <2>3. NearestEven(Scaled(q, e)) \in Int /\ Round(q, p) = Scaled(Whole(NearestEven(Scaled(q, e))), -e)
    <3>1. q \in Rational /\ q.num > 0
      BY <1>0, <2>0
    <3> HIDE DEF q
    <3> QED
      BY <2>2, <3>1, RoundPositive
  <2> HIDE DEF e
  <2>4. ASSUME e <= 0 PROVE FALSE
    <3> DEFINE f == -e
    <3>1. f \in Nat /\ -e = f
      BY <2>2, <2>4
    <3>2. Scaled(q, e) = [num |-> q.num * Pow2[-e], den |-> q.den]
      BY <1>0, <2>2, <2>4, ScaledType
    <3> HIDE DEF f
    <3>3. n * Pow2[f] < Pow2[p] * 1
      BY <1>0, <2>1, <3>1, <3>2 DEF Fits
    <3>4. Pow2[f] \in Nat /\ Pow2[f] >= 1 /\ Pow2[p] \in Nat
      BY <3>1, Pow2Pos
    <3> QED
      BY <1>2, <3>3, <3>4
  <2>5. e \in Nat \ {0}
    BY <2>2, <2>4
  <2>6. Pow2[e] \in Nat \ {0}
    BY <2>5, Pow2Pos
  <2>7. Scaled(q, e) = [num |-> n, den |-> Pow2[e]]
    <3>1. Scaled(q, e) = [num |-> q.num, den |-> q.den * Pow2[e]]
      BY <1>0, <2>5, ScaledType
    <3>2. 1 * Pow2[e] = Pow2[e]
      BY <2>6
    <3> QED
      BY <1>0, <3>1, <3>2
  <2>8. Pow2[p - 1] * Pow2[e] <= n /\ n < Pow2[p] * Pow2[e]
    BY <2>1, <2>7 DEF Fits
  <2>9. Round(q, p) = [num |-> NearestEven([num |-> n, den |-> Pow2[e]]) * Pow2[e], den |-> 1]
    <3> DEFINE s == NearestEven([num |-> n, den |-> Pow2[e]])
               w == Whole(s)
               d == -e
    <3>1. s \in Int /\ Round(q, p) = Scaled(w, d)
      BY <2>3, <2>7
    <3>2. w \in Rational /\ w.num = s /\ w.den = 1
      BY <3>1 DEF Whole, Frac, Rational
    <3>3. d \in Int /\ d <= 0 /\ -d = e
      BY <2>5
    <3> HIDE DEF s, w, d
    <3>4. Scaled(w, d) = [num |-> w.num * Pow2[-d], den |-> w.den]
      BY <3>2, <3>3, ScaledType
    <3>5. Round(q, p) = [num |-> s * Pow2[e], den |-> 1]
      BY <3>1, <3>2, <3>3, <3>4
    <3> QED
      BY <3>5 DEF s
  <2>10. Shortened(n, p, e)
    BY <2>8, <2>9 DEF Shortened
  <2> QED
    BY <2>5, <2>10
<1> QED
  BY <1>1, <1>2

(* A shortened number lies between the powers of two that the number lies    *)
(* between, the upper one included.                                          *)
LEMMA ShortenedBounds ==
  ASSUME NEW p \in Nat \ {0}, NEW n \in Nat, NEW e \in Nat \ {0}, Shortened(n, p, e)
  PROVE  LET r == Round(Whole(n), p)
         IN  /\ r.num \in Nat /\ r.den = 1
             /\ Pow2[p - 1] * Pow2[e] <= r.num /\ r.num <= Pow2[p] * Pow2[e]
<1> DEFINE q == [num |-> n, den |-> Pow2[e]]
           s == NearestEven(q)
           lo == Pow2[p - 1]
           hi == Pow2[p]
<1>1. Pow2[e] \in Nat \ {0} /\ lo \in Nat /\ hi \in Nat
  <2>1. p - 1 \in Nat /\ p \in Nat /\ e \in Nat
    OBVIOUS
  <2> QED
    BY <2>1, Pow2Pos
<1>2. q \in Rational /\ q.num = n /\ q.den = Pow2[e]
  BY <1>1 DEF Rational
<1>3. lo * Pow2[e] <= n /\ n < hi * Pow2[e] /\ Round(Whole(n), p) = [num |-> s * Pow2[e], den |-> 1]
  BY DEF Shortened
<1> HIDE DEF q, s, lo, hi
<1>4. lo <= s /\ s <= hi /\ s \in Int
  <2>1. lo * q.den <= q.num /\ q.num <= hi * q.den /\ lo \in Int /\ hi \in Int
    BY <1>1, <1>2, <1>3
  <2> QED
    BY <1>2, <2>1, NearestBounds, NearestType DEF s
<1>5. lo * Pow2[e] <= s * Pow2[e] /\ s * Pow2[e] <= hi * Pow2[e] /\ s * Pow2[e] \in Nat
  BY <1>1, <1>4, ProductOrder
<1> QED
  BY <1>3, <1>5 DEF lo, hi

(* Rounding keeps the order of the unsigned numbers of the engine, and none  *)
(* of them becomes negative.                                                 *)
LEMMA RoundOrder ==
  ASSUME NEW p \in Nat \ {0}, NEW m \in Nat, NEW n \in Nat, m <= n,
         p <= ExpBelow + 1, n < Pow2[p + ExpAbove]
  PROVE  LET r == Round(Whole(m), p)
             t == Round(Whole(n), p)
         IN  r \in Rational /\ t \in Rational /\ t.num >= 0 /\ r.num * t.den <= t.num * r.den
<1> DEFINE r == Round(Whole(m), p)
           t == Round(Whole(n), p)
<1>0. p + ExpAbove \in Nat
  BY ExponentAssumption
<1>1. m < Pow2[p + ExpAbove]
  BY <1>0, Pow2Pos
<1>2. p - 1 \in Nat /\ Pow2[p - 1] \in Nat \ {0} /\ Pow2[p] \in Nat /\ Pow2[p] = 2 * Pow2[p - 1]
  <2>1. p - 1 \in Nat /\ (p - 1) + 1 = p
    OBVIOUS
  <2> QED
    BY <2>1, Pow2Pos, Pow2Def
<1>3. ASSUME NEW x \in Nat, Kept(x, p)
      PROVE  LET q == Round(Whole(x), p)
             IN  x < Pow2[p] /\ q.num \in Int /\ q.den \in Nat \ {0} /\ q.num = x * q.den
                 /\ q.num >= 0 /\ q \in Rational
  <2> DEFINE q == Round(Whole(x), p)
  <2>1. x < Pow2[p] /\ q \in Rational /\ q.num = x * q.den
    BY <1>3 DEF Kept
  <2> HIDE DEF q
  <2>2. q.num \in Int /\ q.den \in Nat \ {0}
    BY <2>1 DEF Rational
  <2>3. q.num >= 0
    BY <2>1, <2>2
  <2> QED
    BY <2>1, <2>2, <2>3 DEF q
<1>4. ASSUME NEW x \in Nat, NEW e \in Nat \ {0}, Shortened(x, p, e)
      PROVE  LET q == Round(Whole(x), p)
             IN  /\ q \in Rational /\ q.num \in Nat /\ q.den = 1
                 /\ Pow2[p - 1] * Pow2[e] <= q.num /\ q.num <= Pow2[p] * Pow2[e]
                 /\ Pow2[p - 1] * Pow2[e] <= x /\ x < Pow2[p] * Pow2[e]
                 /\ q = [num |-> NearestEven([num |-> x, den |-> Pow2[e]]) * Pow2[e], den |-> 1]
                 /\ Pow2[e] \in Nat \ {0} /\ Pow2[p] <= Pow2[p - 1] * Pow2[e]
  <2>1. Pow2[e] \in Nat \ {0} /\ Pow2[e] >= 2
    <3>1. 2 * Pow2[0] <= Pow2[e] /\ Pow2[0] = 1
      BY Pow2Grows, Pow2Def
    <3> QED
      BY <3>1, Pow2Pos
  <2>2. Pow2[p] <= Pow2[p - 1] * Pow2[e]
    BY <1>2, <2>1
  <2> DEFINE q == Round(Whole(x), p)
  <2>3. /\ q.num \in Nat /\ q.den = 1
        /\ Pow2[p - 1] * Pow2[e] <= q.num /\ q.num <= Pow2[p] * Pow2[e]
    BY <1>4, ShortenedBounds
  <2>4. /\ Pow2[p - 1] * Pow2[e] <= x /\ x < Pow2[p] * Pow2[e]
        /\ q = [num |-> NearestEven([num |-> x, den |-> Pow2[e]]) * Pow2[e], den |-> 1]
    BY <1>4 DEF Shortened
  <2>5. q \in Rational
    BY <2>3, <2>4 DEF Rational
  <2> QED
    BY <2>1, <2>2, <2>3, <2>4, <2>5
<1>5. CASE Kept(m, p) /\ Kept(n, p)
  <2> HIDE DEF r, t
  <2>1. /\ r.num \in Int /\ r.den \in Nat \ {0} /\ r.num = m * r.den /\ r \in Rational
        /\ t.num \in Int /\ t.den \in Nat \ {0} /\ t.num = n * t.den /\ t \in Rational /\ t.num >= 0
    BY <1>3, <1>5 DEF r, t
  <2>2. m * (r.den * t.den) <= n * (r.den * t.den)
    <3>1. r.den * t.den \in Nat \ {0}
      BY <2>1
    <3> QED
      BY <3>1, ProductOrder
  <2>3. r.num * t.den = m * (r.den * t.den) /\ t.num * r.den = n * (r.den * t.den)
    BY <2>1
  <2> QED
    BY <2>1, <2>2, <2>3 DEF r, t
<1>6. ASSUME Kept(m, p), NEW e \in Nat \ {0}, Shortened(n, p, e)
      PROVE  r \in Rational /\ t \in Rational /\ t.num >= 0 /\ r.num * t.den <= t.num * r.den
  <2> HIDE DEF r, t
  <2>1. r.num \in Int /\ r.den \in Nat \ {0} /\ r.num = m * r.den /\ r \in Rational /\ m < Pow2[p]
    BY <1>3, <1>6 DEF r
  <2>2. t \in Rational /\ t.num \in Nat /\ t.den = 1 /\ Pow2[p] <= t.num
    <3>1. /\ t \in Rational /\ t.num \in Nat /\ t.den = 1 /\ Pow2[p - 1] * Pow2[e] <= t.num
          /\ Pow2[e] \in Nat /\ Pow2[p] <= Pow2[p - 1] * Pow2[e]
      BY <1>4, <1>6 DEF t
    <3> QED
      BY <1>2, <3>1
  <2>3. m * r.den <= t.num * r.den
    BY <1>2, <2>1, <2>2, ProductOrder
  <2> QED
    BY <2>1, <2>2, <2>3
<1>7. ASSUME NEW e \in Nat \ {0}, Shortened(m, p, e), Kept(n, p) PROVE FALSE
  <2>1. Pow2[p] <= Pow2[p - 1] * Pow2[e] /\ Pow2[p - 1] * Pow2[e] <= m /\ Pow2[e] \in Nat
    BY <1>4, <1>7
  <2>2. n < Pow2[p]
    BY <1>3, <1>7
  <2> QED
    BY <1>2, <2>1, <2>2
<1>8. ASSUME NEW d \in Nat \ {0}, Shortened(m, p, d), NEW e \in Nat \ {0}, Shortened(n, p, e)
      PROVE  r \in Rational /\ t \in Rational /\ t.num >= 0 /\ r.num * t.den <= t.num * r.den
  <2> HIDE DEF r, t
  <2>1. /\ r \in Rational /\ r.num \in Nat /\ r.den = 1
        /\ r.num <= Pow2[p] * Pow2[d] /\ Pow2[p - 1] * Pow2[d] <= m
        /\ r.num = NearestEven([num |-> m, den |-> Pow2[d]]) * Pow2[d]
        /\ Pow2[d] \in Nat \ {0}
    BY <1>4, <1>8 DEF r
  <2>2. /\ t \in Rational /\ t.num \in Nat /\ t.den = 1
        /\ Pow2[p - 1] * Pow2[e] <= t.num /\ n < Pow2[p] * Pow2[e]
        /\ t.num = NearestEven([num |-> n, den |-> Pow2[e]]) * Pow2[e]
        /\ Pow2[e] \in Nat \ {0}
    BY <1>4, <1>8 DEF t
  <2>3. CASE d = e
    <3>1. NearestEven([num |-> m, den |-> Pow2[e]]) <= NearestEven([num |-> n, den |-> Pow2[e]])
      BY <2>2, NearestOrder
    <3>2. /\ NearestEven([num |-> m, den |-> Pow2[e]]) \in Int
          /\ NearestEven([num |-> n, den |-> Pow2[e]]) \in Int
      <4>1. [num |-> m, den |-> Pow2[e]] \in Rational /\ [num |-> n, den |-> Pow2[e]] \in Rational
        BY <2>2 DEF Rational
      <4> QED
        BY <4>1, NearestType
    <3>3. r.num <= t.num
      BY <2>1, <2>2, <2>3, <3>1, <3>2, ProductOrder
    <3> QED
      BY <2>1, <2>2, <3>3
  <2>4. CASE d < e
    <3>1. 2 * Pow2[d] <= Pow2[e]
      BY <2>4, Pow2Grows
    <3>2. Pow2[p] * Pow2[d] <= Pow2[p - 1] * Pow2[e]
      <4>1. Pow2[p] * Pow2[d] = Pow2[p - 1] * (2 * Pow2[d])
        BY <1>2, <2>1
      <4>2. Pow2[p - 1] * (2 * Pow2[d]) <= Pow2[p - 1] * Pow2[e]
        BY <1>2, <2>1, <2>2, <3>1
      <4> QED
        BY <4>1, <4>2
    <3>3. r.num <= t.num
      BY <1>2, <2>1, <2>2, <3>2
    <3> QED
      BY <2>1, <2>2, <3>3
  <2>5. CASE e < d
    <3>1. 2 * Pow2[e] <= Pow2[d]
      BY <2>5, Pow2Grows
    <3>2. Pow2[p] * Pow2[e] <= Pow2[p - 1] * Pow2[d]
      <4>1. Pow2[p] * Pow2[e] = Pow2[p - 1] * (2 * Pow2[e])
        BY <1>2, <2>2
      <4>2. Pow2[p - 1] * (2 * Pow2[e]) <= Pow2[p - 1] * Pow2[d]
        BY <1>2, <2>1, <2>2, <3>1
      <4> QED
        BY <4>1, <4>2
    <3>3. n < m
      BY <1>2, <2>1, <2>2, <3>2
    <3> QED
      BY <3>3
  <2> QED
    BY <2>3, <2>4, <2>5
<1>9. Kept(m, p) \/ \E e \in Nat \ {0} : Shortened(m, p, e)
  BY <1>1, RoundWhole
<1>10. Kept(n, p) \/ \E e \in Nat \ {0} : Shortened(n, p, e)
  BY RoundWhole
<1>11. r \in Rational /\ t \in Rational /\ t.num >= 0 /\ r.num * t.den <= t.num * r.den
  <2> HIDE DEF r, t
  <2>1. CASE Kept(m, p) /\ Kept(n, p)
    BY <1>5, <2>1 DEF r, t
  <2> QED
    BY <1>6, <1>7, <1>8, <1>9, <1>10, <2>1
<1> QED
  BY <1>11

-----------------------------------------------------------------------------
(* A number may be written as more than one fraction; what becomes of it     *)
(* does not depend on that.                                                  *)
LEMMA SameTransitive ==
  ASSUME NEW q \in Rational, NEW r \in Rational, NEW t \in Rational,
         SameNumber(q, r), SameNumber(r, t)
  PROVE  SameNumber(q, t)
<1>1. /\ q.num \in Int /\ r.num \in Int /\ t.num \in Int
      /\ q.den \in Nat \ {0} /\ r.den \in Nat \ {0} /\ t.den \in Nat \ {0}
  BY DEF Rational
<1>2. q.num * r.den = r.num * q.den /\ r.num * t.den = t.num * r.den
  BY DEF SameNumber
<1>3. (q.num * t.den) * r.den = (t.num * q.den) * r.den
  <2>1. (q.num * t.den) * r.den = (q.num * r.den) * t.den
    BY <1>1
  <2>2. (r.num * q.den) * t.den = (r.num * t.den) * q.den
    BY <1>1
  <2>3. (t.num * r.den) * q.den = (t.num * q.den) * r.den
    BY <1>1
  <2> QED
    BY <1>2, <2>1, <2>2, <2>3
<1>4. \A a, b \in Int, c \in Nat \ {0} : a * c = b * c => a = b
  OBVIOUS
<1>5. q.num * t.den = t.num * q.den
  <2>1. q.num * t.den \in Int /\ t.num * q.den \in Int
    BY <1>1
  <2> QED
    BY <1>1, <1>3, <1>4, <2>1
<1> QED
  BY <1>1, <1>5 DEF SameNumber, IsFinite

LEMMA SameSymmetric == \A q, r : SameNumber(q, r) => SameNumber(r, q)
BY DEF SameNumber

LEMMA SameItself == \A q \in Rational : SameNumber(q, q)
BY DEF SameNumber, IsFinite, Rational

LEMMA SameScaled ==
  ASSUME NEW q \in Rational, NEW r \in Rational, SameNumber(q, r), NEW e \in Int
  PROVE  Scaled(q, e) \in Rational /\ Scaled(r, e) \in Rational /\ SameNumber(Scaled(q, e), Scaled(r, e))
<1>1. /\ q.num \in Int /\ r.num \in Int /\ q.den \in Nat \ {0} /\ r.den \in Nat \ {0}
      /\ q.num * r.den = r.num * q.den
  BY DEF Rational, SameNumber
<1>2. Scaled(q, e) \in Rational /\ Scaled(r, e) \in Rational
  BY ScaledType
<1>3. CASE e >= 0
  <2>1. /\ Scaled(q, e) = [num |-> q.num, den |-> q.den * Pow2[e]]
        /\ Scaled(r, e) = [num |-> r.num, den |-> r.den * Pow2[e]]
    BY <1>3, ScaledType
  <2>2. Pow2[e] \in Nat
    BY <1>3, Pow2Pos
  <2>3. q.num * (r.den * Pow2[e]) = r.num * (q.den * Pow2[e])
    BY <1>1, <2>2
  <2>4. Scaled(q, e).den # 0 /\ Scaled(r, e).den # 0
    BY <1>2 DEF Rational
  <2> QED
    BY <1>2, <2>1, <2>3, <2>4 DEF SameNumber, IsFinite
<1>4. CASE e <= 0
  <2> DEFINE f == -e
  <2>1. f \in Nat
    BY <1>4
  <2>2. /\ Scaled(q, e) = [num |-> q.num * Pow2[f], den |-> q.den]
        /\ Scaled(r, e) = [num |-> r.num * Pow2[f], den |-> r.den]
    BY <1>4, ScaledType
  <2> HIDE DEF f
  <2>3. Pow2[f] \in Nat
    BY <2>1, Pow2Pos
  <2>4. (q.num * Pow2[f]) * r.den = (r.num * Pow2[f]) * q.den
    <3>1. (q.num * Pow2[f]) * r.den = (q.num * r.den) * Pow2[f]
      BY <1>1, <2>3
    <3>2. (r.num * Pow2[f]) * q.den = (r.num * q.den) * Pow2[f]
      BY <1>1, <2>3
    <3> QED
      BY <1>1, <3>1, <3>2
  <2>5. Scaled(q, e).den # 0 /\ Scaled(r, e).den # 0
    BY <1>2 DEF Rational
  <2>6. /\ Scaled(q, e).num = q.num * Pow2[f] /\ Scaled(q, e).den = q.den
        /\ Scaled(r, e).num = r.num * Pow2[f] /\ Scaled(r, e).den = r.den
    BY <2>2
  <2>7. SameNumber(Scaled(q, e), Scaled(r, e))
    BY <2>4, <2>5, <2>6 DEF SameNumber, IsFinite
  <2> QED
    BY <1>2, <2>7
<1> QED
  BY <1>2, <1>3, <1>4

(* The order of two numbers, by whatever fractions.                          *)
LEMMA SameOrder ==
  ASSUME NEW q \in Rational, NEW r \in Rational, SameNumber(q, r), NEW k \in Int
  PROVE  /\ k * q.den <= q.num <=> k * r.den <= r.num
         /\ q.num < k * q.den <=> r.num < k * r.den
<1>1. /\ q.num \in Int /\ r.num \in Int /\ q.den \in Nat \ {0} /\ r.den \in Nat \ {0}
      /\ q.num * r.den = r.num * q.den
  BY DEF Rational, SameNumber
<1>2. /\ k * q.den <= q.num <=> (k * q.den) * r.den <= q.num * r.den
      /\ k * r.den <= r.num <=> (k * r.den) * q.den <= r.num * q.den
      /\ q.num < k * q.den <=> q.num * r.den < (k * q.den) * r.den
      /\ r.num < k * r.den <=> r.num * q.den < (k * r.den) * q.den
  <2>1. k * q.den \in Int /\ k * r.den \in Int
    BY <1>1
  <2> QED
    BY <1>1, <2>1, ProductOrder
<1>3. (k * q.den) * r.den = (k * r.den) * q.den
  BY <1>1
<1> QED
  BY <1>1, <1>2, <1>3

LEMMA SameNearest ==
  ASSUME NEW q \in Rational, NEW r \in Rational, SameNumber(q, r)
  PROVE  NearestEven(q) = NearestEven(r)
<1> DEFINE a == q.num \div q.den
           b == q.num % q.den
           c == r.num \div r.den
           d == r.num % r.den
<1>1. /\ q.num \in Int /\ r.num \in Int /\ q.den \in Nat \ {0} /\ r.den \in Nat \ {0}
      /\ q.num * r.den = r.num * q.den
  BY DEF Rational, SameNumber
<1>2. /\ a \in Int /\ b \in Int /\ 0 <= b /\ b < q.den /\ q.num = (a * q.den) + b
      /\ c \in Int /\ d \in Int /\ 0 <= d /\ d < r.den /\ r.num = (c * r.den) + d
  BY <1>1, Division
<1>3. /\ NearestEven(q) = IF 2 * b > q.den \/ (2 * b = q.den /\ a % 2 = 1) THEN a + 1 ELSE a
      /\ NearestEven(r) = IF 2 * d > r.den \/ (2 * d = r.den /\ c % 2 = 1) THEN c + 1 ELSE c
  BY DEF NearestEven
<1> HIDE DEF a, b, c, d
<1>4. a = c
  <2>1. a * q.den <= q.num /\ q.num < (a + 1) * q.den
    BY <1>1, <1>2
  <2>2. a * r.den <= r.num /\ r.num < (a + 1) * r.den
    BY <1>2, <2>1, SameOrder
  <2>3. c * r.den < (a + 1) * r.den /\ a * r.den < (c + 1) * r.den
    BY <1>1, <1>2, <2>2
  <2>4. c < a + 1 /\ a < c + 1
    BY <1>1, <1>2, <2>3, ProductOrder
  <2> QED
    BY <1>2, <2>4
<1>5. b * r.den = d * q.den
  <2>1. q.num * r.den = ((a * q.den) * r.den) + (b * r.den)
    BY <1>1, <1>2
  <2>2. r.num * q.den = ((a * r.den) * q.den) + (d * q.den)
    BY <1>1, <1>2, <1>4
  <2>3. (a * q.den) * r.den = (a * r.den) * q.den
    BY <1>1, <1>2
  <2>4. b * r.den \in Int /\ d * q.den \in Int /\ (a * r.den) * q.den \in Int
    BY <1>1, <1>2
  <2> QED
    BY <1>1, <2>1, <2>2, <2>3, <2>4
<1>6. (2 * b) * r.den = (2 * d) * q.den
  <2>1. (2 * b) * r.den = 2 * (b * r.den)
    BY <1>1, <1>2
  <2>2. (2 * d) * q.den = 2 * (d * q.den)
    BY <1>1, <1>2
  <2> QED
    BY <1>5, <2>1, <2>2
<1>7. (2 * b > q.den <=> 2 * d > r.den) /\ (2 * b = q.den <=> 2 * d = r.den)
  <2> DEFINE x == 2 * b
             y == 2 * d
  <2>0. x \in Int /\ y \in Int /\ q.den \in Int /\ r.den \in Int /\ x * r.den = y * q.den
    BY <1>1, <1>2, <1>6
  <2> HIDE DEF x, y
  <2>1. /\ q.den < x <=> q.den * r.den < x * r.den
        /\ r.den < y <=> r.den * q.den < y * q.den
        /\ q.den <= x <=> q.den * r.den <= x * r.den
        /\ r.den <= y <=> r.den * q.den <= y * q.den
    BY <1>1, <2>0, ProductOrder
  <2>2. q.den * r.den = r.den * q.den
    BY <1>1
  <2>3. (q.den < x <=> r.den < y) /\ (q.den <= x <=> r.den <= y)
    BY <2>0, <2>1, <2>2
  <2>4. (x > q.den <=> y > r.den) /\ (x = q.den <=> y = r.den)
    <3>1. \A u, v, w, z \in Int :
            (u < w <=> v < z) /\ (u <= w <=> v <= z) => (w > u <=> z > v) /\ (w = u <=> z = v)
      OBVIOUS
    <3> QED
      BY <2>0, <2>3, <3>1
  <2> QED
    BY <2>4 DEF x, y
<1> QED
  BY <1>2, <1>3, <1>4, <1>7

LEMMA SameExponent ==
  ASSUME NEW q \in Rational, NEW r \in Rational, SameNumber(q, r), NEW p \in Nat \ {0}
  PROVE  /\ \A e \in Exponents : Fits(q, p, e) <=> Fits(r, p, e)
         /\ Exponent(q, p) = Exponent(r, p)
<1>1. ASSUME NEW e \in Exponents PROVE Fits(q, p, e) <=> Fits(r, p, e)
  <2>1. e \in Int
    BY ExponentAssumption DEF Exponents
  <2>2. Scaled(q, e) \in Rational /\ Scaled(r, e) \in Rational /\ SameNumber(Scaled(q, e), Scaled(r, e))
    BY <2>1, SameScaled
  <2>3. Pow2[p - 1] \in Int /\ Pow2[p] \in Int
    <3>1. p - 1 \in Nat
      OBVIOUS
    <3> QED
      BY <3>1, Pow2Pos
  <2> QED
    BY <2>2, <2>3, SameOrder DEF Fits
<1>2. Exponent(q, p) = Exponent(r, p)
  BY <1>1, Zenon DEF Exponent
<1> QED
  BY <1>1, <1>2

(* Rounding depends on the number alone; a number in range becomes a float.  *)
LEMMA RoundSame ==
  ASSUME NEW p \in Nat \ {0}, NEW q \in Rational, NEW r \in Rational,
         SameNumber(q, r), Covered(q, p)
  PROVE  /\ Round(q, p) \in Rational /\ Round(r, p) \in Rational
         /\ SameNumber(Round(q, p), Round(r, p))
<1>1. /\ q.num \in Int /\ r.num \in Int /\ q.den \in Nat \ {0} /\ r.den \in Nat \ {0}
      /\ q.num * r.den = r.num * q.den
  BY DEF Rational, SameNumber
<1>2. CASE q.num = 0
  <2>1. r.num = 0
    BY <1>1, <1>2
  <2> QED
    BY <1>2, <2>1 DEF Round
<1>3. CASE q.num # 0
  <2> DEFINE s == Sign(q)
             a == Times(q, s)
             b == Times(r, s)
             e == Exponent(a, p)
             n == NearestEven(Scaled(a, e))
  <2>1. r.num # 0 /\ (q.num < 0 <=> r.num < 0)
    <3>1. (0 * q.den <= q.num <=> 0 * r.den <= r.num) /\ 0 * q.den = 0 /\ 0 * r.den = 0
      BY <1>1, SameOrder
    <3>2. r.num # 0
      BY <1>1, <1>3
    <3> QED
      BY <1>1, <3>1, <3>2
  <2>2. Sign(r) = s /\ s \in Int
    BY <2>1 DEF Sign
  <2>3. Round(q, p) = RoundSigned(q, p, s) /\ Round(r, p) = RoundSigned(r, p, s)
    BY <1>1, <1>3, <2>1, <2>2, RoundIsSigned DEF IsFinite
  <2>4. a \in Rational /\ b \in Rational /\ SameNumber(a, b)
    <3> HIDE DEF s
    <3>1. q.num * s \in Int /\ r.num * s \in Int /\ (q.num * s) * r.den = (r.num * s) * q.den
      BY <1>1, <2>2
    <3> QED
      BY <1>1, <3>1 DEF Times, Frac, Rational, SameNumber, IsFinite
  <2>5. PICK d \in Exponents : Fits(a, p, d)
    BY <1>3 DEF Covered
  <2> HIDE DEF s, a, b
  <2>6. e \in Int /\ Exponent(b, p) = e
    BY <2>4, <2>5, ExponentFits, SameExponent
  <2> HIDE DEF e
  <2>7. Scaled(a, e) \in Rational /\ Scaled(b, e) \in Rational /\ NearestEven(Scaled(b, e)) = n /\ n \in Int
    BY <2>4, <2>6, SameScaled, SameNearest, NearestType
  <2> HIDE DEF n
  <2>8. Round(q, p) = Scaled(Whole(s * n), -e) /\ Round(r, p) = Scaled(Whole(s * n), -e)
    BY <2>3, <2>6, <2>7 DEF RoundSigned, a, b, e, n
  <2>9. Whole(s * n) \in Rational /\ -e \in Int
    BY <2>2, <2>6, <2>7 DEF Whole, Frac, Rational
  <2>10. Scaled(Whole(s * n), -e) \in Rational
    BY <2>9, ScaledType
  <2> QED
    BY <2>8, <2>10, SameItself
<1> QED
  BY <1>2, <1>3
=============================================================================
