---------------------------- MODULE BasicLemmas ----------------------------
(***************************************************************************)
(* What every proof needs: how verdicts are read off, induction and        *)
(* recursion on the naturals, the digits of a number, sums, and lists of   *)
(* the steps a script still has to take.                                   *)
(***************************************************************************)
EXTENDS Verdict, Digits, Integers, Sequences, Functions, SequenceTheorems, FiniteSetTheorems,
        WellFoundedInduction, TLAPS

(* `a?; b` succeeds exactly when both do: no later check can undo an error *)
(* and none is skipped on the way to success.  Cited in place of the       *)
(* definition of ??, whose nested alternatives would have to be enumerated. *)
LEMMA BothSucceed == \A a, b : (a ?? b) = Ok <=> a = Ok /\ b = Ok
  BY DEF ??

(* A set of natural numbers that is not empty has a least element: the     *)
(* first entry a search from the front finds, or the first index at which  *)
(* a claim to be proved by induction fails.                                *)
LEMMA LeastNumber ==
  ASSUME NEW S, S \subseteq Nat, S # {}
  PROVE  \E n \in S : \A m \in S : n <= m
<1> DEFINE R == OpToRel(<, Nat)
<1>1. IsWellFoundedOn(R, Nat)
  BY NatLessThanWellFounded, Zenon
<1>2. \A x, y \in Nat : <<x, y>> \in R <=> x < y
  BY DEF OpToRel
<1> HIDE DEF R
<1>3. PICK n \in S : \A m \in S : ~(<<m, n>> \in R)
  BY <1>1, WFMin
<1>4. ASSUME NEW m \in S PROVE n <= m
  <2>1. m \in Nat /\ n \in Nat
    OBVIOUS
  <2>2. ~(m < n)
    BY <2>1, <1>2, <1>3
  <2> QED BY <2>1, <2>2
<1> QED BY <1>4

(* Induction: a set that holds 0 and with every number the next one.  To   *)
(* prove P(n) for every n, apply it to {n \in Nat : P(n)}.                  *)
LEMMA SetInduction ==
  ASSUME NEW S, 0 \in S, \A n \in S \cap Nat : n + 1 \in S
  PROVE  Nat \subseteq S
<1> SUFFICES ASSUME Nat \ S # {} PROVE FALSE
  OBVIOUS
<1>1. PICK n \in Nat \ S : \A m \in Nat \ S : n <= m
  <2> DEFINE R == Nat \ S
  <2>1. R \subseteq Nat /\ R # {}
    OBVIOUS
  <2>2. \E n \in R : \A m \in R : n <= m
    <3> HIDE DEF R
    <3> QED BY <2>1, LeastNumber
  <2> QED BY <2>2
<1>2. n # 0 /\ n - 1 \in Nat
  BY <1>1
<1>3. n - 1 \in S
  BY <1>1, <1>2
<1>4. (n - 1) + 1 \in S
  BY <1>2, <1>3
<1> QED BY <1>1, <1>4

(* f iterates step from base, up to and including n.                       *)
IteratesUpTo(f, base, step, n) ==
  /\ f[0] = base
  /\ \A m \in 1 .. n : f[m] = step[f[m - 1]]

(* The recursion as a whole.                                               *)
Iterates(f, T, base, step) ==
  /\ f \in [Nat -> T]
  /\ f[0] = base
  /\ \A n \in Nat : f[n + 1] = step[f[n]]

(* A function defined by recursion on the naturals exists.                 *)
LEMMA RecursionExists ==
  ASSUME NEW T, NEW base \in T, NEW step \in [T -> T]
  PROVE  \E f : Iterates(f, T, base, step)
<1> DEFINE Upto(n) == {g \in [0 .. n -> T] : IteratesUpTo(g, base, step, n)}
           Good == {n \in Nat : \E g : g \in Upto(n)}
           Same == {n \in Nat : \A k \in Nat, l \in Nat : n <= k /\ n <= l =>
                                  \A g \in Upto(k), h \in Upto(l) : g[n] = h[n]}
<1>1. Nat \subseteq Good
  <2>1. 0 \in Good
    <3>1. [i \in 0 .. 0 |-> base] \in Upto(0)
      BY DEF IteratesUpTo
    <3> QED BY <3>1
  <2>2. ASSUME NEW n \in Good PROVE n + 1 \in Good
    <3>1. PICK g : g \in Upto(n)
      BY <2>2
    <3> DEFINE h == [i \in 0 .. n + 1 |-> IF i = n + 1 THEN step[g[n]] ELSE g[i]]
    <3>2. n \in Nat /\ g \in [0 .. n -> T] /\ g[n] \in T
      BY <2>2, <3>1
    <3>3. step[g[n]] \in T
      BY <3>2
    <3>4. h \in [0 .. n + 1 -> T]
      BY <3>2, <3>3
    <3>5. h[0] = base
      BY <3>1, <3>2 DEF IteratesUpTo
    <3>6. ASSUME NEW m \in 1 .. n + 1 PROVE h[m] = step[h[m - 1]]
      <4>1. CASE m = n + 1
        <5>1. h[m] = step[g[n]] /\ h[m - 1] = g[n]
          BY <3>2, <4>1
        <5> QED BY <4>1, <5>1
      <4>2. CASE m # n + 1
        <5>1. m \in 1 .. n /\ m - 1 \in 0 .. n /\ m \in 0 .. n /\ n + 1 # m - 1
          BY <3>2, <4>2
        <5>2. h[m] = g[m] /\ h[m - 1] = g[m - 1]
          BY <3>2, <4>2, <5>1
        <5>3. g[m] = step[g[m - 1]]
          BY <3>1, <5>1 DEF IteratesUpTo
        <5> QED BY <5>2, <5>3
      <4> QED BY <4>1, <4>2
    <3> HIDE DEF h
    <3>7. h \in Upto(n + 1)
      BY <3>4, <3>5, <3>6 DEF IteratesUpTo
    <3> QED BY <3>2, <3>7
  <2> HIDE DEF Good
  <2> QED BY <2>1, <2>2, SetInduction
<1>2. Nat \subseteq Same
  <2>1. 0 \in Same
    BY DEF IteratesUpTo
  <2>2. ASSUME NEW n \in Same, n \in Nat PROVE n + 1 \in Same
    <3> SUFFICES ASSUME NEW k \in Nat, NEW l \in Nat, n + 1 <= k, n + 1 <= l,
                        NEW g \in Upto(k), NEW h \in Upto(l)
                 PROVE  g[n + 1] = h[n + 1]
      BY <2>2
    <3>1. g[n] = h[n]
      BY <2>2
    <3>2. /\ g[n + 1] = step[g[n + 1 - 1]]
          /\ h[n + 1] = step[h[n + 1 - 1]]
      BY <2>2 DEF IteratesUpTo
    <3>3. n + 1 - 1 = n
      BY <2>2
    <3> QED BY <3>1, <3>2, <3>3
  <2> HIDE DEF Same
  <2> QED BY <2>1, <2>2, SetInduction
<1> DEFINE approx(n) == CHOOSE g : g \in Upto(n)
           f == [n \in Nat |-> approx(n)[n]]
<1>3. \A n \in Nat : approx(n) \in Upto(n)
  BY <1>1
<1> HIDE DEF approx
<1>4. f \in [Nat -> T]
  <2>1. \A n \in Nat : approx(n)[n] \in T
    <3> SUFFICES ASSUME NEW n \in Nat PROVE approx(n)[n] \in T
      OBVIOUS
    <3>1. approx(n) \in [0 .. n -> T]
      BY <1>3
    <3> QED BY <3>1
  <2> QED BY <2>1
<1>5. f[0] = base
  BY <1>3 DEF IteratesUpTo
<1>6. ASSUME NEW n \in Nat PROVE f[n + 1] = step[f[n]]
  <2>1. n + 1 \in Nat /\ n + 1 \in 1 .. n + 1 /\ (n + 1) - 1 = n
    OBVIOUS
  <2>2. approx(n + 1)[n + 1] = step[approx(n + 1)[n]]
    <3>1. approx(n + 1) \in Upto(n + 1)
      <4> HIDE DEF Upto
      <4> QED BY <1>3, <2>1
    <3> QED BY <2>1, <3>1 DEF IteratesUpTo
  <2>3. approx(n + 1)[n] = approx(n)[n]
    <3>1. n \in Same /\ n <= n + 1 /\ n <= n
      BY <1>2
    <3> HIDE DEF Upto
    <3>2. approx(n + 1) \in Upto(n + 1) /\ approx(n) \in Upto(n)
      BY <1>3, <2>1
    <3> QED BY <2>1, <3>1, <3>2
  <2> QED BY <2>1, <2>2, <2>3
<1> HIDE DEF f
<1> QED BY <1>4, <1>5, <1>6 DEF Iterates

-----------------------------------------------------------------------------
(* Numbers.                                                                *)

(* The quotient of a natural number, as the division algorithm has it. *)
LEMMA Quotient ==
  ASSUME NEW n \in Nat, NEW d \in Nat \ {0}
  PROVE  /\ n \div d \in Nat
         /\ (n \div d) * d <= n
         /\ n < (n \div d + 1) * d
  OBVIOUS

(* The types of remainder and quotient. *)
LEMMA Remainder ==
  ASSUME NEW n \in Int, NEW d \in Nat \ {0}
  PROVE  n % d \in 0 .. d - 1 /\ n \div d \in Int
  OBVIOUS

(* A product grows with its first factor. *)
LEMMA ProductMonotone ==
  ASSUME NEW a \in Nat, NEW b \in Nat, NEW c \in Nat, a <= b
  PROVE  a * c <= b * c
  OBVIOUS

(* Power is the function its recursion describes.                          *)
LEMMA Powers ==
  ASSUME NEW b \in Nat \ {0}
  PROVE  /\ Power(b) \in [Nat -> Nat \ {0}]
         /\ Power(b)[0] = 1
         /\ \A n \in Nat : Power(b)[n + 1] = b * Power(b)[n]
<1> DEFINE T == Nat \ {0}
           step == [x \in T |-> b * x]
           rec(f) == [n \in Nat |-> IF n = 0 THEN 1 ELSE b * f[n - 1]]
<1>1. step \in [T -> T]
  OBVIOUS
<1>2. PICK f : Iterates(f, T, 1, step)
  <2>1. 1 \in T
    OBVIOUS
  <2> HIDE DEF step, T
  <2> QED BY <1>1, <2>1, RecursionExists
<1>3. f \in [Nat -> T] /\ f[0] = 1 /\ \A n \in Nat : f[n + 1] = step[f[n]]
  <2> HIDE DEF step, T
  <2> QED BY <1>2 DEF Iterates
<1>4. f = rec(f)
  <2>1. ASSUME NEW n \in Nat, n # 0 PROVE f[n] = b * f[n - 1]
    <3>1. n - 1 \in Nat /\ (n - 1) + 1 = n /\ f[n - 1] \in T
      BY <1>3, <2>1
    <3>2. f[n] = step[f[n - 1]]
      BY <1>3, <3>1
    <3> QED BY <3>1, <3>2
  <2> HIDE DEF step
  <2> QED BY <1>3, <2>1
<1>5. Power(b) = rec(Power(b))
  <2>1. Power(b) = CHOOSE p : p = rec(p)
    BY DEF Power
  <2> HIDE DEF rec
  <2> QED BY <1>4, <2>1
<1> DEFINE p == Power(b)
<1>6. /\ p[0] = 1
      /\ \A n \in Nat : p[n + 1] = b * p[n]
  <2> HIDE DEF p
  <2>1. p = rec(p)
    BY <1>5 DEF p
  <2>2. \A n \in Nat : n + 1 # 0 /\ (n + 1) - 1 = n /\ n + 1 \in Nat
    OBVIOUS
  <2> QED BY <2>1, <2>2
<1>7. p = [n \in Nat |-> p[n]]
  <2> HIDE DEF p
  <2>1. p = rec(p)
    BY <1>5 DEF p
  <2> QED BY <2>1
<1>8. \A n \in Nat : p[n] \in T
  <2> DEFINE S == {n \in Nat : p[n] \in T}
  <2> HIDE DEF p
  <2>1. 0 \in S
    BY <1>6
  <2>2. \A n \in S \cap Nat : n + 1 \in S
    BY <1>6
  <2> HIDE DEF S
  <2>3. Nat \subseteq S
    BY <2>1, <2>2, SetInduction
  <2> QED BY <2>3 DEF S
<1> HIDE DEF p
<1>9. p \in [Nat -> T]
  BY <1>7, <1>8
<1> QED BY <1>6, <1>9 DEF p

(* Dividing twice is dividing by the product.                              *)
LEMMA DivDiv ==
  ASSUME NEW n \in Int, NEW c \in Nat \ {0}, NEW b \in Nat \ {0}
  PROVE  n \div (b * c) = (n \div c) \div b
<1> DEFINE q == n \div c
           r == q \div b
<1>1. q \in Int /\ q * c <= n /\ n < (q + 1) * c
  OBVIOUS
<1>2. r \in Int /\ r * b <= q /\ q + 1 <= (r + 1) * b
  <2> HIDE DEF q
  <2> QED BY <1>1
<1> HIDE DEF q, r
<1>3. (r * b) * c <= q * c
  BY <1>1, <1>2
<1>4. (q + 1) * c <= ((r + 1) * b) * c
  BY <1>1, <1>2
<1>5. r * (b * c) = (r * b) * c /\ (r + 1) * (b * c) = ((r + 1) * b) * c
  BY <1>1, <1>2
<1>6. r * (b * c) <= n /\ n < (r + 1) * (b * c) /\ b * c \in Nat \ {0}
  BY <1>1, <1>2, <1>3, <1>4, <1>5
<1>7. \A d \in Nat \ {0} : r * d <= n /\ n < (r + 1) * d => n \div d = r
  BY <1>2
<1> QED BY <1>6, <1>7 DEF r, q

(* One more digit of n.                                                    *)
LEMMA ModDigit ==
  ASSUME NEW n \in Int, NEW c \in Nat \ {0}, NEW b \in Nat \ {0}
  PROVE  n % (b * c) = (n % c) + ((n \div c) % b) * c
<1> DEFINE q == n \div c
           r == q \div b
<1>1. n \div (b * c) = r
  BY DivDiv
<1>2. q \in Int /\ n % c = n - q * c
  OBVIOUS
<1>3. r \in Int /\ q % b = q - r * b
  <2> HIDE DEF q
  <2> QED BY <1>2
<1>4. b * c \in Nat \ {0}
  OBVIOUS
<1>5. \A d \in Nat \ {0} : n % d = n - (n \div d) * d
  OBVIOUS
<1>6. n % (b * c) = n - r * (b * c)
  BY <1>1, <1>4, <1>5
<1> HIDE DEF q, r
<1>7. (q - r * b) * c = q * c - r * (b * c)
  BY <1>2, <1>3
<1> QED BY <1>2, <1>3, <1>6, <1>7 DEF q

(* A digit pushes the digits above it up by one place.                     *)
LEMMA NextDigit ==
  ASSUME NEW n \in Nat, NEW b \in Nat \ {0}, NEW i \in Nat
  PROVE  /\ Digit(n, b, i) \in 0 .. b - 1
         /\ n \div Power(b)[i] \in Nat
         /\ n \div Power(b)[i] = (n \div Power(b)[i + 1]) * b + Digit(n, b, i)
<1> DEFINE c == Power(b)[i]
           q == n \div c
<1>1. c \in Nat \ {0} /\ Power(b)[i + 1] = b * c
  BY Powers
<1>2. n \div (b * c) = q \div b
  BY <1>1, DivDiv
<1>3. Digit(n, b, i) = q % b
  BY DEF Digit
<1>4. q \in Nat
  <2> HIDE DEF c
  <2> QED BY <1>1, Quotient
<1> HIDE DEF c, q
<1>5. q % b \in 0 .. b - 1 /\ q = (q \div b) * b + (q % b)
  BY <1>4
<1> QED BY <1>1, <1>2, <1>3, <1>4, <1>5 DEF c, q

(* Two numbers compare as their leading digits do, and by the last digit   *)
(* where those are equal.                                                  *)
LEMMA CompareDigits ==
  ASSUME NEW x \in Nat, NEW y \in Nat, NEW b \in Nat \ {0},
         NEW d \in 0 .. b - 1, NEW e \in 0 .. b - 1
  PROVE  /\ x * b + d > y * b + e <=> x > y \/ (x = y /\ d > e)
         /\ x * b + d = y * b + e <=> x = y /\ d = e
<1>1. ASSUME NEW u \in Nat, NEW v \in Nat, NEW f \in 0 .. b - 1, NEW g \in 0 .. b - 1, u > v
      PROVE  u * b + f > v * b + g
  <2>1. (v + 1) * b <= u * b
    BY <1>1, ProductMonotone
  <2>2. (v + 1) * b = v * b + b /\ u * b \in Nat /\ v * b \in Nat
    BY <1>1
  <2> QED BY <2>1, <2>2
<1>2. CASE x > y
  <2>1. x * b + d > y * b + e
    BY <1>1, <1>2
  <2>2. x * b \in Nat /\ y * b \in Nat
    OBVIOUS
  <2> QED BY <1>2, <2>1, <2>2
<1>3. CASE y > x
  <2>1. y * b + e > x * b + d
    BY <1>1, <1>3
  <2>2. x * b \in Nat /\ y * b \in Nat
    OBVIOUS
  <2> QED BY <1>3, <2>1, <2>2
<1>4. CASE x = y
  <2>1. x * b \in Nat
    OBVIOUS
  <2> QED BY <1>4, <2>1
<1> QED BY <1>2, <1>3, <1>4

-----------------------------------------------------------------------------
(* Sums over the domain of a function.                                     *)

(* The recursion of the community modules' sum over the subsets of D.      *)
SumStep(f, D, g) ==
  [s \in SUBSET D |->
     IF s = {} THEN 0 ELSE f[CHOOSE x \in s : TRUE] + g[s \ {CHOOSE x \in s : TRUE}]]

IsSum(g, f, D) == g \in [SUBSET D -> Int] /\ g = SumStep(f, D, g)

LEMMA SumAsRecursion ==
  ASSUME NEW f, NEW D
  PROVE  SumFunctionOnSet(f, D) = (CHOOSE g : g = SumStep(f, D, g))[D]
BY DEF SumFunctionOnSet, FoldFunctionOnSet, MapThenFoldSet, SumStep

LEMMA SmallerSet ==
  ASSUME NEW s, IsFiniteSet(s), NEW x \in s
  PROVE  /\ Cardinality(s) \in Nat \ {0} /\ IsFiniteSet(s \ {x})
         /\ Cardinality(s \ {x}) = Cardinality(s) - 1
<1>1. Cardinality(s) \in Nat /\ Cardinality(s \ {x}) \in Nat
  BY FS_CardinalityType, FS_RemoveElement
<1>2. IsFiniteSet(s \ {x}) /\ Cardinality(s \ {x}) = Cardinality(s) - 1
  BY FS_RemoveElement
<1> QED BY <1>1, <1>2

LEMMA SumExists ==
  ASSUME NEW D, IsFiniteSet(D), NEW f \in [D -> Int]
  PROVE  \E g : IsSum(g, f, D)
<1> DEFINE T == [SUBSET D -> Int]
           base == [s \in SUBSET D |-> 0]
           step == [h \in T |-> SumStep(f, D, h)]
<1>1. \A s \in SUBSET D : IsFiniteSet(s) /\ Cardinality(s) \in Nat
  BY FS_Subset, FS_CardinalityType
<1>2. base \in T
  OBVIOUS
<1>3. step \in [T -> T]
  <2> SUFFICES ASSUME NEW h \in T PROVE SumStep(f, D, h) \in T
    OBVIOUS
  <2>1. ASSUME NEW s \in SUBSET D, s # {}
        PROVE  f[CHOOSE x \in s : TRUE] + h[s \ {CHOOSE x \in s : TRUE}] \in Int
    <3> DEFINE x == CHOOSE x \in s : TRUE
    <3>1. x \in D /\ s \ {x} \in SUBSET D
      BY <2>1
    <3> HIDE DEF x
    <3>2. f[x] \in Int /\ h[s \ {x}] \in Int
      BY <3>1
    <3> QED BY <3>2 DEF x
  <2> QED BY <2>1 DEF SumStep
<1>4. PICK G : Iterates(G, T, base, step)
  <2> HIDE DEF T, base, step
  <2> QED BY <1>2, <1>3, RecursionExists
<1>5. G \in [Nat -> T] /\ \A n \in Nat : G[n + 1] = SumStep(f, D, G[n])
  <2>1. G \in [Nat -> T] /\ \A n \in Nat : G[n + 1] = step[G[n]]
    <3> HIDE DEF T, base, step
    <3> QED BY <1>4 DEF Iterates
  <2> HIDE DEF T
  <2> QED BY <2>1
<1> DEFINE g == [s \in SUBSET D |-> G[Cardinality(s)][s]]
<1>6. g \in T
  <2>1. \A s \in SUBSET D : G[Cardinality(s)] \in T
    BY <1>1, <1>5
  <2> QED BY <2>1
<1>7. ASSUME NEW s \in SUBSET D PROVE g[s] = SumStep(f, D, g)[s]
  <2> DEFINE x == CHOOSE x \in s : TRUE
             n == Cardinality(s)
  <2>1. CASE s = {}
    <3>1. g[s] = G[0][s]
      BY <2>1, FS_EmptySet
    <3>2. G[0][s] = 0
      <4>1. G[0] = base
        <5> HIDE DEF T, base, step
        <5> QED BY <1>4 DEF Iterates
      <4> QED BY <4>1
    <3> QED BY <2>1, <3>1, <3>2 DEF SumStep
  <2>2. CASE s # {}
    <3>1. x \in s
      BY <2>2
    <3> HIDE DEF x
    <3>2. n \in Nat \ {0} /\ Cardinality(s \ {x}) = n - 1 /\ s \ {x} \in SUBSET D
      BY <1>1, <3>1, SmallerSet
    <3>3. n - 1 \in Nat /\ (n - 1) + 1 = n
      BY <3>2
    <3>4. G[n] = SumStep(f, D, G[n - 1])
      BY <1>5, <3>3
    <3>5. G[n][s] = f[x] + G[n - 1][s \ {x}]
      BY <2>2, <3>4 DEF SumStep, x
    <3>6. g[s] = G[n][s] /\ g[s \ {x}] = G[n - 1][s \ {x}]
      BY <3>2
    <3> HIDE DEF g
    <3> QED BY <2>2, <3>5, <3>6 DEF SumStep, x
  <2> QED BY <2>1, <2>2
<1> HIDE DEF g
<1>8. g = SumStep(f, D, g)
  BY <1>6, <1>7 DEF SumStep
<1> QED BY <1>6, <1>8 DEF IsSum

(* All functions that satisfy the recursion are one.                       *)
LEMMA SumUnique ==
  ASSUME NEW D, IsFiniteSet(D), NEW f, NEW e, NEW g, NEW h, NEW E, D \subseteq E,
         g = SumStep(f, D, g), h = SumStep(e, E, h), \A x \in D : e[x] = f[x]
  PROVE  \A s \in SUBSET D : g[s] = h[s]
<1> DEFINE S == {n \in Nat : \A s \in SUBSET D : Cardinality(s) = n => g[s] = h[s]}
<1>1. \A s \in SUBSET D : IsFiniteSet(s) /\ Cardinality(s) \in Nat
  BY FS_Subset, FS_CardinalityType
<1>2. \A s \in SUBSET D : s = {} => g[s] = 0 /\ h[s] = 0
  BY DEF SumStep
<1>3. ASSUME NEW s \in SUBSET D, s # {}
      PROVE  \E x \in s : g[s] = f[x] + g[s \ {x}] /\ h[s] = f[x] + h[s \ {x}]
  <2> DEFINE x == CHOOSE x \in s : TRUE
  <2>1. x \in s /\ x \in D /\ s \in SUBSET E
    BY <1>3
  <2>2. g[s] = f[x] + g[s \ {x}]
    BY <1>3 DEF SumStep
  <2>3. h[s] = e[x] + h[s \ {x}]
    BY <1>3, <2>1 DEF SumStep
  <2> HIDE DEF x
  <2> QED BY <2>1, <2>2, <2>3
<1>4. 0 \in S
  BY <1>1, <1>2, FS_EmptySet
<1>5. ASSUME NEW n \in S \cap Nat PROVE n + 1 \in S
  <2> SUFFICES ASSUME NEW s \in SUBSET D, Cardinality(s) = n + 1 PROVE g[s] = h[s]
    OBVIOUS
  <2>1. s # {}
    <3>1. Cardinality(s) # 0
      OBVIOUS
    <3> QED BY <3>1, FS_EmptySet
  <2>2. PICK x \in s : g[s] = f[x] + g[s \ {x}] /\ h[s] = f[x] + h[s \ {x}]
    BY <1>3, <2>1
  <2>3. s \ {x} \in SUBSET D /\ Cardinality(s \ {x}) = n
    BY <1>1, SmallerSet
  <2> QED BY <2>2, <2>3
<1> HIDE DEF S
<1>6. Nat \subseteq S
  BY <1>4, <1>5, SetInduction
<1> QED BY <1>1, <1>6 DEF S

(* The sum does not depend on the order in which elements are taken.       *)
LEMMA SumTakesAny ==
  ASSUME NEW D, IsFiniteSet(D), NEW f \in [D -> Int], NEW g, IsSum(g, f, D),
         NEW t \in SUBSET D, NEW z \in t
  PROVE  g[t] = f[z] + g[t \ {z}]
<1> DEFINE S == {n \in Nat : \A s \in SUBSET D : Cardinality(s) = n =>
                               \A y \in s : g[s] = f[y] + g[s \ {y}]}
<1>1. \A s \in SUBSET D : IsFiniteSet(s) /\ Cardinality(s) \in Nat
  BY FS_Subset, FS_CardinalityType
<1>2. /\ \A s \in SUBSET D : g[s] \in Int
      /\ \A x \in D : f[x] \in Int
  BY DEF IsSum
<1>3. ASSUME NEW s \in SUBSET D, s # {} PROVE \E x \in s : g[s] = f[x] + g[s \ {x}]
  <2>1. (CHOOSE x \in s : TRUE) \in s
    BY <1>3
  <2> QED BY <1>3, <2>1 DEF IsSum, SumStep
<1>4. 0 \in S
  <2>1. \A s \in SUBSET D : Cardinality(s) = 0 => s = {}
    BY <1>1, FS_EmptySet
  <2> QED BY <2>1
<1>5. ASSUME NEW n \in S \cap Nat PROVE n + 1 \in S
  <2> SUFFICES ASSUME NEW s \in SUBSET D, Cardinality(s) = n + 1, NEW y \in s
               PROVE  g[s] = f[y] + g[s \ {y}]
    OBVIOUS
  <2>1. PICK x \in s : g[s] = f[x] + g[s \ {x}]
    BY <1>3
  <2>2. CASE x = y
    BY <2>1, <2>2
  <2>3. CASE x # y
    <3>1. /\ s \ {x} \in SUBSET D /\ Cardinality(s \ {x}) = n /\ y \in s \ {x}
          /\ s \ {y} \in SUBSET D /\ Cardinality(s \ {y}) = n /\ x \in s \ {y}
      BY <1>1, <2>3, SmallerSet
    <3>2. /\ g[s \ {x}] = f[y] + g[(s \ {x}) \ {y}]
          /\ g[s \ {y}] = f[x] + g[(s \ {y}) \ {x}]
      BY <3>1
    <3>3. (s \ {x}) \ {y} = (s \ {y}) \ {x} /\ (s \ {x}) \ {y} \in SUBSET D
      OBVIOUS
    <3>4. f[x] \in Int /\ f[y] \in Int /\ g[(s \ {x}) \ {y}] \in Int
      BY <1>2, <3>3
    <3> DEFINE rest == g[(s \ {x}) \ {y}]
    <3>5. g[s] = f[x] + (f[y] + rest) /\ g[s \ {y}] = f[x] + rest
      BY <2>1, <3>2, <3>3
    <3> QED BY <3>4, <3>5
  <2> QED BY <2>2, <2>3
<1> HIDE DEF S
<1>6. Nat \subseteq S
  BY <1>4, <1>5, SetInduction
<1>7. Cardinality(t) \in S
  BY <1>1, <1>6
<1> QED BY <1>7 DEF S

LEMMA SumIs ==
  ASSUME NEW D, IsFiniteSet(D), NEW f \in [D -> Int]
  PROVE  \E g : IsSum(g, f, D) /\ SumFunctionOnSet(f, D) = g[D]
<1> DEFINE g == CHOOSE g : g = SumStep(f, D, g)
<1>1. PICK h : IsSum(h, f, D)
  BY SumExists
<1>2. h = SumStep(f, D, h) /\ h \in [SUBSET D -> Int]
  BY <1>1 DEF IsSum
<1>3. g = SumStep(f, D, g)
  BY <1>2
<1> HIDE DEF g
<1>4. \A s \in SUBSET D : g[s] = h[s]
  BY <1>2, <1>3, SumUnique
<1>5. g[D] = h[D]
  BY <1>4
<1>6. SumFunctionOnSet(f, D) = g[D]
  BY SumAsRecursion DEF g
<1> QED BY <1>1, <1>5, <1>6

LEMMA SumFunctionType ==
  ASSUME NEW D, IsFiniteSet(D), NEW f \in [D -> Int]
  PROVE  SumFunction(f) \in Int
<1>1. PICK g : IsSum(g, f, D) /\ SumFunctionOnSet(f, D) = g[D]
  BY SumIs
<1>2. g[D] \in Int
  BY <1>1 DEF IsSum
<1>3. DOMAIN f = D
  OBVIOUS
<1> QED BY <1>1, <1>2, <1>3 DEF SumFunction

LEMMA SumFunctionEmpty ==
  ASSUME NEW f, DOMAIN f = {}
  PROVE  SumFunction(f) = 0
<1> DEFINE h == [s \in SUBSET {} |-> 0]
           g == CHOOSE g : g = SumStep(f, {}, g)
<1>1. h = SumStep(f, {}, h)
  BY DEF SumStep
<1>2. g = SumStep(f, {}, g)
  <2> HIDE DEF h
  <2> QED BY <1>1
<1> HIDE DEF g
<1>3. g[{}] = 0
  BY <1>2 DEF SumStep
<1> QED BY <1>3, SumAsRecursion DEF g, SumFunction

(* e is f with one more summand, at y.                                     *)
HasOneMore(e, f, D, y) ==
  /\ IsFiniteSet(D) /\ y \notin D
  /\ f \in [D -> Int] /\ e \in [D \cup {y} -> Int]
  /\ \A x \in D : e[x] = f[x]

LEMMA SumFunctionGrows ==
  ASSUME NEW e, NEW f, NEW D, NEW y, HasOneMore(e, f, D, y)
  PROVE  SumFunction(f) \in Int /\ SumFunction(e) = SumFunction(f) + e[y]
<1> DEFINE E == D \cup {y}
<1>1. /\ IsFiniteSet(D) /\ y \notin D /\ \A x \in D : e[x] = f[x]
      /\ f \in [D -> Int] /\ e \in [E -> Int]
  BY DEF HasOneMore
<1>2. IsFiniteSet(E) /\ D \subseteq E /\ E \ {y} = D /\ y \in E
  BY <1>1, FS_AddElement
<1>3. DOMAIN f = D /\ DOMAIN e = E
  BY <1>1
<1> HIDE DEF E
<1>4. PICK g : IsSum(g, f, D) /\ SumFunctionOnSet(f, D) = g[D]
  BY <1>1, SumIs
<1>5. PICK h : IsSum(h, e, E) /\ SumFunctionOnSet(e, E) = h[E]
  BY <1>1, <1>2, SumIs
<1>6. \A s \in SUBSET D : g[s] = h[s]
  BY <1>1, <1>2, <1>4, <1>5, SumUnique DEF IsSum
<1>7. g[D] = h[D] /\ g[D] \in Int
  BY <1>4, <1>6 DEF IsSum
<1>8. h[E] = e[y] + h[D]
  <2>1. h[E] = e[y] + h[E \ {y}]
    BY <1>1, <1>2, <1>5, SumTakesAny
  <2> QED BY <1>2, <2>1
<1>9. e[y] \in Int
  BY <1>1, <1>2
<1> QED BY <1>3, <1>4, <1>5, <1>7, <1>8, <1>9 DEF SumFunction

-----------------------------------------------------------------------------
(* Lists of steps.                                                         *)

(* Before a step x is reached, one of the steps in S is still to be taken. *)
Awaits(s, x, S) == \A i \in DOMAIN s : s[i] = x => \E j \in 1 .. i - 1 : s[j] \in S

Includes(s, x) == \E i \in DOMAIN s : s[i] = x

Meets(s, S) == \E i \in DOMAIN s : s[i] \in S

LEMMA SingleStep == ASSUME NEW T, NEW x \in T PROVE <<x>> \in Seq(T)
  OBVIOUS

(* What comes first in the first list comes first in the two together.     *)
LEMMA AwaitsInConcatenation ==
  ASSUME NEW T, NEW a \in Seq(T), NEW b \in Seq(T), NEW x, NEW S,
         Awaits(a, x, S), Awaits(b, x, S) \/ \E j \in DOMAIN a : a[j] \in S
  PROVE  a \o b \in Seq(T) /\ Awaits(a \o b, x, S)
<1> DEFINE s == a \o b
<1>1. /\ Len(a) \in Nat /\ Len(b) \in Nat /\ DOMAIN a = 1 .. Len(a) /\ DOMAIN b = 1 .. Len(b)
      /\ s \in Seq(T) /\ DOMAIN s = 1 .. Len(a) + Len(b)
      /\ \A i \in 1 .. Len(a) + Len(b) : s[i] = IF i <= Len(a) THEN a[i] ELSE b[i - Len(a)]
  BY ConcatProperties, LenProperties
<1> HIDE DEF s
<1>2. SUFFICES ASSUME NEW i \in DOMAIN s, s[i] = x
               PROVE  \E j \in 1 .. i - 1 : s[j] \in S
  BY <1>1 DEF Awaits, s
<1>3. CASE i <= Len(a)
  <2>1. PICK j \in 1 .. i - 1 : a[j] \in S
    BY <1>1, <1>2, <1>3 DEF Awaits
  <2>2. s[j] = a[j]
    BY <1>1, <1>2, <1>3
  <2> QED BY <2>1, <2>2
<1>4. CASE ~(i <= Len(a))
  <2>1. CASE Awaits(b, x, S)
    <3>1. i - Len(a) \in DOMAIN b /\ b[i - Len(a)] = x
      BY <1>1, <1>2, <1>4
    <3>2. PICK j \in 1 .. i - Len(a) - 1 : b[j] \in S
      BY <2>1, <3>1 DEF Awaits
    <3>3. /\ j + Len(a) \in 1 .. i - 1 /\ j + Len(a) \in 1 .. Len(a) + Len(b)
          /\ ~(j + Len(a) <= Len(a)) /\ (j + Len(a)) - Len(a) = j
      BY <1>1, <1>2, <1>4
    <3>4. s[j + Len(a)] = b[j]
      BY <1>1, <3>3
    <3> QED BY <3>2, <3>3, <3>4
  <2>2. ASSUME NEW j \in DOMAIN a, a[j] \in S PROVE \E k \in 1 .. i - 1 : s[k] \in S
    <3>1. j \in 1 .. i - 1 /\ s[j] = a[j]
      BY <1>1, <1>2, <1>4
    <3> QED BY <2>2, <3>1
  <2> QED BY <2>1, <2>2
<1> QED BY <1>3, <1>4

(* A step that is not in S is taken: what was awaited still is.            *)
LEMMA AwaitsInTail ==
  ASSUME NEW T, NEW s \in Seq(T), s # <<>>, NEW x, NEW S, Awaits(s, x, S), Head(s) \notin S
  PROVE  Awaits(Tail(s), x, S)
<1>1. /\ Len(s) \in Nat /\ Len(s) # 0 /\ DOMAIN s = 1 .. Len(s) /\ Head(s) = s[1]
      /\ Tail(s) \in Seq(T) /\ DOMAIN Tail(s) = 1 .. Len(s) - 1
      /\ \A i \in 1 .. Len(s) - 1 : Tail(s)[i] = s[i + 1]
  BY LenProperties, EmptySeq, HeadTailProperties
<1> SUFFICES ASSUME NEW i \in 1 .. Len(s) - 1, s[i + 1] = x
             PROVE  \E j \in 1 .. i - 1 : Tail(s)[j] \in S
  BY <1>1 DEF Awaits
<1>2. PICK j \in 1 .. i : s[j] \in S
  <2>1. i + 1 \in DOMAIN s /\ (i + 1) - 1 = i
    BY <1>1
  <2> QED BY <2>1 DEF Awaits
<1>3. j # 1 /\ j \in Int
  BY <1>1, <1>2
<1>4. j - 1 \in 1 .. i - 1 /\ Tail(s)[j - 1] = s[j]
  BY <1>1, <1>3
<1> QED BY <1>2, <1>4

(* A prompt put in the place of a step that is not in S.                   *)
LEMMA AwaitsWithPrompt ==
  ASSUME NEW T, NEW s \in Seq(T), s # <<>>, NEW prompt \in T, NEW x, prompt # x, NEW S,
         Awaits(s, x, S), Head(s) \notin S
  PROVE  /\ <<prompt>> \o Tail(s) \in Seq(T)
         /\ Awaits(<<prompt>> \o Tail(s), x, S)
<1>1. Tail(s) \in Seq(T) /\ <<prompt>> \in Seq(T)
  BY HeadTailProperties, EmptySeq
<1>2. Awaits(<<prompt>>, x, S)
  BY DEF Awaits
<1> QED BY <1>1, <1>2, AwaitsInTail, AwaitsInConcatenation

(* Nothing enters a list when its first step is taken or replaced.         *)
LEMMA IncludesInTail ==
  ASSUME NEW T, NEW s \in Seq(T), s # <<>>, NEW x
  PROVE  /\ Includes(Tail(s), x) => Includes(s, x)
         /\ \A prompt \in T :
              prompt # x /\ Includes(<<prompt>> \o Tail(s), x) => Includes(s, x)
<1>1. /\ Len(s) \in Nat /\ Len(s) # 0 /\ DOMAIN s = 1 .. Len(s)
      /\ Tail(s) \in Seq(T) /\ Len(Tail(s)) = Len(s) - 1
      /\ DOMAIN Tail(s) = 1 .. Len(s) - 1
      /\ \A i \in 1 .. Len(s) - 1 : Tail(s)[i] = s[i + 1]
  BY LenProperties, EmptySeq, HeadTailProperties
<1>2. Includes(Tail(s), x) => Includes(s, x)
  BY <1>1 DEF Includes
<1>3. ASSUME NEW prompt \in T, prompt # x, Includes(<<prompt>> \o Tail(s), x)
      PROVE  Includes(Tail(s), x)
  <2> DEFINE r == <<prompt>> \o Tail(s)
             tail == Tail(s)
  <2>1. <<prompt>> \in Seq(T) /\ Len(<<prompt>>) = 1 /\ <<prompt>>[1] = prompt
    OBVIOUS
  <2> HIDE DEF tail
  <2>2. /\ DOMAIN r = 1 .. 1 + Len(tail)
        /\ \A i \in 1 .. 1 + Len(tail) : r[i] = IF i <= 1 THEN <<prompt>>[i] ELSE tail[i - 1]
    BY <1>1, <2>1, ConcatProperties, LenProperties DEF tail
  <2> HIDE DEF r
  <2>3. PICK i \in DOMAIN r : r[i] = x
    BY <1>3 DEF Includes, r, tail
  <2>4. i \in 1 .. 1 + Len(tail) /\ i # 1 /\ Len(tail) \in Nat /\ Len(tail) = Len(s) - 1
    <3>1. Len(tail) \in Nat /\ Len(tail) = Len(s) - 1
      BY <1>1 DEF tail
    <3> QED BY <1>3, <2>1, <2>2, <2>3, <3>1
  <2>5. i - 1 \in DOMAIN tail /\ tail[i - 1] = x
    BY <1>1, <2>2, <2>3, <2>4 DEF tail
  <2> QED BY <2>5 DEF Includes, tail
<1> QED BY <1>2, <1>3

LEMMA MeetsInConcatenation ==
  ASSUME NEW T, NEW a \in Seq(T), NEW b \in Seq(T), NEW S,
         Meets(a, S) \/ Meets(b, S)
  PROVE  Meets(a \o b, S)
<1> DEFINE s == a \o b
<1>1. /\ Len(a) \in Nat /\ Len(b) \in Nat /\ DOMAIN a = 1 .. Len(a) /\ DOMAIN b = 1 .. Len(b)
      /\ DOMAIN s = 1 .. Len(a) + Len(b)
      /\ \A i \in 1 .. Len(a) + Len(b) : s[i] = IF i <= Len(a) THEN a[i] ELSE b[i - Len(a)]
  BY ConcatProperties, LenProperties
<1> HIDE DEF s
<1>2. ASSUME NEW i \in DOMAIN a, a[i] \in S PROVE Meets(s, S)
  <2>1. i \in DOMAIN s /\ s[i] = a[i]
    BY <1>1
  <2> QED BY <1>2, <2>1 DEF Meets
<1>3. ASSUME NEW i \in 1 .. Len(b), b[i] \in S PROVE Meets(s, S)
  <2>1. /\ Len(a) + i \in 1 .. Len(a) + Len(b) /\ ~(Len(a) + i <= Len(a))
        /\ (Len(a) + i) - Len(a) = i
    BY <1>1
  <2>2. s[Len(a) + i] = b[i]
    BY <1>1, <2>1
  <2> QED BY <1>1, <1>3, <2>1, <2>2 DEF Meets
<1> QED BY <1>1, <1>2, <1>3 DEF Meets, s

LEMMA PairIncludesOnly ==
  ASSUME NEW x, NEW y, NEW step, x # step, y # step
  PROVE  ~Includes(<<x, y>>, step)
<1> DEFINE s == <<x, y>>
<1>1. DOMAIN s = 1 .. 2 /\ s[1] = x /\ s[2] = y
  OBVIOUS
<1> HIDE DEF s
<1>2. \A i \in 1 .. 2 : i = 1 \/ i = 2
  OBVIOUS
<1>3. ~Includes(s, step)
  BY <1>1, <1>2 DEF Includes
<1> QED BY <1>3 DEF s


(* Short lists.                                                            *)
LEMMA PairAwaits ==
  ASSUME NEW T, NEW x \in T, NEW y \in T
  PROVE  /\ <<x, y>> \in Seq(T)
         /\ \A step, S : x # step /\ (y = step => x \in S) => Awaits(<<x, y>>, step, S)
<1> DEFINE s == <<x, y>>
<1>1. s \in Seq(T)
  OBVIOUS
<1>2. DOMAIN s = 1 .. 2 /\ s[1] = x /\ s[2] = y
  OBVIOUS
<1> HIDE DEF s
<1>3. \A i \in 1 .. 2 : i = 1 \/ i = 2
  OBVIOUS
<1>4. ASSUME NEW step, NEW S, x # step, y = step => x \in S
      PROVE  Awaits(s, step, S)
  <2> SUFFICES ASSUME NEW i \in DOMAIN s, s[i] = step PROVE \E j \in 1 .. i - 1 : s[j] \in S
    BY DEF Awaits
  <2>1. i = 2 /\ x \in S
    BY <1>2, <1>3, <1>4
  <2>2. 1 \in 1 .. i - 1
    BY <2>1
  <2> QED BY <1>2, <2>1, <2>2
<1> QED BY <1>1, <1>4 DEF s

LEMMA TripleAwaits ==
  ASSUME NEW T, NEW x \in T, NEW y \in T, NEW z \in T
  PROVE  /\ <<x, y, z>> \in Seq(T)
         /\ \A step, S :
              x # step /\ (y = step => x \in S) /\ (z = step => x \in S \/ y \in S) =>
                Awaits(<<x, y, z>>, step, S)
<1> DEFINE s == <<x, y, z>>
<1>1. s \in Seq(T)
  OBVIOUS
<1>2. DOMAIN s = 1 .. 3 /\ s[1] = x /\ s[2] = y /\ s[3] = z
  OBVIOUS
<1> HIDE DEF s
<1>3. \A i \in 1 .. 3 : i = 1 \/ i = 2 \/ i = 3
  OBVIOUS
<1>4. ASSUME NEW step, NEW S, x # step, y = step => x \in S, z = step => x \in S \/ y \in S
      PROVE  Awaits(s, step, S)
  <2> SUFFICES ASSUME NEW i \in DOMAIN s, s[i] = step PROVE \E j \in 1 .. i - 1 : s[j] \in S
    BY DEF Awaits
  <2>1. (i = 2 /\ x \in S) \/ (i = 3 /\ (x \in S \/ y \in S))
    BY <1>2, <1>3, <1>4
  <2>2. 1 \in 1 .. i - 1 /\ (i = 3 => 2 \in 1 .. i - 1)
    BY <2>1
  <2> QED BY <1>2, <2>1, <2>2
<1> QED BY <1>1, <1>4 DEF s


LEMMA TripleIncludesOnly ==
  ASSUME NEW x, NEW y, NEW z, NEW step, x # step, y # step, z # step
  PROVE  ~Includes(<<x, y, z>>, step)
<1> DEFINE s == <<x, y, z>>
<1>1. DOMAIN s = 1 .. 3 /\ s[1] = x /\ s[2] = y /\ s[3] = z
  OBVIOUS
<1> HIDE DEF s
<1>2. \A i \in 1 .. 3 : i = 1 \/ i = 2 \/ i = 3
  OBVIOUS
<1>3. ~Includes(s, step)
  BY <1>1, <1>2 DEF Includes
<1> QED BY <1>3 DEF s


(* The first step is on the list, and awaits nothing.                      *)
LEMMA FirstStepAwaitsNothing ==
  ASSUME NEW T, NEW s \in Seq(T), s # <<>>
  PROVE  Includes(s, Head(s)) /\ \A S : ~Awaits(s, Head(s), S)
<1>1. 1 \in DOMAIN s /\ Head(s) = s[1]
  BY LenProperties, EmptySeq, HeadTailProperties
<1> QED BY <1>1 DEF Awaits, Includes

=============================================================================
