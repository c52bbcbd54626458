----------------------------- MODULE SumsProofs -----------------------------
(***************************************************************************)
(* Lemmas about the operators of Sums: that the partial sums exist, what   *)
(* type a sum has, how it changes when one element does, and the bounds of *)
(* basis points and shares.                                                *)
(***************************************************************************)
EXTENDS Sums, WellFoundedInduction, TLAPS

\* A nonempty set of naturals has a least element.
LEMMA NatMin ==
  ASSUME NEW T, T \subseteq Nat, T # {}
  PROVE  \E x \in T : \A y \in T : x <= y
<1> DEFINE R == {ss \in Nat \X Nat : ss[1] < ss[2]}
<1>1. IsWellFoundedOn(R, Nat)
  BY NatLessThanWellFounded DEF OpToRel
<1>2. \E x \in T : \A y \in T : ~ (<<y, x>> \in R)
  <2> HIDE DEF R
  <2> QED BY <1>1, WFMin
<1>3. PICK x \in T : \A y \in T : ~ (<<y, x>> \in R)
  BY <1>2
<1>4. ASSUME NEW y \in T PROVE x <= y
  <2>1. ~ (<<y, x>> \in R) BY <1>3
  <2>2. x \in Nat /\ y \in Nat OBVIOUS
  <2>3. <<y, x>> \in Nat \X Nat BY <2>2
  <2>4. ~(y < x) BY <2>1, <2>3
  <2> QED BY <2>2, <2>4
<1> HIDE DEF R
<1>5. QED BY <1>4

\* g holds the partial sums of f up to n.
SumsTo(f, g, n) ==
    /\ g[0] = 0
    /\ \A i \in 1 .. n : g[i] = g[i - 1] + f[i]

\* Partial sums are unique: two functions that hold them up to n agree there.
LEMMA SumsUnique ==
  ASSUME NEW f, NEW g, NEW h, NEW n \in Nat, SumsTo(f, g, n), SumsTo(f, h, n)
  PROVE  \A i \in 0 .. n : g[i] = h[i]
<1> DEFINE D == {i \in 0 .. n : g[i] # h[i]}
<1> SUFFICES ASSUME D # {} PROVE FALSE
  OBVIOUS
<1>1. D \subseteq Nat
  OBVIOUS
<1>2. PICK x \in D : \A y \in D : x <= y
  <2> HIDE DEF D
  <2> QED BY <1>1, NatMin
<1>3. x # 0
  BY DEF SumsTo
<1>4. x - 1 \in 0 .. n /\ x - 1 \notin D /\ x \in 1 .. n
  BY <1>2, <1>3
<1>5. g[x - 1] = h[x - 1]
  BY <1>4
<1>6. g[x] = g[x - 1] + f[x] /\ h[x] = h[x - 1] + f[x]
  BY <1>4 DEF SumsTo
<1> QED BY <1>5, <1>6

\* Up to every n there is a function that holds the partial sums of f.
LEMMA SumsToExists ==
  ASSUME NEW f
  PROVE  \A n \in Nat : \E g : SumsTo(f, g, n)
<1> DEFINE D == {n \in Nat : ~ \E g : SumsTo(f, g, n)}
<1> SUFFICES ASSUME D # {} PROVE FALSE
  OBVIOUS
<1>1. D \subseteq Nat
  OBVIOUS
<1>2. PICK x \in D : \A y \in D : x <= y
  <2> HIDE DEF D
  <2> QED BY <1>1, NatMin
<1>3. x # 0
  <2>1. SumsTo(f, [i \in {0} |-> 0], 0)
    BY DEF SumsTo
  <2> QED BY <2>1
<1>4. x \in Nat /\ x - 1 \in Nat /\ x - 1 \notin D
  BY <1>2, <1>3
<1>5. PICK g : SumsTo(f, g, x - 1)
  BY <1>4
<1> DEFINE h == [i \in 0 .. x |-> IF i = x THEN g[x - 1] + f[x] ELSE g[i]]
<1>6. h[0] = 0
  BY <1>3, <1>4, <1>5 DEF SumsTo
<1>7. ASSUME NEW i \in 1 .. x PROVE h[i] = h[i - 1] + f[i]
  <2>1. i - 1 \in 0 .. x /\ i \in 0 .. x /\ i - 1 # x
    BY <1>4
  <2>2. h[i - 1] = g[i - 1]
    BY <2>1
  <2>3. CASE i = x
    BY <2>1, <2>2, <2>3
  <2>4. CASE i # x
    <3>1. i \in 1 .. x - 1
      BY <2>4, <1>4
    <3>2. g[i] = g[i - 1] + f[i]
      BY <3>1, <1>5 DEF SumsTo
    <3> QED BY <2>1, <2>2, <2>4, <3>2
  <2> QED BY <2>3, <2>4
<1>8. SumsTo(f, h, x)
  <2> HIDE DEF h
  <2> QED BY <1>6, <1>7 DEF SumsTo
<1> QED BY <1>8

\* The recursive definition has the solution it describes.
LEMMA PartialSumsRec ==
  ASSUME NEW f
  PROVE  PartialSums(f) = [i \in Nat |-> IF i = 0 THEN 0 ELSE PartialSums(f)[i - 1] + f[i]]
<1> DEFINE G(n) == CHOOSE g : SumsTo(f, g, n)
           S == [n \in Nat |-> G(n)[n]]
<1>1. ASSUME NEW n \in Nat PROVE SumsTo(f, G(n), n)
  BY SumsToExists
<1>2. ASSUME NEW i \in Nat PROVE S[i] = IF i = 0 THEN 0 ELSE S[i - 1] + f[i]
  <2>1. CASE i = 0
    BY <1>1, <2>1 DEF SumsTo
  <2>2. CASE i # 0
    <3>1. i - 1 \in Nat /\ i \in 1 .. i
      BY <2>2
    <3>2. SumsTo(f, G(i), i) /\ SumsTo(f, G(i - 1), i - 1)
      BY <1>1, <3>1
    <3>3. SumsTo(f, G(i), i - 1)
      BY <3>2, <3>1 DEF SumsTo
    <3>4. G(i)[i - 1] = G(i - 1)[i - 1]
      <4> HIDE DEF G
      <4> QED BY <3>1, <3>2, <3>3, SumsUnique
    <3>5. G(i)[i] = G(i)[i - 1] + f[i]
      BY <3>1, <3>2 DEF SumsTo
    <3> HIDE DEF G
    <3> QED BY <2>2, <3>1, <3>4, <3>5
  <2> QED BY <2>1, <2>2
<1>3. S = [i \in Nat |-> IF i = 0 THEN 0 ELSE S[i - 1] + f[i]]
  <2> HIDE DEF G
  <2>1. DOMAIN S = Nat OBVIOUS
  <2>2. S = [i \in Nat |-> S[i]] OBVIOUS
  <2> HIDE DEF S
  <2> QED BY <1>2, <2>2
<1> HIDE DEF S
<1>4. \E s : s = [i \in Nat |-> IF i = 0 THEN 0 ELSE s[i - 1] + f[i]]
  BY <1>3
<1> QED BY <1>4 DEF PartialSums

\* Sums from their first element on.
LEMMA SumZero ==
  ASSUME NEW f PROVE Sum(f, 0) = 0
BY PartialSumsRec DEF Sum

\* A sum over one more index adds the value there.
LEMMA SumStep ==
  ASSUME NEW f, NEW n \in Nat \ {0} PROVE Sum(f, n) = Sum(f, n - 1) + f[n]
BY PartialSumsRec DEF Sum
-----------------------------------------------------------------------------
\* A sum of naturals is a natural.
LEMMA SumNat ==
  ASSUME NEW f, NEW n \in Nat, \A i \in 1 .. n : f[i] \in Nat
  PROVE  Sum(f, n) \in Nat
<1> DEFINE D == {k \in 0 .. n : Sum(f, k) \notin Nat}
<1> SUFFICES ASSUME D # {} PROVE FALSE
  OBVIOUS
<1>1. D \subseteq Nat
  OBVIOUS
<1>2. PICK x \in D : \A y \in D : x <= y
  <2> HIDE DEF D
  <2> QED BY <1>1, NatMin
<1>3. x # 0
  BY SumZero
<1>4. x - 1 \in 0 .. n /\ x - 1 \notin D /\ x \in 1 .. n /\ x \in Nat \ {0}
  BY <1>2, <1>3
<1>5. Sum(f, x - 1) \in Nat
  BY <1>4
<1>6. Sum(f, x) = Sum(f, x - 1) + f[x]
  BY <1>4, SumStep
<1> QED BY <1>4, <1>5, <1>6

\* Sums are monotone: elementwise smaller naturals have a smaller sum.
LEMMA SumMonotone ==
  ASSUME NEW f, NEW g, NEW n \in Nat,
         \A i \in 1 .. n : f[i] \in Nat /\ g[i] \in Nat /\ f[i] <= g[i]
  PROVE  Sum(f, n) <= Sum(g, n)
<1> DEFINE D == {k \in 0 .. n : ~ (Sum(f, k) <= Sum(g, k))}
<1> SUFFICES ASSUME D # {} PROVE FALSE
  OBVIOUS
<1>1. D \subseteq Nat
  OBVIOUS
<1>2. PICK x \in D : \A y \in D : x <= y
  <2> HIDE DEF D
  <2> QED BY <1>1, NatMin
<1>3. x # 0
  BY SumZero
<1>4. x - 1 \in 0 .. n /\ x - 1 \notin D /\ x \in 1 .. n /\ x \in Nat \ {0}
  BY <1>2, <1>3
<1>5. Sum(f, x - 1) <= Sum(g, x - 1)
  BY <1>4
<1>6. /\ Sum(f, x) = Sum(f, x - 1) + f[x]
      /\ Sum(g, x) = Sum(g, x - 1) + g[x]
  BY <1>4, SumStep
<1>7. Sum(f, x - 1) \in Nat /\ Sum(g, x - 1) \in Nat
  <2>1. x - 1 \in Nat /\ \A i \in 1 .. x - 1 : f[i] \in Nat /\ g[i] \in Nat
    BY <1>4
  <2> QED BY <2>1, SumNat
<1> QED BY <1>4, <1>5, <1>6, <1>7

\* A sum of zeros.
LEMMA SumOfZeros ==
  ASSUME NEW f, NEW n \in Nat, \A i \in 1 .. n : f[i] = 0
  PROVE  Sum(f, n) = 0
<1> DEFINE D == {k \in 0 .. n : Sum(f, k) # 0}
<1> SUFFICES ASSUME D # {} PROVE FALSE
  OBVIOUS
<1>1. D \subseteq Nat
  OBVIOUS
<1>2. PICK x \in D : \A y \in D : x <= y
  <2> HIDE DEF D
  <2> QED BY <1>1, NatMin
<1>3. x # 0
  BY SumZero
<1>4. x - 1 \in 0 .. n /\ x - 1 \notin D /\ x \in 1 .. n /\ x \in Nat \ {0}
  BY <1>2, <1>3
<1>5. Sum(f, x - 1) = 0 /\ f[x] = 0
  BY <1>4
<1>6. Sum(f, x) = Sum(f, x - 1) + f[x]
  BY <1>4, SumStep
<1> QED BY <1>2, <1>5, <1>6

\* Elements that grow by no more than c times those of w have a sum that grows
\* by no more than c times the sum of w.
LEMMA SumScaled ==
  ASSUME NEW f, NEW g, NEW w, NEW n \in Nat, NEW c \in Nat,
         \A i \in 1 .. n : f[i] \in Nat /\ g[i] \in Nat /\ w[i] \in Nat,
         \A i \in 1 .. n : g[i] <= f[i] + c * w[i]
  PROVE  Sum(g, n) <= Sum(f, n) + c * Sum(w, n)
<1> DEFINE D == {k \in 0 .. n : ~ (Sum(g, k) <= Sum(f, k) + c * Sum(w, k))}
<1> SUFFICES ASSUME D # {} PROVE FALSE
  OBVIOUS
<1>1. D \subseteq Nat
  OBVIOUS
<1>2. PICK x \in D : \A y \in D : x <= y
  <2> HIDE DEF D
  <2> QED BY <1>1, NatMin
<1>3. x # 0
  <2>1. c * 0 = 0
    OBVIOUS
  <2> QED BY <2>1, SumZero
<1>4. x - 1 \in 0 .. n /\ x - 1 \notin D /\ x \in 1 .. n /\ x \in Nat \ {0}
  BY <1>2, <1>3
<1>5. Sum(g, x - 1) <= Sum(f, x - 1) + c * Sum(w, x - 1)
  BY <1>4
<1>6. /\ Sum(f, x) = Sum(f, x - 1) + f[x]
      /\ Sum(g, x) = Sum(g, x - 1) + g[x]
      /\ Sum(w, x) = Sum(w, x - 1) + w[x]
  BY <1>4, SumStep
<1>7. Sum(f, x - 1) \in Nat /\ Sum(g, x - 1) \in Nat /\ Sum(w, x - 1) \in Nat
  <2>1. x - 1 \in Nat /\ \A i \in 1 .. x - 1 : f[i] \in Nat /\ g[i] \in Nat /\ w[i] \in Nat
    BY <1>4
  <2> QED BY <2>1, SumNat
<1>8. /\ f[x] \in Nat /\ g[x] \in Nat /\ w[x] \in Nat /\ g[x] <= f[x] + c * w[x]
  BY <1>4
<1>9. ~ (Sum(g, x) <= Sum(f, x) + c * Sum(w, x))
  BY <1>2
<1>10. c * (Sum(w, x - 1) + w[x]) = c * Sum(w, x - 1) + c * w[x]
       /\ c * Sum(w, x - 1) \in Nat /\ c * w[x] \in Nat
  BY <1>7, <1>8
<1> DEFINE cw == c * Sum(w, x - 1)
           cx == c * w[x]
<1> HIDE DEF D, cw, cx
<1> QED BY <1>5, <1>6, <1>7, <1>8, <1>9, <1>10 DEF cw, cx

\* Elements that c times are within those of g have a sum that c times is
\* within the sum of g.
LEMMA SumTimes ==
  ASSUME NEW f, NEW g, NEW n \in Nat, NEW c \in Nat,
         \A i \in 1 .. n : f[i] \in Nat /\ g[i] \in Nat,
         \A i \in 1 .. n : f[i] * c <= g[i]
  PROVE  Sum(f, n) * c <= Sum(g, n)
<1> DEFINE D == {k \in 0 .. n : ~ (Sum(f, k) * c <= Sum(g, k))}
<1> SUFFICES ASSUME D # {} PROVE FALSE
  OBVIOUS
<1>1. D \subseteq Nat
  OBVIOUS
<1>2. PICK x \in D : \A y \in D : x <= y
  <2> HIDE DEF D
  <2> QED BY <1>1, NatMin
<1>3. x # 0
  <2>1. 0 * c = 0
    OBVIOUS
  <2> QED BY <2>1, SumZero
<1>4. x - 1 \in 0 .. n /\ x - 1 \notin D /\ x \in 1 .. n /\ x \in Nat \ {0}
  BY <1>2, <1>3
<1>5. Sum(f, x - 1) * c <= Sum(g, x - 1)
  BY <1>4
<1>6. /\ Sum(f, x) = Sum(f, x - 1) + f[x]
      /\ Sum(g, x) = Sum(g, x - 1) + g[x]
  BY <1>4, SumStep
<1>7. Sum(f, x - 1) \in Nat /\ Sum(g, x - 1) \in Nat
  <2>1. x - 1 \in Nat /\ \A i \in 1 .. x - 1 : f[i] \in Nat /\ g[i] \in Nat
    BY <1>4
  <2> QED BY <2>1, SumNat
<1>8. f[x] \in Nat /\ g[x] \in Nat /\ f[x] * c <= g[x]
  BY <1>4
<1>9. ~ (Sum(f, x) * c <= Sum(g, x))
  BY <1>2
<1> DEFINE a == Sum(f, x - 1) * c
           b == f[x] * c
<1>10. Sum(f, x) * c = a + b /\ a \in Nat /\ b \in Nat
  <2>1. (Sum(f, x - 1) + f[x]) * c = a + b
    BY <1>7, <1>8
  <2> QED BY <1>6, <1>7, <1>8, <2>1
<1> HIDE DEF D, a, b
<1> QED BY <1>5, <1>6, <1>7, <1>8, <1>9, <1>10 DEF a, b

\* A sum that changes in one element changes by as much.
LEMMA SumUpdate ==
  ASSUME NEW f, NEW g, NEW n \in Nat, NEW j \in 1 .. n,
         \A i \in 1 .. n : f[i] \in Nat /\ g[i] \in Nat,
         \A i \in (1 .. n) \ {j} : g[i] = f[i]
  PROVE  Sum(g, n) = Sum(f, n) + g[j] - f[j]
<1> DEFINE Off(k) == IF k < j THEN 0 ELSE g[j] - f[j]
           D == {k \in 0 .. n : Sum(g, k) # Sum(f, k) + Off(k)}
<1> SUFFICES ASSUME D # {} PROVE FALSE
  <2>1. n \in 0 .. n /\ ~ (n < j)
    OBVIOUS
  <2>2. \A k \in 0 .. n : Sum(f, k) \in Nat
    BY SumNat
  <2> QED BY <2>1, <2>2
<1>1. D \subseteq Nat
  OBVIOUS
<1>2. PICK x \in D : \A y \in D : x <= y
  <2> HIDE DEF D
  <2> QED BY <1>1, NatMin
<1>3. x # 0
  BY SumZero
<1>4. x - 1 \in 0 .. n /\ x - 1 \notin D /\ x \in 1 .. n /\ x \in Nat \ {0}
  BY <1>2, <1>3
<1>5. Sum(g, x - 1) = Sum(f, x - 1) + Off(x - 1)
  BY <1>4
<1>6. /\ Sum(f, x) = Sum(f, x - 1) + f[x]
      /\ Sum(g, x) = Sum(g, x - 1) + g[x]
  BY <1>4, SumStep
<1>7. Sum(f, x - 1) \in Nat /\ Sum(g, x - 1) \in Nat
  <2>1. x - 1 \in Nat /\ \A i \in 1 .. x - 1 : f[i] \in Nat /\ g[i] \in Nat
    BY <1>4
  <2> QED BY <2>1, SumNat
<1>8. g[x] \in Nat /\ f[x] \in Nat /\ (x # j => g[x] = f[x])
  BY <1>4
<1>9. CASE x < j
  BY <1>4, <1>5, <1>6, <1>7, <1>8, <1>9
<1>10. CASE x = j
  BY <1>4, <1>5, <1>6, <1>7, <1>8, <1>10
<1>11. CASE x > j
  BY <1>4, <1>5, <1>6, <1>7, <1>8, <1>11
<1> QED BY <1>4, <1>9, <1>10, <1>11
-----------------------------------------------------------------------------
\* A quotient of naturals, and its defining bounds.
LEMMA DivBounds ==
  ASSUME NEW a \in Nat, NEW d \in Nat \ {0}
  PROVE  a \div d \in Nat /\ (a \div d) * d <= a
OBVIOUS

\* A product with a factor between two naturals lies between the products.
LEMMA ProductMonotone ==
  ASSUME NEW a \in Nat, NEW b \in Nat, NEW c \in Nat, b <= c
  PROVE  a * b \in Nat /\ a * b <= a * c
OBVIOUS

\* Products by the same positive number are ordered as their factors are.
LEMMA ProductReflects ==
  ASSUME NEW a \in Nat, NEW b \in Nat, NEW d \in Nat \ {0}, a * d <= b * d
  PROVE  a <= b
OBVIOUS

\* The product of a negative and a positive number.
LEMMA NegativeProduct ==
  ASSUME NEW a \in Int, a < 0, NEW d \in Nat \ {0} PROVE a * d < 0
<1>1. -a \in Nat /\ 1 <= -a /\ d \in Nat
  OBVIOUS
<1>2. d * 1 <= d * (-a)
  BY <1>1, ProductMonotone
<1>3. d * 1 = d /\ d * (-a) = -(a * d) /\ a * d \in Int
  OBVIOUS
<1> DEFINE p == a * d
<1> HIDE DEF p
<1>4. p < 0
  BY <1>2, <1>3 DEF p
<1> QED BY <1>4 DEF p

\* Two fees taken together never exceed the amount they are taken from.
LEMMA BpsSplit ==
  ASSUME NEW a \in Nat, NEW b \in Nat, NEW c \in Nat, NEW d \in Nat \ {0}, b + c <= d
  PROVE  Bps(a, b, d) \in Nat /\ Bps(a, c, d) \in Nat /\ Bps(a, b, d) + Bps(a, c, d) <= a
<1> DEFINE p == a * b
           q == a * c
           x == p \div d
           y == q \div d
<1>1. p \in Nat /\ q \in Nat
  OBVIOUS
<1>2. x \in Nat /\ x * d <= p /\ y \in Nat /\ y * d <= q
  <2> HIDE DEF p, q
  <2> QED BY <1>1, DivBounds
<1>3. p + q = a * (b + c)
  OBVIOUS
<1>4. a * (b + c) <= a * d
  BY ProductMonotone
<1>5. (x + y) * d <= a * d
  <2>1. (x + y) * d = x * d + y * d
    <3> HIDE DEF x, y
    <3> QED BY <1>2
  <2> HIDE DEF p, q, x, y
  <2>2. x * d \in Nat /\ y * d \in Nat /\ a * d \in Nat
    BY <1>2
  <2> QED BY <1>1, <1>2, <1>3, <1>4, <2>1, <2>2
<1>6. x + y <= a
  <2> HIDE DEF p, q, x, y
  <2> QED BY <1>2, <1>5, ProductReflects
<1> QED BY <1>2, <1>6 DEF Bps

\* A fee never exceeds the amount it is taken from.
LEMMA BpsBound ==
  ASSUME NEW a \in Nat, NEW b \in Nat, NEW d \in Nat \ {0}, b <= d
  PROVE  Bps(a, b, d) \in Nat /\ Bps(a, b, d) <= a
<1>1. /\ Bps(a, b, d) \in Nat /\ Bps(a, 0, d) \in Nat
      /\ Bps(a, b, d) + Bps(a, 0, d) <= a
  BY BpsSplit
<1> QED BY <1>1

\* A share of a whole that is not empty is a natural.
LEMMA ShareOfNat ==
  ASSUME NEW total \in Nat, NEW part \in Nat, NEW whole \in Nat \ {0}
  PROVE  ShareOf(total, part, whole) \in Nat
<1>1. total * part \in Nat
  OBVIOUS
<1> QED BY <1>1, DivBounds DEF ShareOf

\* The share of a part of the whole never exceeds the total.
LEMMA ShareOfBound ==
  ASSUME NEW total \in Nat, NEW part \in Nat, NEW whole \in Nat \ {0}, part <= whole
  PROVE  ShareOf(total, part, whole) <= total
<1> DEFINE p == total * part
           x == p \div whole
<1>1. p \in Nat /\ p <= total * whole
  BY ProductMonotone
<1>2. x \in Nat /\ x * whole <= p
  <2> HIDE DEF p
  <2> QED BY <1>1, DivBounds
<1>3. x * whole <= total * whole
  <2> HIDE DEF p, x
  <2>1. x * whole \in Nat /\ total * whole \in Nat
    BY <1>2
  <2> QED BY <1>1, <1>2, <2>1
<1>4. x <= total
  <2> HIDE DEF p, x
  <2> QED BY <1>2, <1>3, ProductReflects
<1> QED BY <1>4 DEF ShareOf
-----------------------------------------------------------------------------
(* Shares: what truncation may take from one                               *)

LEMMA DivRest ==
  ASSUME NEW a \in Nat, NEW d \in Nat \ {0}
  PROVE  a \div d \in Nat /\ (a \div d) * d <= a /\ a < (a \div d) * d + d
OBVIOUS

\* Products by the same positive number are strictly ordered as their factors are.
LEMMA ProductReflectsLess ==
  ASSUME NEW a \in Int, NEW b \in Int, NEW d \in Nat \ {0}, a * d < b * d
  PROVE  a < b
OBVIOUS

\* Between two truncated readings of a growing amount: b / D of it, in units of
\* which T stand for one of e, is at most e / T rounded up, and at least L less.
LEMMA ShareBounds ==
  ASSUME NEW a \in Nat, NEW b \in Nat, NEW D \in Nat \ {0}, NEW T \in Nat \ {0},
         NEW e \in Nat, NEW L \in Nat \ {0},
         b * T <= e * D, e * D <= b * T + ((L - 1) * T) * D
  PROVE  LET x == (a + b) \div D - a \div D
         IN  x \in Nat /\ x * T < e + T /\ (x + L) * T >= e
<1> DEFINE q == a \div D
           r == (a + b) \div D
           x == r - q
<1>1. /\ q \in Nat /\ q * D <= a /\ a < q * D + D
      /\ r \in Nat /\ r * D <= a + b /\ a + b < r * D + D
  <2>1. a + b \in Nat
    OBVIOUS
  <2> HIDE DEF q, r
  <2> QED BY <2>1, DivRest DEF q, r
<1> HIDE DEF q, r
<1>2. x \in Int /\ x * D = r * D - q * D /\ x * D \in Int /\ q * D \in Nat /\ r * D \in Nat
      /\ (x + 1) * D = x * D + D
  BY <1>1
<1> HIDE DEF x
<1>3. x * D < b + D /\ b < x * D + D
  BY <1>1, <1>2
<1>4. x \in Nat
  <2>1. 0 * D < (x + 1) * D
    <3>1. 0 * D = 0
      OBVIOUS
    <3> QED BY <1>2, <1>3, <3>1
  <2>2. x + 1 \in Int /\ 0 \in Int
    BY <1>2
  <2>3. 0 < x + 1
    BY <2>1, <2>2, ProductReflectsLess
  <2> QED BY <1>2, <2>3
<1>5. x * T < e + T
  <2> DEFINE y == x * D + 1
             z == b + D
  <2>1. y \in Nat /\ z \in Nat /\ y <= z
    BY <1>2, <1>3, <1>4
  <2>2. T * y <= T * z
    <3> HIDE DEF y, z
    <3> QED BY <2>1, ProductMonotone
  <2>3. T * y = (x * T) * D + T /\ T * z = b * T + T * D
    BY <1>4
  <2>4. (e + T) * D = e * D + T * D /\ (x * T) * D \in Nat /\ e * D \in Nat /\ T * D \in Nat
        /\ b * T \in Nat
    BY <1>4
  <2>5. (x * T) * D < (e + T) * D
    <3> DEFINE ty == T * y
               tz == T * z
               xt == (x * T) * D
               ed == e * D
               td == T * D
               bt == b * T
    <3>1. ty <= tz /\ ty = xt + T /\ tz = bt + td /\ bt <= ed
          /\ xt \in Nat /\ ed \in Nat /\ td \in Nat /\ bt \in Nat /\ (e + T) * D = ed + td
      BY <2>2, <2>3, <2>4
    <3> HIDE DEF ty, tz, xt, ed, td, bt
    <3>2. xt < ed + td
      BY <3>1
    <3> QED BY <3>1, <3>2 DEF xt
  <2>6. x * T \in Int /\ e + T \in Int
    BY <1>4
  <2> HIDE DEF y, z
  <2> QED BY <2>5, <2>6, ProductReflectsLess
<1>6. e <= (x + L) * T
  <2> DEFINE y == b + 1
             z == (x + 1) * D
             k == (L - 1) * T
  <2>1. y \in Nat /\ z \in Nat /\ y <= z /\ k \in Nat
    <3>1. z \in Nat
      BY <1>4
    <3>2. k \in Nat
      OBVIOUS
    <3> HIDE DEF k
    <3> QED BY <1>2, <1>3, <3>1, <3>2
  <2>2. T * y <= T * z
    <3> HIDE DEF y, z
    <3> QED BY <2>1, ProductMonotone
  <2>3. T * y = b * T + T /\ T * z = ((x + 1) * T) * D
    BY <1>4
  <2>4. (x + L) * T = (x + 1) * T + k /\ (x + 1) * T \in Nat
    BY <1>4
  <2> HIDE DEF k, y
  <2> DEFINE xt == (x + 1) * T
  <2>5. (xt + k) * D = xt * D + k * D /\ xt * D \in Nat /\ k * D \in Nat /\ b * T \in Nat
        /\ e * D \in Nat
    <3> HIDE DEF xt
    <3>1. xt \in Nat
      BY <2>4 DEF xt
    <3> QED BY <2>1, <3>1
  <2>6. e * D <= (xt + k) * D
    <3> DEFINE xd == xt * D
               kd == k * D
               bt == b * T
               ed == e * D
    <3>1. /\ bt + T <= xd /\ ed <= bt + kd /\ xd \in Nat /\ kd \in Nat /\ bt \in Nat /\ ed \in Nat
          /\ (xt + k) * D = xd + kd
      BY <2>2, <2>3, <2>5 DEF k
    <3> HIDE DEF xd, kd, bt, ed
    <3>2. ed <= xd + kd
      BY <3>1
    <3> QED BY <3>1, <3>2 DEF ed
  <2>7. xt + k \in Nat
    BY <2>1, <2>4
  <2> HIDE DEF xt
  <2>8. e <= xt + k
    BY <2>6, <2>7, ProductReflects
  <2> QED BY <2>4, <2>8 DEF xt
<1> QED BY <1>4, <1>5, <1>6 DEF x, q, r
\* What an account of weight w that has seen a factor up to `seen` reads more
\* when an amount is shared by T: its part of the amount, rounded up at most,
\* and less than it by at most L units, if L - 1 units of the factor cover w.
LEMMA FactorShare ==
  ASSUME NEW f \in Nat, NEW seen \in Nat, seen <= f, NEW r \in Nat, NEW w \in Nat,
         NEW D \in Nat \ {0}, NEW T \in Nat \ {0}, NEW amount \in Nat,
         NEW L \in Nat \ {0}, w <= (L - 1) * D
  PROVE  LET p == (amount * D) \div T
             x == (r + (Monus(f + p, seen) * w) \div D) - (r + (Monus(f, seen) * w) \div D)
         IN  x >= 0 /\ x * T < amount * w + T /\ (x + L) * T >= amount * w
<1> DEFINE p == (amount * D) \div T
           a == Monus(f, seen) * w
           b == p * w
           e == amount * w
           x == (a + b) \div D - a \div D
<1>2. p \in Nat /\ p * T <= amount * D /\ amount * D < p * T + T
  <2> DEFINE n == amount * D
  <2>1. n \in Nat
    OBVIOUS
  <2> HIDE DEF n
  <2>2. n \div T \in Nat /\ (n \div T) * T <= n /\ n < (n \div T) * T + T
    BY <2>1, DivRest
  <2> QED BY <2>2 DEF n
<1> HIDE DEF p
<1>3. Monus(f + p, seen) = Monus(f, seen) + p /\ Monus(f, seen) \in Nat
  BY <1>2 DEF Monus
<1>4. a \in Nat /\ b \in Nat /\ e \in Nat
  BY <1>2, <1>3
<1>5. Monus(f + p, seen) * w = a + b
  <2> DEFINE d == Monus(f, seen)
  <2>1. (d + p) * w = d * w + p * w
    <3>1. d \in Nat
      BY <1>3
    <3> HIDE DEF d
    <3> QED BY <1>2, <3>1
  <2> QED BY <1>3, <2>1
<1>6. (r + (Monus(f + p, seen) * w) \div D) - (r + (Monus(f, seen) * w) \div D) = x
  <2> DEFINE y == (a + b) \div D
             z == a \div D
  <2>1. y \in Nat /\ z \in Nat
    <3>1. a + b \in Nat
      BY <1>4
    <3> HIDE DEF a, b
    <3> QED BY <1>4, <3>1, DivBounds
  <2>2. (r + (Monus(f + p, seen) * w) \div D) - (r + (Monus(f, seen) * w) \div D)
          = (r + y) - (r + z)
    BY <1>5
  <2> HIDE DEF y, z
  <2>3. (r + y) - (r + z) = y - z
    BY <2>1
  <2> QED BY <2>2, <2>3 DEF y, z
<1>7. b * T <= e * D
  <2>1. w * (p * T) <= w * (amount * D)
    <3>1. p * T \in Nat /\ amount * D \in Nat
      BY <1>2
    <3> QED BY <1>2, <3>1, ProductMonotone
  <2>2. w * (p * T) = b * T /\ w * (amount * D) = e * D
    BY <1>2
  <2> QED BY <2>1, <2>2
<1>8. e * D <= b * T + ((L - 1) * T) * D
  <2> DEFINE n == amount * D
             k == p * T
             lf == (L - 1) * D
  <2>1. n \in Nat /\ k \in Nat /\ n <= k + T /\ lf \in Nat /\ w <= lf
    <3>1. n \in Nat /\ k \in Nat /\ lf \in Nat
      BY <1>2
    <3> HIDE DEF n, k
    <3>2. n < k + T
      BY <1>2 DEF n, k
    <3>3. n <= k + T
      BY <3>1, <3>2
    <3> QED BY <3>1, <3>3
  <2>2. w * n <= w * (k + T)
    <3> HIDE DEF n, k
    <3>1. k + T \in Nat
      BY <2>1
    <3> QED BY <2>1, <3>1, ProductMonotone
  <2>3. T * w <= T * lf
    <3> HIDE DEF lf
    <3> QED BY <2>1, ProductMonotone
  <2>4. /\ w * n = e * D /\ w * (k + T) = b * T + T * w
        /\ T * lf = ((L - 1) * T) * D
    BY <1>2
  <2>5. T * w \in Nat /\ T * lf \in Nat /\ b * T \in Nat /\ w * n \in Nat /\ w * (k + T) \in Nat
    BY <1>2, <2>1
  <2> DEFINE A == w * n
             B == w * (k + T)
             C == T * w
             E == T * lf
             G == b * T
  <2>6. A <= B /\ C <= E /\ B = G + C /\ A \in Nat /\ B \in Nat /\ C \in Nat /\ E \in Nat
        /\ G \in Nat
    BY <2>2, <2>3, <2>4, <2>5
  <2>7. A = e * D /\ E = ((L - 1) * T) * D
    BY <2>4
  <2> HIDE DEF A, B, C, E, G
  <2>8. A <= G + E
    BY <2>6
  <2> QED BY <2>7, <2>8 DEF G
<1> HIDE DEF a, b, e
<1>9. x \in Nat /\ x * T < e + T /\ (x + L) * T >= e
  BY <1>4, <1>7, <1>8, ShareBounds
<1> HIDE DEF x
<1>10. x >= 0 /\ x * T < e + T /\ (x + L) * T >= e
  BY <1>9
<1> QED BY <1>6, <1>10 DEF p, e
-----------------------------------------------------------------------------
(* Sums of sums, and sums of shares                                        *)

\* The sum of elementwise sums.
LEMMA SumAdded ==
  ASSUME NEW f, NEW g, NEW h, NEW n \in Nat,
         \A i \in 1 .. n : f[i] \in Nat /\ g[i] \in Nat /\ h[i] = f[i] + g[i]
  PROVE  Sum(h, n) = Sum(f, n) + Sum(g, n)
<1> DEFINE D == {k \in 0 .. n : Sum(h, k) # Sum(f, k) + Sum(g, k)}
<1> SUFFICES ASSUME D # {} PROVE FALSE
  OBVIOUS
<1>1. D \subseteq Nat
  OBVIOUS
<1>2. PICK x \in D : \A y \in D : x <= y
  <2> HIDE DEF D
  <2> QED BY <1>1, NatMin
<1>3. x # 0
  BY SumZero
<1>4. x - 1 \in 0 .. n /\ x - 1 \notin D /\ x \in 1 .. n /\ x \in Nat \ {0}
  BY <1>2, <1>3
<1>5. Sum(h, x - 1) = Sum(f, x - 1) + Sum(g, x - 1)
  BY <1>4
<1>6. /\ Sum(f, x) = Sum(f, x - 1) + f[x]
      /\ Sum(g, x) = Sum(g, x - 1) + g[x]
      /\ Sum(h, x) = Sum(h, x - 1) + h[x]
  BY <1>4, SumStep
<1>7. Sum(f, x - 1) \in Nat /\ Sum(g, x - 1) \in Nat
  <2>1. x - 1 \in Nat /\ \A i \in 1 .. x - 1 : f[i] \in Nat /\ g[i] \in Nat
    BY <1>4
  <2> QED BY <2>1, SumNat
<1>8. f[x] \in Nat /\ g[x] \in Nat /\ h[x] = f[x] + g[x]
  BY <1>4
<1>9. Sum(h, x) # Sum(f, x) + Sum(g, x)
  BY <1>2
<1> HIDE DEF D
<1> QED BY <1>5, <1>6, <1>7, <1>8, <1>9

\* The sum of a function that is zero but in one place.
LEMMA SumOfOne ==
  ASSUME NEW f, NEW n \in Nat, NEW j \in 1 .. n,
         \A i \in 1 .. n : f[i] \in Nat,
         \A i \in (1 .. n) \ {j} : f[i] = 0
  PROVE  Sum(f, n) = f[j]
<1> DEFINE z == [i \in 1 .. n |-> 0]
<1>1. Sum(z, n) = 0
  BY SumOfZeros
<1>2. \A i \in 1 .. n : z[i] = 0
  OBVIOUS
<1> HIDE DEF z
<1>3. \A i \in 1 .. n : f[i] \in Nat /\ z[i] \in Nat
  BY <1>2
<1>4. \A i \in (1 .. n) \ {j} : f[i] = z[i]
  BY <1>2
<1>5. Sum(f, n) = Sum(z, n) + f[j] - z[j]
  BY <1>3, <1>4, SumUpdate
<1>6. f[j] \in Nat /\ z[j] = 0
  BY <1>2
<1> QED BY <1>1, <1>5, <1>6

\* A sum depends on the values alone.
LEMMA SumSame ==
  ASSUME NEW f, NEW g, NEW n \in Nat, \A i \in 1 .. n : f[i] \in Nat /\ g[i] = f[i]
  PROVE  Sum(g, n) = Sum(f, n)
<1>1. Sum(f, n) <= Sum(g, n) /\ Sum(g, n) <= Sum(f, n)
  BY SumMonotone
<1>2. Sum(f, n) \in Nat /\ Sum(g, n) \in Nat
  BY SumNat
<1> QED BY <1>1, <1>2

\* G is the table F of p rows and q columns turned around; rows and tops are
\* their sums.
Turned(F, G, p, q, rows, tops) ==
    /\ \A i \in 1 .. p, j \in 1 .. q : F[i][j] \in Nat /\ G[j][i] = F[i][j]
    /\ \A i \in 1 .. p : rows[i] = Sum(F[i], q)
    /\ \A j \in 1 .. q : tops[j] = Sum(G[j], p)

\* The rows of a table sum up to what its columns do.
LEMMA SumSwap ==
  ASSUME NEW F, NEW G, NEW p \in Nat, NEW q \in Nat, NEW rows, NEW tops,
         Turned(F, G, p, q, rows, tops)
  PROVE  Sum(rows, p) = Sum(tops, q)
<1> USE DEF Turned
<1> DEFINE below(x) == [j \in 1 .. q |-> Sum(G[j], x)]
           D == {k \in 0 .. p : Sum(rows, k) # Sum(below(k), q)}
<1>1. D \subseteq Nat
  OBVIOUS
<1>2. ASSUME NEW x \in 0 .. p, NEW j \in 1 .. q
      PROVE  below(x)[j] = Sum(G[j], x) /\ below(x)[j] \in Nat
  <2>1. \A i \in 1 .. x : i \in 1 .. p /\ G[j][i] \in Nat
    OBVIOUS
  <2>2. below(x)[j] = Sum(G[j], x)
    OBVIOUS
  <2> QED BY <2>1, <2>2, SumNat
<1> HIDE DEF below
<1>3. D = {}
  <2> SUFFICES ASSUME D # {} PROVE FALSE
    OBVIOUS
  <2>1. PICK x \in D : \A y \in D : x <= y
    <3> HIDE DEF D
    <3> QED BY <1>1, NatMin
  <2>2. x # 0
    <3>1. \A j \in 1 .. q : below(0)[j] = 0
      BY <1>2, SumZero
    <3>2. Sum(below(0), q) = 0
      BY <3>1, SumOfZeros
    <3>3. Sum(rows, 0) = 0
      BY SumZero
    <3> QED BY <2>1, <3>2, <3>3
  <2>3. x \in Nat \ {0} /\ x \in 1 .. p /\ x - 1 \in 0 .. p /\ ~(x <= x - 1) /\ x \in 0 .. p
    BY <2>1, <2>2
  <2>4. x - 1 \notin D /\ Sum(rows, x) # Sum(below(x), q)
    <3>1. x - 1 \notin D
      <4> HIDE DEF D
      <4> QED BY <2>1, <2>3
    <3> QED BY <2>1, <3>1
  <2>5. Sum(rows, x - 1) = Sum(below(x - 1), q)
    BY <2>3, <2>4
  <2>6. Sum(rows, x) = Sum(rows, x - 1) + Sum(F[x], q)
    BY <2>3, SumStep
  <2>7. ASSUME NEW j \in 1 .. q
        PROVE  /\ below(x - 1)[j] \in Nat /\ F[x][j] \in Nat
               /\ below(x)[j] = below(x - 1)[j] + F[x][j]
    <3>1. /\ below(x - 1)[j] \in Nat /\ below(x - 1)[j] = Sum(G[j], x - 1)
          /\ below(x)[j] = Sum(G[j], x)
      BY <1>2, <2>3
    <3>2. Sum(G[j], x) = Sum(G[j], x - 1) + G[j][x]
      BY <2>3, SumStep
    <3>3. F[x][j] \in Nat /\ G[j][x] = F[x][j]
      BY <2>3
    <3> QED BY <3>1, <3>2, <3>3
  <2>8. Sum(below(x), q) = Sum(below(x - 1), q) + Sum(F[x], q)
    BY <2>7, SumAdded
  <2> HIDE DEF D
  <2> QED BY <2>4, <2>5, <2>6, <2>8
<1>4. Sum(rows, p) = Sum(below(p), q)
  BY <1>3
<1>5. Sum(tops, q) = Sum(below(p), q)
  <2>1. \A j \in 1 .. q : below(p)[j] \in Nat /\ tops[j] = below(p)[j]
    BY <1>2
  <2> QED BY <2>1, SumSame
<1> QED BY <1>4, <1>5

\* Truncated shares of parts that stay within the whole stay within the total.
LEMMA SharesBound ==
  ASSUME NEW f, NEW g, NEW n \in Nat, NEW total \in Nat, NEW whole \in Nat \ {0},
         \A i \in 1 .. n : f[i] \in Nat /\ g[i] \in Nat /\ g[i] * whole <= total * f[i],
         Sum(f, n) <= whole
  PROVE  Sum(g, n) <= total
<1> DEFINE h == [i \in 1 .. n |-> total * f[i]]
           z == [i \in 1 .. n |-> 0]
<1>1. \A i \in 1 .. n : h[i] \in Nat /\ h[i] = total * f[i] /\ z[i] = 0
  OBVIOUS
<1>2. Sum(f, n) \in Nat /\ Sum(g, n) \in Nat
  BY SumNat
<1> HIDE DEF h, z
<1>3. Sum(g, n) * whole <= Sum(h, n)
  BY <1>1, SumTimes
<1>4. Sum(h, n) <= total * Sum(f, n)
  <2>1. \A i \in 1 .. n : z[i] \in Nat /\ h[i] <= z[i] + total * f[i]
    BY <1>1
  <2>2. Sum(h, n) <= Sum(z, n) + total * Sum(f, n)
    BY <1>1, <2>1, SumScaled
  <2>3. Sum(z, n) = 0
    BY <1>1, SumOfZeros
  <2>4. total * Sum(f, n) \in Nat
    BY <1>2
  <2> QED BY <2>2, <2>3, <2>4
<1>5. total * Sum(f, n) <= total * whole /\ total * Sum(f, n) \in Nat
  BY <1>2, ProductMonotone
<1>6. Sum(h, n) \in Nat
  BY <1>1, SumNat
<1>7. Sum(g, n) * whole <= total * whole
  <2> DEFINE a == Sum(g, n) * whole
             b == total * Sum(f, n)
             c == total * whole
  <2>1. a \in Nat /\ b \in Nat /\ c \in Nat
    BY <1>2
  <2> HIDE DEF a, b, c
  <2> QED BY <1>3, <1>4, <1>5, <1>6, <2>1 DEF a, b, c
<1> QED BY <1>2, <1>7, ProductReflects

\* When one element drops by x or more and none rises, so does the sum.
LEMMA SumDrop ==
  ASSUME NEW f, NEW g, NEW n \in Nat, NEW j \in 1 .. n, NEW x \in Nat,
         \A i \in 1 .. n : f[i] \in Nat /\ g[i] \in Nat,
         \A i \in (1 .. n) \ {j} : g[i] <= f[i],
         g[j] + x <= f[j]
  PROVE  Sum(g, n) + x <= Sum(f, n)
<1> DEFINE h == [i \in 1 .. n |-> IF i = j THEN g[j] + x ELSE g[i]]
<1>1. \A i \in 1 .. n : h[i] \in Nat /\ h[i] <= f[i]
  OBVIOUS
<1>2. h[j] = g[j] + x /\ \A i \in (1 .. n) \ {j} : h[i] = g[i]
  OBVIOUS
<1> HIDE DEF h
<1>3. Sum(h, n) <= Sum(f, n)
  BY <1>1, SumMonotone
<1>4. Sum(h, n) = Sum(g, n) + h[j] - g[j]
  BY <1>1, <1>2, SumUpdate
<1>5. Sum(g, n) \in Nat /\ Sum(f, n) \in Nat /\ g[j] \in Nat
  BY SumNat
<1> QED BY <1>2, <1>3, <1>4, <1>5

\* When one element rises by at most x and no other rises, so does the sum.
LEMMA SumRise ==
  ASSUME NEW f, NEW g, NEW n \in Nat, NEW j \in 1 .. n, NEW x \in Nat,
         \A i \in 1 .. n : f[i] \in Nat /\ g[i] \in Nat,
         \A i \in (1 .. n) \ {j} : g[i] <= f[i],
         g[j] <= f[j] + x
  PROVE  Sum(g, n) <= Sum(f, n) + x
<1> DEFINE h == [i \in 1 .. n |-> IF i = j THEN f[j] + x ELSE f[i]]
<1>1. \A i \in 1 .. n : h[i] \in Nat /\ g[i] <= h[i]
  OBVIOUS
<1>2. h[j] = f[j] + x /\ \A i \in (1 .. n) \ {j} : h[i] = f[i]
  OBVIOUS
<1> HIDE DEF h
<1>3. Sum(g, n) <= Sum(h, n)
  BY <1>1, SumMonotone
<1>4. Sum(h, n) = Sum(f, n) + h[j] - f[j]
  BY <1>1, <1>2, SumUpdate
<1>5. Sum(g, n) \in Nat /\ Sum(f, n) \in Nat /\ f[j] \in Nat
  BY SumNat
<1> QED BY <1>2, <1>3, <1>4, <1>5

\* h holds n values of f, and after them m values of g.
Joined(f, g, h, n, m) ==
    /\ \A i \in 1 .. n : f[i] \in Nat /\ h[i] = f[i]
    /\ \A j \in 1 .. m : g[j] \in Nat /\ h[n + j] = g[j]

\* The sum over f followed by g is the sum of both sums.
LEMMA SumJoin ==
  ASSUME NEW f, NEW g, NEW h, NEW n \in Nat, NEW m \in Nat, Joined(f, g, h, n, m)
  PROVE  Sum(h, n + m) = Sum(f, n) + Sum(g, m)
<1> USE DEF Joined
<1> DEFINE D == {k \in 0 .. m : Sum(h, n + k) # Sum(f, n) + Sum(g, k)}
<1> SUFFICES ASSUME D # {} PROVE FALSE
  OBVIOUS
<1>1. D \subseteq Nat
  OBVIOUS
<1>2. PICK x \in D : \A y \in D : x <= y
  <2> HIDE DEF D
  <2> QED BY <1>1, NatMin
<1>3. x # 0
  <2>1. Sum(h, n) = Sum(f, n) /\ Sum(f, n) \in Nat
    BY SumSame, SumNat
  <2>2. Sum(g, 0) = 0 /\ n + 0 = n
    BY SumZero
  <2> QED BY <2>1, <2>2
<1>4. x - 1 \in 0 .. m /\ x - 1 \notin D /\ x \in 1 .. m /\ x \in Nat \ {0}
      /\ n + x \in Nat \ {0} /\ (n + x) - 1 = n + (x - 1)
  BY <1>2, <1>3
<1>5. Sum(h, n + (x - 1)) = Sum(f, n) + Sum(g, x - 1)
  BY <1>4
<1>6. /\ Sum(h, n + x) = Sum(h, n + (x - 1)) + h[n + x]
      /\ Sum(g, x) = Sum(g, x - 1) + g[x]
  BY <1>4, SumStep
<1>7. Sum(f, n) \in Nat /\ Sum(g, x - 1) \in Nat
  <2>1. x - 1 \in Nat /\ \A i \in 1 .. x - 1 : g[i] \in Nat
    BY <1>4
  <2> QED BY <2>1, SumNat
<1>8. g[x] \in Nat /\ h[n + x] = g[x]
  BY <1>4
<1>9. Sum(h, n + x) # Sum(f, n) + Sum(g, x)
  BY <1>2
<1> HIDE DEF D
<1> QED BY <1>5, <1>6, <1>7, <1>8, <1>9
=============================================================================
