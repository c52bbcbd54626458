----------------------------- MODULE IsqrtProofs -----------------------------
(***************************************************************************)
(* The Newton loop of Isqrt returns the floor of the square root, for      *)
(* every word size and every argument.                                     *)
(***************************************************************************)
EXTENDS Isqrt, TLAPS

\* Division with remainder.
LEMMA Division ==
  ASSUME NEW a \in Nat, NEW b \in Nat \ {0}
  PROVE  /\ a \div b \in Nat
         /\ b * (a \div b) <= a
         /\ a < b * (a \div b) + b
OBVIOUS

\* The square of a sum is at least four times the product.
LEMMA MeansInequality ==
  ASSUME NEW a \in Nat, NEW b \in Nat
  PROVE  4 * (a * b) <= (a + b) * (a + b)
<1>1. 0 <= (a - b) * (a - b)
  OBVIOUS
<1>2. (a + b) * (a + b) = (a - b) * (a - b) + 4 * (a * b)
  OBVIOUS
<1> QED BY <1>1, <1>2

\* Products of naturals are monotone.
LEMMA SquareMonotone ==
  ASSUME NEW a \in Nat, NEW b \in Nat, a <= b
  PROVE  a * a <= b * b
<1>1. a * a <= a * b
  OBVIOUS
<1>2. a * b <= b * b
  OBVIOUS
<1> QED BY <1>1, <1>2

\* One iteration from any positive x stays above the root of m and positive.
LEMMA NewtonStaysAbove ==
  ASSUME NEW m \in Nat \ {0}, NEW a \in Nat \ {0}
  PROVE  LET b == (a + m \div a) \div 2
         IN  b \in Nat /\ b # 0 /\ m < (b + 1) * (b + 1)
<1> DEFINE q == m \div a
<1> DEFINE b == (a + q) \div 2
<1>1. q \in Nat /\ a * q <= m /\ m < a * q + a
  BY Division
<1> HIDE DEF q
<1>2. b \in Nat /\ a + q < 2 * b + 2
  BY <1>1
<1>3. b # 0
  <2>1. CASE a = 1
    <3>1. 1 <= q BY <2>1, <1>1
    <3> QED BY <2>1, <3>1, <1>1
  <2>2. CASE a # 1
    BY <2>2, <1>1
  <2> QED BY <2>1, <2>2
<1> HIDE DEF b
<1>4. m < a * (q + 1)
  BY <1>1
<1>5. 4 * (a * (q + 1)) <= (a + (q + 1)) * (a + (q + 1))
  <2>1. q + 1 \in Nat BY <1>1
  <2> QED BY <2>1, MeansInequality
<1>6. (a + (q + 1)) * (a + (q + 1)) <= (2 * b + 2) * (2 * b + 2)
  <2>1. a + (q + 1) \in Nat /\ 2 * b + 2 \in Nat /\ a + (q + 1) <= 2 * b + 2
    BY <1>1, <1>2
  <2> QED BY <2>1, SquareMonotone
<1>7. (2 * b + 2) * (2 * b + 2) = 4 * ((b + 1) * (b + 1))
  BY <1>2
<1>8. m < (b + 1) * (b + 1)
  <2> DEFINE p == a * (q + 1)
  <2> DEFINE r == (b + 1) * (b + 1)
  <2>1. p \in Nat /\ r \in Nat BY <1>1, <1>2
  <2>2. m < p /\ 4 * p <= 4 * r BY <1>4, <1>5, <1>6, <1>7, <1>1, <1>2
  <2> HIDE DEF p, r
  <2>3. m < r BY <2>1, <2>2
  <2> QED BY <2>3 DEF r
<1> QED BY <1>2, <1>3, <1>8 DEF b, q

\* When the iteration no longer descends, x is not above the root.
LEMMA StopsAtRoot ==
  ASSUME NEW m \in Nat, NEW a \in Nat \ {0}, a <= (a + m \div a) \div 2
  PROVE  a * a <= m
<1> DEFINE q == m \div a
<1>1. q \in Nat /\ a * q <= m
  BY Division
<1> HIDE DEF q
<1>2. a <= q
  BY <1>1 DEF q
<1>3. a * a <= a * q
  BY <1>1, <1>2
<1> QED BY <1>1, <1>3

\* A number not above a square is below the next square.
LEMMA NextSquare ==
  ASSUME NEW a \in Nat, NEW m \in Nat, m <= a * a
  PROVE  m < (a + 1) * (a + 1)
<1>1. (a + 1) * (a + 1) = a * a + 2 * a + 1
  OBVIOUS
<1>2. a * a \in Nat
  OBVIOUS
<1> DEFINE sq == a * a
<1> HIDE DEF sq
<1> QED BY <1>1, <1>2 DEF sq

\* The first guess is a word and not below the root.
LEMMA GuessAboveRoot ==
  ASSUME NEW m \in Inputs \ {0}
  PROVE  Guess(m) \in 1 .. 2 ^ Width - 1 /\ m <= Guess(m) * Guess(m)
<1> DEFINE b == BitLength(m)
<1>1. b \in 1 .. Width /\ m < 2 ^ b
  BY PowersAssumption DEF BitLength
<1> HIDE DEF b
<1> DEFINE g == 2 ^ ((b + 1) \div 2)
<1>2. 2 ^ b <= g * g /\ g \in 1 .. 2 ^ Width - 1
  BY <1>1, PowersAssumption
<1>3. g = Guess(m)
  BY DEF b, Guess
<1> HIDE DEF g
<1>4. m \in Nat /\ 2 ^ b \in Int /\ g * g \in Int
  <2>1. 2 ^ Width \in Int BY InputsAssumption
  <2>2. m \in Nat BY InputsAssumption
  <2>3. b \in Nat BY <1>1, InputsAssumption
  <2>4. 2 ^ b \in Int BY <2>3
  <2>5. g \in Int BY <1>2, <2>1
  <2> QED BY <2>2, <2>4, <2>5
<1>5. m <= g * g
  BY <1>1, <1>2, <1>4
<1> QED BY <1>2, <1>3, <1>5

\* The inductive invariant: types, the loop above the root, and what is known
\* of y between computing and comparing it.
IInv ==
    /\ TypeOK
    /\ AboveRoot
    /\ pc = "start" => x = 0
    /\ pc = "loop" => n # 0
    /\ pc = "compare" => n # 0 /\ y = Average
    /\ ReturnsFloorRoot

\* The initial states satisfy the invariant.
LEMMA IInvInit == Init => IInv
<1> SUFFICES ASSUME Init PROVE IInv
  OBVIOUS
<1>1. 0 \in 0 .. 2 ^ Width - 1
  <2>1. n \in 0 .. 2 ^ Width - 1 BY InputsAssumption DEF Init
  <2>2. 2 ^ Width \in Int BY InputsAssumption
  <2> QED BY <2>1, <2>2
<1> QED BY <1>1 DEF Init, IInv, TypeOK, AboveRoot, ReturnsFloorRoot

\* Every step of the loop keeps the invariant.
LEMMA IInvNext == IInv /\ [Next]_vars => IInv'
<1> SUFFICES ASSUME IInv, [Next]_vars PROVE IInv'
  OBVIOUS
<1> DEFINE Words == 0 .. 2 ^ Width - 1
<1>1. Words \subseteq Nat
  BY InputsAssumption
<1>2. n \in Nat /\ x \in Nat /\ y \in Nat /\ n \in Inputs /\ x \in Words
  BY <1>1, InputsAssumption DEF IInv, TypeOK
<1> HIDE DEF Words
<1>3. CASE ReturnZero
  <2>1. x = 0 BY <1>3 DEF IInv, ReturnZero
  <2> QED BY <1>2, <1>3, <2>1 DEF IInv, TypeOK, AboveRoot, ReturnsFloorRoot, IsFloorRoot, ReturnZero, Words
<1>4. CASE Start
  <2>1. n \in Inputs \ {0} BY <1>2, <1>4 DEF Start
  <2>2. x' = Guess(n) /\ n' = n /\ y' = y /\ pc' = "loop" BY <1>4 DEF Start
  <2>3. Guess(n) \in 1 .. 2 ^ Width - 1 /\ n <= Guess(n) * Guess(n)
    BY <2>1, GuessAboveRoot
  <2>4. x' \in Words /\ x' \in Nat \ {0} /\ n <= x' * x'
    BY <2>2, <2>3, InputsAssumption DEF Words
  <2> DEFINE g == Guess(n)
  <2>5. g \in Nat /\ n <= g * g BY <2>2, <2>4
  <2> HIDE DEF g
  <2>6. n < (g + 1) * (g + 1) BY <1>2, <2>5, NextSquare
  <2>7. n < (x' + 1) * (x' + 1) BY <2>2, <2>6 DEF g
  <2> QED BY <1>2, <2>1, <2>2, <2>4, <2>7 DEF IInv, TypeOK, AboveRoot, ReturnsFloorRoot, Words
<1>5. CASE Improve
  <2>1. n' = n /\ x' = x /\ y' = Average /\ pc = "loop" /\ pc' = "compare" BY <1>5 DEF Improve
  <2>2. n \in Nat \ {0} /\ x \in Nat \ {0} BY <1>2, <2>1 DEF IInv, AboveRoot
  <2>3. Average \in Nat BY <2>2, NewtonStaysAbove DEF Average
  <2>4. Average' = Average BY <2>1 DEF Average
  <2> QED BY <1>2, <2>1, <2>2, <2>3, <2>4 DEF IInv, TypeOK, AboveRoot, ReturnsFloorRoot, Words
<1>6. CASE Return
  <2>1. n' = n /\ x' = x /\ y' = y /\ pc = "compare" /\ pc' = "done" BY <1>6 DEF Return
  <2>2. n \in Nat \ {0} /\ x \in Nat \ {0} /\ y = Average /\ n < (x + 1) * (x + 1)
    BY <1>2, <2>1 DEF IInv, AboveRoot
  <2>3. x <= Average BY <1>2, <1>6, <2>2 DEF Return, Continues
  <2>4. x * x <= n BY <2>2, <2>3, StopsAtRoot DEF Average
  <2> QED BY <1>2, <2>1, <2>2, <2>4 DEF IInv, TypeOK, AboveRoot, ReturnsFloorRoot, IsFloorRoot, Words
<1>7. CASE Continue
  <2>1. n' = n /\ x' = y /\ y' = y /\ pc = "compare" /\ pc' = "loop" /\ y < x
    BY <1>7 DEF Continue, Continues
  <2>2. n \in Nat \ {0} /\ x \in Nat \ {0} /\ y = Average
    BY <1>2, <2>1 DEF IInv, AboveRoot
  <2>3. y # 0 /\ n < (y + 1) * (y + 1) BY <2>2, NewtonStaysAbove DEF Average
  <2>4. y \in Words
    BY <1>2, <2>1, InputsAssumption DEF Words
  <2> QED BY <1>2, <2>1, <2>2, <2>3, <2>4 DEF IInv, TypeOK, AboveRoot, ReturnsFloorRoot, Words
<1>8. CASE UNCHANGED vars
  BY <1>8 DEF vars, IInv, TypeOK, AboveRoot, ReturnsFloorRoot, IsFloorRoot, Average
<1> QED BY <1>3, <1>4, <1>5, <1>6, <1>7, <1>8 DEF Next

\* isqrt_u128 returns the floor of the square root, whatever the word size and
\* the argument.
THEOREM RootIsFloor == Spec => []ReturnsFloorRoot
<1>1. IInv => ReturnsFloorRoot
  BY DEF IInv
<1> QED BY IInvInit, IInvNext, <1>1, PTL DEF Spec

\* The loop never divides by zero and never falls below the root.
THEOREM LoopStaysAboveRoot == Spec => []AboveRoot
<1>1. IInv => AboveRoot
  BY DEF IInv
<1> QED BY IInvInit, IInvNext, <1>1, PTL DEF Spec
-----------------------------------------------------------------------------
(* The word is wide enough for the sum                                     *)

\* Twice any first guess is a word: true of words of four bits and more.
RoomForSum == \A b \in 1 .. Width : 2 * 2 ^ ((b + 1) \div 2) < 2 ^ Width

\* The loop descends from a guess that is not below the root.
Descends ==
    pc \in {"loop", "compare"} =>
        /\ 2 * x <= 2 * Guess(n)
        /\ n <= x * x \/ 2 * x + 2 <= 2 * Guess(n)

\* A quotient by x, from above the root.
LEMMA QuotientBound ==
  ASSUME NEW m \in Nat, NEW a \in Nat \ {0}
  PROVE  /\ m <= a * a => m \div a <= a
         /\ m < (a + 1) * (a + 1) => m \div a <= a + 2
<1> DEFINE q == m \div a
<1>1. q \in Nat /\ a * q <= m
  BY Division
<1> HIDE DEF q
<1>2. ASSUME NEW c \in Nat, m < a * (c + 1) PROVE q <= c
  <2> SUFFICES ASSUME c + 1 <= q PROVE FALSE
    BY <1>1
  <2>1. a * (c + 1) <= a * q
    BY <1>1
  <2> QED BY <1>1, <1>2, <2>1
<1>3. ASSUME m <= a * a PROVE q <= a
  <2>1. a * (a + 1) = a * a + a /\ a * a \in Nat
    OBVIOUS
  <2>2. m < a * (a + 1)
    BY <1>3, <2>1
  <2> QED BY <1>2, <2>2
<1>4. ASSUME m < (a + 1) * (a + 1) PROVE q <= a + 2
  <2>1. /\ (a + 1) * (a + 1) = a * a + 2 * a + 1 /\ a * (a + 2 + 1) = a * a + 3 * a
        /\ a * a \in Nat
    OBVIOUS
  <2>2. m < a * (a + 2 + 1)
    BY <1>4, <2>1
  <2> QED BY <1>2, <2>2
<1> QED BY <1>3, <1>4 DEF q

LEMMA GuessType == ASSUME NEW m \in Inputs \ {0} PROVE Guess(m) \in Nat
BY GuessAboveRoot, InputsAssumption

LEMMA DescendsNext == IInv /\ Descends /\ [Next]_vars => Descends'
<1> SUFFICES ASSUME IInv, Descends, [Next]_vars PROVE Descends'
  OBVIOUS
<1>1. CASE Start
  <2>1. n \in Inputs \ {0} /\ n' = n /\ x' = Guess(n)
    BY <1>1 DEF Start, IInv, TypeOK
  <2>2. n <= Guess(n) * Guess(n) /\ Guess(n) \in Nat
    BY <2>1, GuessAboveRoot, GuessType
  <2> QED BY <2>1, <2>2 DEF Descends
<1>2. CASE Continue
  <2>1. pc = "compare" /\ n' = n /\ x' = y /\ y < x /\ n \in Inputs \ {0} /\ y \in Nat
    BY <1>2 DEF Continue, Continues, IInv, TypeOK
  <2>2. Guess(n) \in Nat /\ x \in Nat
    BY <2>1, GuessType, InputsAssumption DEF IInv, TypeOK
  <2>3. 2 * x <= 2 * Guess(n)
    BY <2>1 DEF Descends
  <2>4. 2 * y <= 2 * Guess(n) /\ 2 * y + 2 <= 2 * Guess(n)
    BY <2>1, <2>2, <2>3
  <2> QED BY <2>1, <2>4 DEF Descends
<1>3. CASE ReturnZero \/ Improve \/ Return \/ UNCHANGED vars
  BY <1>3 DEF ReturnZero, Improve, Return, vars, Descends
<1> QED BY <1>1, <1>2, <1>3 DEF Next

\* The sum x + n / x of the loop never leaves the machine word, although x may
\* come to lie below the first guess and n / x above it.
THEOREM SumFitsWord == ASSUME RoomForSum PROVE Spec => []FitsWord
<1>1. IInv /\ Descends => FitsWord
  <2> SUFFICES ASSUME IInv, Descends, pc = "loop" PROVE x + n \div x < 2 ^ Width
    BY DEF FitsWord
  <2>1. n \in Inputs \ {0} /\ n < (x + 1) * (x + 1) /\ x # 0
    BY DEF IInv, TypeOK, AboveRoot
  <2>2. n \in Nat /\ x \in Nat \ {0} /\ 2 ^ Width \in Int
    BY <2>1, InputsAssumption DEF IInv, TypeOK
  <2> DEFINE g == Guess(n)
             q == n \div x
  <2>3. g \in Nat /\ 2 * g < 2 ^ Width
    <3>1. BitLength(n) \in 1 .. Width
      BY <2>1, PowersAssumption DEF BitLength
    <3> QED BY <2>1, <3>1, GuessType DEF Guess, RoomForSum
  <2>4. q \in Nat /\ (n <= x * x => q <= x) /\ q <= x + 2
    BY <2>1, <2>2, QuotientBound, Division
  <2>5. 2 * x <= 2 * g /\ (n <= x * x \/ 2 * x + 2 <= 2 * g)
    BY DEF Descends
  <2> HIDE DEF g, q
  <2>6. x + q <= 2 * g
    BY <2>2, <2>3, <2>4, <2>5
  <2>7. x + q < 2 ^ Width
    BY <2>2, <2>3, <2>4, <2>6
  <2> QED BY <2>7 DEF q
<1>2. Init => Descends
  BY DEF Init, Descends
<1> QED BY IInvInit, IInvNext, DescendsNext, <1>1, <1>2, PTL DEF Spec
=============================================================================
