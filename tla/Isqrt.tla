-------------------------------- MODULE Isqrt --------------------------------
(***************************************************************************)
(* The Newton loop that computes the weight curve: isqrt_u128 returns the  *)
(* floor of the square root of n, without overflowing on the way.  One     *)
(* iteration of the loop is one step.                                      *)
(***************************************************************************)
EXTENDS Integers

CONSTANTS
    Width,      \* bits of the machine word: 128 in the code
    Inputs      \* arguments considered

ASSUME InputsAssumption == Width \in Nat /\ Inputs \subseteq 0 .. 2 ^ Width - 1

\* Facts about powers of two, true of every Width above 1.
ASSUME PowersAssumption ==
    /\ \A m \in Inputs \ {0} : \E b \in 1 .. Width : 2 ^ (b - 1) <= m /\ m < 2 ^ b
    /\ \A b \in 1 .. Width :
          LET g == 2 ^ ((b + 1) \div 2)
          IN  2 ^ b <= g * g /\ g \in 1 .. 2 ^ Width - 1

VARIABLES n, x, y, pc

vars == <<n, x, y, pc>>

\* Width - n.leading_zeros(): the number of significant bits of a positive m.
BitLength(m) == CHOOSE b \in 1 .. Width : 2 ^ (b - 1) <= m /\ m < 2 ^ b

Guess_IsArgument(m) == m

Guess_RoundedDown(m) == 2 ^ (BitLength(m) \div 2)

\* 1 << ceil(bit_length / 2): not below the root.
Guess(m) == 2 ^ ((BitLength(m) + 1) \div 2)

Init == n \in Inputs /\ x = 0 /\ y = 0 /\ pc = "start"

ReturnZero == pc = "start" /\ n = 0 /\ pc' = "done" /\ UNCHANGED <<n, x, y>>

Start == pc = "start" /\ n # 0 /\ x' = Guess(n) /\ pc' = "loop" /\ UNCHANGED <<n, y>>

Average_RoundedUp == (x + n \div x + 1) \div 2

Average == (x + n \div x) \div 2

Improve == pc = "loop" /\ y' = Average /\ pc' = "compare" /\ UNCHANGED <<n, x>>

Continues_WhileDifferent == y # x
Continues == y < x

Return == pc = "compare" /\ ~Continues /\ pc' = "done" /\ UNCHANGED <<n, x, y>>

Continue == pc = "compare" /\ Continues /\ x' = y /\ pc' = "loop" /\ UNCHANGED <<n, y>>

Next == ReturnZero \/ Start \/ Improve \/ Return \/ Continue

Spec == Init /\ [][Next]_vars /\ WF_vars(Next)
-----------------------------------------------------------------------------
IsFloorRoot(r, m) == r * r <= m /\ m < (r + 1) * (r + 1)

\* The variables hold words; a guess of twice the bits would not be one.
TypeOK ==
    /\ n \in Inputs
    /\ x \in 0 .. 2 ^ Width - 1 /\ y \in Nat
    /\ pc \in {"start", "loop", "compare", "done"}

\* The loop stays above the root, where Newton's iteration descends, and never
\* divides by zero (the comment on isqrt_u128).
AboveRoot == pc # "start" => n < (x + 1) * (x + 1) /\ (n # 0 => x # 0)

\* What isqrt_u128 returns is the floor of the square root.
ReturnsFloorRoot == pc = "done" => IsFloorRoot(x, n)

\* The sum in the loop fits the machine word.
FitsWord == pc = "loop" => x + n \div x < 2 ^ Width

\* The loop ends.
Terminates == <>(pc = "done")
=============================================================================
