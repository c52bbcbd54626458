-------------------------------- MODULE Sums --------------------------------
(***************************************************************************)
(* Finite sums, floor-division shares and the saturating arithmetic that   *)
(* the handlers use.  Sums are recursive functions over the naturals, so   *)
(* that the modules that use them can be proved about (SumsProofs).        *)
(***************************************************************************)
EXTENDS Integers

\* The partial sums of f: 0, f[1], f[1] + f[2], ...
PartialSums(f) == LET s[i \in Nat] == IF i = 0 THEN 0 ELSE s[i - 1] + f[i]
                  IN  s

\* f[1] + ... + f[n]: `iter().sum()` over an array, or a total over accounts.
Sum(f, n) == PartialSums(f)[n]

\* (amount * bps) / DENOMINATOR_BPS in integer arithmetic.
Bps(amount, bps, denominator) == (amount * bps) \div denominator

\* (total * part) / whole, truncated: a pro-rata share.  The handlers compute
\* it in u128, so the product never overflows.
ShareOf(total, part, whole) == (total * part) \div whole

AtMost(a, b) == IF a <= b THEN a ELSE b          \* u64::min
AtLeast(a, b) == IF a >= b THEN a ELSE b         \* u64::max
Monus(a, b) == IF a >= b THEN a - b ELSE 0       \* u64::saturating_sub
=============================================================================
