---------------------------- MODULE OtcProperties ----------------------------
(***************************************************************************)
(* What the OTC desk promises: the properties of Otc, beside those of      *)
(* Staking, which must survive the desk.                                   *)
(***************************************************************************)
EXTENDS StakingProperties, Otc

User(a) == IF otc_user[a] = None THEN NewOtcUser ELSE otc_user[a]
SolIn == Sum([a \in Authorities |-> User(a).total_sol_in], NumAuthorities)
GodlOut == Sum([a \in Authorities |-> User(a).total_godl_out], NumAuthorities)
GodlBonus == Sum([a \in Authorities |-> User(a).total_godl_bonus], NumAuthorities)

\* The desk's account, what it really holds, and what its users' accounts say
\* they paid and got agree: any quote the account covers can be filled and the
\* SOL it counts be withdrawn, SOL and GODL come to the desk and leave it only
\* through it, and the treasury holds every bonus beside the stakers' yield.
DeskAddsUp ==
    otc_treasury # None =>
        /\ otc_treasury.godl_balance <= otc_treasury.tokens
        /\ otc_treasury.sol_balance = otc_treasury.lamports
        /\ SolIn = chest + otc_treasury.sol_balance
        /\ GodlOut + GodlBonus + otc_treasury.godl_balance = funded
        /\ treasury.tokens + taken >= OtherTokens + GodlBonus + TotalPending

\* What a was sold as stake since time t.
BoughtSince(a, t) ==
    Sum([i \in 1 .. MaxTime + 1 |-> IF i > t THEN bought[a][i - 1] ELSE 0], MaxTime + 1)

\* GODL bought at a discount stays locked for a month, whatever the buyer does
\* with the stake (merge it into another one, top up, compound, re-open): from
\* any purchase on, the buyer has at least what it bought since under locks
\* that outlast the month.
BoughtStaysLocked ==
    \A a \in Authorities : \A t \in 0 .. MaxTime :
        t + ONE_MONTH > now =>
            CommittedUntil(a, t + ONE_MONTH) >= BoughtSince(a, t)
=============================================================================
