------------------------------- MODULE Staking -------------------------------
(***************************************************************************)
(* GODL staking.  Every stake has a weight (its balance times a multiplier *)
(* that its lock pays for); the treasury keeps the sum of the weights and  *)
(* a factor, the yield paid so far per unit of weight.  A stake settles    *)
(* lazily: what it earned since it last looked is its weight times the     *)
(* growth of the factor, so it must look before its weight changes.        *)
(*                                                                         *)
(* Each instruction handler is one action; a handler that fails changes    *)
(* nothing.  The two accounts of a stake, StakeV2 and its token vault, are *)
(* one record (tokens is the vault's amount).  Phantom stakes live at      *)
(* addresses that are not the PDA of their authority and id, so handlers   *)
(* that check the seeds refuse them.  lifetime_rewards and the last_*_at   *)
(* timestamps are statistics that no handler reads; rent is left out.      *)
(*                                                                         *)
(* An operator called X_Suffix is a wrong variant of the X defined after   *)
(* it; no specification uses it, and a run must tell the two apart.        *)
(***************************************************************************)
EXTENDS Sums, FiniteSets

CONSTANTS
    NumStakes,            \* addresses of StakeV2 accounts
    NumAuthorities,
    Owner,                \* authority of each address
    Phantoms,             \* addresses that are not a PDA
    Executors,            \* keys an executor may be
    Genesis,              \* StakeV2 accounts at the start
    GenesisV1,            \* Stake accounts (version 1) at the start
    GenesisDrift,         \* total_staked minus the weights, at the start
    Savings,              \* GODL each authority owns at the start
    OtherTokens,          \* GODL the treasury holds for other purposes
    Assets,               \* NFTs of the boost collection on the market
    Locks,                \* lock durations a depositor may choose
    DepositAmounts, WithdrawAmounts, ClaimAmounts, Donations,
    BuryAmounts,          \* GODL that a swap may return to bury
    BuryTokensAmounts,    \* arguments of bury_tokens
    MaxFactor, MaxOwed,   \* bounds: stake_rewards_factor, yield not yet paid
    MaxTime,              \* bound: last timestamp of the model's clock
    MaxAttempts,          \* 5: audits of one rebase command; 0: none is run
    None,
    STAKE_MULTIPLIER_SCALE, MAX_STAKE_MULTIPLIER, MAX_LOCK_DURATION,
    NFT_BOOST_NUMERATOR, NFT_BOOST_DENOMINATOR,
    STAKERS_BPS, DENOMINATOR_BPS,
    CompoundFeeDivisor,   \* 100 in the code
    FRACTION              \* 2^48: a Numeric counts in units of 1/FRACTION

Stakes == 1 .. NumStakes
Authorities == 1 .. NumAuthorities

ASSUME PartiesAssumption ==
    /\ NumStakes \in Nat /\ NumAuthorities \in Nat
    /\ Owner \in [Stakes -> Authorities] /\ Phantoms \subseteq Stakes

ASSUME AmountsAssumption ==
    /\ {DepositAmounts, WithdrawAmounts, ClaimAmounts, Donations} \subseteq SUBSET Nat
    /\ {BuryAmounts, BuryTokensAmounts} \subseteq SUBSET Nat
    /\ Savings \in [Authorities -> Nat]
    /\ {OtherTokens, Assets, MaxFactor, MaxOwed, MaxTime, MaxAttempts} \subseteq Nat

ASSUME ScalesAssumption ==
    /\ {STAKE_MULTIPLIER_SCALE, MAX_STAKE_MULTIPLIER, MAX_LOCK_DURATION} \subseteq Nat \ {0}
    /\ NFT_BOOST_NUMERATOR \in Nat /\ NFT_BOOST_DENOMINATOR \in Nat \ {0}
    /\ STAKERS_BPS \in Nat /\ DENOMINATOR_BPS \in Nat \ {0} /\ STAKERS_BPS <= DENOMINATOR_BPS
    /\ CompoundFeeDivisor \in Nat \ {0} /\ FRACTION \in Nat \ {0}
    /\ Locks \subseteq 0 .. MAX_LOCK_DURATION

VARIABLES
    now,       \* Clock::get().unix_timestamp
    stake,     \* StakeV2 accounts with their vaults; None when empty
    stake_v1,  \* Stake accounts with their vaults; None when empty
    treasury,  \* total_staked, stake_rewards_factor and the GODL token account
    wallet,    \* GODL of each authority
    assets,    \* boost NFTs that are not staked
    audit,     \* the admin's rebase command (client side)
    owed,      \* history: GODL shared with stakers and not yet paid to them
    taken      \* history: GODL bury_tokens took from the treasury's tokens

vars == <<now, stake, stake_v1, treasury, wallet, assets, audit, owed, taken>>
-----------------------------------------------------------------------------
(* Weights *)

\* Floor of the square root (the loop itself is module Isqrt).
isqrt(n) == CHOOSE r \in 0 .. n : r * r <= n /\ n < (r + 1) * (r + 1)

stake_multiplier(lock) ==
    LET d == AtMost(AtLeast(lock, 0), MAX_LOCK_DURATION)
    IN  STAKE_MULTIPLIER_SCALE
          + ((MAX_STAKE_MULTIPLIER - 1) * d * STAKE_MULTIPLIER_SCALE) \div MAX_LOCK_DURATION

StakeRecord ==
    [balance : Nat, rewards_factor : Nat, rewards : Nat, multiplier : Nat,
     lock_duration : Nat, executor : Executors, created_at : Nat,
     is_nft_staked : BOOLEAN, weight_version : {0, 1}, tokens : Nat]

StakeV1Record == [balance : Nat, rewards_factor : Nat, rewards : Nat, tokens : Nat]

ASSUME GenesisAssumption ==
    /\ None \notin StakeRecord /\ None \notin StakeV1Record
    /\ Genesis \in [Stakes -> StakeRecord \cup {None}]
    /\ GenesisV1 \in [Authorities -> StakeV1Record \cup {None}]
    /\ GenesisDrift \in Nat

\* Legacy accounts weigh by their multiplier, migrated ones by its square root.
effective_multiplier(st) ==
    IF st.weight_version = 0 THEN st.multiplier
    ELSE isqrt(st.multiplier * STAKE_MULTIPLIER_SCALE)

BaseUnits(st) == (st.balance * effective_multiplier(st)) \div STAKE_MULTIPLIER_SCALE

weighted_units(st) ==
    IF st.is_nft_staked THEN (BaseUnits(st) * NFT_BOOST_NUMERATOR) \div NFT_BOOST_DENOMINATOR
    ELSE BaseUnits(st)

\* What a weight earned since it last saw the factor (Numeric truncates).
Earned(units, seen) == (Monus(treasury.stake_rewards_factor, seen) * units) \div FRACTION

update_rewards_KeepsFactor(st) ==
    [st EXCEPT !.rewards = @ + Earned(weighted_units(st), st.rewards_factor)]

update_rewards(st) ==
    [st EXCEPT !.rewards = @ + Earned(weighted_units(st), st.rewards_factor),
               !.rewards_factor = treasury.stake_rewards_factor]

migrate_weight_Unsettled(st) == [st EXCEPT !.weight_version = 1]

\* Settle at the old weight, then move to the square-root curve.
migrate_weight(st) ==
    IF st.weight_version # 0 THEN st
    ELSE [update_rewards(st) EXCEPT !.weight_version = 1]

Reweighed_ByBalance(total, old, new) == total + new.balance - old.balance

\* total_staked after the stake `old` became `new`.
Reweighed(total, old, new) == total + weighted_units(new) - weighted_units(old)

Deposited(st, amount) == [update_rewards(st) EXCEPT !.balance = @ + amount]

Withdrawn(st, amount) == [update_rewards(st) EXCEPT !.balance = @ - amount]

Claimable_Unclamped(st, amount) == amount

\* What `claim` pays out of a settled stake.
Claimable(st, amount) == AtMost(st.rewards, amount)

Claimed(st, amount) == [st EXCEPT !.rewards = @ - amount]

NewStake(lock, executor) ==
    [balance |-> 0, rewards_factor |-> treasury.stake_rewards_factor, rewards |-> 0,
     multiplier |-> stake_multiplier(lock), lock_duration |-> lock, executor |-> executor,
     created_at |-> now, is_nft_staked |-> FALSE, weight_version |-> 1, tokens |-> 0]

UnlockAt(st) == st.created_at + st.lock_duration
-----------------------------------------------------------------------------
UnitsAt(s) == IF stake[s] = None THEN 0 ELSE weighted_units(stake[s])
UnitsAtV1(a) == IF stake_v1[a] = None THEN 0 ELSE stake_v1[a].balance

UnitsV2 == Sum([s \in Stakes |-> UnitsAt(s)], NumStakes)
UnitsV1 == Sum([a \in Authorities |-> UnitsAtV1(a)], NumAuthorities)

\* Before this code was deployed: accounts on the linear curve, those that an
\* earlier defect left without backing, and a total that may be too high.
Init ==
    /\ now = 0
    /\ stake = Genesis
    /\ stake_v1 = GenesisV1
    /\ treasury = [total_staked |-> UnitsV2 + UnitsV1 + GenesisDrift,
                   stake_rewards_factor |-> 0, tokens |-> OtherTokens]
    /\ wallet = Savings
    /\ assets = Assets
    /\ audit = [step |-> "idle", attempt |-> 0, expected |-> 0, sum |-> 0, old |-> FALSE]
    /\ owed = 0
    /\ taken = 0

\* The handlers that check the seeds load only canonical accounts.
Canonical(s) == s \notin Phantoms /\ stake[s] # None

\* The account after the auto-migration, and the total it leaves; the checked
\* subtraction must not fail.
Touched(s) == migrate_weight(stake[s])
TouchedTotal(s) == Reweighed(treasury.total_staked, stake[s], Touched(s))

\* The handler stores `new` in s, with the vault holding `tokens`, and leaves
\* `total` as the total of the weights; the checked arithmetic succeeds.
Store(s, new, tokens, total) ==
    /\ total >= 0 /\ tokens >= 0
    /\ stake' = [stake EXCEPT ![s] = [new EXCEPT !.tokens = tokens]]
    /\ treasury' = [treasury EXCEPT !.total_staked = total]

\* GODL moves from the wallet of s's authority (a negative amount: to it).
FromWallet(s, amount) ==
    /\ wallet[Owner[s]] >= amount
    /\ wallet' = [wallet EXCEPT ![Owner[s]] = @ - amount]

\* The treasury's token account pays a staker.
PayYield(amount, burnt) ==
    /\ treasury.tokens >= amount + burnt
    /\ owed' = owed - amount - burnt

Tick ==
    /\ now < MaxTime
    /\ now' = now + 1
    /\ UNCHANGED <<stake, stake_v1, treasury, wallet, assets, audit, owed, taken>>

\* Anybody may send GODL to the vault of a stake, a phantom's too; the handlers
\* call it dust.  Here it comes out of the authority's wallet.
Donate(s, amount) ==
    /\ stake[s] # None
    /\ FromWallet(s, amount)
    /\ stake' = [stake EXCEPT ![s].tokens = @ + amount]
    /\ UNCHANGED <<now, stake_v1, treasury, assets, audit, owed, taken>>
-----------------------------------------------------------------------------
(* The stake's life *)

\* A new account, filled with exactly the amount asked for.
DepositV2(s, amount, lock, executor) ==
    /\ s \notin Phantoms /\ stake[s] = None
    /\ amount > 0
    /\ FromWallet(s, amount)
    /\ LET fresh == NewStake(lock, executor)
           new == Deposited(fresh, amount)
       IN  Store(s, new, amount, Reweighed(treasury.total_staked, fresh, new))
    /\ UNCHANGED <<now, stake_v1, assets, audit, owed, taken>>

\* More GODL into an existing account; the whole balance is locked anew.
TopUpStakeV2(s, amount) ==
    /\ Canonical(s)
    /\ amount > 0
    /\ TouchedTotal(s) >= 0
    /\ FromWallet(s, amount)
    /\ LET new == Deposited(Touched(s), amount)
           restarted == [new EXCEPT !.created_at = now]
       IN  /\ new.tokens + amount >= new.balance
           /\ Store(s, restarted, new.tokens + amount,
                    Reweighed(treasury.total_staked, stake[s], new))
    /\ UNCHANGED <<now, stake_v1, assets, audit, owed, taken>>

Unlocked(st) == now >= UnlockAt(st)

WithdrawV2(s, amount) ==
    /\ Canonical(s)
    /\ TouchedTotal(s) >= 0
    /\ Unlocked(stake[s])
    /\ amount > 0
    /\ LET out == AtMost(stake[s].balance, amount)
           new == Withdrawn(Touched(s), out)
       IN  /\ FromWallet(s, -out)
           /\ new.tokens - out >= new.balance
           /\ Store(s, new, new.tokens - out, Reweighed(treasury.total_staked, stake[s], new))
    /\ UNCHANGED <<now, stake_v1, assets, audit, owed, taken>>

\* Claiming does not migrate and does not touch the total.
ClaimYieldV2(s, amount) ==
    /\ Canonical(s)
    /\ LET settled == update_rewards(stake[s])
           out == Claimable(settled, amount)
       IN  /\ PayYield(out, 0)
           /\ FromWallet(s, -out)
           /\ stake' = [stake EXCEPT ![s] = Claimed(settled, out)]
           /\ treasury' = [treasury EXCEPT !.tokens = @ - out]
    /\ UNCHANGED <<now, stake_v1, assets, audit, taken>>

Burnt(amount) == amount \div CompoundFeeDivisor

\* All rewards, less the burnt fee, become balance; the lock goes on as it was.
CompoundYieldV2(signer, s) ==
    /\ Canonical(s)
    /\ signer = Owner[s] \/ signer = stake[s].executor
    /\ TouchedTotal(s) >= 0
    /\ LET settled == update_rewards(Touched(s))
           out == settled.rewards
           amount == out - Burnt(out)
           new == Deposited(Claimed(settled, out), amount)
           total == Reweighed(treasury.total_staked, stake[s], new)
       IN  /\ out > 0
           /\ PayYield(amount, Burnt(out))
           /\ new.tokens + amount >= new.balance
           /\ total >= 0
           /\ stake' = [stake EXCEPT ![s] = [new EXCEPT !.tokens = @ + amount]]
           /\ treasury' = [treasury EXCEPT !.total_staked = total, !.tokens = @ - out]
    /\ UNCHANGED <<now, stake_v1, wallet, assets, audit, taken>>

MergedLock_Target(target, source) == target.lock_duration
MergedLock(target, source) == AtLeast(target.lock_duration, source.lock_duration)

Folded(target, source) ==
    LET lock == MergedLock(target, source)
    IN  [target EXCEPT !.balance = @ + source.balance, !.rewards = @ + source.rewards,
                       !.lock_duration = lock, !.created_at = now,
                       !.multiplier = stake_multiplier(lock),
                       !.tokens = @ + source.tokens]

\* The source is folded into the target on the terms of a fresh deposit and
\* closed; each vault must back its own balance first.
MergeStakeV2(target, source) ==
    /\ target # source
    /\ Owner[target] = Owner[source]
    /\ Canonical(target) /\ Canonical(source)
    /\ ~stake[target].is_nft_staked /\ ~stake[source].is_nft_staked
    /\ \A s \in {target, source} : stake[s].tokens >= stake[s].balance
    /\ LET touched == Reweighed(TouchedTotal(target), stake[source], Touched(source))
           merged == Folded(update_rewards(Touched(target)), update_rewards(Touched(source)))
           total == Reweighed(touched, Touched(target), merged)
                      - weighted_units(Touched(source))
       IN  /\ TouchedTotal(target) >= 0 /\ touched >= 0 /\ total >= 0
           /\ stake' = [stake EXCEPT ![target] = merged, ![source] = None]
           /\ treasury' = [treasury EXCEPT !.total_staked = total]
    /\ UNCHANGED <<now, stake_v1, wallet, assets, audit, owed, taken>>

\* An empty stake pays its rewards and the dust of its vault, and is closed.
CloseStakeV2(s) ==
    /\ Canonical(s)
    /\ stake[s].balance = 0
    /\ ~stake[s].is_nft_staked
    /\ LET rewards == update_rewards(stake[s]).rewards
       IN  /\ PayYield(rewards, 0)
           /\ FromWallet(s, -(rewards + stake[s].tokens))
           /\ treasury' = [treasury EXCEPT !.tokens = @ - rewards]
    /\ stake' = [stake EXCEPT ![s] = None]
    /\ UNCHANGED <<now, stake_v1, assets, audit, taken>>

SetStakeExecutorV2(s, executor) ==
    /\ stake[s] # None
    /\ stake' = [stake EXCEPT ![s].executor = executor]
    /\ UNCHANGED <<now, stake_v1, treasury, wallet, assets, audit, owed, taken>>

stake_nft(st) == [update_rewards(st) EXCEPT !.is_nft_staked = TRUE]
unstake_nft(st) == [update_rewards(st) EXCEPT !.is_nft_staked = FALSE]

StakeNft(s) ==
    /\ Canonical(s)
    /\ TouchedTotal(s) >= 0
    /\ ~stake[s].is_nft_staked
    /\ assets > 0
    /\ LET new == stake_nft(Touched(s))
       IN  Store(s, new, new.tokens, Reweighed(treasury.total_staked, stake[s], new))
    /\ assets' = assets - 1
    /\ UNCHANGED <<now, stake_v1, wallet, audit, owed, taken>>

UnstakeNft(s) ==
    /\ Canonical(s)
    /\ TouchedTotal(s) >= 0
    /\ stake[s].is_nft_staked
    /\ LET new == unstake_nft(Touched(s))
       IN  Store(s, new, new.tokens, Reweighed(treasury.total_staked, stake[s], new))
    /\ assets' = assets + 1
    /\ UNCHANGED <<now, stake_v1, wallet, audit, owed, taken>>
-----------------------------------------------------------------------------
(* Stakes of version 1 weigh their balance; their deposits are closed. *)

SettledV1(a) ==
    [stake_v1[a] EXCEPT !.rewards = @ + Earned(stake_v1[a].balance, stake_v1[a].rewards_factor),
                        !.rewards_factor = treasury.stake_rewards_factor]

Withdraw(a, amount) ==
    /\ stake_v1[a] # None
    /\ LET out == AtMost(stake_v1[a].balance, amount)
       IN  /\ treasury.total_staked >= out
           /\ stake_v1[a].tokens >= stake_v1[a].balance
           /\ stake_v1' = [stake_v1 EXCEPT ![a] =
                             [SettledV1(a) EXCEPT !.balance = @ - out, !.tokens = @ - out]]
           /\ treasury' = [treasury EXCEPT !.total_staked = @ - out]
           /\ wallet' = [wallet EXCEPT ![a] = @ + out]
    /\ UNCHANGED <<now, stake, assets, audit, owed, taken>>

ClaimYield(a, amount) ==
    /\ stake_v1[a] # None
    /\ LET out == Claimable(SettledV1(a), amount)
       IN  /\ PayYield(out, 0)
           /\ stake_v1' = [stake_v1 EXCEPT ![a] = Claimed(SettledV1(a), out)]
           /\ treasury' = [treasury EXCEPT !.tokens = @ - out]
           /\ wallet' = [wallet EXCEPT ![a] = @ + out]
    /\ UNCHANGED <<now, stake, assets, audit, taken>>
-----------------------------------------------------------------------------
(* Yield *)

Shared(amount) ==
    IF treasury.total_staked > 0 THEN Bps(amount, STAKERS_BPS, DENOMINATOR_BPS) ELSE 0

\* Numeric::from_fraction truncates.
PerUnit_RoundedUp(shared) ==
    IF treasury.total_staked = 0 THEN 0
    ELSE (shared * FRACTION + treasury.total_staked - 1) \div treasury.total_staked

PerUnit(shared) ==
    IF treasury.total_staked = 0 THEN 0
    ELSE (shared * FRACTION) \div treasury.total_staked

\* The stakers' part of what was bought (bury) or of what is in the token
\* account (bury_tokens); the rest leaves the treasury (fee, burn, war chest).
Distribute(shared) ==
    /\ treasury.stake_rewards_factor + PerUnit(shared) <= MaxFactor
    /\ owed + shared <= MaxOwed
    /\ owed' = owed + shared
    /\ UNCHANGED <<now, stake, stake_v1, wallet, assets, audit>>

Bury(total_godl) ==
    /\ Distribute(Shared(total_godl))
    /\ treasury' = [treasury EXCEPT !.stake_rewards_factor = @ + PerUnit(Shared(total_godl)),
                                    !.tokens = @ + Shared(total_godl)]
    /\ UNCHANGED taken

BuryTokens(amount) ==
    /\ amount > 0
    /\ treasury.tokens >= amount
    /\ Distribute(Shared(amount))
    /\ treasury' = [treasury EXCEPT !.stake_rewards_factor = @ + PerUnit(Shared(amount)),
                                    !.tokens = @ - (amount - Shared(amount))]
    /\ taken' = taken + amount
-----------------------------------------------------------------------------
(* Maintenance *)

\* Anybody moves a legacy account, canonical or not, to the new curve.
MigrateStakeWeight(s) ==
    /\ stake[s] # None /\ stake[s].weight_version = 0
    /\ Store(s, Touched(s), stake[s].tokens, TouchedTotal(s))
    /\ UNCHANGED <<now, stake_v1, wallet, assets, audit, owed, taken>>

Unbacked_Swapped(st) == Monus(st.tokens, st.balance)

\* saturating_sub: a fully backed stake has no unbacked part.
Unbacked(st) == Monus(st.balance, st.tokens)

\* The admin withdraws from the books what the vault does not hold.
ReconcileStakeV2(s) ==
    /\ stake[s] # None
    /\ LET new == Withdrawn(stake[s], Unbacked(stake[s]))
       IN  Store(s, new, new.tokens, Reweighed(treasury.total_staked, stake[s], new))
    /\ UNCHANGED <<now, stake_v1, wallet, assets, audit, owed, taken>>

SweptBalance(st) == st.balance = 0

\* The admin closes an empty phantom; its rewards are forfeited.
ClosePhantomStakeV2(s) ==
    /\ s \in Phantoms /\ stake[s] # None
    /\ SweptBalance(stake[s])
    /\ stake' = [stake EXCEPT ![s] = None]
    /\ UNCHANGED <<now, stake_v1, treasury, wallet, assets, audit, owed, taken>>

\* The admin's command reads the treasury, lists the accounts of each kind,
\* reads the treasury again and sends its compare-and-swap: five separate
\* calls, with other transactions in between.
AuditStep(step) ==
    /\ audit' = [audit EXCEPT !.step = step]
    /\ UNCHANGED <<now, stake, stake_v1, treasury, wallet, assets, owed, taken>>

ReadTreasury ==
    /\ audit.step = "idle" /\ audit.attempt < MaxAttempts
    /\ audit' = [audit EXCEPT !.step = "list", !.attempt = @ + 1,
                              !.expected = treasury.total_staked]
    /\ UNCHANGED <<now, stake, stake_v1, treasury, wallet, assets, owed, taken>>

ListStakes ==
    /\ audit.step = "list"
    /\ audit' = [audit EXCEPT !.step = "list_v1", !.sum = UnitsV2,
                   !.old = \E s \in Stakes : stake[s] # None /\ stake[s].weight_version = 0]
    /\ UNCHANGED <<now, stake, stake_v1, treasury, wallet, assets, owed, taken>>

ListLegacyStakes_NotCounted ==
    /\ audit.step = "list_v1"
    /\ AuditStep("reread")

ListLegacyStakes ==
    /\ audit.step = "list_v1"
    /\ audit' = [audit EXCEPT !.step = "reread", !.sum = @ + UnitsV1]
    /\ UNCHANGED <<now, stake, stake_v1, treasury, wallet, assets, owed, taken>>

RereadTreasury ==
    /\ audit.step = "reread"
    /\ \/ treasury.total_staked # audit.expected /\ AuditStep("idle")
       \/ treasury.total_staked = audit.expected /\ audit.old /\ AuditStep("done")
       \/ treasury.total_staked = audit.expected /\ ~audit.old /\ AuditStep("send")

RebaseMismatch ==
    /\ audit.step = "send"
    /\ treasury.total_staked # audit.expected
    /\ AuditStep("idle")

RebaseTotalStaked ==
    /\ audit.step = "send"
    /\ treasury.total_staked = audit.expected
    /\ treasury' = [treasury EXCEPT !.total_staked = audit.sum]
    /\ audit' = [audit EXCEPT !.step = "done"]
    /\ UNCHANGED <<now, stake, stake_v1, wallet, assets, owed, taken>>
-----------------------------------------------------------------------------
Next ==
    \/ Tick
    \/ \E s \in Stakes :
         \/ \E amount \in DepositAmounts, lock \in Locks, executor \in Executors :
              DepositV2(s, amount, lock, executor)
         \/ \E amount \in DepositAmounts : TopUpStakeV2(s, amount)
         \/ \E amount \in WithdrawAmounts : WithdrawV2(s, amount)
         \/ \E amount \in ClaimAmounts : ClaimYieldV2(s, amount)
         \/ \E signer \in Executors \cup Authorities : CompoundYieldV2(signer, s)
         \/ \E source \in Stakes : MergeStakeV2(s, source)
         \/ \E amount \in Donations : Donate(s, amount)
         \/ \E executor \in Executors : SetStakeExecutorV2(s, executor)
         \/ CloseStakeV2(s)
         \/ StakeNft(s)
         \/ UnstakeNft(s)
         \/ MigrateStakeWeight(s)
         \/ ReconcileStakeV2(s)
         \/ ClosePhantomStakeV2(s)
    \/ \E a \in Authorities :
         \/ \E amount \in WithdrawAmounts : Withdraw(a, amount)
         \/ \E amount \in ClaimAmounts : ClaimYield(a, amount)
    \/ \E total_godl \in BuryAmounts : Bury(total_godl)
    \/ \E amount \in BuryTokensAmounts : BuryTokens(amount)
    \/ ReadTreasury \/ ListStakes \/ ListLegacyStakes \/ RereadTreasury
    \/ RebaseMismatch \/ RebaseTotalStaked

Spec == Init /\ [][Next]_vars
=============================================================================
