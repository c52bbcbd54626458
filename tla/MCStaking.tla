------------------------------ MODULE MCStaking ------------------------------
(***************************************************************************)
(* Instances of Staking for TLC.                                           *)
(***************************************************************************)
EXTENDS StakingProperties

CONSTANT Keeper     \* an executor who owns no stake

\* A stake that was opened at time 0 before the upgrade.
Legacy(balance, lock, tokens) ==
    [balance |-> balance, rewards_factor |-> 0, rewards |-> 0,
     multiplier |-> stake_multiplier(lock), lock_duration |-> lock, executor |-> Keeper,
     created_at |-> 0, is_nft_staked |-> FALSE, weight_version |-> 0, tokens |-> tokens]

LegacyV1(balance) ==
    [balance |-> balance, rewards_factor |-> 0, rewards |-> 0, tokens |-> balance]

\* One owner with a legacy stake and a free address.
OneOwner == <<1, 1>>
PairGenesis == <<Legacy(2, 2, 2), None>>
PairV1 == <<None>>
PairSavings == <<2>>

\* A sweep over a legacy stake, a phantom with an empty vault and a stake of
\* version 1; their owner has a free address, and what it takes out may end up
\* in a new stake or in the phantom's vault.
SweepOwners == <<1, 1, 1>>
SweepGenesis == <<Legacy(1, 1, 1), None, Legacy(2, 2, 0)>>
SweepV1 == <<LegacyV1(1)>>
SweepSavings == <<0>>
=============================================================================
