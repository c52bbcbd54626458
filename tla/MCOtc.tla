-------------------------------- MODULE MCOtc --------------------------------
(***************************************************************************)
(* Instances of Otc for TLC.                                               *)
(***************************************************************************)
EXTENDS OtcProperties

CONSTANT Keeper     \* an executor who owns no stake

\* A stake that was opened at time 0 before the upgrade.
Legacy(balance, lock, tokens) ==
    [balance |-> balance, rewards_factor |-> 0, rewards |-> 0,
     multiplier |-> stake_multiplier(lock), lock_duration |-> lock, executor |-> Keeper,
     created_at |-> 0, is_nft_staked |-> FALSE, weight_version |-> 0, tokens |-> tokens]

LegacyV1(balance) ==
    [balance |-> balance, rewards_factor |-> 0, rewards |-> 0, tokens |-> balance]

\* A buyer with a legacy stake and a free address, beside an owner with a stake
\* of version 1 and savings to fund the desk with.
DeskOwners == <<2, 2>>
DeskGenesis == <<Legacy(1, 1, 1), None>>
DeskV1 == <<LegacyV1(1), None>>
DeskSavings == <<3, 1>>

DeskQuotes == {[sol_in |-> 2, godl_out |-> 2, godl_bonus |-> 1, lock_duration |-> 2, expiry |-> 0]}
=============================================================================
