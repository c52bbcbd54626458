# GODL program: a TLA+ verification project

The GODL program (`src/program`, state and constants in `src/api`) is a Solana
program: a mining game in which players deploy SOL on the squares of a round,
win SOL and GODL by lot, stake GODL, and collect gold (XAUt0) in proportion to
the GODL they leave unrefined.  This directory models it in TLA+, checks the
models with TLC and proves theorems about them with TLAPS.  `PROJECT.json` lists
components, runs, mutants, theorems and hazards, and maps each definition to the
source lines it stands for.

    tlc -config MiningRound.cfg MCMining        # a run
    tlapm GameProofs.tla                        # the proofs of a module

## 1. Inventory

The program keeps all its state in accounts.  An instruction is handled by one
function of `src/program/src` (dispatched by `lib.rs`), and a transaction is
atomic: a handler that returns an error, panics or overflows
(`overflow-checks = true`) changes nothing.  Concurrency is therefore the order
of instructions: any signer may send any instruction at any slot, and a property
must survive every interleaving of them.

| component | state | operations | talks to |
|---|---|---|---|
| Mining rounds | `Board`, `Round` and `PoolRound` (one per round), `Miner` and `PoolMember` (one per player), `SolMotherlode` | `deploy`, `reset`, `reset_permissionless`, `checkpoint`, `close` (two of them also as `*_with_miner_extended`) | entropy program (`Var`), the mint, `Treasury`, automations |
| Automations and SOL claims | `AutomationV2` (one per player), `Miner.rewards_sol`, `Referrer` | `automate` (open, change, close), `fund_automation`, `claim_sol`, `claim_sol_and_fund_automation`, `deploy` by the executor | mining rounds |
| Miner GODL rewards | `Miner.rewards_godl`, `refined_godl`, `rewards_factor`; `Treasury.total_unclaimed`, `total_refined`, `miner_rewards_factor`, `motherlode` | `claim_godl`, `inject_godl_motherlode`, `inject_unrefined_rewards`, `rebase_total_unclaimed` | mining rounds (checkpoint adds rewards), gold vault |
| Gold vault | `GoldVault`, `MinerExtended` | `initialize_gold_vault`, `pre_buy_gold`, `buy_gold`, `deposit_gold`, `claim_gold`, `create_miner_extended` | every handler that changes `rewards_godl` must settle gold first |
| Staking v2 | `StakeV2` (many per owner) with its token vault; `Treasury.total_staked`, `stake_rewards_factor` | `deposit_v2`, `withdraw_v2`, `claim_yield_v2`, `compound_yield_v2`, `top_up_stake_v2`, `merge_stake_v2`, `close_stake_v2`, `close_phantom_stake_v2`, `reconcile_stake_v2`, `set_executor_v2`, `stake_nft`, `unstake_nft`, `migrate_stake_weight`, `rebase_total_staked` | `bury` and `bury_tokens` raise the factor; OTC opens stakes |
| Staking v1 | `Stake` | `withdraw`, `claim_yield` (deposits are closed) | the same treasury factor |
| Admin | `Config`, `Treasury` | `pre_bury`, `bury`, `bury_tokens`, `withdraw_vault`, setters, entropy and mint set-up | stakers, a swap program |
| OTC | `OtcTreasury`, `OtcUser` | `initialize`, `fund_godl_otc`, `execute_otc_trade`, `withdraw_sol_otc` | opens a locked `StakeV2`, adds unrefined GODL |
| Referrals | `Referrer` | `initialize_referrer`, `set_referrer`, `claim_referral` | SOL and GODL claims pay its cut |
| Random mask | none (a pure function in `deploy.rs`) | `generate_random_mask` | deployments by the executor |
| SDK, layouts, events, CLI | none | account lists, encodings, single transactions | - |

What makes each part correct, and what is hard about it:

* **Mining.** On each square the players' deployments form consecutive half-open
  ranges; the entropy value picks a square and a lamport of it.  The ranges must
  partition the square, or the block reward is paid twice or not at all and the
  permissionless reset finds no candidate.  A player's `Miner` and `PoolMember`
  accounts are reused in every round, so a round must be settled before the next
  one overwrites it.  Anybody may checkpoint anybody, late or never, while rounds
  expire and are closed.  SOL is tracked twice, as data and as lamports, and fees
  are truncated in three places.
* **Automations.** Four handlers move lamports between miner, automation, round
  and executor; a deployment without funds is half executed on purpose.
* **Reward pools** (GODL rewards, gold, staking) all use the lazy-factor pattern:
  a total, a factor that only grows, and holders who settle before their weight
  changes.  What can go wrong is always the order: a weight changed before
  settling, a total out of step with the holders, truncated shares that are
  subtracted from a total.
* **Staking** adds locks, two weight curves (linear, square root), a boost, and
  accounts whose recorded balance and vault may disagree (`reconcile`, `phantom`).
* **OTC** needs ledger and vault to agree and a quote to be used before it expires.

## 2. Modules and plan

| module | content |
|---|---|
| `Sums` | sums over indices, basis points, pro rata shares, saturating arithmetic |
| `Mining` | the mining game with automations, random masks, SOL claims, referrers, settings and vault withdrawals: one action per instruction |
| `MiningProperties` | type invariant, safety invariants, action properties, fairness and liveness, the mapping to `Ticket` |
| `Ticket` | what mining promises a player, without squares, pools and fees |
| `Staking` | stakes of both versions, the treasury's total and factor, the two bury instructions, the admin's rebase command |
| `StakingProperties` | its properties, the mapping to `RewardPool`, the fairness of the migration sweep |
| `Otc`, `OtcProperties` | the OTC desk beside staking (`EXTENDS Staking`), and what it promises |
| `Refining` | unrefined GODL: claims and the fee they share, injections, trade bonuses, referral claims, the gold vault and its rollout |
| `RefiningProperties` | its properties, two mappings to `RewardPool`, and the specification of the rollout |
| `RewardPool` | what every lazily settled reward promises: an amount is shared at once |
| `Isqrt` | the Newton loop under the weight curve |
| `MCMining`, `MCStaking`, `MCOtc`, `MCRefining`, `MCIsqrt` | constants of the model-checking instances |
| `SumsProofs` | lemmas about `Sums` |
| `MiningProofs` | type correctness of `Mining`, random masks, referrals |
| `GameProofs` | the lottery invariants of `Mining`; `Mining` implements `Ticket` |
| `MoneyProofs` | the money invariants and the settlement properties of `Mining` |
| `StakingProofs` | types, the sum of the weights, the way out of a stake, commitments, the rebase |
| `YieldProofs` | the yield of stakes is never distributed twice, and backed, also with the desk beside staking; `Staking` implements `RewardPool`; the desk's books and what it sells under lock |
| `RefiningProofs` | types, claims, backing, both refinements and the rollout of `Refining` |
| `IsqrtProofs` | the square root |

Interactions are modelled where two components write the same account: automations,
referrers and settings are in `Mining`; the desk extends `Staking`, whose treasury
and stakes it writes; gold and GODL rewards share `Refining`, because each settles
at the weight the other changes.  `Mining` and `Refining` meet in `rewards_godl`:
which amount a round credits is the subject of one, what is done with it of the other.

Every invariant, action property and refinement that a run checks is stated by a
theorem.  Left for later: the pools with a rebase between two distributions, which
the refinement theorems exclude (a total that starts above the sum may then change,
which `RewardPool` has no action for), and weaker conditions on the start of `Staking`.

## 3. The model of the mining game

### State

| variable | code |
|---|---|
| `board` | `Board` |
| `round[k]`, `pool_round[k]` | `Round` and `PoolRound` of round `k`, `None` when the account is empty or closed |
| `miner[m]`, `pool_member[m]`, `automation[m]` | the accounts of authority `m` |
| `referrer[r]` | the `Referrer` account of authority `r`, `None` when empty |
| `treasury`, `sol_motherlode`, `supply` | the shared accounts and the GODL mint |
| `config` | the `Config` account |
| `slot`, `var` | the clock and the value of the entropy account (both external) |

Field names are those of the code.  A field `lamports` is the account's SOL above
its rent exemption: it is a separate field exactly because the code moves lamports
and updates its books in separate statements.  `treasury.tokens` is the treasury's
GODL token account.

`config` holds the settings a handler reads, and `grown`, which says whether the
account has its current length: until `UpdateProtocolConfig` grows it every handler
that reads it fails.  `referrer[r]` is the account of authority `r`.

The entropy value is a record `[square, rev, split]`: the winning square, the
number that picks the lamport, and the split bit.  In the code all three are
computed from one 64-bit number; treating them as independent adds outcomes and
removes none.  `Unavailable` is a value for which `Round::rng` returns `None`.

### Actions

Each action is a whole handler, with its guards in the code's order where the
order matters.  `Deploy`, `DeployByExecutor` and `DeployCancelled` are the three
ways through `process_deploy`: by the authority, by an automation's executor, and
by an executor whose automation cannot pay (the round starts, the miner enters,
the automation is closed, nothing is placed).  `Reset` and `ResetPermissionless`
share `Settle`, which has the code's three outcomes: no entropy (refund), nobody
on the winning square (vault), winners.  `Checkpoint` pays; `CheckpointForfeit`
covers the closed and the expired round.  `Close` sweeps an expired round.
`Automate`, `CloseAutomation`, `FundAutomation`, `ClaimSol` and
`ClaimSolAndFundAutomation` are the automation handlers.  `InitializeReferrer`,
`SetReferrer`, `SetNoReferrer` and `ClaimReferral` are the referral handlers;
`SetGodlPerRound`, `SetMotherlodeDenominator` and `UpdateProtocolConfig` the settings
that other handlers compute with; `TakeFromVault` is `withdraw_vault` and `pre_bury`,
`PreBuyGold` its counterpart for the SOL motherlode.  `Tick` lets a slot pass
and `Reveal` is the entropy program.

The handlers with and without `MinerExtended` do the same to this state, so one
action stands for both.  Early returns that change nothing are not actions.

### Abstractions

* `Init` is the board after the first reset, not what `process_initialize` writes: that
  is round 0 without a `PoolRound`, a state no later round is in.
* Callers pass the canonical accounts; owner and seed checks are not modelled.  The
  exception is the checkpoint: it believes an empty account in the place of the
  `PoolMember` or the `PoolRound` without looking at its seeds
  (`checkpoint.rs:50` and `:129`), so `Checkpoint` has a parameter `pooled` with which
  the caller says whether it passes the pool's accounts.  `process_reset` is called with
  empty candidate accounts too (finding `outcome`).
* `IsRandomMask` relates a hash to the squares that the loop of
  `generate_random_mask` picks; the hash is any member of `Hashes`, so nothing rests
  on how it is computed.
* Lifetime statistics, timestamps, logs and events are left out.
* `rewards_factor` and `refined_godl` belong to `Refining`; here `rewards_godl` only grows.
* Who may sign for the admin is not modelled: an admin instruction is possible at any
  time, with the arguments that the bounds `Rates`, `Denominators`, `Timings`,
  `Withdrawals` and `GoldBuys` offer.

A definition `X_Suffix` is a wrong variant of `X`.  No specification uses it; the
mutants of `PROJECT.json` put it in the place of `X` to see that a property notices.

## 4. The models of staking, of the square root and of unrefined GODL

### State of `Staking`

| variable | code |
|---|---|
| `stake[s]` | the `StakeV2` account at address `s` and its token vault (`tokens`), `None` when empty |
| `stake_v1[a]` | the `Stake` account of authority `a` and its vault |
| `treasury` | `total_staked`, `stake_rewards_factor` and the GODL token account |
| `wallet`, `assets` | GODL of each authority; boost NFTs that are not staked |
| `now` | the clock |
| `audit` | the admin's rebase command, a client program (`cli/src/commands/stake_weight.rs`) |
| `owed`, `taken` | history: yield shared and not yet paid; GODL `bury_tokens` took |

`Owner` gives the authority of each address.  `Phantoms` are addresses that are
not the PDA of their authority and id: handlers that check the seeds (all but
`set_executor_v2`, `migrate_stake_weight`, `reconcile_stake_v2` and
`close_phantom_stake_v2`) refuse them.  `Init` is the chain when the square-root
curve was deployed: accounts of weight version 0, phantoms without backing, and a
total that is `GenesisDrift` above the sum of the weights.

A factor is a `Numeric`, a fixed-point number; here it counts in units of
`1 / FRACTION`, and every conversion truncates as in the code.

### Actions

One action per instruction.  `Touched` is the automatic migration at the head of
the handlers that change a weight; `Reweighed` is the update of `total_staked` by
the difference of two weights, in the unsigned arithmetic of the code.
`ClaimYieldV2`, `CloseStakeV2` and `ReconcileStakeV2` settle but do not migrate.
`Bury` keeps of a swap only what stakers get.  The rebase command is five calls
with other transactions in between: `ReadTreasury`, `ListStakes`,
`ListLegacyStakes`, `RereadTreasury`, and the instruction, which succeeds
(`RebaseTotalStaked`) or not (`RebaseMismatch`).

### Abstractions of `Staking`

* Rent, `lifetime_rewards` and the `last_*_at` timestamps are left out; no handler
  reads them.
* `Donate` sends GODL to the vault of any existing stake, phantoms included; it comes
  out of the wallet of the stake's authority, whoever sends it.  GODL sent to the address
  of a vault before its stake exists is left out.
* `MaxFactor` and `MaxOwed` bound how much yield is shared in an instance.

### `Otc`

| variable | code |
|---|---|
| `otc_treasury` | the `OtcTreasury` account, with its lamports and its token account |
| `otc_user[a]` | the `OtcUser` account of authority `a`, `None` when empty |
| `chest` | lamports sent to the chest |
| `funded`, `bought` | history: GODL brought to the desk; GODL each authority bought as stake, by time |

One action per instruction, beside every action of `Staking`.  `ExecuteOtcTrade` opens
a stake with the operators of `Staking` (`NewStake`, `Deposited`, `Reweighed`), in the
order of the handler.  The oracle's signature is membership in `Quotes`; nothing marks
a quote as used, as in the code, where the stake address must be empty.  One clock
serves the quote's expiry slot and the stake's timestamps.  The bonus adds to the
treasury's tokens here, and to the buyer's unrefined GODL in `Refining`.

### `Isqrt`

`Staking` uses the floor of the square root by its definition.  `Isqrt` is the
loop of `isqrt_u128` that computes it, one statement per step, in a machine word
of `Width` bits.  `PowersAssumption` holds of every `Width` above 1; it states the
facts on powers of two that the proof system cannot derive.

### State of `Refining`

| variable | code |
|---|---|
| `miner[m]`, `extended[m]` | the `Miner` (its GODL fields) and `MinerExtended` accounts of authority `m`, `None` when empty |
| `treasury` | `total_unclaimed`, `total_refined`, `miner_rewards_factor`, `motherlode` and the GODL token account |
| `gold_vault`, `sol_motherlode` | the accounts with their token balances or lamports |
| `referrer` | what a referrer may claim, and its token account |
| `prizes` | GODL that finished rounds still owe (`top_miner_reward` and `motherlode` of the rounds) |
| `now` | the clock |
| `audit` | the admin's audit and rebase commands (`cli/src/commands/gold.rs`) |
| `paid` | history: GODL that claims took from the treasury |

### Actions of `Refining`

One action per instruction.  A round is abstract: a miner is `playing` or not,
`Reset` mints and moves the motherlode to `prizes`, a checkpoint credits any amount
of `RewardAmounts` that `prizes` still holds; which amount is the subject of `Mining`.
`Automate` opens a miner without an extended account.  `Deploy` and `Checkpoint` are
the legacy handlers, which end at `LEGACY_INSTRUCTION_EXPIRY_TS`; the other two know
`MinerExtended`.  `Loaded`, `Syncable` and `Sync` are `load_or_create_miner_extended`
and `sync_gold_rewards` with their panics.  `BuyGold` takes the whole WSOL balance
and brings any amount of XAUt0.  The audit reads the treasury, the miners and the
extended accounts in three calls (`ReadTreasury`, `ListMiners`,
`ListMinerExtendeds`), and ends as `AuditUnclaimed` or goes on to the rebase.

With `AuditFirst` the operator brings in no gold (`RolledOut`) before an audit has
passed: the order `cli/src/commands/gold.rs` asks for, which the program itself does
not enforce.  `BuyGold` needs more: the command audits again before each purchase
(`gold.rs:412-423`), so it follows an audit of its own that started after the expiry
and found nothing wrong (`Audited`, field `buying`); `DepositGold` follows none
(`gold.rs:307`).  `AuditFrom` is the time from which the operator audits.

### Abstractions of `Refining`

* SOL rewards, lifetime statistics (except `lifetime_rewards_godl`, from which a
  claim subtracts), `min_xaut_out` and transfers of WSOL or XAUt0 to the vault by third
  parties are left out.
* `FeeDivisor` stands for both tenths of the code, the claim fee and the part of
  the motherlode that rolls over.  The cap of the mint is in `Mining`.
* Of an OTC trade only the bonus is here, any amount of `BonusAmounts`.
* `MaxTokens`, `MaxXaut`, `Players` and `Claimants` bound an instance.

### The abstract specifications

`Ticket` is the game a player sees: enter, collect or forfeit, one ticket at a time,
a deadline that the first ticket of a round fixes, more than `Window` ahead.
`MiningProperties!Tickets` maps `checkpoint_id # round_id` to an open ticket,
`expires_at` to the deadline and the two rewards of the `Miner` account to the purse.

`RewardPool` has no factor and settles nothing: an amount is shared at once by the
weights of the moment, and then a claim changes only when its holder is paid.  It is
implemented three times, with what each account would settle to now as `claimable`:
the yield of stakes (both versions are holders of one pool), the refined GODL of miners
(`Leave` is a claim whose fee the others share) and gold (only miners with an extended
account are `members`; what waits for weight is not yet in the `fund`).  `Loss`
bounds what truncation takes from one share; in the instances it is 2, and with 1 the
refinements fail, because a claim is a difference of two truncated products.

## 5. What is checked

The clock of an instance stops (`MaxSlot`, `MaxTime`), so a model may deadlock where
the program would not, and the square root's loop ends: hence `CHECK_DEADLOCK FALSE`.

The mining game (`MCMining`):

| run | instance | properties |
|---|---|---|
| `round` | one played round, two miners, amounts of 133 and 267 lamports per square (the real fee rates, so fees are rounded), pooled or not, every outcome including no entropy; a referrer, claims, vault withdrawals | `TypeOK`, `RangesDisjoint`, `SquaresTiled`, `StrictResetPossible`, `ShortOfDustOnly`, `BooksMatchCash`, `ReferralsAreSound`, `SoloWinnerIsFinal` |
| `two_rounds` | two played rounds, late and missed checkpoints, expiry, close; a supply cap reached in the second round, a mint rate that changes | `WinnersCovered`, `PoolAgrees`, `GodlBacked`, `UnsettledPlayKept`, `NothingPayableLost`, `ImplementsTicket` |
| `automation` | one miner, preferred and random plans over two played rounds, refills from claims, no entropy; `Config` not yet grown, a zero denominator; under `FairSpec` | `RoundIsReset`, `MinerIsReleased`, `RandomPlanFills` |
| `dust`, `outcome` | small instances of the findings below | violated on purpose |

Staking (`MCStaking`), the desk (`MCOtc`) and the square root (`MCIsqrt`):

| run | instance | properties |
|---|---|---|
| `staking_pair` | one owner, a legacy stake and a free address, locks of 0 and 2, boost, yield | `TypeOK`, `ExitIsOpen`, `ImplementsPool`, `CommitmentKept` |
| `otc` | a funder with a stake of version 1, a buyer with a legacy stake and a free address, a quote with a bonus, both bury instructions with a truncated share | `NeverOverDistributed`, `YieldIsBacked`, `DeskAddsUp`, `BoughtStaysLocked`, `WeightsAddUp` |
| `staking_sweep` | a legacy stake, an unbacked phantom, a free address and a stake of version 1 of one owner; deposits, top-ups, withdrawals, merges, claims, closings, re-openings, GODL sent to any vault and one rebase during the sweep, under `FairSpec`, in `Quiet` steps | `RebaseClearsDrift`, `SweepEnds` |
| `isqrt` | every argument of a ten-bit word | `AboveRoot`, `ReturnsFloorRoot`, `FitsWord`, `Terminates` |

Unrefined GODL and gold (`MCRefining`):

| run | instance | properties |
|---|---|---|
| `refining` | three holders of 5, 3 and 2, one with a referrer, one playing, one without an extended account, before and after the expiry; a round or a trade bonus, two deposits of gold, every order of two holders' claims | `TypeOK`, `ClaimIsOpen`, `GodlBacked`, `UnclaimedAddsUp`, `ImplementsRefinedPool`, `ImplementsGoldPool` |
| `refining_rollout` | a drifted total, a holder without an extended account, a new player, a holder who claims, a swap; audits and rebases after the expiry, `AuditFirst`, in `Quiet` steps | `GoldMissesNobody`, `RebaseClearsDrift` |
| `refining_legacy` | small instance of a finding below | violated on purpose |

What they show:

* The lottery is sound: `RangesDisjoint`, `SquaresTiled`, and with them
  `StrictResetPossible` (the backstop always has an admissible caller) and
  `SoloWinnerIsFinal` (the solo reward is paid once).
* Money is where the books say: `BooksMatchCash`.  A finished round can pay all its
  winners when no fee is rounded (`WinnersCovered`) and lacks at most a lamport per
  winner otherwise (`ShortOfDustOnly`).  GODL rewards, motherlode and everything
  finished rounds still owe stay within the treasury's tokens and the cap (`GodlBacked`).
* Rounds do not mix: `PoolAgrees`, `UnsettledPlayKept`, `NothingPayableLost`; and all of
  it together is the game of `Ticket` (`ImplementsTicket`): whoever plays in a round
  has a day after its end, counted from the first deploy's clock and never moved.
  How much of that day is left when the round is reset nobody promises: the
  intermission may be set to a day.  `NothingPayableLost` has one exception, and the code
  needs it: whoever settles the play of a pooled winner with an empty account in the
  place of one of the pool's marks it as settled without the pooled share.  SOL, and what
  is won alone, by split or from the motherlode, nobody can drop in this way.
* Referrals: `ReferralsAreSound`: the account that a referred claim loads exists, and its
  count is right.  Random plans: `RandomPlanFills`, whatever the hash.
* The game goes on: `RoundIsReset`, `MinerIsReleased`, unless the settings stop it again
  and again (`[]<>Stuck`): before `Config` is grown, and with a zero denominator whenever
  somebody wins.  Once they are right for good, a round that waited is reset.
* Staking weights: `WeightsAddUp`, the first oracle of the fuzz target
  `op_sequence.rs`, as an action property: the total and the sum of the weights may
  start apart, but no instruction moves them further apart or together.  With it,
  `ExitIsOpen`: the checked subtraction in `withdraw` fails for nobody.
* Yield: `NeverOverDistributed`, the second oracle of that fuzz target;
  `ImplementsPool`, which fails if any handler reweighs before it settles, or loses or
  creates a share on the way; `YieldIsBacked`, whose term `taken` says what it rests on: `bury_tokens` takes GODL
  from the account that holds the yield, and leaves it short unless that GODL is
  there for other purposes.
* Locks: `CommitmentKept`.  No sequence of merges, top-ups, compoundings, closings
  and re-openings ends a commitment early.
* The desk: `DeskAddsUp` relates its account, its vault, the users' accounts and the
  treasury, so every open quote the account covers can be filled.  `BoughtStaysLocked`:
  what is sold at a discount stays locked for the month it was sold under.
* The sweep: `SweepEnds`.  Whatever the owner does with its stakes meanwhile, every
  account reaches the new curve and a phantom is written off and closed, unless somebody
  sent GODL to its vault before: `reconcile` then leaves the balance that the vault
  holds, and `close_phantom_stake_v2.rs:48` refuses the account for good.
* The rebase: `RebaseClearsDrift` of `Quiet` steps, in which nothing but the command's
  own transaction raises the total while it runs.  Both rebase commands compare values
  only: a withdrawal that the snapshot missed and a deposit that brings the total back to
  the same number pass both comparisons (`rebase_total_staked.rs:31`), and the sum
  written was never true.  A total below the true sum is what `ExitIsOpen` rules out
  elsewhere, and it would make a later migration fail: hence `Quiet` for `SweepEnds` too.
* Unrefined GODL: `UnclaimedAddsUp`, on which both factors rest.  `ClaimIsOpen`: of
  the truncated shares that are settled at different times none is missing from
  `total_refined`, so no claim is refused.  `GodlBacked`: a claim pays exactly what its fee
  leaves.  `ImplementsRefinedPool` fails if a handler credits before it settles.
* Gold: `ImplementsGoldPool` rests on the date that locks gold until the handlers that
  do not settle it have ended: without it one legacy checkpoint breaks it, and so does
  an account that is created late with the factor zero.
* The rollout: with an audit after the expiry, `GoldMissesNobody`.  `RebaseClearsDrift`
  of `Quiet` steps, in which nobody claims while the command runs; claims before and
  after it, and checkpoints, injections and trades at any time, do no harm.  A checkpoint
  and a claim of the same amount during the command cancel, pass both comparisons
  (`rebase_total_unclaimed.rs:30`), and the sum written is wrong, as in staking.
* The weight curve: the Newton loop ends and returns the floor, and no
  intermediate value leaves the word.

### Bounds

Two miners are what it takes for ranges to meet, for a pool to have a member and
an outsider, and for a truncated fee to be charged to one winner and missed by the
other.  Two squares give a winning and a losing side.  Two played rounds let every
per-player account be reused while an old round is unsettled; the last round of an
instance is opened and not played.  In `two_rounds` the winning lamport is the first of
the second deploy of a square (whoever makes it), the boundary at which two players
could both take the block reward; all ranges are drawn in `round`.  `PoolCap` is low enough in `round` to refuse the
largest pooled deployment.  `MaxSlot` leaves room for every deadline of the
instance (round end, intermission, the twelve-hour window, expiry, close), which are
one or two slots long in the instances.  `Claimants` and `MaxBalance` cut claims and
automation balances in the runs that do not ask about them.  The hashes of
`automation` hold a byte in the middle and the byte 255, where a scale of 255 in
place of 256 would fail.  Each setting has one other value than at the start, in the
run that asks about it: a mint rate in `two_rounds` (it takes the second round over
the cap), a zero denominator and a shorter round in `automation`.

In staking the scale of multipliers is 4 and the largest multiplier 4, so that the
linear and the square-root curve differ and both truncate; a `Numeric` has eight
fractions and the boost is 3/2, so that shares and boosts are rounded; the
compounding fee is a half, so that it is not always zero.  Two addresses of one
owner are what a merge needs; a second owner and a stake of version 1
are what yield can be wrongly shared with (`otc`).  `staking_sweep` asks for an end and
shares no yield: it has all three kinds of account, two addresses to merge, close and
re-open, and amounts of one.  Its configuration, like that of `refining_rollout`, names
`Quiet` as an action constraint; `Quiet` cuts only steps taken while a rebase command runs.  Locks of two
time steps leave room for a merge or a top-up while a lock runs.  The desk of `otc`
sells one quote, with a bonus, that expires before the last time step; a month is two
time steps and the buyer's other deposits are not locked, so a merge that shortened
the lock of what was bought would show.  Ten bits hold every parity of the bit length,
with squares and their neighbours, which is where a wrong guess or a wrong test
shows; the word's last value tests the overflow.

In `Refining` a `Numeric` has four fractions, the gold scale is 2 and the weights
are 5, 3 and 2, so that every share of a fee or of gold can be truncated; the fee is
a half, so that it is not zero on such weights.  Three holders let a fee be shared
unevenly between two while the third claims: with two, a rounding error of a share
would go unnoticed.  `Players` and `Claimants` cut deployments to one miner and claims
to two miners in `refining`; in the rollout the miner with an extended account claims
and the two without one play.  Two attempts are a rebase and the audit after it.  Two time steps are
before and after the expiry.  Two deposits' worth of XAUt0 let gold wait for a later distribution.

### Fairness

`FairSpec` assumes that slots pass, that the entropy operator delivers a revealed
value, that somebody sends an admissible `reset_permissionless` (anybody may, and
`CRANK_REWARD_LAMPORTS` pays the caller), and that somebody checkpoints
each miner, for which the checkpoint fee pays.  It assumes nothing of the crank bot,
nor that anybody deploys, claims or closes, nor of the admin: the settings that make
every reset fail (`Stuck`) are excepted in the properties, if they last or come back for
ever, and not ruled out.

In staking only the operator's maintenance is fair: `migrate_stakes` lists and
migrates until no legacy account is left (`stake_weight.rs:108`; it gives up after ten
passes, and the operator runs it again), and the clean-up reconciles and closes
phantoms.  Each of these instructions, once possible, stays
possible until it is done, so weak fairness is enough.  Nothing is assumed of owners.
The square root assumes that a started loop goes on.

### Findings

* `dust`: `reset.rs:236` checks that tracked outflows do not exceed the deposits,
  but counts the fees differently from what it and the checkpoints take.  With
  several small winning deployments the round ends a lamport short and the last
  winner's checkpoint is refused until somebody sends the round a lamport.
* `outcome`: `reset.rs:13` says the outcome is the same whoever calls.  The crank's
  `reset` with no top-miner accounts leaves a pooled winner in the solo branch.
* `refining_legacy`: the rollout order of `cli/src/commands/gold.rs:4` gives no date for
  the audit.  If it passes before the legacy instructions expire, a legacy checkpoint
  after it credits GODL to a miner without an extended account, and the first
  distribution, meant for "every miner's unrefined GODL" (`gold_vault.rs:12`), misses it.
  `buy-gold` audits again and would refuse (`gold.rs:412-423`); the distribution that
  misses the miner is `deposit-gold`, which asks nothing, or an instruction sent without
  the command line client.

## 6. What is proved

For all constants that satisfy the assumptions of `Mining` (any number of miners,
squares and rounds, any amounts, fees, entropy values, plans and settings), of
`Staking` and `Otc` (any owners, stakes, locks, amounts, multipliers, boosts and
quotes), of `Refining` (any miners, weights, amounts and dates) and of `Isqrt` (any word):

| theorem | statement |
|---|---|
| `MiningProofs!TypesAreCorrect` | `Spec => []TypeOK` |
| `MiningProofs!RandomMaskFills` | a random mask has as many squares as the plan asks for |
| `MiningProofs!RandomPlansFill` | `Spec => RandomPlanFills` |
| `MiningProofs!ReferralsStaySound` | `Spec => []ReferralsAreSound` |
| `GameProofs!RangesAreDisjoint` | `Spec => []RangesDisjoint` |
| `GameProofs!SquaresAreTiled` | `Spec => []SquaresTiled` |
| `GameProofs!StrictResetIsPossible` | `Spec => []StrictResetPossible` |
| `GameProofs!OneHolderOfTheSample` | at most one miner of a round holds its sample |
| `GameProofs!MiningImplementsTicket` | `Spec => ImplementsTicket` |
| `MoneyProofs!BooksAlwaysMatch` | `Spec => []BooksMatchCash` |
| `MoneyProofs!PoolAlwaysAgrees` | `Spec => []PoolAgrees` |
| `MoneyProofs!UnsettledPlaysAreKept` | `Spec => UnsettledPlayKept` |
| `MoneyProofs!OneSoloWinner` | `Spec => SoloWinnerIsFinal` |
| `MoneyProofs!NothingPayableIsLost` | `Spec => NothingPayableLost` |
| `MoneyProofs!MiningBacksItsGodl` | `Spec => []GodlBacked` |
| `MoneyProofs!RoundsLackOnlyDust` | `Spec => []ShortOfDustOnly` |
| `MoneyProofs!RoundsCoverTheirWinners` | `Spec => []WinnersCovered`, if no fee is rounded (`WholeFees`) |
| `StakingProofs!StakingTypes` | `Spec => []TypeOK` |
| `StakingProofs!WeightsAlwaysAddUp` | `Spec => WeightsAddUp` |
| `StakingProofs!QuietRebaseClearsDrift` | `Spec /\ [][Quiet]_vars => RebaseClearsDrift` |
| `StakingProofs!ExitStaysOpen` | `Spec /\ RebaseClearsDrift => []ExitIsOpen`, if every canonical stake is backed at the start (`GenesisBacked`) |
| `StakingProofs!CommitmentIsKept` | `Spec => CommitmentKept`, if `GenesisBacked` and no stake's clock is ahead at the start (`GenesisStarted`) |
| `YieldProofs!YieldIsNeverOverDistributed` | `Spec /\ RebaseClearsDrift => [](NeverOverDistributed /\ YieldIsBacked)`, if no rewards are settled at the start (`GenesisSettled`) |
| `YieldProofs!YieldSurvivesTheDesk`, `YieldIsAlwaysBacked` | the same for `OtcSpec` |
| `YieldProofs!YieldPoolImplemented` | `Spec => ImplementsPool` without a rebase, if `GenesisSettled`, `GenesisUnseen` and always `LossCovers` |
| `YieldProofs!DeskAlwaysAddsUp` | `OtcSpec /\ RebaseClearsDrift => []DeskAddsUp`, if `GenesisSettled` |
| `YieldProofs!WeightsAddUpBesideTheDesk` | `OtcSpec => WeightsAddUp` |
| `YieldProofs!BoughtIsLocked` | `OtcSpec => []BoughtStaysLocked`, if `GenesisBacked` and `GenesisStarted` |
| `RefiningProofs!RefiningTypes` | `Spec => []TypeOK` |
| `RefiningProofs!UnclaimedAlwaysAddsUp` | `Spec => UnclaimedAddsUp` |
| `RefiningProofs!GodlIsBacked` | `Spec => []GodlBacked` |
| `RefiningProofs!ClaimsStayOpen` | `Spec /\ RebaseClearsDrift => []ClaimIsOpen`, if no fee was shared before the start (`GenesisUnshared`) |
| `RefiningProofs!RefinedPoolImplemented` | `Spec => ImplementsRefinedPool` without a rebase, if `GenesisUnshared`, `GenesisFits` and `LossCovers` |
| `RefiningProofs!GoldPoolImplemented` | `Spec => ImplementsGoldPool` without a rebase, if `GenesisGoldless`, `GenesisFits` and `GoldLossCovers` |
| `RefiningProofs!AuditedGoldMissesNobody` | `Spec => GoldMissesNobody`, if gold waits for an audit (`AuditFirst`) that starts after the expiry |
| `RefiningProofs!QuietRebaseClearsDrift` | `Spec /\ [][Quiet]_vars => RebaseClearsDrift` |
| `IsqrtProofs!RootIsFloor` | `Spec => []ReturnsFloorRoot` |
| `IsqrtProofs!LoopStaysAboveRoot` | `Spec => []AboveRoot` |
| `IsqrtProofs!SumFitsWord` | `Spec => []FitsWord`, for words with room for twice a first guess (`RoomForSum`) |

**Mining.** `TypeOK` is inductive.  It is more than typing because most fields are unsigned:
that `process_reset` and `process_checkpoint` never subtract more than there is
follows from the lemmas on fees and shares in `SumsProofs` (a share of a part is
within the share of the whole, the parts of a sum are within the sum).

`RangesDisjoint` is not inductive: a new range starts at the square's total, so it
lies above the old ranges only if those stay within the square (second half of
`SquaresTiled`), and a new round has no ranges only if nobody has played it yet.
The invariant is `Lottery == RangesDisjoint /\ SquaresTiled /\ NoFuturePlay`.  Every
step is of one of three kinds, each with its lemma: it leaves plays and squares
alone (`UndisturbedLottery`), a miner enters the current round on top of its squares
(`EnteringLottery`), or a reset opens a round with empty squares
(`AdvancingLottery`).  One lemma per action shows which kind it is.

**Random masks.** Before each square the walk of `generate_random_mask` has taken no
more than it needs, and what it still needs fits into the squares that are left: a
square is forced when it would not fit otherwise.  Nothing is assumed of the hash.

**Tickets.** Every action maps to one of `Enter`, `Collect`, `Forfeit`, `Spend`,
`Advance`, `Sweep` or `Tick` of `Ticket`, or changes nothing that `Ticket` sees; there
is one lemma per kind and one per action.  The mapping needs three facts of the
reachable states (`TicketInv`): no ticket is of a later round, none is of a current
round whose clock has not started, and a round's clock and its deadline start
together, in the first deploy.

**SOL books.** `BooksMatchCash` is inductive with the types: every handler moves
lamports and books in separate statements, and the lemma of each adds up both.  Handlers
that touch one or two accounts change a sum by what these accounts change.

**The pool.** `PoolAgrees` is not inductive: the pool counts a member that has
settled, but whose account still names the round, and a member that left no longer.
The invariant (`PoolInv`) says of each round that the members who still have a stake in
it are among those the pool has counted, exactly so in the current round, and that a
`PoolMember` with a stake belongs to a miner that plays the same round.

**Plays, claims and the solo winner.** A step either leaves a miner's play and its
pool account alone, or the miner is settled (`EveryStepKeeps`).  For a payable
reward, every step that is not its own checkpoint keeps each number it is
computed from: the play, the round's outcome and the pool's totals, which only a
reset sets (`SameClaim`, `SameWorth`).  `TicketInv` is needed because a miner who
has never played names round 0, which is no round of his.  The miner's own checkpoint
pays the worth (`GodlWorth`), or, without the pool's accounts, what is left of it
(`PooledIsMost`, `UnpooledWorth`).  `SoloWinnerIsFinal`
needs that whoever is recorded holds the sample (`SoloInv`); `OneHolderOfTheSample`
does the rest.

**The game's GODL.** What a finished round may still pay is its block reward and
motherlode shared by stakes, each share truncated: by `SharesBound` they are within the
whole, because `PoolAgrees` and `SquaresTiled` bound the stakes that are
left.  In the solo branch at most one term of the sum is not zero (`SumOfOne`).  A
checkpoint takes from the sum what it books to the miner (`GameInv`, `GodlInv`).

**The round's SOL.** The claims on a finished round are the kept stakes of its
winners, and their parts of the losing squares.  Each loses less than a unit by a truncated fee, which the
books count in units of `1 / DENOMINATOR_BPS`: the round took the fee of the total,
which can exceed the sum of the fees by less than one lamport for each player, hence
`ShortOfDustOnly`.  If no single fee is truncated (`WholeFees`, true of deployments in multiples
of `DENOMINATOR_BPS` lamports) the difference is zero.  The run `dust` shows why
the hypothesis is needed.

**Staking.** `TypeOK` is inductive.  For the weights, each instruction has a lemma
`Keeps == TypeOK' /\ Drift' = Drift`; most are instances of `StakeStep` (one account
changes, and the total by the difference of its weights), which rests on one fact
on sums: replacing a term changes the sum by the difference.  Merging replaces two
terms, and needs the other two facts a `Nat`-valued total rests on: that weights are
natural numbers, and that the multiplier's root exists (`FloorRootExists`).

`ExitIsOpen` is not inductive.  It needs the vault of every canonical stake to back
its balance whether or not it is unlocked (`VaultsBack`), and a total that is not
below the sum: `Drift >= 0` holds at the start, by the lemmas above every instruction
keeps it, and a rebase that writes the true sum makes it zero.  One weight is a part of
the sum, so the subtraction succeeds.  Both hypotheses are needed: an unbacked stake
cannot be withdrawn before it is reconciled, and a rebase that writes an old sum can
leave the total too low.

**The rebase of staking.** The command reads the total, the stakes, the legacy stakes
and the total again, in four calls, and the instruction compares once more.  If, while it
runs, the total only falls (`Quiet`), it equals what was read first only if
nothing has changed it, and then neither has anything changed the sum of the weights,
because each instruction moves both alike (`AuditSums`).  Without that condition a deposit can bring the
total back to the value it had; the run `staking_sweep` shows that the condition
leaves room for withdrawals, merges, claims and migrations, and section 5 says what fails
beyond it.

**Commitments.** What an authority has under lock is a sum over its stakes.  The vaults
must back them (`VaultsBack`), or a reconciliation would take from a locked stake, and
no stake may have started in the future (`Started`), or a top-up that restarts
the lock could end it earlier.  Then every step keeps every stake's lock (`LockKept`), but
for the merge: it adds two stakes on a lock that lasts as long as both.  Rebases do not
matter here, so none is excluded.  `BoughtStaysLocked` follows: a trade locks what
it sells for `ONE_MONTH` at least, which is then a commitment.

**Yield.** Truncation makes `NeverOverDistributed` far from inductive, so the invariant
(`YieldInv`) counts in units of `1 / FRACTION`, before any truncation: the debt of an
account is what it has settled, plus its weight times what it has not yet seen of
the factor, and all debts are within `owed` (`Covered`).  Settling never increases a
debt; a settled account has seen the whole factor, so a new weight does not change
its debt (this is where the order of settling and reweighing matters); a payment
lowers debt and `owed` alike; and a distribution adds to all debts the growth of the
factor times the sum of the weights, which is within what is shared because the
total it divides by is not below that sum (`Drift >= 0`).  What all accounts would
settle to is within their debts.  `YieldIsBacked` follows with a second fact: no
step moves `Surplus == treasury.tokens + taken - owed`.

**The pool of yield.** The claims are those of the stakes and of the accounts of version 1,
in one function of holders.  A step is of one of a few kinds (`YieldKinds`): it leaves
all accounts alone, it settles one account of either version and then reweighs or
pays it, it folds one stake into another, it shares an amount, or it closes a phantom.
Each kind has its lemma (`SettlesDeal`, `SettlesDealV1`, `FoldsDeal`,
`SharesDistribute`, `PhantomForfeits`) that finds the action of `RewardPool`.  That the
total moves as the weights do is `Drift' = Drift`, that claims are covered is
`YieldInv`, and that nobody has seen more of the factor than there is (`SeenWithin`)
makes the subtraction of factors saturate nowhere.  A distribution's truncations are bounded by
`FactorShare`; `LossCovers` asks of `MaxShareLoss` that it exceed the largest weight in
units of `FRACTION`.  A weight is a `u64` (`stake_v2.rs:117` refuses more) and the scale is 2^48, so
2^16 + 1 of the smallest units of GODL are enough for any weight; TLC's instances
use small scales and show that a smaller bound suffices there.

**The desk.** A trade is a deposit whose GODL comes from the desk, plus a bonus that
goes to the treasury.  It keeps `YieldInv`, and raises `Surplus` and the users' bonuses
alike, so that `Surplus = OtherTokens + GodlBonus` is invariant beside the desk's own
books (`DeskBooks`, which also say that before the desk is opened nobody has an
account).

**Unrefined GODL.** The debt of a miner is what it has settled plus its weight times
what it has not seen of the factor, as in staking; all debts are within
`total_refined` (`Covered`), so each accrual can be subtracted when it is claimed.
The fee of a claim is shared among the others by weights whose sum is at most the total
(`Drift >= 0`), which only a rebase could break: the theorem asks that it writes the true
sum (`RebaseClearsDrift`).  `QuietRebaseClearsDrift` gives one condition for that, and
the discussion of section 5 why there is no weaker one in the code.  `GodlBacked` needs none of
this: the treasury's account is compared with what miners hold, and every
handler moves both.

**Both pools.** A step of `Refining` is a `Distribute`, a `Deal` or a `Forfeit` of
`RewardPool`, or a stutter; there is a lemma per action.  A distribution raises a share
by the truncated weight times a truncated factor.  Its distance to the
exact share is less than one unit, plus the weight divided by the scale of the factor;
`LossCovers` and `GoldLossCovers` say that `MaxShareLoss` is above that for the largest
weight (`MaxTokens`) and the largest delivery (`MaxXaut`).  With the scales
of the code (2^48 and 10^6) and the supply of GODL the first is met by a loss of
two units and the second by a loss of a few thousand of the smallest units of
XAUt0.  The runs use small scales, where TLC shows a smaller bound suffices.  For gold,
`GoldWaits` says that nothing is shared while a handler that does not settle can run.

**The rollout.** An audit that passes after the expiry has seen an extended account
for every holder, and from then on each account is created with its holder
(`AuditKnows`): the two lists are read in separate calls, but the second is
read later, and extended accounts are never closed.

**Square root.** The invariant is that `x` is above the floor root: the guess is by
`PowersAssumption`, and an average of `x` and `n / x` is by the inequality of the
means (`(x - r)^2 >= 0`, with the two truncations).  When the loop stops, `n / x >= x`
gives the other bound.  For `FitsWord` the loop descends from the guess (`Descends`);
`x` may come to lie at the root with `n / x` above it, and then `x` has descended by at
least one.  `RoomForSum` holds of words of four bits and more.  Termination is only model-checked.

The assumptions are those of the modules: sizes are natural numbers, fees are at most
the whole, denominators are not zero, the clock stays far from `u64::MAX`, and an
empty account is not confused with a full one.  TLC evaluates them in every run.

## 7. What is only model-checked, and what is not modelled

Checked on the instances but not proved (no invariant, action property or refinement is among them):

* the liveness properties `RoundIsReset`, `MinerIsReleased`, `SweepEnds` and
  `Terminates`: liveness under fairness, and `ENABLED`, are beyond the proof system.

Not modelled:

* `process_initialize` and the other one-time set-up (the mint authority, the entropy
  account, the SOL motherlode, the gold vault): they run once, before the states the
  models start from.  As it is written, `initialize` leaves a round 0 that no other
  instruction of this version can move (`initialize.rs:71`); the hazard is listed and
  no property covers it.
* The setters of addresses (admin, fee collector, swap program, entropy account), and
  who may sign: the models let an admin act at any time.
* Account validation: owners, seeds and signatures; the canonical accounts are passed,
  but for the empty accounts of a checkpoint and of a reset (section 3).
* Encodings, account lists, events, logs and statistics; the SDK; and, apart from the
  two audit and rebase loops, the command line client, which keeps no state.
* The fuzz targets and tests, which were read as statements of intent.
