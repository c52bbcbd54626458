------------------------------ MODULE Refining ------------------------------
(***************************************************************************)
(* Unrefined GODL and the two rewards it earns.  A miner's rewards_godl is *)
(* a weight; treasury.total_unclaimed is the sum of the weights.  Whoever  *)
(* claims leaves a fee for those who have not (refined GODL), and gold     *)
(* (XAUt0) bought with the SOL motherlode is shared in proportion.  Both   *)
(* use a factor per unit of weight and settle lazily, the first on the     *)
(* Miner account, the second on MinerExtended, which was added later: the  *)
(* legacy instructions do not know it and expire at a fixed time, before   *)
(* which no gold may be shared.                                            *)
(*                                                                         *)
(* Each handler is one action; a handler that fails changes nothing.  What *)
(* a round pays is the subject of module Mining: here a play is a flag and *)
(* `prizes` is the GODL that finished rounds still owe.                    *)
(*                                                                         *)
(* An operator called X_Suffix is a wrong variant of the X defined after   *)
(* it; no specification uses it, and a run must tell the two apart.        *)
(***************************************************************************)
EXTENDS Sums

CONSTANTS
    NumMiners,
    Genesis,              \* Miner accounts at the start
    GenesisExtended,      \* MinerExtended accounts at the start
    GenesisDrift,         \* total_unclaimed minus the weights, at the start
    GenesisPrizes,        \* GODL that finished rounds owe at the start
    Referred,             \* miners with a referrer
    Players, Claimants,   \* bounds: miners that deploy, that claim their GODL
    RewardAmounts,        \* GODL a checkpoint may credit
    InjectAmounts, MotherlodeAmounts,
    BonusAmounts,         \* GODL an OTC trade may add; 0: a trade without bonus
    XautAmounts,          \* XAUt0 a deposit or a swap may bring
    SolAmounts,           \* arguments of pre_buy_gold
    SolFee,               \* SOL a round leaves in the SOL motherlode
    MaxTokens, MaxXaut,   \* bounds: GODL and XAUt0 that come in
    MaxTime,              \* bound: last timestamp of the model's clock
    MaxAttempts,          \* bound: audits the admin runs
    AuditFrom,            \* the admin starts no audit before this time
    AuditFirst,           \* whether the operator brings in gold only after an audit
    None,
    LEGACY_INSTRUCTION_EXPIRY_TS,
    GODL_PER_ROUND, MOTHERLODE_MINT,
    FeeDivisor,           \* 10 in the code: claim fee, and motherlode rollover
    REFERRAL_BPS, RUSH_SOL_MOTHERLODE_BPS, DENOMINATOR_BPS,
    GOLD_FACTOR_SCALE,
    FRACTION              \* 2^48: a Numeric counts in units of 1/FRACTION

Miners == 1 .. NumMiners

ASSUME PartiesAssumption ==
    /\ NumMiners \in Nat
    /\ {Referred, Players, Claimants} \subseteq SUBSET Miners

ASSUME AmountsAssumption ==
    /\ {RewardAmounts, InjectAmounts, MotherlodeAmounts, BonusAmounts, XautAmounts,
         SolAmounts} \subseteq SUBSET Nat
    /\ {GenesisDrift, GenesisPrizes, SolFee, MaxTokens, MaxXaut, MaxTime, MaxAttempts}
         \subseteq Nat
    /\ {LEGACY_INSTRUCTION_EXPIRY_TS, AuditFrom, GODL_PER_ROUND, MOTHERLODE_MINT}
         \subseteq Nat

ASSUME ScalesAssumption ==
    /\ {FeeDivisor, DENOMINATOR_BPS, GOLD_FACTOR_SCALE, FRACTION} \subseteq Nat \ {0}
    /\ REFERRAL_BPS \in 0 .. DENOMINATOR_BPS
    /\ RUSH_SOL_MOTHERLODE_BPS \in 0 .. DENOMINATOR_BPS

ASSUME OperatorAssumption == AuditFirst \in BOOLEAN

VARIABLES
    now,             \* Clock::get().unix_timestamp
    miner,           \* Miner accounts (what concerns GODL); None when empty
    extended,        \* MinerExtended accounts; None when empty
    treasury,        \* the GODL fields of Treasury and its token account
    prizes,          \* GODL in the accounts of rounds, not yet checkpointed
    referrer,        \* GODL the referrer may claim, and its token account
    paid,            \* history: GODL that claims have taken from the treasury
    gold_vault,      \* GoldVault with its WSOL and XAUt0 accounts
    sol_motherlode,  \* SolMotherlode and its lamports
    audit            \* the admin's audit and rebase commands (client side)

vars == <<now, miner, extended, treasury, prizes, referrer, paid, gold_vault, sol_motherlode, audit>>
godl == <<treasury, prizes, referrer, paid>>
gold == <<gold_vault, sol_motherlode>>

MinerRecord ==
    [rewards_godl : Nat, refined_godl : Nat, rewards_factor : Nat,
     lifetime_rewards_godl : Nat, playing : BOOLEAN]

ExtendedRecord == [xaut_rewards_factor : Nat, xaut_rewards : Nat]

ASSUME GenesisAssumption ==
    /\ None \notin MinerRecord /\ None \notin ExtendedRecord
    /\ Genesis \in [Miners -> MinerRecord \cup {None}]
    /\ GenesisExtended \in [Miners -> ExtendedRecord \cup {None}]
-----------------------------------------------------------------------------
(* The two factors *)

Unrefined(m) == IF miner[m] = None THEN 0 ELSE miner[m].rewards_godl

TotalUnrefined == Sum([m \in Miners |-> Unrefined(m)], NumMiners)

PerUnit_RoundedUp(amount, weight) == (amount * FRACTION + weight - 1) \div weight

\* Numeric::from_fraction truncates.
PerUnit(amount, weight) == (amount * FRACTION) \div weight

\* What a weight earned in refined GODL since it last saw the factor.
Accrued(units, seen) == (Monus(treasury.miner_rewards_factor, seen) * units) \div FRACTION

update_rewards_KeepsFactor(st) ==
    LET personal == Accrued(st.rewards_godl, st.rewards_factor)
    IN  [st EXCEPT !.refined_godl = @ + personal, !.lifetime_rewards_godl = @ + personal]

\* Miner::update_rewards.
update_rewards(st) ==
    LET personal == Accrued(st.rewards_godl, st.rewards_factor)
    IN  [st EXCEPT !.refined_godl = @ + personal, !.lifetime_rewards_godl = @ + personal,
                   !.rewards_factor = treasury.miner_rewards_factor]

XautAccrued_Swapped(unrefined, seen) ==
    ((seen - gold_vault.xaut_rewards_factor) * PerUnit(unrefined, GOLD_FACTOR_SCALE))
      \div (FRACTION * FRACTION)

\* factor * (unrefined / SCALE), a product of two Numerics, and then to_u64.
XautAccrued(unrefined, seen) ==
    (Monus(gold_vault.xaut_rewards_factor, seen) * PerUnit(unrefined, GOLD_FACTOR_SCALE))
      \div (FRACTION * FRACTION)

\* MinerExtended::update_rewards.
Synced(ext, unrefined) ==
    [ext EXCEPT !.xaut_rewards = @ + XautAccrued(unrefined, ext.xaut_rewards_factor),
                !.xaut_rewards_factor = gold_vault.xaut_rewards_factor]

NewExtended_FromZero == [xaut_rewards_factor |-> 0, xaut_rewards |-> 0]

\* A new account has seen the factor of today.
NewExtended ==
    [xaut_rewards_factor |-> gold_vault.xaut_rewards_factor, xaut_rewards |-> 0]

\* load_or_create_miner_extended.
Loaded(m, create) ==
    IF extended[m] = None /\ create THEN NewExtended ELSE extended[m]

\* sync_gold_rewards: a missing account is only allowed with nothing to settle.
Syncable(ext, unrefined) == ext = None => unrefined = 0

Sync(ext, unrefined) == IF ext = None THEN None ELSE Synced(ext, unrefined)

NewMiner ==
    [rewards_godl |-> 0, refined_godl |-> 0, rewards_factor |-> 0,
     lifetime_rewards_godl |-> 0, playing |-> FALSE]

Opened(m) == IF miner[m] = None THEN NewMiner ELSE miner[m]

\* Weight is added to a settled miner, and to the total.
Credited(st, amount) ==
    [st EXCEPT !.rewards_godl = @ + amount, !.lifetime_rewards_godl = @ + amount]
-----------------------------------------------------------------------------
Init ==
    /\ now = 0
    /\ miner = Genesis
    /\ extended = GenesisExtended
    /\ treasury = [total_unclaimed |-> TotalUnrefined + GenesisDrift, total_refined |-> 0,
                   miner_rewards_factor |-> 0, motherlode |-> 0,
                   tokens |-> TotalUnrefined + GenesisPrizes]
    /\ prizes = GenesisPrizes
    /\ referrer = [rewards_godl |-> 0, tokens |-> 0]
    /\ paid = 0
    /\ gold_vault = [xaut_rewards_factor |-> 0, pending_xaut |-> 0,
                     total_xaut_distributed |-> 0, total_xaut_claimed |-> 0,
                     wsol |-> 0, xaut |-> 0]
    /\ sol_motherlode = [amount |-> SolFee, lamports |-> SolFee]
    /\ audit = [step |-> "idle", attempt |-> 0, expected |-> 0, sum |-> 0,
                holders |-> {}, passed |-> FALSE, buying |-> FALSE]

Tick ==
    /\ now < MaxTime
    /\ now' = now + 1
    /\ UNCHANGED <<miner, extended, godl, gold, audit>>
-----------------------------------------------------------------------------
(* Plays *)

\* The instance still lets this much GODL come in.
Room(amount) == treasury.tokens + paid + amount <= MaxTokens

\* A finished round: the block reward and the motherlode's part are minted, a
\* hit moves all but a rollover of the motherlode to the round.
Reset(hit) ==
    LET rollover == treasury.motherlode \div FeeDivisor
        won == IF hit THEN treasury.motherlode - rollover ELSE 0
    IN  /\ Room(GODL_PER_ROUND + MOTHERLODE_MINT)
        /\ prizes' = prizes + GODL_PER_ROUND + won
        /\ treasury' = [treasury EXCEPT !.motherlode = @ - won + MOTHERLODE_MINT,
                                        !.tokens = @ + GODL_PER_ROUND + MOTHERLODE_MINT]
        /\ sol_motherlode' = [amount |-> sol_motherlode.amount + SolFee,
                              lamports |-> sol_motherlode.lamports + SolFee]
        /\ UNCHANGED <<now, miner, extended, referrer, paid, gold_vault, audit>>

\* The instructions from before the gold vault check the clock.
LegacyAlive == now < LEGACY_INSTRUCTION_EXPIRY_TS

\* automate opens a Miner without its extension.
Automate(m) ==
    /\ miner[m] = None
    /\ miner' = [miner EXCEPT ![m] = NewMiner]
    /\ UNCHANGED <<now, extended, godl, gold, audit>>

\* One play at a time: the last one must be checkpointed first.
Deploy(m) ==
    /\ LegacyAlive
    /\ ~Opened(m).playing
    /\ miner' = [miner EXCEPT ![m] = [Opened(m) EXCEPT !.playing = TRUE]]
    /\ UNCHANGED <<now, extended, godl, gold, audit>>

DeployWithMinerExtended(m) ==
    /\ ~Opened(m).playing
    /\ miner' = [miner EXCEPT ![m] = [Opened(m) EXCEPT !.playing = TRUE]]
    /\ extended' = [extended EXCEPT ![m] = Loaded(m, TRUE)]
    /\ UNCHANGED <<now, godl, gold, audit>>

CreateMinerExtended(m) ==
    /\ miner[m] # None
    /\ extended' = [extended EXCEPT ![m] = Loaded(m, TRUE)]
    /\ UNCHANGED <<now, miner, godl, gold, audit>>

\* The play of m ends and wins `amount`; its refined GODL is settled first.
Settle(m, amount) ==
    /\ miner[m] # None
    /\ miner[m].playing
    /\ amount <= prizes
    /\ miner' = [miner EXCEPT ![m] =
                   [Credited(update_rewards(miner[m]), amount) EXCEPT !.playing = FALSE]]
    /\ prizes' = prizes - amount

Checkpoint(m, amount) ==
    /\ LegacyAlive
    /\ Settle(m, amount)
    /\ treasury' = [treasury EXCEPT !.total_unclaimed = @ + amount]
    /\ UNCHANGED <<now, extended, referrer, paid, gold, audit>>

MissingAllowed_NewMiner(m, amount) == Unrefined(m) = 0
MissingAllowed(m, amount) == Unrefined(m) = 0 /\ amount = 0

CheckpointWithMinerExtended(m, amount) ==
    /\ Settle(m, amount)
    /\ extended[m] = None => MissingAllowed(m, amount)
    /\ extended' = [extended EXCEPT ![m] = Sync(Loaded(m, FALSE), Unrefined(m))]
    /\ treasury' = [treasury EXCEPT !.total_unclaimed = @ + amount]
    /\ UNCHANGED <<now, referrer, paid, gold, audit>>

\* The round expired or was closed.
CheckpointForfeit(m) ==
    /\ miner[m] # None
    /\ miner[m].playing
    /\ miner' = [miner EXCEPT ![m].playing = FALSE]
    /\ UNCHANGED <<now, extended, godl, gold, audit>>
-----------------------------------------------------------------------------
(* GODL *)

Fee(rewards) == rewards \div FeeDivisor

\* The fee is charged only if somebody is left to share it.
ClaimFee(st) ==
    IF treasury.total_unclaimed > st.rewards_godl THEN Fee(st.rewards_godl) ELSE 0

Payout_WithoutFee(st) == st.refined_godl + st.rewards_godl
Payout(st) == st.refined_godl + st.rewards_godl - ClaimFee(st)

\* Every subtraction of Miner::claim_godl, and the transfers, succeed.
Claimable(st) ==
    /\ treasury.total_unclaimed >= st.rewards_godl
    /\ treasury.total_refined >= st.refined_godl
    /\ st.lifetime_rewards_godl >= ClaimFee(st)
    /\ treasury.tokens >= Payout(st)

UnclaimedAfter_Net(st) == treasury.total_unclaimed - (st.rewards_godl - ClaimFee(st))
UnclaimedAfter(st) == treasury.total_unclaimed - st.rewards_godl

ReferralCut(m, amount) ==
    IF m \in Referred THEN Bps(amount, REFERRAL_BPS, DENOMINATOR_BPS) ELSE 0

ClaimGodl(m) ==
    /\ miner[m] # None
    /\ LET ext == Loaded(m, Unrefined(m) > 0)
           st == update_rewards(miner[m])
           left == UnclaimedAfter(st)
           fee == ClaimFee(st)
           cut == ReferralCut(m, Payout(st))
       IN  /\ Syncable(ext, Unrefined(m))
           /\ Claimable(st)
           /\ extended' = [extended EXCEPT ![m] = Sync(ext, Unrefined(m))]
           /\ miner' = [miner EXCEPT ![m] =
                          [st EXCEPT !.rewards_godl = 0, !.refined_godl = 0,
                                     !.lifetime_rewards_godl = @ - fee]]
           /\ treasury' = [treasury EXCEPT
                 !.total_unclaimed = left,
                 !.total_refined = @ - st.refined_godl + fee,
                 !.miner_rewards_factor = IF left > 0 THEN @ + PerUnit(fee, left) ELSE @,
                 !.tokens = @ - Payout(st)]
           /\ referrer' = [rewards_godl |-> referrer.rewards_godl + cut,
                           tokens |-> referrer.tokens + cut]
           /\ paid' = paid + Payout(st)
    /\ UNCHANGED <<now, prizes, gold, audit>>

\* The bury authority adds weight, paid for with GODL of its own.
InjectUnrefinedRewards(m, amount) ==
    /\ miner[m] # None
    /\ amount > 0
    /\ Room(amount)
    /\ extended' = [extended EXCEPT ![m] = Synced(Loaded(m, TRUE), Unrefined(m))]
    /\ miner' = [miner EXCEPT ![m] = Credited(update_rewards(@), amount)]
    /\ treasury' = [treasury EXCEPT !.total_unclaimed = @ + amount, !.tokens = @ + amount]
    /\ UNCHANGED <<now, prizes, referrer, paid, gold, audit>>

\* What an OTC trade does here: it opens the buyer's Miner account, and a bonus
\* is weight paid for by the desk (the rest of the trade is module Otc).
ExecuteOtcTrade(m, bonus) ==
    /\ Room(bonus)
    /\ IF bonus = 0
       THEN /\ miner' = [miner EXCEPT ![m] = Opened(m)]
            /\ UNCHANGED extended
       ELSE /\ miner' = [miner EXCEPT ![m] = Credited(update_rewards(Opened(m)), bonus)]
            /\ extended' = [extended EXCEPT ![m] = Synced(Loaded(m, TRUE), Unrefined(m))]
    /\ treasury' = [treasury EXCEPT !.total_unclaimed = @ + bonus, !.tokens = @ + bonus]
    /\ UNCHANGED <<now, prizes, referrer, paid, gold, audit>>

\* The referrer takes what its miners' claims left for it.
ClaimReferral ==
    /\ referrer.rewards_godl > 0 /\ referrer.tokens >= referrer.rewards_godl
    /\ referrer' = [rewards_godl |-> 0, tokens |-> referrer.tokens - referrer.rewards_godl]
    /\ UNCHANGED <<now, miner, extended, treasury, prizes, paid, gold, audit>>

InjectGodlMotherlode(amount) ==
    /\ amount > 0
    /\ Room(amount)
    /\ treasury' = [treasury EXCEPT !.motherlode = @ + amount, !.tokens = @ + amount]
    /\ UNCHANGED <<now, miner, extended, prizes, referrer, paid, gold, audit>>
-----------------------------------------------------------------------------
(* Gold *)

PendingAfter(amount) == IF treasury.total_unclaimed = 0 THEN amount ELSE 0

\* GoldVault::distribute of what has come in and what was waiting.
Distributed(xaut) ==
    LET amount == gold_vault.pending_xaut + xaut
        shared == treasury.total_unclaimed > 0
    IN  [gold_vault EXCEPT
           !.xaut_rewards_factor =
              IF shared THEN @ + PerUnit(amount * GOLD_FACTOR_SCALE, treasury.total_unclaimed)
              ELSE @,
           !.pending_xaut = PendingAfter(amount),
           !.total_xaut_distributed = IF shared THEN @ + amount ELSE @,
           !.xaut = @ + xaut]

\* No gold moves while an instruction that does not settle it can still run.
DistributionLocked == now < LEGACY_INSTRUCTION_EXPIRY_TS

XautRoom(xaut) ==
    xaut > 0 /\ gold_vault.total_xaut_distributed + gold_vault.pending_xaut + xaut <= MaxXaut

\* SOL leaves the motherlode: a tenth to the rush vault, the rest to be swapped.
PreBuyGold(amount) ==
    /\ ~DistributionLocked
    /\ amount > 0
    /\ amount <= sol_motherlode.amount
    /\ amount <= sol_motherlode.lamports
    /\ sol_motherlode' = [amount |-> sol_motherlode.amount - amount,
                          lamports |-> sol_motherlode.lamports - amount]
    /\ gold_vault' = [gold_vault EXCEPT
         !.wsol = @ + amount - Bps(amount, RUSH_SOL_MOTHERLODE_BPS, DENOMINATOR_BPS)]
    /\ UNCHANGED <<now, miner, extended, godl, audit>>

\* The swap must take the whole WSOL balance.
BuyGold(xaut) ==
    /\ ~DistributionLocked
    /\ gold_vault.wsol > 0
    /\ XautRoom(xaut)
    /\ gold_vault' = [Distributed(xaut) EXCEPT !.wsol = 0]
    /\ audit' = [audit EXCEPT !.buying = FALSE]
    /\ UNCHANGED <<now, miner, extended, godl, sol_motherlode>>

DepositGold(xaut) ==
    /\ ~DistributionLocked
    /\ XautRoom(xaut)
    /\ gold_vault' = Distributed(xaut)
    /\ UNCHANGED <<now, miner, extended, godl, sol_motherlode, audit>>

ClaimGold(m) ==
    /\ miner[m] # None
    /\ LET ext == Synced(Loaded(m, TRUE), Unrefined(m))
       IN  /\ gold_vault.xaut >= ext.xaut_rewards
           /\ extended' = [extended EXCEPT ![m] = [ext EXCEPT !.xaut_rewards = 0]]
           /\ gold_vault' = [gold_vault EXCEPT !.total_xaut_claimed = @ + ext.xaut_rewards,
                                               !.xaut = @ - ext.xaut_rewards]
    /\ UNCHANGED <<now, miner, godl, sol_motherlode, audit>>
-----------------------------------------------------------------------------
(* The admin's commands: audit_unclaimed and rebase_total_unclaimed read    *)
(* the treasury, the Miner and the MinerExtended accounts in three calls.   *)
(* buy_gold does not start before the legacy instructions expire, audits    *)
(* too, and sends its transaction if nothing is wrong.                      *)

RebaseStep(step) ==
    /\ audit' = [audit EXCEPT !.step = step, !.buying = FALSE]
    /\ UNCHANGED <<now, miner, extended, godl, gold>>

\* Any audit that starts late enough may be that of a purchase (buying).
ReadTreasury ==
    /\ audit.step = "idle"
    /\ audit.attempt < MaxAttempts /\ now >= AuditFrom
    /\ audit' = [audit EXCEPT !.step = "miners", !.attempt = @ + 1,
                              !.expected = treasury.total_unclaimed,
                              !.buying = ~DistributionLocked]
    /\ UNCHANGED <<now, miner, extended, godl, gold>>

ListMiners ==
    /\ audit.step = "miners"
    /\ audit' = [audit EXCEPT !.step = "extendeds", !.sum = TotalUnrefined,
                              !.holders = {m \in Miners : Unrefined(m) > 0}]
    /\ UNCHANGED <<now, miner, extended, godl, gold>>

\* What is left are the holders without an extended account.
ListMinerExtendeds ==
    /\ audit.step = "extendeds"
    /\ audit' = [audit EXCEPT !.step = "judge", !.holders = {m \in @ : extended[m] = None}]
    /\ UNCHANGED <<now, miner, extended, godl, gold>>

\* audit_unclaimed finds nothing wrong, or says what is and buys nothing.
AuditUnclaimed ==
    /\ audit.step = "judge"
    /\ LET ok == audit.sum = audit.expected /\ audit.holders = {}
       IN  audit' = [audit EXCEPT !.step = "idle", !.holders = {},
                                  !.passed = @ \/ ok, !.buying = @ /\ ok]
    /\ UNCHANGED <<now, miner, extended, godl, gold>>

\* rebase_total_unclaimed reads the treasury again before it sends.
RereadTreasury ==
    /\ audit.step = "judge"
    /\ RebaseStep(IF treasury.total_unclaimed = audit.expected /\ audit.sum # audit.expected
                  THEN "send" ELSE "idle")

Matches_Always == TRUE
Matches == treasury.total_unclaimed = audit.expected

RebaseMismatch ==
    /\ audit.step = "send" /\ ~Matches
    /\ RebaseStep("idle")

RebaseTotalUnclaimed ==
    /\ audit.step = "send" /\ Matches
    /\ treasury' = [treasury EXCEPT !.total_unclaimed = audit.sum]
    /\ audit' = [audit EXCEPT !.step = "idle"]
    /\ UNCHANGED <<now, miner, extended, prizes, referrer, paid, gold>>
-----------------------------------------------------------------------------
\* The rollout that cli/src/commands/gold.rs asks of the operator: gold comes
\* in once an audit has passed.  The program does not know of any audit.
RolledOut == AuditFirst => audit.passed

\* buy_gold insists on an audit of its own for every purchase; deposit_gold does
\* not ask for any.
Audited == AuditFirst => audit.step = "idle" /\ audit.buying

Next ==
    \/ Tick
    \/ \E hit \in BOOLEAN : Reset(hit)
    \/ \E m \in Miners :
         \/ Automate(m)
         \/ m \in Players /\ Deploy(m)
         \/ m \in Players /\ DeployWithMinerExtended(m)
         \/ CreateMinerExtended(m)
         \/ \E amount \in RewardAmounts : Checkpoint(m, amount)
         \/ \E amount \in RewardAmounts : CheckpointWithMinerExtended(m, amount)
         \/ CheckpointForfeit(m)
         \/ m \in Claimants /\ ClaimGodl(m)
         \/ \E amount \in InjectAmounts : InjectUnrefinedRewards(m, amount)
         \/ \E bonus \in BonusAmounts : ExecuteOtcTrade(m, bonus)
         \/ ClaimGold(m)
    \/ ClaimReferral
    \/ \E amount \in MotherlodeAmounts : InjectGodlMotherlode(amount)
    \/ \E amount \in SolAmounts : PreBuyGold(amount)
    \/ \E xaut \in XautAmounts : RolledOut /\ Audited /\ BuyGold(xaut)
    \/ \E xaut \in XautAmounts : RolledOut /\ DepositGold(xaut)
    \/ ReadTreasury \/ ListMiners \/ ListMinerExtendeds \/ AuditUnclaimed
    \/ RereadTreasury \/ RebaseMismatch \/ RebaseTotalUnclaimed

Spec == Init /\ [][Next]_vars
=============================================================================
