------------------------- MODULE RefiningProperties -------------------------
(***************************************************************************)
(* What unrefined GODL promises its holders: the properties of Refining.   *)
(***************************************************************************)
EXTENDS Refining

CONSTANT MaxShareLoss   \* bound: what truncated factors may cost a miner in one share

TreasuryRecord ==
    [total_unclaimed : Nat, total_refined : Nat, miner_rewards_factor : Nat,
     motherlode : Nat, tokens : Nat]

GoldVaultRecord ==
    [xaut_rewards_factor : Nat, pending_xaut : Nat, total_xaut_distributed : Nat,
     total_xaut_claimed : Nat, wsol : Nat, xaut : Nat]

AuditRecord ==
    [step : {"idle", "miners", "extendeds", "judge", "send"}, attempt : 0 .. MaxAttempts,
     expected : Nat, sum : Nat, holders : SUBSET Miners, passed : BOOLEAN, buying : BOOLEAN]

\* Every account holds values of its declared type; in particular no unsigned
\* field is ever driven below zero, and no accrual is negative (the panic in
\* both update_rewards).
TypeOK ==
    /\ now \in 0 .. MaxTime
    /\ miner \in [Miners -> MinerRecord \cup {None}]
    /\ extended \in [Miners -> ExtendedRecord \cup {None}]
    /\ treasury \in TreasuryRecord
    /\ prizes \in Nat
    /\ referrer \in [rewards_godl : Nat, tokens : Nat] /\ paid \in Nat
    /\ gold_vault \in GoldVaultRecord
    /\ sol_motherlode \in [amount : Nat, lamports : Nat]
    /\ audit \in AuditRecord
-----------------------------------------------------------------------------
(* The sum of the weights *)

Drift == treasury.total_unclaimed - TotalUnrefined

\* No instruction moves total_unclaimed apart from the sum of rewards_godl over
\* all miners: it is the denominator of both factors
\* (rebase_total_unclaimed.rs:6).  Only the admin's rebase writes it.
UnclaimedAddsUp == [][Drift' = Drift \/ RebaseTotalUnclaimed]_vars

\* While an audit or rebase command runs, nobody claims GODL.
Quiet == audit.step # "idle" => \A m \in Miners : ~ClaimGodl(m)

\* The rebase writes the true sum, or fails when the total has moved since the
\* snapshot (rebase_total_unclaimed.rs:8): checkpoints, injections and trades
\* between the reads only raise it.  It holds of Quiet steps: a claim and a
\* checkpoint of the same amount between the reads bring the total back to its
\* value, and rebase_total_unclaimed.rs:30 accepts the wrong sum.
RebaseClearsDrift == [][RebaseTotalUnclaimed => Drift' = 0]_vars
-----------------------------------------------------------------------------
(* Refined GODL *)

Refined(m) == IF miner[m] = None THEN 0 ELSE update_rewards(miner[m]).refined_godl

TotalRefined == Sum([m \in Miners |-> Refined(m)], NumMiners)

\* A claim never fails: the truncated shares that claims, checkpoints and
\* injections have settled at different times are within total_refined, the
\* fee within what the miner earned in its life (checked subtractions of
\* Miner::claim_godl), and the treasury holds the payout.
ClaimIsOpen == \A m \in Miners : miner[m] # None => Claimable(update_rewards(miner[m]))

\* Everything that is promised in GODL is there: in the treasury's token account
\* the unrefined and refined rewards of all miners, the motherlode, and what
\* finished rounds still owe; in the referrer's what it may claim.
GodlBacked ==
    /\ treasury.tokens >= TotalUnrefined + treasury.total_refined + treasury.motherlode + prizes
    /\ referrer.tokens >= referrer.rewards_godl

RefinedPool == INSTANCE RewardPool WITH
    NumHolders <- NumMiners, Loss <- MaxShareLoss, members <- Miners,
    weight <- [m \in Miners |-> Unrefined(m)], total <- treasury.total_unclaimed,
    claimable <- [m \in Miners |-> Refined(m)], fund <- treasury.total_refined

\* Lazy settlement implements the pool: the fee a claim leaves is shared by the
\* weights of that moment, and no deployment, checkpoint, injection or trade
\* gives a miner a share of a fee for weight it did not have then, or takes one
\* away; total_refined covers all shares.
ImplementsRefinedPool == RefinedPool!Spec
-----------------------------------------------------------------------------
(* Gold *)

Xaut(m) ==
    IF extended[m] = None THEN 0 ELSE Synced(extended[m], Unrefined(m)).xaut_rewards

TotalXaut == Sum([m \in Miners |-> Xaut(m)], NumMiners)

\* A step in which gold is shared.
Distributes == gold_vault'.xaut_rewards_factor > gold_vault.xaut_rewards_factor

\* Only holders with an extended account take part in a distribution.
GoldPool == INSTANCE RewardPool WITH
    NumHolders <- NumMiners, Loss <- MaxShareLoss,
    members <- {m \in Miners : extended[m] # None},
    weight <- [m \in Miners |-> Unrefined(m)], total <- treasury.total_unclaimed,
    claimable <- [m \in Miners |-> Xaut(m)],
    fund <- gold_vault.xaut - gold_vault.pending_xaut

\* The same of gold, although the legacy checkpoint changes weights without
\* settling: distributions reach every member by its weight of that moment, no
\* new account and no later change of a weight creates or destroys a claim, and
\* the vault's token account covers all claims beside what still waits.
ImplementsGoldPool == GoldPool!Spec

\* A distribution reaches every holder of unrefined GODL ("every miner's
\* unrefined GODL balance", gold_vault.rs:13).  A holder without an extended
\* account would get nothing, and its share would stay in the vault.
GoldMissesNobody ==
    [][Distributes =>
         \A m \in Miners : Unrefined(m) > 0 => extended[m] # None]_vars
=============================================================================
