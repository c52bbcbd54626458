-------------------------- MODULE StakingProperties --------------------------
(***************************************************************************)
(* What staking promises: the properties of Staking.                       *)
(***************************************************************************)
EXTENDS Staking

CONSTANT MaxShareLoss   \* bound: what a truncated factor may cost a stake, in GODL

Steps == {"idle", "list", "list_v1", "reread", "send", "done"}

TreasuryRecord == [total_staked : Nat, stake_rewards_factor : Nat, tokens : Nat]

AuditRecord ==
    [step : Steps, attempt : 0 .. MaxAttempts, expected : Nat, sum : Nat, old : BOOLEAN]

\* Every account holds values of its declared type; in particular no unsigned
\* field is ever driven below zero.
TypeOK ==
    /\ now \in 0 .. MaxTime
    /\ stake \in [Stakes -> StakeRecord \cup {None}]
    /\ stake_v1 \in [Authorities -> StakeV1Record \cup {None}]
    /\ treasury \in TreasuryRecord
    /\ wallet \in [Authorities -> Nat]
    /\ assets \in Nat
    /\ audit \in AuditRecord
    /\ owed \in Int /\ taken \in Nat
-----------------------------------------------------------------------------
(* The sum of the weights *)

Drift == treasury.total_staked - (UnitsV2 + UnitsV1)

\* No instruction moves total_staked apart from the sum of the weights: every
\* change of a balance, multiplier, boost or curve, and every opening, merging
\* and closing of an account, adds exactly the difference of the weights
\* (oracle 1 of fuzz_targets/op_sequence.rs).  Only the admin's rebase, which
\* writes the total, can.
WeightsAddUp == [][Drift' = Drift \/ RebaseTotalStaked]_vars

\* While the rebase command runs, nothing but its own transaction raises
\* total_staked: no deposit, top-up, compounding or boost lands in between.
Quiet ==
    audit.step \notin {"idle", "done"} =>
        RebaseTotalStaked \/ treasury'.total_staked <= treasury.total_staked

\* rebase_total_staked writes the true sum: a stake operation that lands
\* between the snapshot and the transaction makes the compare-and-swap fail.
\* It holds of Quiet steps: a withdrawal that the snapshot missed and a deposit
\* that brings the total back to its value would pass the comparison.
RebaseClearsDrift == [][RebaseTotalStaked => Drift' = 0]_vars
-----------------------------------------------------------------------------
(* Yield *)

Pending(s) == IF stake[s] = None THEN 0 ELSE update_rewards(stake[s]).rewards
PendingV1(a) == IF stake_v1[a] = None THEN 0 ELSE SettledV1(a).rewards

TotalPending == Sum([s \in Stakes |-> Pending(s)], NumStakes)
                  + Sum([a \in Authorities |-> PendingV1(a)], NumAuthorities)

\* What has been paid plus what all stakes could settle now never exceeds what
\* was distributed (oracle 2 of fuzz_targets/op_sequence.rs).
NeverOverDistributed == TotalPending <= owed

\* Every reward is payable: the treasury's token account holds it beside what
\* it holds for other purposes, as long as bury_tokens took nothing from there.
YieldIsBacked == treasury.tokens + taken >= OtherTokens + TotalPending

\* Stakes of both versions, as the holders of one pool.
NumHolders == NumStakes + NumAuthorities
Weights ==
    [h \in 1 .. NumHolders |-> IF h <= NumStakes THEN UnitsAt(h) ELSE UnitsAtV1(h - NumStakes)]
Claims ==
    [h \in 1 .. NumHolders |-> IF h <= NumStakes THEN Pending(h) ELSE PendingV1(h - NumStakes)]

YieldPool == INSTANCE RewardPool WITH
    Loss <- MaxShareLoss, members <- 1 .. NumHolders, weight <- Weights,
    total <- treasury.total_staked, claimable <- Claims, fund <- owed

\* Lazy settlement implements the pool: yield is shared by the weights of the
\* moment it comes in, and no deposit, withdrawal, merge, boost or migration
\* gives a stake yield for weight it did not have, or takes one away (the order
\* of settling and reweighing in every handler).
ImplementsPool == YieldPool!Spec
-----------------------------------------------------------------------------
(* Principal *)

\* What authority a has committed until time t or longer.
CommittedUntil(a, t) ==
    Sum([s \in Stakes |-> IF Owner[s] = a /\ Canonical(s) /\ UnlockAt(stake[s]) >= t
                          THEN stake[s].balance ELSE 0], NumStakes)

\* A lock is a commitment: no sequence of withdrawals, top-ups, merges,
\* compoundings, closings and re-openings lets an authority hold less under
\* lock until a future time than it once committed until then.
CommitmentKept ==
    [][\A a \in Authorities : \A t \in now' + 1 .. MaxTime + MAX_LOCK_DURATION :
         CommittedUntil(a, t)' >= CommittedUntil(a, t)]_vars

\* Every canonical stake can be taken out in full once its lock has passed: its
\* vault holds it, and the checked subtraction from total_staked cannot fail.
ExitIsOpen ==
    \A s \in Stakes :
        Canonical(s) /\ Unlocked(stake[s]) /\ stake[s].balance > 0 =>
            /\ stake[s].tokens >= stake[s].balance
            /\ treasury.total_staked >= weighted_units(stake[s])
-----------------------------------------------------------------------------
(* The migration sweep *)

\* The operator's sweep (migrate_stakes makes up to ten passes and says what is
\* left) and the clean-up of phantoms are run until they are done.
Fairness ==
    \A s \in Stakes :
        /\ WF_vars(MigrateStakeWeight(s))
        /\ WF_vars(ReconcileStakeV2(s))
        /\ WF_vars(ClosePhantomStakeV2(s))

FairSpec == Spec /\ Fairness

\* However the owners deposit, withdraw, merge, claim, close and open stakes,
\* the sweep ends: every account is on the new curve, and the phantoms are
\* gone, but for those to whose vault somebody sent GODL before they were
\* written off: such a phantom keeps the balance that its vault then holds
\* (reconcile_stake_v2.rs:51-67), and close_phantom_stake_v2.rs:48 refuses it.
\* It holds of Quiet steps too: a rebase that wrote too low a total would make a
\* later migration fail.
SweepEnds ==
    <>[](\A s \in Stakes : stake[s] # None =>
           /\ stake[s].weight_version = 1
           /\ s \in Phantoms => stake[s].tokens >= stake[s].balance /\ stake[s].balance > 0)
=============================================================================
