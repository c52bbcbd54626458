------------------------------- MODULE Mining -------------------------------
(***************************************************************************)
(* The mining game of the GODL program: miners deploy SOL on the squares   *)
(* of the current round, an external entropy account fixes the outcome,    *)
(* somebody resets the board, and every miner checkpoints the finished     *)
(* round to collect SOL and GODL before the round account expires.         *)
(*                                                                         *)
(* A transaction is atomic, so each instruction handler is one action; a   *)
(* handler that returns an error, panics or fails a checked operation      *)
(* changes nothing and is simply not enabled.  Any order of instructions   *)
(* by any actors is possible, and slots may pass between any two of them.  *)
(*                                                                         *)
(* Callers pass the canonical accounts (the ones api/src/sdk.rs derives),  *)
(* where a handler does not leave them a choice (Checkpoint).              *)
(* lamports fields count the lamports of an account above its rent         *)
(* exemption; the runtime refuses a transaction that leaves an account     *)
(* below it.  The fields that only MinerRewards and the gold modules read  *)
(* (rewards_factor, refined_godl) and the lifetime_* statistics are not    *)
(* state of this module.                                                   *)
(*                                                                         *)
(* An operator called X_Suffix is a wrong variant of the X defined after   *)
(* it; no specification uses it, and a run must tell the two apart.        *)
(***************************************************************************)
EXTENDS Sums, FiniteSets

CONSTANTS
    NumMiners,          \* number of miner authorities
    NumSquares,         \* 25 in the code
    MaxRounds,          \* bound: rounds that can be opened
    MaxSlot,            \* bound: last slot of the model's clock
    U64Max,             \* u64::MAX, "not started" in end_slot and expires_at
    Amounts,            \* amounts a miner may deploy per square
    Masks,              \* sets of squares a miner may choose
    PoolModes,          \* values of the is_pooled argument
    Plans,              \* automation settings an authority may choose
    Deposits,           \* amounts paid into an automation
    MaxBalance,         \* bound: balance of an automation
    Hashes,             \* leading bytes, one per square, of the hash behind a random mask
    Referrers,          \* authorities that may open a Referrer account
    Claimants,          \* bound: miners that claim their SOL
    RngValues,          \* entropy values: [square, rev, split], or Unavailable
    Rates, Denominators, Timings, Withdrawals, GoldBuys,   \* bounds: what the admins may set and take
    ConfigGrown,        \* whether the Config account already has its current length
    None,               \* an empty account, an unset value
    LOCKED,             \* REFERRER_LOCKED_SENTINEL: the miner chose to have no referrer
    Unavailable,        \* the entropy value for which Round::rng is None
    NoOne, SPLIT_ADDRESS, POOL_ADDRESS,   \* marks of round.top_miner
    ROUND_SLOTS, INTERMISSION_SLOTS, ONE_DAY_SLOTS, TWELVE_HOURS_SLOTS,
    ADMIN_FEE_BPS, SOL_MOTHERLODE_BPS, REFERRAL_BPS, DENOMINATOR_BPS,
    CHECKPOINT_FEE, PoolCap,              \* PoolCap: 1 SOL
    MAX_SUPPLY, MAX_GODL_PER_ROUND, GodlPerRound, MotherlodeDenominator, MotherlodeOdds

Miners == 1 .. NumMiners
Squares == 1 .. NumSquares
RoundIds == 1 .. MaxRounds
Zero == [s \in Squares |-> 0]

ASSUME SizesAssumption ==
    /\ NumMiners \in Nat /\ NumSquares \in Nat \ {0}
    /\ MaxRounds \in Nat \ {0} /\ MaxSlot \in Nat
    /\ Amounts \subseteq Nat /\ Deposits \subseteq Nat /\ MaxBalance \in Nat
    /\ Masks \subseteq SUBSET Squares /\ PoolModes \subseteq BOOLEAN
    /\ Claimants \subseteq Miners /\ Hashes \subseteq [Squares -> 0 .. 255]
    /\ RngValues \subseteq [square : Squares, rev : Nat, split : BOOLEAN] \cup {Unavailable}
    /\ Plans \subseteq [amount : Nat, fee : Nat, strategy : {"Random", "Preferred"},
                        mask : SUBSET Squares, num_squares : Nat,
                        is_pooled : BOOLEAN, claim_and_fund : BOOLEAN]

ASSUME AdminAssumption ==
    /\ Rates \subseteq Nat /\ Denominators \subseteq Nat /\ Withdrawals \subseteq Nat
    /\ GoldBuys \subseteq Nat
    /\ Timings \subseteq [round_slots : Nat, intermission_slots : Nat]
    /\ ConfigGrown \in BOOLEAN

ASSUME SlotsAssumption ==
    /\ {ROUND_SLOTS, INTERMISSION_SLOTS, ONE_DAY_SLOTS, TWELVE_HOURS_SLOTS} \subseteq Nat
    /\ ROUND_SLOTS > 0 /\ ROUND_SLOTS <= ONE_DAY_SLOTS
    /\ TWELVE_HOURS_SLOTS <= ONE_DAY_SLOTS
    /\ U64Max \in Nat
    /\ MaxSlot + 2 * ONE_DAY_SLOTS < U64Max

ASSUME FeesAssumption ==
    /\ {ADMIN_FEE_BPS, SOL_MOTHERLODE_BPS, REFERRAL_BPS, CHECKPOINT_FEE, PoolCap} \subseteq Nat
    /\ DENOMINATOR_BPS \in Nat \ {0}
    /\ ADMIN_FEE_BPS + SOL_MOTHERLODE_BPS <= DENOMINATOR_BPS
    /\ REFERRAL_BPS <= DENOMINATOR_BPS

ASSUME MintAssumption ==
    /\ {MAX_SUPPLY, MAX_GODL_PER_ROUND, GodlPerRound, MotherlodeDenominator} \subseteq Nat
    /\ MotherlodeOdds \in Nat \ {0}

ASSUME MarksAssumption ==
    /\ {NoOne, SPLIT_ADDRESS, POOL_ADDRESS} \cap Miners = {}
    /\ NoOne # SPLIT_ADDRESS /\ NoOne # POOL_ADDRESS /\ SPLIT_ADDRESS # POOL_ADDRESS
    /\ None \notin Miners /\ None # Unavailable
    /\ None \notin Referrers /\ LOCKED \notin Referrers /\ None # LOCKED
    /\ {None, Unavailable} \cap [square : Squares, rev : Nat, split : BOOLEAN] = {}

VARIABLES
    slot,           \* Clock::get().slot
    board,          \* Board account
    var,            \* value of the entropy Var account (external program)
    round,          \* Round accounts; None when empty
    pool_round,     \* PoolRound accounts; None when empty
    miner,          \* Miner accounts; None when empty
    pool_member,    \* PoolMember accounts; None when empty
    automation,     \* AutomationV2 accounts; None when empty
    referrer,       \* Referrer accounts; None when empty
    treasury,       \* Treasury account and its GODL token account
    sol_motherlode, \* SolMotherlode account
    supply,         \* supply of the GODL mint
    config          \* Config account; grown: its length is the current one

vars == <<slot, board, var, round, pool_round, miner, pool_member, automation,
          referrer, treasury, sol_motherlode, supply, config>>
-----------------------------------------------------------------------------
(* Accounts *)

Sqs == [Squares -> Nat]

RoundRecord ==
    [deployed : Sqs, count : Sqs, slot_hash : RngValues \cup {None},
     expires_at : Nat, motherlode : Nat,
     top_miner : Miners \cup {NoOne, SPLIT_ADDRESS, POOL_ADDRESS},
     top_miner_reward : Nat, total_deployed : Nat, total_vaulted : Nat,
     total_winnings : Nat, lamports : Int]

PoolRoundRecord == [deployed : Sqs, count : Sqs, total_deployed : Nat]

MinerRecord ==
    [deployed : Sqs, cumulative : Sqs, round_id : Nat, checkpoint_id : Nat,
     checkpoint_fee : Nat, rewards_sol : Nat, rewards_godl : Nat, lamports : Int,
     referrer : Referrers \cup {None, LOCKED}]

PoolMemberRecord == [round_id : Nat, deployed : Sqs, total_deployed : Nat]

AutomationRecord == [plan : Plans, balance : Nat, lamports : Int]

ReferrerRecord == [rewards_sol : Nat, lamports : Nat, referrer_count : Nat]

ConfigRecord ==
    [grown : BOOLEAN, godl_per_round : Nat, motherlode_denominator : Nat,
     round_slots : 0 .. ONE_DAY_SLOTS, intermission_slots : 0 .. ONE_DAY_SLOTS]

\* An empty account is not confused with any account.
ASSUME NoneAssumption ==
    /\ None \notin RoundRecord /\ None \notin PoolRoundRecord
    /\ None \notin MinerRecord /\ None \notin PoolMemberRecord
    /\ None \notin AutomationRecord /\ None \notin ReferrerRecord

NewRound ==
    [deployed |-> Zero, count |-> Zero, slot_hash |-> None, expires_at |-> U64Max,
     motherlode |-> 0, top_miner |-> NoOne, top_miner_reward |-> 0,
     total_deployed |-> 0, total_vaulted |-> 0, total_winnings |-> 0, lamports |-> 0]

NewPoolRound == [deployed |-> Zero, count |-> Zero, total_deployed |-> 0]

NewMiner ==
    [deployed |-> Zero, cumulative |-> Zero, round_id |-> 0, checkpoint_id |-> 0,
     checkpoint_fee |-> 0, rewards_sol |-> 0, rewards_godl |-> 0, lamports |-> 0,
     referrer |-> None]

NewPoolMember == [round_id |-> 0, deployed |-> Zero, total_deployed |-> 0]

NewReferrer == [rewards_sol |-> 0, lamports |-> 0, referrer_count |-> 0]

Current == round[board.round_id]

\* The timings of Config; zero is unset and falls back to the compiled value.
RoundSlots == IF config.round_slots = 0 THEN ROUND_SLOTS ELSE config.round_slots
IntermissionSlots ==
    IF config.intermission_slots = 0 THEN INTERMISSION_SLOTS ELSE config.intermission_slots

\* The board right after a reset opened round 1: the state every round starts
\* in.  (Initialize itself creates round 0 without its PoolRound account.)
Init ==
    /\ slot = 0
    /\ board = [round_id |-> 1, start_slot |-> 0, end_slot |-> U64Max]
    /\ var = None
    /\ round = [k \in RoundIds |-> IF k = 1 THEN NewRound ELSE None]
    /\ pool_round = [k \in RoundIds |-> IF k = 1 THEN NewPoolRound ELSE None]
    /\ miner = [m \in Miners |-> None]
    /\ pool_member = [m \in Miners |-> None]
    /\ automation = [m \in Miners |-> None]
    /\ referrer = [r \in Referrers |-> None]
    /\ treasury = [balance |-> 0, lamports |-> 0, motherlode |-> 0,
                   total_unclaimed |-> 0, tokens |-> 0]
    /\ sol_motherlode = [amount |-> 0, lamports |-> 0]
    /\ supply = 0
    /\ config = [grown |-> ConfigGrown, godl_per_round |-> GodlPerRound,
                 motherlode_denominator |-> MotherlodeDenominator,
                 round_slots |-> 0, intermission_slots |-> 0]
-----------------------------------------------------------------------------
(* The outcome of a round, as functions of its entropy value *)

\* rng.reverse_bits() % deployed[winning_square]
Sample(R) == R.slot_hash.rev % R.deployed[R.slot_hash.square]

HoldsSample_AfterLow(M, R) ==
    LET w == R.slot_hash.square
    IN  /\ M.deployed[w] > 0
        /\ M.cumulative[w] < Sample(R)
        /\ Sample(R) < M.cumulative[w] + M.deployed[w]

HoldsSample_UpToHigh(M, R) ==
    LET w == R.slot_hash.square
    IN  /\ M.deployed[w] > 0
        /\ M.cumulative[w] <= Sample(R)
        /\ Sample(R) <= M.cumulative[w] + M.deployed[w]

\* The range of the winning square that a miner occupies contains the sample.
HoldsSample(M, R) ==
    LET w == R.slot_hash.square
    IN  /\ M.deployed[w] > 0
        /\ M.cumulative[w] <= Sample(R)
        /\ Sample(R) < M.cumulative[w] + M.deployed[w]

AdminFee(T) == Bps(T, ADMIN_FEE_BPS, DENOMINATOR_BPS)
MotherlodeFee(T) == Bps(T, SOL_MOTHERLODE_BPS, DENOMINATOR_BPS)
PlayFee(T) == Bps(T, ADMIN_FEE_BPS + SOL_MOTHERLODE_BPS, DENOMINATOR_BPS)

\* What the losing squares leave to share out, after fees.
NetWinnings(R) ==
    LET losing == Sum([R.deployed EXCEPT ![R.slot_hash.square] = 0], NumSquares)
    IN  losing - PlayFee(losing)

MintAmount == AtMost(Monus(MAX_SUPPLY, supply), config.godl_per_round)
MotherlodeMintAmount ==
    AtMost(Monus(MAX_SUPPLY, supply + MintAmount),
           config.godl_per_round \div config.motherlode_denominator)
-----------------------------------------------------------------------------
(* Clock and entropy *)

Tick ==
    /\ slot < MaxSlot
    /\ slot' = slot + 1
    /\ UNCHANGED <<board, var, round, pool_round, miner, pool_member, automation,
                   referrer, treasury, sol_motherlode, supply, config>>

\* External entropy program: after end_slot the Var account gets its value.
Reveal(value) ==
    /\ var = None
    /\ slot >= board.end_slot
    /\ var' = value
    /\ UNCHANGED <<slot, board, round, pool_round, miner, pool_member, automation,
                   referrer, treasury, sol_motherlode, supply, config>>
-----------------------------------------------------------------------------
(* Deploy *)

\* The first deploy of a round starts its clock and asks entropy for the next value.
Starting == board.end_slot = U64Max
StartedBoard ==
    IF Starting
    THEN [board EXCEPT !.start_slot = slot, !.end_slot = slot + RoundSlots]
    ELSE board
StartedRound_FromOpening ==
    IF Starting
    THEN [Current EXCEPT !.expires_at = board.start_slot + ONE_DAY_SLOTS]
    ELSE Current

StartedRound ==
    IF Starting
    THEN [Current EXCEPT !.expires_at = StartedBoard.end_slot + ONE_DAY_SLOTS]
    ELSE Current

OpenedMiner(m) == IF miner[m] = None THEN NewMiner ELSE miner[m]

MayEnter_NoCheckpoint(m) ==
    OpenedMiner(m).round_id = board.round_id => OpenedMiner(m).deployed = Zero

\* Only a miner who settled the round it last played enters another one, and
\* nobody deploys twice in the same round.
MayEnter(m) ==
    LET M == OpenedMiner(m)
    IN  IF M.round_id # board.round_id
        THEN M.checkpoint_id = M.round_id
        ELSE M.deployed = Zero

EnteredMiner(m) ==
    LET M == OpenedMiner(m)
    IN  IF M.round_id # board.round_id
        THEN [M EXCEPT !.deployed = Zero, !.cumulative = Current.deployed,
                       !.round_id = board.round_id]
        ELSE M

RangeStart_Unrecorded(s) == 0

\* A new range on a square starts at what was deployed there before.
RangeStart(s) == Current.deployed[s]

DeployedMiner(m, squares, amount) ==
    LET M == EnteredMiner(m)
        topUp == IF M.checkpoint_fee = 0 THEN CHECKPOINT_FEE ELSE 0
    IN  [M EXCEPT
           !.deployed = [s \in Squares |-> IF s \in squares THEN amount ELSE M.deployed[s]],
           !.cumulative = [s \in Squares |->
                             IF s \in squares THEN RangeStart(s) ELSE M.cumulative[s]],
           !.checkpoint_fee = @ + topUp,
           !.lamports = @ + topUp]

\* Adds a deployment to the per-square totals of a Round or a PoolRound.
Grown(R, squares, amount, newcomers) ==
    [R EXCEPT
       !.deployed = [s \in Squares |-> R.deployed[s] + IF s \in squares THEN amount ELSE 0],
       !.count = [s \in Squares |-> R.count[s] + IF s \in squares \cap newcomers THEN 1 ELSE 0],
       !.total_deployed = @ + amount * Cardinality(squares)]

DeployedRound(squares, amount) ==
    [Grown(StartedRound, squares, amount, Squares) EXCEPT
       !.lamports = @ + amount * Cardinality(squares)]

OpenedPoolMember(m) == IF pool_member[m] = None THEN NewPoolMember ELSE pool_member[m]

EnteredPoolMember_KeepsStakes(m) ==
    [OpenedPoolMember(m) EXCEPT !.round_id = board.round_id]

\* The pool account a pooled deployment starts from: reset when it still holds
\* an earlier round, and touched only when some square is deployed to.
EnteredPoolMember(m) ==
    LET P == OpenedPoolMember(m)
    IN  IF P.round_id # board.round_id
        THEN [NewPoolMember EXCEPT !.round_id = board.round_id]
        ELSE P

DeployedPoolMember(m, squares, amount) ==
    LET P == EnteredPoolMember(m)
    IN  IF squares = {} THEN pool_member[m]
        ELSE [P EXCEPT
                !.deployed = [s \in Squares |-> P.deployed[s] + IF s \in squares THEN amount ELSE 0],
                !.total_deployed = @ + amount * Cardinality(squares)]

JoinPool(m, squares, amount) ==
    LET P == EnteredPoolMember(m)
        newcomers == {s \in Squares : P.deployed[s] = 0}
        joined == DeployedPoolMember(m, squares, amount)
    IN  /\ joined # None
        /\ joined.total_deployed <= PoolCap
        /\ pool_member' = [pool_member EXCEPT ![m] = joined]
        /\ pool_round' = [pool_round EXCEPT
             ![board.round_id] = Grown(@, squares, amount, newcomers)]

StayOutOfPool == UNCHANGED <<pool_member, pool_round>>

\* The last round of a model is opened but not played.
Open ==
    /\ config.grown
    /\ board.start_slot <= slot /\ slot < board.end_slot
    /\ board.round_id < MaxRounds

\* The part of process_deploy that places the deployment; every chosen square
\* is new to the miner, because MayEnter leaves it with nothing deployed.
Place(m, squares, amount, pooled) ==
    /\ Open
    /\ MayEnter(m)
    /\ board' = StartedBoard
    /\ var' = IF Starting THEN None ELSE var
    /\ miner' = [miner EXCEPT ![m] = DeployedMiner(m, squares, amount)]
    /\ round' = [round EXCEPT ![board.round_id] = DeployedRound(squares, amount)]
    /\ IF pooled THEN JoinPool(m, squares, amount) ELSE StayOutOfPool

\* process_deploy signed by the authority, who has no automation.
Deploy(m, squares, amount, pooled) ==
    /\ automation[m] = None
    /\ Place(m, squares, amount, pooled)
    /\ UNCHANGED <<slot, automation, referrer, treasury, sol_motherlode, supply, config>>

\* generate_random_mask walks the squares and takes one when its byte of the
\* hash is small against the squares still needed over those still left.
IsRandomMask_Byte(num, r, squares) ==
    \A i \in Squares :
        LET needed == num - Cardinality({j \in squares : j < i})
        IN  i \in squares <=> needed > 0 /\ r[i] * (NumSquares - i + 1) < needed * 255

IsRandomMask(num, r, squares) ==
    \A i \in Squares :
        LET needed == num - Cardinality({j \in squares : j < i})
        IN  i \in squares <=> needed > 0 /\ r[i] * (NumSquares - i + 1) < needed * 256

\* The squares an automation plays, given the hash of its authority and the round.
PlanPicks(plan, r, squares) ==
    IF plan.strategy = "Preferred"
    THEN squares = plan.mask
    ELSE IsRandomMask(AtMost(plan.num_squares, NumSquares), r, squares)

RoundCost(plan, squares) == plan.amount * Cardinality(squares) + plan.fee

\* process_deploy signed by the automation's executor, who takes the fee.  The
\* balance covers every chosen square, so the loop never stops early.
DeployByExecutor(m, r, squares) ==
    /\ automation[m] # None
    /\ PlanPicks(automation[m].plan, r, squares)
    /\ LET A == automation[m]
           cost == RoundCost(A.plan, squares)
           left == [A EXCEPT !.balance = @ - cost, !.lamports = @ - cost]
       IN  /\ A.balance >= cost
           /\ Place(m, squares, A.plan.amount, A.plan.is_pooled)
           /\ automation' = [automation EXCEPT
                ![m] = IF left.balance < A.plan.amount + A.plan.fee THEN None ELSE left]
    /\ UNCHANGED <<slot, referrer, treasury, sol_motherlode, supply, config>>

\* The same call when the balance does not cover the round: the automation is
\* closed, nothing is placed, but the round has started and the miner entered.
DeployCancelled(m, r, squares) ==
    /\ automation[m] # None
    /\ PlanPicks(automation[m].plan, r, squares)
    /\ automation[m].balance < RoundCost(automation[m].plan, squares)
    /\ Open
    /\ MayEnter(m)
    /\ board' = StartedBoard
    /\ var' = IF Starting THEN None ELSE var
    /\ miner' = [miner EXCEPT ![m] = EnteredMiner(m)]
    /\ round' = [round EXCEPT ![board.round_id] = StartedRound]
    /\ automation' = [automation EXCEPT ![m] = None]
    /\ UNCHANGED <<slot, pool_round, pool_member, referrer, treasury, sol_motherlode, supply, config>>
-----------------------------------------------------------------------------
(* Automation settings and SOL claims *)

\* process_automate with an executor.
Automate(m, plan, deposit) ==
    LET old == automation[m]
        held == IF old = None THEN 0 ELSE old.balance
        cash == IF old = None THEN 0 ELSE old.lamports
        topUp == IF OpenedMiner(m).checkpoint_fee = 0 THEN CHECKPOINT_FEE ELSE 0
    IN  /\ held + deposit <= MaxBalance
        /\ automation' = [automation EXCEPT
             ![m] = [plan |-> plan, balance |-> held + deposit, lamports |-> cash + deposit]]
        /\ miner' = [miner EXCEPT
             ![m] = [OpenedMiner(m) EXCEPT !.checkpoint_fee = @ + topUp,
                                           !.lamports = @ + topUp]]
        /\ pool_member' = [pool_member EXCEPT
             ![m] = IF plan.is_pooled THEN OpenedPoolMember(m) ELSE @]
        /\ UNCHANGED <<slot, board, var, round, pool_round, referrer, treasury,
                       sol_motherlode, supply, config>>

\* process_automate with the default executor: the account is closed.
CloseAutomation(m) ==
    /\ automation[m] # None
    /\ automation' = [automation EXCEPT ![m] = None]
    /\ miner' = [miner EXCEPT ![m] = OpenedMiner(m)]
    /\ UNCHANGED <<slot, board, var, round, pool_round, pool_member, referrer,
                   treasury, sol_motherlode, supply, config>>

FundAutomation(m, deposit) ==
    /\ automation[m] # None
    /\ automation[m].balance + deposit <= MaxBalance
    /\ automation' = [automation EXCEPT ![m].balance = @ + deposit,
                                        ![m].lamports = @ + deposit]
    /\ UNCHANGED <<slot, board, var, round, pool_round, miner, pool_member, referrer,
                   treasury, sol_motherlode, supply, config>>

\* A claim empties rewards_sol; a referrer takes its cut of it.
HasReferrer(m) == miner[m].referrer \in Referrers

ReferralCut(m, bps) ==
    IF HasReferrer(m) THEN Bps(miner[m].rewards_sol, bps, DENOMINATOR_BPS) ELSE 0

PaySolOut_CutNotSent(m, cut) ==
    /\ miner' = [miner EXCEPT ![m].rewards_sol = 0,
                              ![m].lamports = @ - miner[m].rewards_sol]
    /\ referrer' =
         IF HasReferrer(m)
         THEN [referrer EXCEPT ![miner[m].referrer].rewards_sol = @ + cut]
         ELSE referrer

PaySolOut(m, cut) ==
    /\ HasReferrer(m) => referrer[miner[m].referrer] # None
    /\ miner' = [miner EXCEPT ![m].rewards_sol = 0,
                              ![m].lamports = @ - miner[m].rewards_sol]
    /\ referrer' =
         IF HasReferrer(m)
         THEN [referrer EXCEPT ![miner[m].referrer].rewards_sol = @ + cut,
                               ![miner[m].referrer].lamports = @ + cut]
         ELSE referrer

ClaimSol(m) ==
    /\ miner[m] # None
    /\ PaySolOut(m, ReferralCut(m, REFERRAL_BPS))
    /\ UNCHANGED <<slot, board, var, round, pool_round, pool_member, automation,
                   treasury, sol_motherlode, supply, config>>

\* The executor moves the claim into the automation, for a tenth of the cut.
ClaimSolAndFundAutomation(m) ==
    /\ automation[m] # None /\ miner[m] # None
    /\ automation[m].plan.claim_and_fund
    /\ LET cut == ReferralCut(m, REFERRAL_BPS \div 10)
           rest == miner[m].rewards_sol - cut
       IN  /\ automation[m].balance + rest <= MaxBalance
           /\ PaySolOut(m, cut)
           /\ automation' = [automation EXCEPT ![m].balance = @ + rest,
                                               ![m].lamports = @ + rest]
    /\ UNCHANGED <<slot, board, var, round, pool_round, pool_member,
                   treasury, sol_motherlode, supply, config>>
-----------------------------------------------------------------------------
(* Referrers *)

\* The accounts that mining leaves alone; miners and referrers change below.
RoundsUntouched ==
    UNCHANGED <<slot, board, var, round, pool_round, pool_member, automation,
                treasury, sol_motherlode, supply, config>>

InitializeReferrer(r) ==
    /\ referrer[r] = None
    /\ referrer' = [referrer EXCEPT ![r] = NewReferrer]
    /\ UNCHANGED miner
    /\ RoundsUntouched

\* A choice is final, also the choice of no referrer; a second call changes nothing.
Unreferred_Any(m) == miner[m] # None
Unreferred(m) == miner[m] # None /\ miner[m].referrer = None

SetNoReferrer(m) ==
    /\ Unreferred(m)
    /\ miner' = [miner EXCEPT ![m].referrer = LOCKED]
    /\ UNCHANGED referrer
    /\ RoundsUntouched

SetReferrer(m, r) ==
    /\ Unreferred(m)
    /\ referrer[r] # None
    /\ r # m
    /\ referrer' = [referrer EXCEPT ![r].referrer_count = @ + 1]
    /\ miner' = [miner EXCEPT ![m].referrer = r]
    /\ RoundsUntouched

\* The SOL a referrer claims; MinerRewards has its GODL.
ClaimReferral(r) ==
    /\ referrer[r] # None
    /\ referrer[r].rewards_sol > 0
    /\ referrer[r].lamports >= referrer[r].rewards_sol
    /\ referrer' = [referrer EXCEPT ![r].rewards_sol = 0,
                                    ![r].lamports = @ - referrer[r].rewards_sol]
    /\ UNCHANGED miner
    /\ RoundsUntouched
-----------------------------------------------------------------------------
(* Admin: settings, and the SOL that the buy-backs take *)

SettingsOnly ==
    UNCHANGED <<slot, board, var, round, pool_round, miner, pool_member, automation,
                referrer, treasury, sol_motherlode, supply>>

\* Every handler that reads a Config account of the old length fails ...
SetGodlPerRound(rate) ==
    /\ config.grown
    /\ rate <= MAX_GODL_PER_ROUND
    /\ config' = [config EXCEPT !.godl_per_round = rate]
    /\ SettingsOnly

SetMotherlodeDenominator(denominator) ==
    /\ config.grown
    /\ config' = [config EXCEPT !.motherlode_denominator = denominator]
    /\ SettingsOnly

\* ... except this one, which grows it.
UpdateProtocolConfig(t) ==
    /\ t.round_slots \in 1 .. ONE_DAY_SLOTS /\ t.intermission_slots \in 1 .. ONE_DAY_SLOTS
    /\ config' = [config EXCEPT !.grown = TRUE, !.round_slots = t.round_slots,
                                !.intermission_slots = t.intermission_slots]
    /\ SettingsOnly

VaultOnly ==
    UNCHANGED <<slot, board, var, round, pool_round, miner, pool_member, automation,
                referrer, supply, config>>

\* withdraw_vault, and pre_bury with the total of its three payees.
TakeFromVault(amount) ==
    /\ config.grown
    /\ amount > 0 /\ amount <= treasury.balance /\ amount <= treasury.lamports
    /\ treasury' = [treasury EXCEPT !.balance = @ - amount, !.lamports = @ - amount]
    /\ UNCHANGED sol_motherlode
    /\ VaultOnly

\* pre_buy_gold takes the SOL motherlode that every reset feeds.
PreBuyGold(amount) ==
    /\ config.grown
    /\ amount > 0 /\ amount <= sol_motherlode.amount /\ amount <= sol_motherlode.lamports
    /\ sol_motherlode' = [amount |-> sol_motherlode.amount - amount,
                          lamports |-> sol_motherlode.lamports - amount]
    /\ UNCHANGED treasury
    /\ VaultOnly
-----------------------------------------------------------------------------
(* Reset: settle the current round and open the next *)

\* The marks a caller can leave in round.top_miner, given the settled round R.
\* process_reset takes whatever candidate the crank names, or none ...
Known(candidate) ==
    /\ candidate # None
    /\ miner[candidate] # None /\ pool_member[candidate] # None

LenientCandidate(R, candidate) ==
    ~R.slot_hash.split /\ Known(candidate) =>
        /\ miner[candidate].round_id = board.round_id
        /\ pool_member[candidate].round_id = board.round_id

LenientTopMiner(R, candidate) ==
    CASE R.slot_hash.split -> SPLIT_ADDRESS
      [] /\ ~R.slot_hash.split
         /\ Known(candidate)
         /\ pool_member[candidate].deployed[R.slot_hash.square] > 0
         /\ HoldsSample(miner[candidate], R) -> POOL_ADDRESS
      [] OTHER -> NoOne

\* ... process_reset_permissionless only the miner who holds the sample.
InPool(m, k, w) ==
    /\ pool_member[m] # None
    /\ pool_member[m].round_id = k
    /\ pool_member[m].deployed[w] > 0

StrictCandidate(R, candidate) ==
    ~R.slot_hash.split =>
        /\ candidate # None
        /\ miner[candidate] # None
        /\ miner[candidate].round_id = board.round_id
        /\ HoldsSample(miner[candidate], R)

StrictTopMiner(R, candidate) ==
    CASE R.slot_hash.split -> SPLIT_ADDRESS
      [] ~R.slot_hash.split /\ InPool(candidate, board.round_id, R.slot_hash.square) -> POOL_ADDRESS
      [] OTHER -> NoOne

\* No entropy: every miner will be refunded at its checkpoint.
Refunded(R) == [R EXCEPT !.total_vaulted = 0, !.total_winnings = 0, !.total_deployed = 0]

\* Nobody on the winning square: everything but the fees is vaulted.
Vaulted(R) ==
    LET T == R.total_deployed
        vault == T - AdminFee(T) - MotherlodeFee(T)
    IN  [R EXCEPT !.total_vaulted = vault,
                  !.lamports = @ - AdminFee(T) - MotherlodeFee(T) - vault]

\* Winners share the net winnings, of which a tenth is vaulted; a jackpot
\* round also takes the GODL motherlode but for a tenth that rolls over.
MotherlodePrize(R) ==
    IF R.slot_hash.rev % MotherlodeOdds = 0
    THEN treasury.motherlode - (treasury.motherlode \div 10)
    ELSE 0

Won(R, top) ==
    LET T == R.total_deployed
        vault == NetWinnings(R) \div 10
    IN  [R EXCEPT !.total_winnings = NetWinnings(R) - vault,
                  !.total_vaulted = vault,
                  !.top_miner = top,
                  !.top_miner_reward = MintAmount,
                  !.motherlode = MotherlodePrize(R),
                  !.lamports = @ - AdminFee(T) - MotherlodeFee(T) - vault]

\* The sanity check that reset.rs makes before it pays anything.
TrackedOutflowsCovered(R) ==
    LET w == R.slot_hash.square
        losing == Sum([R.deployed EXCEPT ![w] = 0], NumSquares)
    IN  R.total_deployed >= NetWinnings(R) + R.deployed[w] + PlayFee(losing)

AdvanceBoard_NoPoolRound(settled) ==
    /\ board.round_id < MaxRounds
    /\ board' = [round_id |-> board.round_id + 1, start_slot |-> slot, end_slot |-> U64Max]
    /\ round' = [round EXCEPT ![board.round_id] = settled, ![board.round_id + 1] = NewRound]
    /\ UNCHANGED pool_round

AdvanceBoard(settled) ==
    /\ board.round_id < MaxRounds
    /\ board' = [round_id |-> board.round_id + 1, start_slot |-> slot, end_slot |-> U64Max]
    /\ round' = [round EXCEPT ![board.round_id] = settled, ![board.round_id + 1] = NewRound]
    /\ pool_round' = [pool_round EXCEPT ![board.round_id + 1] = NewPoolRound]

Vault(amount, lode) ==
    /\ treasury' = [treasury EXCEPT !.balance = @ + amount, !.lamports = @ + amount]
    /\ sol_motherlode' = [amount |-> sol_motherlode.amount + lode,
                          lamports |-> sol_motherlode.lamports + lode]

MintAndVault(R, amount, lode) ==
    /\ treasury' = [treasury EXCEPT
         !.balance = @ + amount, !.lamports = @ + amount,
         !.motherlode = @ - MotherlodePrize(R) + MotherlodeMintAmount,
         !.tokens = @ + MintAmount + MotherlodeMintAmount]
    /\ sol_motherlode' = [amount |-> sol_motherlode.amount + lode,
                          lamports |-> sol_motherlode.lamports + lode]
    /\ supply' = supply + MintAmount + MotherlodeMintAmount

\* Everything both resets do once the caller's candidate has named the top miner.
Settle(R, top) ==
    LET w == R.slot_hash.square
    IN  \/ /\ R.slot_hash = Unavailable
           /\ AdvanceBoard(Refunded(R))
           /\ UNCHANGED <<treasury, sol_motherlode, supply>>
        \/ /\ R.slot_hash # Unavailable
           /\ R.deployed[w] = 0
           /\ AdvanceBoard(Vaulted(R))
           /\ Vault(Vaulted(R).total_vaulted, MotherlodeFee(R.total_deployed))
           /\ UNCHANGED supply
        \/ /\ R.slot_hash # Unavailable
           /\ R.deployed[w] > 0
           /\ TrackedOutflowsCovered(R)
           /\ config.motherlode_denominator # 0    \* the division panics
           /\ AdvanceBoard(Won(R, top))
           /\ MintAndVault(R, Won(R, top).total_vaulted, MotherlodeFee(R.total_deployed))

\* The round is over (saturating_add keeps a round that never started open),
\* and its entropy value is known.
Over ==
    /\ config.grown
    /\ slot >= AtMost(board.end_slot + IntermissionSlots, U64Max)
    /\ var # None
Closing == [Current EXCEPT !.slot_hash = var]
HasWinners(R) == R.slot_hash # Unavailable /\ R.deployed[R.slot_hash.square] > 0

Reset(candidate) ==
    /\ Over
    /\ HasWinners(Closing) => LenientCandidate(Closing, candidate)
    /\ Settle(Closing, IF HasWinners(Closing) THEN LenientTopMiner(Closing, candidate) ELSE NoOne)
    /\ UNCHANGED <<slot, var, miner, pool_member, automation, referrer, config>>

ResetPermissionless(candidate) ==
    /\ Over
    /\ HasWinners(Closing) => StrictCandidate(Closing, candidate)
    /\ Settle(Closing, IF HasWinners(Closing) THEN StrictTopMiner(Closing, candidate) ELSE NoOne)
    /\ UNCHANGED <<slot, var, miner, pool_member, automation, referrer, config>>
-----------------------------------------------------------------------------
(* Checkpoint and close *)

SolReward_NoFee(M, R) ==
    LET w == R.slot_hash.square
        d == M.deployed[w]
    IN  IF R.slot_hash = Unavailable THEN Sum(M.deployed, NumSquares)
        ELSE IF d = 0 THEN 0
        ELSE d + ShareOf(R.total_winnings, d, R.deployed[w])

\* SOL a miner collects from a finished round: its stake less the fee (at least
\* one lamport) and its share of the winnings, or a refund without entropy.
SolReward(M, R) ==
    LET w == R.slot_hash.square
        d == M.deployed[w]
    IN  IF R.slot_hash = Unavailable THEN Sum(M.deployed, NumSquares)
        ELSE IF d = 0 THEN 0
        ELSE d - AtLeast(PlayFee(d), 1) + ShareOf(R.total_winnings, d, R.deployed[w])

\* The block reward: split pro rata, shared by the pool, or all to the miner
\* that holds the sample.  The pool's share needs the PoolMember and PoolRound
\* accounts (pooled): the handler takes any empty account for a miner outside
\* the pool, and checks the addresses of others only.
BlockReward(m, k, pooled) ==
    LET M == miner[m]
        R == round[k]
        w == R.slot_hash.square
        d == M.deployed[w]
    IN  CASE R.top_miner = SPLIT_ADDRESS ->
               ShareOf(R.top_miner_reward, d, R.deployed[w])
          [] R.top_miner = POOL_ADDRESS ->
               IF pooled /\ InPool(m, k, w) /\ pool_round[k] # None
                    /\ pool_round[k].deployed[w] > 0
               THEN ShareOf(R.top_miner_reward, pool_member[m].deployed[w],
                            pool_round[k].deployed[w])
               ELSE 0
          [] OTHER -> IF HoldsSample(M, R) THEN R.top_miner_reward ELSE 0

GodlReward(m, k, pooled) ==
    LET R == round[k]
        w == R.slot_hash.square
        d == miner[m].deployed[w]
    IN  IF R.slot_hash = Unavailable \/ d = 0 THEN 0
        ELSE BlockReward(m, k, pooled) + ShareOf(R.motherlode, d, R.deployed[w])

\* The solo winner signs the round at its own checkpoint.
TopMinerAfter(m, k) ==
    LET R == round[k]
    IN  IF /\ HasWinners(R)
           /\ miner[m].deployed[R.slot_hash.square] > 0
           /\ R.top_miner \notin {SPLIT_ADDRESS, POOL_ADDRESS}
           /\ HoldsSample(miner[m], R)
        THEN m ELSE R.top_miner

\* A miner has played a round that it has not settled yet.
Unsettled(m) == miner[m] # None /\ miner[m].checkpoint_id # miner[m].round_id

\* The round has been reset and its account still exists.
Finished(k) == k \in RoundIds /\ k # board.round_id /\ round[k] # None

\* The round expired or its account is gone: whoever has not settled it forfeits.
Forfeited_KeptWhenClosed(k) ==
    /\ Finished(k)
    /\ round[k].slot_hash # None
    /\ slot >= round[k].expires_at

Forfeited(k) ==
    \/ round[k] = None
    \/ /\ Finished(k)
       /\ round[k].slot_hash # None
       /\ slot >= round[k].expires_at

CheckpointForfeit(m) ==
    /\ Unsettled(m)
    /\ Forfeited(miner[m].round_id)
    /\ miner' = [miner EXCEPT ![m].checkpoint_id = miner[m].round_id]
    /\ UNCHANGED <<slot, board, var, round, pool_round, pool_member, automation,
                   referrer, treasury, sol_motherlode, supply, config>>

\* In the last twelve hours whoever calls takes the miner's checkpoint fee.
BotFee(m, k) ==
    IF slot >= round[k].expires_at - TWELVE_HOURS_SLOTS THEN miner[m].checkpoint_fee ELSE 0

\* The runtime refuses the transfer if the round account does not hold it.
\* Whoever calls chooses the pool accounts: the miner's and the round's own
\* (pooled), or an empty one.
Checkpoint(m, pooled) ==
    /\ Unsettled(m)
    /\ LET k == miner[m].round_id
           sol == SolReward(miner[m], round[k])
           godl == GodlReward(m, k, pooled)
           paid == [miner[m] EXCEPT
                      !.checkpoint_id = k,
                      !.checkpoint_fee = @ - BotFee(m, k),
                      !.rewards_sol = @ + sol,
                      !.rewards_godl = @ + godl,
                      !.lamports = @ + sol - BotFee(m, k)]
       IN  /\ Finished(k)
           /\ round[k].slot_hash # None
           /\ slot < round[k].expires_at
           /\ IF round[k].slot_hash = Unavailable
              THEN round[k].total_deployed = 0
              ELSE LET w == round[k].slot_hash.square
                   IN  round[k].deployed[w] >= miner[m].deployed[w]
           /\ sol <= round[k].lamports
           /\ paid.lamports >= paid.checkpoint_fee + paid.rewards_sol
           /\ miner' = [miner EXCEPT ![m] = paid]
           /\ round' = [round EXCEPT ![k].lamports = @ - sol,
                                     ![k].top_miner = TopMinerAfter(m, k)]
           /\ treasury' = [treasury EXCEPT !.total_unclaimed = @ + godl]
    /\ UNCHANGED <<slot, board, var, pool_round, pool_member, automation, referrer,
                   sol_motherlode, supply, config>>

Closable_Unexpired(k) == round[k] # None /\ k < board.round_id

Closable(k) ==
    /\ round[k] # None
    /\ k < board.round_id
    /\ round[k].expires_at < slot

\* process_close sweeps what nobody collected in time into the treasury.
Close(k) ==
    /\ Closable(k)
    /\ round' = [round EXCEPT ![k] = None]
    /\ pool_round' = [pool_round EXCEPT ![k] = None]
    /\ LET unclaimed == AtLeast(round[k].lamports, 0)
       IN  treasury' = [treasury EXCEPT !.balance = @ + unclaimed, !.lamports = @ + unclaimed]
    /\ UNCHANGED <<slot, board, var, miner, pool_member, automation, referrer,
                   sol_motherlode, supply, config>>
-----------------------------------------------------------------------------
Next ==
    \/ Tick
    \/ \E value \in RngValues : Reveal(value)
    \/ \E m \in Miners, squares \in Masks, amount \in Amounts, pooled \in PoolModes :
         Deploy(m, squares, amount, pooled)
    \/ \E m \in Miners, r \in Hashes, squares \in SUBSET Squares : DeployByExecutor(m, r, squares)
    \/ \E m \in Miners, r \in Hashes, squares \in SUBSET Squares : DeployCancelled(m, r, squares)
    \/ \E m \in Miners, plan \in Plans, deposit \in Deposits : Automate(m, plan, deposit)
    \/ \E m \in Miners : CloseAutomation(m)
    \/ \E m \in Miners, deposit \in Deposits : FundAutomation(m, deposit)
    \/ \E m \in Claimants : ClaimSol(m)
    \/ \E m \in Claimants : ClaimSolAndFundAutomation(m)
    \/ \E r \in Referrers : InitializeReferrer(r) \/ ClaimReferral(r)
    \/ \E m \in Claimants : SetNoReferrer(m)
    \/ \E m \in Claimants, r \in Referrers : SetReferrer(m, r)
    \/ \E rate \in Rates : SetGodlPerRound(rate)
    \/ \E denominator \in Denominators : SetMotherlodeDenominator(denominator)
    \/ \E t \in Timings : UpdateProtocolConfig(t)
    \/ \E amount \in Withdrawals : TakeFromVault(amount)
    \/ \E amount \in GoldBuys : PreBuyGold(amount)
    \/ \E candidate \in Miners \cup {None} : Reset(candidate)
    \/ \E candidate \in Miners \cup {None} : ResetPermissionless(candidate)
    \/ \E m \in Miners, pooled \in BOOLEAN : Checkpoint(m, pooled)
    \/ \E m \in Miners : CheckpointForfeit(m)
    \/ \E k \in RoundIds : Close(k)

Spec == Init /\ [][Next]_vars
=============================================================================
