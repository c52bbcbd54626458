---------------------------- MODULE MiningProofs ----------------------------
(***************************************************************************)
(* Theorems about Mining, for every number of miners, squares and rounds,  *)
(* all amounts and all fees that satisfy the assumptions of Mining.        *)
(***************************************************************************)
EXTENDS MiningProperties, SumsProofs, FiniteSetTheorems
-----------------------------------------------------------------------------
(* Types of the values that the actions compute *)

\* The accounts of the current round exist and have their types.
LEMMA CurrentType ==
  ASSUME TypeOK
  PROVE  /\ board.round_id \in RoundIds
         /\ Current \in RoundRecord
         /\ pool_round[board.round_id] \in PoolRoundRecord
BY DEF TypeOK, Current

\* The squares of an empty account.
LEMMA ZeroType == Zero \in Sqs
BY DEF Zero, Sqs

\* The accounts that deploy.rs and reset.rs create have their types.
LEMMA NewTypes ==
  /\ NewRound \in RoundRecord
  /\ NewPoolRound \in PoolRoundRecord
  /\ NewMiner \in MinerRecord
  /\ NewPoolMember \in PoolMemberRecord
  /\ NewReferrer \in ReferrerRecord
BY ZeroType, SlotsAssumption
   DEF NewRound, NewPoolRound, NewMiner, NewPoolMember, NewReferrer,
       RoundRecord, PoolRoundRecord, MinerRecord, PoolMemberRecord, ReferrerRecord

\* The number of squares of a deployment is a natural.
LEMMA SquaresCount ==
  ASSUME NEW squares \in SUBSET Squares
  PROVE  Cardinality(squares) \in Nat
<1>1. IsFiniteSet(1 .. NumSquares)
  BY FS_Interval, SizesAssumption
<1>2. IsFiniteSet(squares)
  BY <1>1, FS_Subset DEF Squares
<1> QED BY <1>2, FS_CardinalityType

\* The numbers among the constants.
LEMMA ConstantTypes ==
  /\ NumMiners \in Nat /\ NumSquares \in Nat /\ MaxRounds \in Nat /\ MaxSlot \in Nat
  /\ ROUND_SLOTS \in Nat /\ INTERMISSION_SLOTS \in Nat
  /\ ONE_DAY_SLOTS \in Nat /\ TWELVE_HOURS_SLOTS \in Nat /\ U64Max \in Nat
  /\ ADMIN_FEE_BPS \in Nat /\ SOL_MOTHERLODE_BPS \in Nat /\ REFERRAL_BPS \in Nat
  /\ DENOMINATOR_BPS \in Nat \ {0} /\ CHECKPOINT_FEE \in Nat /\ PoolCap \in Nat
  /\ MAX_SUPPLY \in Nat /\ GodlPerRound \in Nat
  /\ MotherlodeDenominator \in Nat /\ MotherlodeOdds \in Nat \ {0}
BY SizesAssumption, SlotsAssumption, FeesAssumption, MintAssumption

BoardRecord == [round_id : RoundIds, start_slot : Nat, end_slot : Nat]

\* Starting the clock of a round (deploy.rs:60) keeps Board and Round well typed.
LEMMA StartedTypes ==
  ASSUME TypeOK
  PROVE  /\ StartedBoard \in BoardRecord
         /\ StartedBoard.round_id = board.round_id
         /\ StartedRound \in RoundRecord
<1> DEFINE end == slot + RoundSlots
           expiry == StartedBoard.end_slot + ONE_DAY_SLOTS
<1>1. slot \in Nat /\ board \in BoardRecord /\ end \in Nat
  BY ConstantTypes DEF TypeOK, BoardRecord, RoundSlots, ConfigRecord
<1>2. StartedBoard \in BoardRecord /\ StartedBoard.round_id = board.round_id
  <2>1. [board EXCEPT !.start_slot = slot, !.end_slot = end] \in BoardRecord
    <3> HIDE DEF end
    <3> QED BY <1>1 DEF BoardRecord
  <2>2. [board EXCEPT !.start_slot = slot, !.end_slot = end].round_id = board.round_id
    BY <1>1 DEF BoardRecord
  <2>3. CASE Starting
    BY <2>1, <2>2, <2>3 DEF StartedBoard
  <2>4. CASE ~Starting
    BY <1>1, <2>4 DEF StartedBoard
  <2> QED BY <2>3, <2>4
<1>3. expiry \in Nat
  BY <1>2, ConstantTypes DEF BoardRecord
<1>4. Current \in RoundRecord
  BY CurrentType
<1>5. [Current EXCEPT !.expires_at = expiry] \in RoundRecord
  <2> HIDE DEF expiry
  <2> QED BY <1>3, <1>4 DEF RoundRecord
<1>6. StartedRound \in RoundRecord
  <2>1. CASE Starting
    BY <1>5, <2>1 DEF StartedRound
  <2>2. CASE ~Starting
    BY <1>4, <2>2 DEF StartedRound
  <2> QED BY <2>1, <2>2
<1> QED BY <1>2, <1>6

\* A miner account exists or is created by the deploy.
LEMMA OpenedMinerType ==
  ASSUME TypeOK, NEW m \in Miners
  PROVE  OpenedMiner(m) \in MinerRecord
BY NewTypes DEF TypeOK, OpenedMiner

\* Entering the round (deploy.rs:164) keeps the miner well typed.
LEMMA EnteredMinerType ==
  ASSUME TypeOK, NEW m \in Miners
  PROVE  EnteredMiner(m) \in MinerRecord
<1>1. board.round_id \in Nat
  BY CurrentType DEF RoundIds
<1>2. Current.deployed \in Sqs
  BY CurrentType DEF RoundRecord
<1> QED BY <1>1, <1>2, OpenedMinerType, ZeroType DEF EnteredMiner, MinerRecord

\* Recording a deployment and topping up the checkpoint fee keep the miner well typed.
LEMMA DeployedMinerType ==
  ASSUME TypeOK, NEW m \in Miners, NEW squares \in SUBSET Squares, NEW amount \in Nat
  PROVE  DeployedMiner(m, squares, amount) \in MinerRecord
<1> DEFINE M == EnteredMiner(m)
           deployed == [s \in Squares |-> IF s \in squares THEN amount ELSE M.deployed[s]]
           cumulative == [s \in Squares |-> IF s \in squares THEN RangeStart(s) ELSE M.cumulative[s]]
           topUp == IF M.checkpoint_fee = 0 THEN CHECKPOINT_FEE ELSE 0
           fee == M.checkpoint_fee + topUp
           cash == M.lamports + topUp
<1>1. M \in MinerRecord
  BY EnteredMinerType
<1>2. Current.deployed \in Sqs
  BY CurrentType DEF RoundRecord
<1>3. deployed \in Sqs /\ cumulative \in Sqs
  BY <1>1, <1>2 DEF MinerRecord, Sqs, RangeStart
<1>4. fee \in Nat /\ cash \in Int
  BY <1>1, ConstantTypes DEF MinerRecord
<1>5. [M EXCEPT !.deployed = deployed, !.cumulative = cumulative,
                !.checkpoint_fee = fee, !.lamports = cash] \in MinerRecord
  <2> HIDE DEF M, deployed, cumulative, fee, cash
  <2> QED BY <1>1, <1>3, <1>4 DEF MinerRecord
<1> QED BY <1>5 DEF DeployedMiner

\* The totals of a round or of its pool after a deployment.
LEMMA GrownSquares ==
  ASSUME NEW f \in Sqs, NEW squares \in SUBSET Squares, NEW amount \in Nat
  PROVE  [s \in Squares |-> f[s] + IF s \in squares THEN amount ELSE 0] \in Sqs
<1>1. ASSUME NEW s \in Squares PROVE f[s] + (IF s \in squares THEN amount ELSE 0) \in Nat
  <2>1. f[s] \in Nat
    BY DEF Sqs
  <2>2. (IF s \in squares THEN amount ELSE 0) \in Nat
    OBVIOUS
  <2> QED BY <2>1, <2>2
<1> QED BY <1>1 DEF Sqs

\* Adding a deployment to a round keeps it well typed.
LEMMA GrownRoundType ==
  ASSUME NEW R \in RoundRecord, NEW squares \in SUBSET Squares, NEW amount \in Nat,
         NEW newcomers
  PROVE  Grown(R, squares, amount, newcomers) \in RoundRecord
<1> DEFINE deployed == [s \in Squares |-> R.deployed[s] + IF s \in squares THEN amount ELSE 0]
           count == [s \in Squares |->
                       R.count[s] + IF s \in squares \cap newcomers THEN 1 ELSE 0]
           total == R.total_deployed + amount * Cardinality(squares)
<1>1. R.deployed \in Sqs /\ R.count \in Sqs /\ R.total_deployed \in Nat
  BY DEF RoundRecord
<1>2. deployed \in Sqs /\ count \in Sqs
  <2>1. squares \cap newcomers \in SUBSET Squares
    OBVIOUS
  <2> QED BY <1>1, <2>1, GrownSquares
<1>3. total \in Nat
  BY <1>1, SquaresCount
<1>4. [R EXCEPT !.deployed = deployed, !.count = count, !.total_deployed = total] \in RoundRecord
  <2> HIDE DEF deployed, count, total
  <2> QED BY <1>2, <1>3 DEF RoundRecord
<1> QED BY <1>4 DEF Grown

\* Adding a deployment to the pool of a round keeps it well typed.
LEMMA GrownPoolType ==
  ASSUME NEW R \in PoolRoundRecord, NEW squares \in SUBSET Squares, NEW amount \in Nat,
         NEW newcomers
  PROVE  Grown(R, squares, amount, newcomers) \in PoolRoundRecord
<1> DEFINE deployed == [s \in Squares |-> R.deployed[s] + IF s \in squares THEN amount ELSE 0]
           count == [s \in Squares |->
                       R.count[s] + IF s \in squares \cap newcomers THEN 1 ELSE 0]
           total == R.total_deployed + amount * Cardinality(squares)
<1>1. R.deployed \in Sqs /\ R.count \in Sqs /\ R.total_deployed \in Nat
  BY DEF PoolRoundRecord
<1>2. deployed \in Sqs /\ count \in Sqs
  <2>1. squares \cap newcomers \in SUBSET Squares
    OBVIOUS
  <2> QED BY <1>1, <2>1, GrownSquares
<1>3. total \in Nat
  BY <1>1, SquaresCount
<1>4. [R EXCEPT !.deployed = deployed, !.count = count, !.total_deployed = total]
      \in PoolRoundRecord
  <2> HIDE DEF deployed, count, total
  <2> QED BY <1>2, <1>3 DEF PoolRoundRecord
<1> QED BY <1>4 DEF Grown

\* The round after a deployment, with the SOL of the deployment.
LEMMA DeployedRoundType ==
  ASSUME TypeOK, NEW squares \in SUBSET Squares, NEW amount \in Nat
  PROVE  DeployedRound(squares, amount) \in RoundRecord
<1> DEFINE R == Grown(StartedRound, squares, amount, Squares)
           cash == R.lamports + amount * Cardinality(squares)
<1>1. R \in RoundRecord
  BY StartedTypes, GrownRoundType
<1>2. cash \in Int
  BY <1>1, SquaresCount DEF RoundRecord
<1>3. [R EXCEPT !.lamports = cash] \in RoundRecord
  <2> HIDE DEF R, cash
  <2> QED BY <1>1, <1>2 DEF RoundRecord
<1> QED BY <1>3 DEF DeployedRound

\* The pool account of a miner before and after a deployment.
LEMMA DeployedPoolMemberType ==
  ASSUME TypeOK, NEW m \in Miners, NEW squares \in SUBSET Squares, NEW amount \in Nat
  PROVE  /\ OpenedPoolMember(m) \in PoolMemberRecord
         /\ EnteredPoolMember(m) \in PoolMemberRecord
         /\ DeployedPoolMember(m, squares, amount) \in PoolMemberRecord \cup {None}
<1> DEFINE P == EnteredPoolMember(m)
           deployed == [s \in Squares |-> P.deployed[s] + IF s \in squares THEN amount ELSE 0]
           total == P.total_deployed + amount * Cardinality(squares)
<1>1. OpenedPoolMember(m) \in PoolMemberRecord
  BY NewTypes DEF TypeOK, OpenedPoolMember
<1>2. P \in PoolMemberRecord
  <2>1. board.round_id \in Nat
    BY CurrentType DEF RoundIds
  <2> QED BY <1>1, <2>1, NewTypes DEF EnteredPoolMember, PoolMemberRecord
<1>3. deployed \in Sqs /\ total \in Nat
  <2>1. P.deployed \in Sqs /\ P.total_deployed \in Nat
    BY <1>2 DEF PoolMemberRecord
  <2> HIDE DEF P
  <2>2. deployed \in Sqs
    BY <2>1, GrownSquares
  <2>3. total \in Nat
    BY <2>1, SquaresCount
  <2> QED BY <2>2, <2>3
<1>4. [P EXCEPT !.deployed = deployed, !.total_deployed = total] \in PoolMemberRecord
  <2> HIDE DEF P, deployed, total
  <2> QED BY <1>2, <1>3 DEF PoolMemberRecord
<1>5. pool_member[m] \in PoolMemberRecord \cup {None}
  BY DEF TypeOK
<1> QED BY <1>1, <1>2, <1>4, <1>5 DEF DeployedPoolMember
-----------------------------------------------------------------------------
(* Deployments preserve the types *)

\* Placing a deployment keeps the types of all the accounts it writes.
LEMMA PlaceTypes ==
  ASSUME TypeOK, NEW m \in Miners, NEW squares \in SUBSET Squares, NEW amount \in Nat,
         NEW pooled, Place(m, squares, amount, pooled)
  PROVE  /\ board' \in BoardRecord
         /\ var' \in RngValues \cup {None}
         /\ round' \in [RoundIds -> RoundRecord \cup {None}]
         /\ pool_round' \in [RoundIds -> PoolRoundRecord \cup {None}]
         /\ miner' \in [Miners -> MinerRecord \cup {None}]
         /\ pool_member' \in [Miners -> PoolMemberRecord \cup {None}]
         /\ Current' \in RoundRecord
         /\ pool_round'[board'.round_id] \in PoolRoundRecord
<1> DEFINE k == board.round_id
           R == DeployedRound(squares, amount)
           M == DeployedMiner(m, squares, amount)
<1>1. k \in RoundIds /\ pool_round[k] \in PoolRoundRecord
  BY CurrentType
<1>2. R \in RoundRecord /\ M \in MinerRecord
  BY DeployedRoundType, DeployedMinerType
<1>3. board' \in BoardRecord /\ board'.round_id = k
  BY StartedTypes DEF Place
<1>4. var' \in RngValues \cup {None}
  BY DEF Place, TypeOK
<1>5. round' = [round EXCEPT ![k] = R] /\ miner' = [miner EXCEPT ![m] = M]
  BY DEF Place
<1>6. /\ round' \in [RoundIds -> RoundRecord \cup {None}]
      /\ round'[k] \in RoundRecord
      /\ miner' \in [Miners -> MinerRecord \cup {None}]
  <2> HIDE DEF R, M, k
  <2> QED BY <1>1, <1>2, <1>5 DEF TypeOK
<1>7. /\ pool_round' \in [RoundIds -> PoolRoundRecord \cup {None}]
      /\ pool_member' \in [Miners -> PoolMemberRecord \cup {None}]
      /\ pool_round'[k] \in PoolRoundRecord
  <2>1. CASE JoinPool(m, squares, amount)
    <3> DEFINE newcomers == {s \in Squares : EnteredPoolMember(m).deployed[s] = 0}
               P == DeployedPoolMember(m, squares, amount)
               G == Grown(pool_round[k], squares, amount, newcomers)
    <3>1. P \in PoolMemberRecord \cup {None}
      BY DeployedPoolMemberType
    <3>2. G \in PoolRoundRecord
      <4> HIDE DEF newcomers
      <4> QED BY <1>1, GrownPoolType
    <3>3. /\ pool_member' = [pool_member EXCEPT ![m] = P]
          /\ pool_round' = [pool_round EXCEPT ![k] = G]
      BY <2>1 DEF JoinPool
    <3> HIDE DEF P, G, k
    <3> QED BY <1>1, <3>1, <3>2, <3>3 DEF TypeOK
  <2>2. CASE StayOutOfPool
    BY <1>1, <2>2 DEF StayOutOfPool, TypeOK
  <2>3. JoinPool(m, squares, amount) \/ StayOutOfPool
    BY DEF Place
  <2> QED BY <2>1, <2>2, <2>3
<1>8. Current' \in RoundRecord
  BY <1>3, <1>6 DEF Current
<1> QED BY <1>3, <1>4, <1>6, <1>7, <1>8

\* Deploy preserves the types.
LEMMA DeployTypes ==
  ASSUME TypeOK, NEW m \in Miners, NEW squares \in Masks, NEW amount \in Amounts,
         NEW pooled \in PoolModes, Deploy(m, squares, amount, pooled)
  PROVE  TypeOK'
<1>1. squares \in SUBSET Squares /\ amount \in Nat
  BY SizesAssumption
<1>2. Place(m, squares, amount, pooled)
  BY DEF Deploy
<1>3. UNCHANGED <<slot, automation, referrer, treasury, sol_motherlode, supply, config>>
  BY DEF Deploy
<1> QED BY <1>1, <1>2, <1>3, PlaceTypes DEF TypeOK, BoardRecord

\* The settings and the balance of an automation.
LEMMA AutomationType ==
  ASSUME TypeOK, NEW m \in Miners, automation[m] # None
  PROVE  /\ automation[m] \in AutomationRecord
         /\ automation[m].plan \in Plans
         /\ automation[m].plan.amount \in Nat /\ automation[m].plan.fee \in Nat
         /\ automation[m].balance \in Nat /\ automation[m].lamports \in Int
BY SizesAssumption DEF TypeOK, AutomationRecord

\* A deployment by the executor preserves the types: it costs at most the balance.
LEMMA DeployByExecutorTypes ==
  ASSUME TypeOK, NEW m \in Miners, NEW r \in Hashes, NEW squares \in SUBSET Squares,
         DeployByExecutor(m, r, squares)
  PROVE  TypeOK'
<1> DEFINE A == automation[m]
           cost == RoundCost(A.plan, squares)
           balance == A.balance - cost
           cash == A.lamports - cost
           left == [A EXCEPT !.balance = balance, !.lamports = cash]
<1>1. A # None
  BY DEF DeployByExecutor
<1>2. A \in AutomationRecord /\ A.plan.amount \in Nat /\ A.plan.fee \in Nat
      /\ A.balance \in Nat /\ A.lamports \in Int
  BY <1>1, AutomationType
<1>3. cost \in Nat
  BY <1>2, SquaresCount DEF RoundCost
<1>4. A.balance >= cost
  BY DEF DeployByExecutor
<1>5. balance \in Nat /\ cash \in Int
  <2> HIDE DEF cost
  <2> QED BY <1>2, <1>3, <1>4
<1>6. left \in AutomationRecord
  <2> HIDE DEF A, balance, cash
  <2> QED BY <1>2, <1>5 DEF AutomationRecord
<1>7. automation' \in [Miners -> AutomationRecord \cup {None}]
  <2>1. automation' = [automation EXCEPT ![m] = left]
        \/ automation' = [automation EXCEPT ![m] = None]
    BY DEF DeployByExecutor
  <2> HIDE DEF left
  <2> QED BY <1>6, <2>1 DEF TypeOK
<1>8. Place(m, squares, A.plan.amount, A.plan.is_pooled)
  BY DEF DeployByExecutor
<1>9. UNCHANGED <<slot, referrer, treasury, sol_motherlode, supply, config>>
  BY DEF DeployByExecutor
<1> QED BY <1>2, <1>7, <1>8, <1>9, PlaceTypes DEF TypeOK, BoardRecord

\* Closing an automation that cannot pay preserves the types.
LEMMA DeployCancelledTypes ==
  ASSUME TypeOK, NEW m \in Miners, NEW r \in Hashes, NEW squares \in SUBSET Squares,
         DeployCancelled(m, r, squares)
  PROVE  TypeOK'
<1>1. board.round_id \in RoundIds
  BY CurrentType
<1>2. StartedRound \in RoundRecord /\ EnteredMiner(m) \in MinerRecord
  BY StartedTypes, EnteredMinerType
<1>3. board' \in BoardRecord /\ board'.round_id = board.round_id
  BY StartedTypes DEF DeployCancelled
<1>4. /\ round' = [round EXCEPT ![board.round_id] = StartedRound]
      /\ miner' = [miner EXCEPT ![m] = EnteredMiner(m)]
      /\ automation' = [automation EXCEPT ![m] = None]
      /\ var' \in {None, var}
      /\ UNCHANGED <<slot, pool_round, pool_member, referrer, treasury, sol_motherlode, supply, config>>
  BY DEF DeployCancelled
<1>5. /\ round' \in [RoundIds -> RoundRecord \cup {None}]
      /\ round'[board.round_id] \in RoundRecord
      /\ miner' \in [Miners -> MinerRecord \cup {None}]
      /\ automation' \in [Miners -> AutomationRecord \cup {None}]
  BY <1>1, <1>2, <1>4 DEF TypeOK
<1>6. Current' \in RoundRecord
  BY <1>3, <1>5 DEF Current
<1> QED BY <1>3, <1>4, <1>5, <1>6 DEF TypeOK, BoardRecord
-----------------------------------------------------------------------------
(* Automation settings and claims preserve the types *)

\* Opening or changing an automation preserves the types.
LEMMA AutomateTypes ==
  ASSUME TypeOK, NEW m \in Miners, NEW plan \in Plans, NEW deposit \in Deposits,
         Automate(m, plan, deposit)
  PROVE  TypeOK'
<1> DEFINE old == automation[m]
           held == IF old = None THEN 0 ELSE old.balance
           cash == IF old = None THEN 0 ELSE old.lamports
           topUp == IF OpenedMiner(m).checkpoint_fee = 0 THEN CHECKPOINT_FEE ELSE 0
           fee == OpenedMiner(m).checkpoint_fee + topUp
           lamports == OpenedMiner(m).lamports + topUp
           A == [plan |-> plan, balance |-> held + deposit, lamports |-> cash + deposit]
           M == [OpenedMiner(m) EXCEPT !.checkpoint_fee = fee, !.lamports = lamports]
           P == IF plan.is_pooled THEN OpenedPoolMember(m) ELSE pool_member[m]
<1>1. deposit \in Nat
  BY SizesAssumption
<1>2. held \in Nat /\ cash \in Int
  BY AutomationType
<1>3. A \in AutomationRecord
  <2> HIDE DEF held, cash
  <2> QED BY <1>1, <1>2 DEF AutomationRecord
<1>4. OpenedMiner(m) \in MinerRecord
  BY OpenedMinerType
<1>5. fee \in Nat /\ lamports \in Int
  BY <1>4, ConstantTypes DEF MinerRecord
<1>6. M \in MinerRecord
  <2> HIDE DEF fee, lamports
  <2> QED BY <1>4, <1>5 DEF MinerRecord
<1>7. OpenedPoolMember(m) \in PoolMemberRecord
  BY NewTypes DEF TypeOK, OpenedPoolMember
<1>8. P \in PoolMemberRecord \cup {None}
  BY <1>7 DEF TypeOK
<1>9. /\ automation' = [automation EXCEPT ![m] = A]
      /\ miner' = [miner EXCEPT ![m] = M]
      /\ pool_member' = [pool_member EXCEPT ![m] = P]
      /\ UNCHANGED <<slot, board, var, round, pool_round, referrer, treasury,
                     sol_motherlode, supply, config>>
  BY DEF Automate
<1> HIDE DEF A, M, P
<1>10. /\ automation' \in [Miners -> AutomationRecord \cup {None}]
       /\ miner' \in [Miners -> MinerRecord \cup {None}]
       /\ pool_member' \in [Miners -> PoolMemberRecord \cup {None}]
  BY <1>3, <1>6, <1>8, <1>9 DEF TypeOK
<1> QED BY <1>9, <1>10 DEF TypeOK, Current

\* Closing an automation preserves the types.
LEMMA CloseAutomationTypes ==
  ASSUME TypeOK, NEW m \in Miners, CloseAutomation(m)
  PROVE  TypeOK'
<1>1. OpenedMiner(m) \in MinerRecord
  BY OpenedMinerType
<1>2. /\ automation' \in [Miners -> AutomationRecord \cup {None}]
      /\ miner' \in [Miners -> MinerRecord \cup {None}]
  BY <1>1 DEF CloseAutomation, TypeOK
<1> QED BY <1>2 DEF CloseAutomation, TypeOK, Current

\* An automation whose balance grows stays an automation.
LEMMA FundedType ==
  ASSUME TypeOK, NEW m \in Miners, automation[m] # None, NEW sol \in Nat
  PROVE  [automation EXCEPT ![m].balance = @ + sol, ![m].lamports = @ + sol]
         \in [Miners -> AutomationRecord \cup {None}]
<1> DEFINE A == automation[m]
           balance == A.balance + sol
           cash == A.lamports + sol
           B == [A EXCEPT !.balance = balance, !.lamports = cash]
<1>1. A \in AutomationRecord /\ A.balance \in Nat /\ A.lamports \in Int
  BY AutomationType
<1>2. balance \in Nat /\ cash \in Int
  BY <1>1
<1>3. B \in AutomationRecord
  <2> HIDE DEF A, balance, cash
  <2> QED BY <1>1, <1>2 DEF AutomationRecord
<1>4. [automation EXCEPT ![m] = B] \in [Miners -> AutomationRecord \cup {None}]
  <2> HIDE DEF B
  <2> QED BY <1>3 DEF TypeOK
<1> QED BY <1>4 DEF TypeOK

\* Funding an automation preserves the types.
LEMMA FundAutomationTypes ==
  ASSUME TypeOK, NEW m \in Miners, NEW deposit \in Deposits, FundAutomation(m, deposit)
  PROVE  TypeOK'
<1>1. automation' \in [Miners -> AutomationRecord \cup {None}]
  <2>1. automation[m] # None /\ deposit \in Nat
    BY SizesAssumption DEF FundAutomation
  <2>2. automation' = [automation EXCEPT ![m].balance = @ + deposit,
                                         ![m].lamports = @ + deposit]
    BY DEF FundAutomation
  <2> QED BY <2>1, <2>2, FundedType
<1> QED BY <1>1 DEF FundAutomation, TypeOK, Current

\* A referrer's cut is a part of the claim.
LEMMA ReferralCutType ==
  ASSUME TypeOK, NEW m \in Miners, miner[m] # None,
         NEW bps \in Nat, bps <= DENOMINATOR_BPS
  PROVE  /\ ReferralCut(m, bps) \in Nat
         /\ miner[m].rewards_sol - ReferralCut(m, bps) \in Nat
<1>1. miner[m].rewards_sol \in Nat
  BY DEF TypeOK, MinerRecord
<1>2. /\ Bps(miner[m].rewards_sol, bps, DENOMINATOR_BPS) \in Nat
      /\ Bps(miner[m].rewards_sol, bps, DENOMINATOR_BPS) <= miner[m].rewards_sol
  BY <1>1, ConstantTypes, BpsBound
<1> QED BY <1>1, <1>2 DEF ReferralCut

\* A claim keeps miner and referrer well typed: the cut is part of the claim.
LEMMA PaySolOutTypes ==
  ASSUME TypeOK, NEW m \in Miners, miner[m] # None, NEW cut \in Nat, PaySolOut(m, cut)
  PROVE  /\ miner' \in [Miners -> MinerRecord \cup {None}]
         /\ referrer' \in [Referrers -> ReferrerRecord \cup {None}]
<1> DEFINE M == miner[m]
           cash == M.lamports - M.rewards_sol
           N == [M EXCEPT !.rewards_sol = 0, !.lamports = cash]
<1>1. M \in MinerRecord
  BY DEF TypeOK
<1>2. cash \in Int
  BY <1>1 DEF MinerRecord
<1>3. N \in MinerRecord
  <2> HIDE DEF M, cash
  <2> QED BY <1>1, <1>2 DEF MinerRecord
<1>4. miner' = [miner EXCEPT ![m] = N]
  BY DEF PaySolOut, TypeOK
<1>5. miner' \in [Miners -> MinerRecord \cup {None}]
  <2> HIDE DEF N
  <2> QED BY <1>3, <1>4 DEF TypeOK
<1>6. referrer' \in [Referrers -> ReferrerRecord \cup {None}]
  <2>1. CASE ~HasReferrer(m)
    BY <2>1 DEF PaySolOut, TypeOK
  <2>2. CASE HasReferrer(m)
    <3> DEFINE r == miner[m].referrer
               owed == referrer[r].rewards_sol + cut
               purse == referrer[r].lamports + cut
               S == [referrer[r] EXCEPT !.rewards_sol = owed, !.lamports = purse]
    <3>1. r \in Referrers /\ referrer[r] \in ReferrerRecord
      BY <2>2 DEF PaySolOut, HasReferrer, TypeOK
    <3>2. owed \in Nat /\ purse \in Nat
      BY <3>1 DEF ReferrerRecord
    <3>3. S \in ReferrerRecord
      <4> HIDE DEF r, owed, purse
      <4> QED BY <3>1, <3>2 DEF ReferrerRecord
    <3>4. referrer' = [referrer EXCEPT ![r] = S]
      BY <2>2, <3>1 DEF PaySolOut, TypeOK
    <3> HIDE DEF S, r
    <3> QED BY <3>1, <3>3, <3>4 DEF TypeOK
  <2> QED BY <2>1, <2>2
<1> QED BY <1>5, <1>6

\* ClaimSol preserves the types.
LEMMA ClaimSolTypes ==
  ASSUME TypeOK, NEW m \in Claimants, ClaimSol(m)
  PROVE  TypeOK'
<1>1. m \in Miners /\ miner[m] # None
  BY SizesAssumption DEF ClaimSol
<1>2. ReferralCut(m, REFERRAL_BPS) \in Nat
  BY <1>1, ReferralCutType, ConstantTypes, FeesAssumption
<1>3. /\ miner' \in [Miners -> MinerRecord \cup {None}]
      /\ referrer' \in [Referrers -> ReferrerRecord \cup {None}]
  BY <1>1, <1>2, PaySolOutTypes DEF ClaimSol
<1> QED BY <1>3 DEF ClaimSol, TypeOK, Current

\* Moving a claim into the automation preserves the types.
LEMMA ClaimSolAndFundAutomationTypes ==
  ASSUME TypeOK, NEW m \in Claimants, ClaimSolAndFundAutomation(m)
  PROVE  TypeOK'
<1> DEFINE bps == REFERRAL_BPS \div 10
           cut == ReferralCut(m, bps)
           rest == miner[m].rewards_sol - cut
<1>1. m \in Miners /\ miner[m] # None /\ automation[m] # None
  BY SizesAssumption DEF ClaimSolAndFundAutomation
<1>2. bps \in Nat /\ bps <= DENOMINATOR_BPS
  BY ConstantTypes, FeesAssumption
<1>3. cut \in Nat /\ rest \in Nat
  <2> HIDE DEF bps
  <2> QED BY <1>1, <1>2, ReferralCutType
<1>4. /\ PaySolOut(m, cut)
      /\ automation' = [automation EXCEPT ![m].balance = @ + rest, ![m].lamports = @ + rest]
      /\ UNCHANGED <<slot, board, var, round, pool_round, pool_member,
                     treasury, sol_motherlode, supply, config>>
  BY DEF ClaimSolAndFundAutomation
<1> HIDE DEF cut, rest
<1>5. /\ miner' \in [Miners -> MinerRecord \cup {None}]
      /\ referrer' \in [Referrers -> ReferrerRecord \cup {None}]
  BY <1>1, <1>3, <1>4, PaySolOutTypes
<1>6. automation' \in [Miners -> AutomationRecord \cup {None}]
  BY <1>1, <1>3, <1>4, FundedType
<1> QED BY <1>4, <1>5, <1>6 DEF TypeOK, Current
-----------------------------------------------------------------------------
(* Resets preserve the types *)

\* Opening the next round with any settled one keeps board and rounds well typed.
LEMMA AdvanceTypes ==
  ASSUME TypeOK, NEW settled \in RoundRecord, AdvanceBoard(settled)
  PROVE  /\ board' \in BoardRecord
         /\ round' \in [RoundIds -> RoundRecord \cup {None}]
         /\ pool_round' \in [RoundIds -> PoolRoundRecord \cup {None}]
         /\ Current' \in RoundRecord
         /\ pool_round'[board'.round_id] \in PoolRoundRecord
<1> DEFINE k == board.round_id
<1>1. k \in RoundIds /\ k + 1 \in RoundIds /\ k # k + 1
  <2>1. k \in RoundIds /\ k < MaxRounds
    BY CurrentType DEF AdvanceBoard
  <2> QED BY <2>1, ConstantTypes DEF RoundIds
<1>2. board' = [round_id |-> k + 1, start_slot |-> slot, end_slot |-> U64Max]
  BY DEF AdvanceBoard
<1>3. board' \in BoardRecord /\ board'.round_id = k + 1
  <2>1. slot \in Nat
    BY ConstantTypes DEF TypeOK
  <2> QED BY <1>1, <1>2, <2>1, ConstantTypes DEF BoardRecord
<1>4. /\ round' = [round EXCEPT ![k] = settled, ![k + 1] = NewRound]
      /\ pool_round' = [pool_round EXCEPT ![k + 1] = NewPoolRound]
  BY DEF AdvanceBoard
<1> HIDE DEF k
<1>5. /\ round' \in [RoundIds -> RoundRecord \cup {None}]
      /\ round'[k + 1] = NewRound
  BY <1>1, <1>4, NewTypes DEF TypeOK
<1>6. /\ pool_round' \in [RoundIds -> PoolRoundRecord \cup {None}]
      /\ pool_round'[k + 1] = NewPoolRound
  BY <1>1, <1>4, NewTypes DEF TypeOK
<1> QED BY <1>3, <1>5, <1>6, NewTypes DEF Current

\* A revealed entropy value other than Unavailable names a winning square.
LEMMA RngType ==
  ASSUME NEW v \in RngValues, v # Unavailable
  PROVE  v.square \in Squares /\ v.rev \in Nat /\ v.split \in BOOLEAN
BY SizesAssumption

\* The two fees of a total are naturals and leave a natural (reset.rs:161-178).
LEMMA FeeTypes ==
  ASSUME NEW T \in Nat
  PROVE  /\ AdminFee(T) \in Nat /\ MotherlodeFee(T) \in Nat
         /\ T - AdminFee(T) - MotherlodeFee(T) \in Nat
         /\ PlayFee(T) \in Nat /\ PlayFee(T) <= T
<1>1. /\ AdminFee(T) \in Nat /\ MotherlodeFee(T) \in Nat
      /\ AdminFee(T) + MotherlodeFee(T) <= T
  BY BpsSplit, ConstantTypes, FeesAssumption DEF AdminFee, MotherlodeFee
<1>2. PlayFee(T) \in Nat /\ PlayFee(T) <= T
  <2> DEFINE bps == ADMIN_FEE_BPS + SOL_MOTHERLODE_BPS
  <2>1. bps \in Nat /\ bps <= DENOMINATOR_BPS
    BY ConstantTypes, FeesAssumption
  <2> HIDE DEF bps
  <2>2. Bps(T, bps, DENOMINATOR_BPS) \in Nat /\ Bps(T, bps, DENOMINATOR_BPS) <= T
    BY <2>1, BpsBound, ConstantTypes
  <2> QED BY <2>2 DEF PlayFee, bps
<1> QED BY <1>1, <1>2

\* The losing squares leave a natural after fees (round.rs:76).
LEMMA NetWinningsType ==
  ASSUME NEW R \in RoundRecord, R.slot_hash \in RngValues, R.slot_hash # Unavailable
  PROVE  NetWinnings(R) \in Nat
<1> DEFINE losing == Sum([R.deployed EXCEPT ![R.slot_hash.square] = 0], NumSquares)
<1>1. R.deployed \in Sqs
  BY DEF RoundRecord
<1>2. \A i \in 1 .. NumSquares : [R.deployed EXCEPT ![R.slot_hash.square] = 0][i] \in Nat
  BY <1>1 DEF Sqs, Squares
<1>3. losing \in Nat
  BY <1>2, SumNat, ConstantTypes
<1>4. losing - PlayFee(losing) \in Nat
  <2> HIDE DEF losing
  <2> QED BY <1>3, FeeTypes
<1> QED BY <1>4 DEF NetWinnings

\* What a reset mints is a natural.
LEMMA MintTypes ==
  ASSUME TypeOK
  PROVE  /\ MintAmount \in Nat
         /\ config.motherlode_denominator # 0 => MotherlodeMintAmount \in Nat
<1>1. supply \in Nat /\ config.godl_per_round \in Nat
      /\ config.motherlode_denominator \in Nat
  BY DEF TypeOK, ConfigRecord
<1>2. MintAmount \in Nat
  BY <1>1, ConstantTypes DEF MintAmount, AtMost, Monus
<1>3. ASSUME config.motherlode_denominator # 0
      PROVE  MotherlodeMintAmount \in Nat
  <2> DEFINE q == config.godl_per_round \div config.motherlode_denominator
  <2>1. q \in Nat
    BY <1>1, <1>3, DivBounds
  <2> HIDE DEF q
  <2>2. AtMost(Monus(MAX_SUPPLY, supply + MintAmount), q) \in Nat
    BY <1>1, <1>2, <2>1, ConstantTypes DEF AtMost, Monus
  <2> QED BY <2>2 DEF MotherlodeMintAmount, q
<1> QED BY <1>2, <1>3

\* The jackpot is a natural and within the motherlode (reset.rs:281).
LEMMA PrizeType ==
  ASSUME TypeOK, NEW R
  PROVE  MotherlodePrize(R) \in Nat /\ treasury.motherlode - MotherlodePrize(R) \in Nat
<1>1. treasury.motherlode \in Nat
  BY DEF TypeOK
<1>2. /\ treasury.motherlode \div 10 \in Nat
      /\ treasury.motherlode - (treasury.motherlode \div 10) \in Nat
  BY <1>1
<1> DEFINE q == treasury.motherlode \div 10
<1>3. CASE R.slot_hash.rev % MotherlodeOdds = 0
  <2>1. MotherlodePrize(R) = treasury.motherlode - q
    BY <1>3 DEF MotherlodePrize
  <2> HIDE DEF q
  <2> QED BY <1>1, <1>2, <2>1 DEF q
<1>4. CASE ~ (R.slot_hash.rev % MotherlodeOdds = 0)
  BY <1>1, <1>4 DEF MotherlodePrize
<1> QED BY <1>3, <1>4

Marks == Miners \cup {NoOne, SPLIT_ADDRESS, POOL_ADDRESS}

\* The round that a reset closes, with its entropy value.
LEMMA ClosingType ==
  ASSUME TypeOK, Over
  PROVE  /\ Closing \in RoundRecord
         /\ Closing.slot_hash \in RngValues
         /\ Closing.deployed = Current.deployed
         /\ Closing.total_deployed = Current.total_deployed
         /\ Closing.lamports = Current.lamports
<1>1. var \in RngValues
  BY DEF Over, TypeOK
<1> QED BY <1>1, CurrentType DEF Closing, RoundRecord

\* Each of the three outcomes of a reset leaves a well typed round.
LEMMA SettledTypes ==
  ASSUME TypeOK, NEW R \in RoundRecord, R.slot_hash \in RngValues, NEW top \in Marks
  PROVE  /\ Refunded(R) \in RoundRecord
         /\ Vaulted(R) \in RoundRecord
         /\ R.slot_hash # Unavailable => Won(R, top) \in RoundRecord
<1>1. R.total_deployed \in Nat /\ R.lamports \in Int
  BY DEF RoundRecord
<1>2. Refunded(R) \in RoundRecord
  BY DEF Refunded, RoundRecord
<1>3. Vaulted(R) \in RoundRecord
  <2> DEFINE a == AdminFee(R.total_deployed)
             b == MotherlodeFee(R.total_deployed)
             vault == R.total_deployed - a - b
             cash == R.lamports - a - b - vault
  <2>1. a \in Nat /\ b \in Nat /\ vault \in Nat
    BY <1>1, FeeTypes
  <2>2. cash \in Int
    <3> HIDE DEF a, b, vault
    <3> QED BY <1>1, <2>1
  <2>3. [R EXCEPT !.total_vaulted = vault, !.lamports = cash] \in RoundRecord
    <3> HIDE DEF vault, cash
    <3> QED BY <2>1, <2>2 DEF RoundRecord
  <2> QED BY <2>3 DEF Vaulted
<1>4. ASSUME R.slot_hash # Unavailable PROVE Won(R, top) \in RoundRecord
  <2> DEFINE a == AdminFee(R.total_deployed)
             b == MotherlodeFee(R.total_deployed)
             net == NetWinnings(R)
             vault == net \div 10
             winnings == net - vault
             prize == MotherlodePrize(R)
             mint == MintAmount
             cash == R.lamports - a - b - vault
  <2>1. a \in Nat /\ b \in Nat /\ net \in Nat /\ prize \in Nat /\ mint \in Nat
    BY <1>1, <1>4, FeeTypes, NetWinningsType, PrizeType, MintTypes
  <2>2. vault \in Nat /\ winnings \in Nat
    <3> HIDE DEF net
    <3> QED BY <2>1
  <2>3. cash \in Int
    <3> HIDE DEF a, b, vault
    <3> QED BY <1>1, <2>1, <2>2
  <2>4. [R EXCEPT !.total_winnings = winnings, !.total_vaulted = vault, !.top_miner = top,
                  !.top_miner_reward = mint, !.motherlode = prize, !.lamports = cash]
        \in RoundRecord
    <3> HIDE DEF winnings, vault, mint, prize, cash
    <3> QED BY <2>1, <2>2, <2>3 DEF RoundRecord, Marks
  <2> QED BY <2>4 DEF Won
<1> QED BY <1>2, <1>3, <1>4

\* Settling a round keeps rounds, treasury, motherlode and supply well typed.
LEMMA SettleTypes ==
  ASSUME TypeOK, NEW R \in RoundRecord, R.slot_hash \in RngValues,
         NEW top \in Marks, Settle(R, top)
  PROVE  /\ board' \in BoardRecord
         /\ round' \in [RoundIds -> RoundRecord \cup {None}]
         /\ pool_round' \in [RoundIds -> PoolRoundRecord \cup {None}]
         /\ Current' \in RoundRecord
         /\ pool_round'[board'.round_id] \in PoolRoundRecord
         /\ treasury' \in [balance : Nat, lamports : Nat, motherlode : Nat,
                           total_unclaimed : Nat, tokens : Nat]
         /\ sol_motherlode' \in [amount : Nat, lamports : Nat]
         /\ supply' \in Nat
<1> DEFINE TreasuryRecord == [balance : Nat, lamports : Nat, motherlode : Nat,
                              total_unclaimed : Nat, tokens : Nat]
           lode == MotherlodeFee(R.total_deployed)
<1>1. treasury \in TreasuryRecord /\ sol_motherlode \in [amount : Nat, lamports : Nat]
      /\ supply \in Nat
  BY DEF TypeOK
<1>2. lode \in Nat
  BY FeeTypes DEF RoundRecord
<1>3. CASE /\ AdvanceBoard(Refunded(R))
           /\ UNCHANGED <<treasury, sol_motherlode, supply>>
  BY <1>1, <1>3, SettledTypes, AdvanceTypes
<1>4. CASE /\ AdvanceBoard(Vaulted(R))
           /\ Vault(Vaulted(R).total_vaulted, lode)
           /\ UNCHANGED supply
  <2> DEFINE amount == Vaulted(R).total_vaulted
             balance == treasury.balance + amount
             cash == treasury.lamports + amount
  <2>1. Vaulted(R) \in RoundRecord /\ amount \in Nat
    BY SettledTypes DEF RoundRecord
  <2>2. balance \in Nat /\ cash \in Nat
    <3> HIDE DEF amount
    <3> QED BY <1>1, <2>1
  <2>3. [treasury EXCEPT !.balance = balance, !.lamports = cash] \in TreasuryRecord
    <3> HIDE DEF balance, cash
    <3> QED BY <1>1, <2>2
  <2>4. treasury' \in TreasuryRecord
    BY <1>4, <2>3 DEF Vault
  <2>5. sol_motherlode' \in [amount : Nat, lamports : Nat]
    <3> HIDE DEF lode
    <3> QED BY <1>1, <1>2, <1>4 DEF Vault
  <2> QED BY <1>1, <1>4, <2>1, <2>4, <2>5, AdvanceTypes
<1>5. CASE /\ R.slot_hash # Unavailable
           /\ config.motherlode_denominator # 0
           /\ AdvanceBoard(Won(R, top))
           /\ MintAndVault(R, Won(R, top).total_vaulted, lode)
  <2> DEFINE amount == Won(R, top).total_vaulted
             mint == MintAmount
             extra == MotherlodeMintAmount
             balance == treasury.balance + amount
             cash == treasury.lamports + amount
             motherlode == treasury.motherlode - MotherlodePrize(R) + extra
             tokens == treasury.tokens + mint + extra
  <2>1. Won(R, top) \in RoundRecord /\ amount \in Nat
    BY <1>5, SettledTypes DEF RoundRecord
  <2>2. mint \in Nat /\ extra \in Nat
    BY <1>5, MintTypes
  <2>3. balance \in Nat /\ cash \in Nat /\ tokens \in Nat
    <3> HIDE DEF amount, mint, extra
    <3> QED BY <1>1, <2>1, <2>2
  <2>4. motherlode \in Nat
    <3> DEFINE rest == treasury.motherlode - MotherlodePrize(R)
    <3>1. rest \in Nat
      BY PrizeType
    <3> HIDE DEF rest, extra
    <3>2. rest + extra \in Nat
      BY <2>2, <3>1
    <3> QED BY <3>2 DEF rest
  <2>5. [treasury EXCEPT !.balance = balance, !.lamports = cash,
                         !.motherlode = motherlode, !.tokens = tokens] \in TreasuryRecord
    <3> HIDE DEF balance, cash, motherlode, tokens
    <3> QED BY <1>1, <2>3, <2>4
  <2>6. treasury' \in TreasuryRecord
    BY <1>5, <2>5 DEF MintAndVault
  <2>7. sol_motherlode' \in [amount : Nat, lamports : Nat]
    <3> HIDE DEF lode
    <3> QED BY <1>1, <1>2, <1>5 DEF MintAndVault
  <2>8. supply' \in Nat
    <3> HIDE DEF mint, extra
    <3>1. supply + mint + extra \in Nat
      BY <1>1, <2>2
    <3> QED BY <1>5, <3>1 DEF MintAndVault, mint, extra
  <2> QED BY <1>5, <2>1, <2>6, <2>7, <2>8, AdvanceTypes
<1>6. \/ /\ AdvanceBoard(Refunded(R))
         /\ UNCHANGED <<treasury, sol_motherlode, supply>>
      \/ /\ AdvanceBoard(Vaulted(R))
         /\ Vault(Vaulted(R).total_vaulted, lode)
         /\ UNCHANGED supply
      \/ /\ R.slot_hash # Unavailable
         /\ config.motherlode_denominator # 0
         /\ AdvanceBoard(Won(R, top))
         /\ MintAndVault(R, Won(R, top).total_vaulted, lode)
  BY DEF Settle
<1> HIDE DEF lode
<1> QED BY <1>3, <1>4, <1>5, <1>6

\* Both resets preserve the types: every mark they leave is a mark of the code.
LEMMA ResetTypes ==
  ASSUME TypeOK, NEW candidate \in Miners \cup {None},
         Reset(candidate) \/ ResetPermissionless(candidate)
  PROVE  TypeOK'
<1>1. \A R : /\ LenientTopMiner(R, candidate) \in Marks
             /\ StrictTopMiner(R, candidate) \in Marks
  BY DEF LenientTopMiner, StrictTopMiner, Marks
<1>2. NoOne \in Marks
  BY DEF Marks
<1>3. PICK top \in Marks : Settle(Closing, top)
  BY <1>1, <1>2 DEF Reset, ResetPermissionless
<1>4. Over /\ UNCHANGED <<slot, var, miner, pool_member, automation, referrer, config>>
  BY DEF Reset, ResetPermissionless
<1>5. Closing \in RoundRecord /\ Closing.slot_hash \in RngValues
  BY <1>4, ClosingType
<1> QED BY <1>3, <1>4, <1>5, SettleTypes DEF TypeOK, BoardRecord
-----------------------------------------------------------------------------
(* Checkpoints and closing preserve the types *)

\* Forfeiting preserves the types.
LEMMA CheckpointForfeitTypes ==
  ASSUME TypeOK, NEW m \in Miners, CheckpointForfeit(m)
  PROVE  TypeOK'
<1>1. miner[m] \in MinerRecord
  BY DEF TypeOK, CheckpointForfeit, Unsettled
<1>2. [miner[m] EXCEPT !.checkpoint_id = miner[m].round_id] \in MinerRecord
  BY <1>1 DEF MinerRecord
<1>3. miner' = [miner EXCEPT ![m] = [miner[m] EXCEPT !.checkpoint_id = miner[m].round_id]]
  BY DEF CheckpointForfeit, TypeOK
<1>4. miner' \in [Miners -> MinerRecord \cup {None}]
  BY <1>2, <1>3 DEF TypeOK
<1> QED BY <1>4 DEF CheckpointForfeit, TypeOK, Current

\* What a checkpoint pays in SOL is a natural.
LEMMA SolRewardType ==
  ASSUME NEW M \in MinerRecord, NEW R \in RoundRecord, R.slot_hash \in RngValues,
         R.slot_hash # Unavailable =>
           R.deployed[R.slot_hash.square] >= M.deployed[R.slot_hash.square]
  PROVE  SolReward(M, R) \in Nat
<1> DEFINE w == R.slot_hash.square
           d == M.deployed[w]
<1>1. M.deployed \in Sqs /\ R.deployed \in Sqs /\ R.total_winnings \in Nat
  BY DEF MinerRecord, RoundRecord
<1>2. CASE R.slot_hash = Unavailable
  <2>1. Sum(M.deployed, NumSquares) \in Nat
    BY <1>1, SumNat, ConstantTypes DEF Sqs, Squares
  <2> QED BY <1>2, <2>1 DEF SolReward
<1>3. CASE R.slot_hash # Unavailable /\ d = 0
  BY <1>3 DEF SolReward
<1>4. CASE R.slot_hash # Unavailable /\ d # 0
  <2>1. w \in Squares
    BY <1>4, RngType
  <2>2. d \in Nat \ {0} /\ R.deployed[w] \in Nat \ {0}
    BY <1>1, <1>4, <2>1 DEF Sqs
  <2>3. d - AtLeast(PlayFee(d), 1) \in Nat
    <3> HIDE DEF d
    <3>1. PlayFee(d) \in Nat /\ PlayFee(d) <= d
      BY <2>2, FeeTypes
    <3> QED BY <2>2, <3>1 DEF AtLeast
  <2>4. ShareOf(R.total_winnings, d, R.deployed[w]) \in Nat
    <3> HIDE DEF d, w
    <3> QED BY <1>1, <2>2, ShareOfNat
  <2>5. SolReward(M, R) = d - AtLeast(PlayFee(d), 1)
                          + ShareOf(R.total_winnings, d, R.deployed[w])
    BY <1>4 DEF SolReward
  <2> HIDE DEF d, w
  <2> QED BY <2>3, <2>4, <2>5
<1> QED BY <1>2, <1>3, <1>4

\* The two parts of what a checkpoint pays in GODL to a winner are naturals.
LEMMA BlockRewardType ==
  ASSUME TypeOK, NEW m \in Miners, miner[m] # None,
         NEW k \in RoundIds, round[k] # None, NEW pooled \in BOOLEAN,
         round[k].slot_hash \in RngValues, round[k].slot_hash # Unavailable,
         miner[m].deployed[round[k].slot_hash.square] # 0,
         round[k].deployed[round[k].slot_hash.square]
           >= miner[m].deployed[round[k].slot_hash.square]
  PROVE  /\ BlockReward(m, k, pooled) \in Nat
         /\ ShareOf(round[k].motherlode, miner[m].deployed[round[k].slot_hash.square],
                    round[k].deployed[round[k].slot_hash.square]) \in Nat
<1> DEFINE R == round[k]
           w == R.slot_hash.square
           d == miner[m].deployed[w]
<1>1. R \in RoundRecord /\ miner[m] \in MinerRecord
  BY DEF TypeOK
<1>2. /\ miner[m].deployed \in Sqs /\ R.deployed \in Sqs
      /\ R.top_miner_reward \in Nat /\ R.motherlode \in Nat
  BY <1>1 DEF MinerRecord, RoundRecord
<1>3. w \in Squares
  BY RngType
<1>4. d \in Nat \ {0} /\ R.deployed[w] \in Nat \ {0}
  BY <1>2, <1>3 DEF Sqs
<1>5. /\ ShareOf(R.top_miner_reward, d, R.deployed[w]) \in Nat
      /\ ShareOf(R.motherlode, d, R.deployed[w]) \in Nat
  <2> HIDE DEF R, d, w
  <2> QED BY <1>2, <1>4, ShareOfNat
<1>6. ASSUME InPool(m, k, w), pool_round[k] # None, pool_round[k].deployed[w] > 0
      PROVE  ShareOf(R.top_miner_reward, pool_member[m].deployed[w],
                     pool_round[k].deployed[w]) \in Nat
  <2>1. pool_member[m] \in PoolMemberRecord /\ pool_round[k] \in PoolRoundRecord
    BY <1>6 DEF InPool, TypeOK
  <2>2. pool_member[m].deployed[w] \in Nat /\ pool_round[k].deployed[w] \in Nat \ {0}
    <3>1. pool_member[m].deployed \in Sqs /\ pool_round[k].deployed \in Sqs
      BY <2>1 DEF PoolMemberRecord, PoolRoundRecord
    <3> QED BY <1>3, <1>6, <3>1 DEF Sqs
  <2> HIDE DEF R, w
  <2> QED BY <1>2, <2>2, ShareOfNat
<1>7. CASE R.top_miner = SPLIT_ADDRESS
  BY <1>5, <1>7, MarksAssumption DEF BlockReward
<1>8. CASE R.top_miner = POOL_ADDRESS
  BY <1>5, <1>6, <1>8, MarksAssumption DEF BlockReward
<1>9. CASE R.top_miner \notin {SPLIT_ADDRESS, POOL_ADDRESS}
  BY <1>2, <1>5, <1>9 DEF BlockReward
<1> QED BY <1>7, <1>8, <1>9

\* What a checkpoint pays in GODL is a natural.
LEMMA GodlRewardType ==
  ASSUME TypeOK, NEW m \in Miners, miner[m] # None,
         NEW k \in RoundIds, round[k] # None, NEW pooled \in BOOLEAN,
         round[k].slot_hash \in RngValues,
         round[k].slot_hash # Unavailable =>
           round[k].deployed[round[k].slot_hash.square]
             >= miner[m].deployed[round[k].slot_hash.square]
  PROVE  GodlReward(m, k, pooled) \in Nat
<1> DEFINE R == round[k]
           w == R.slot_hash.square
           d == miner[m].deployed[w]
<1>1. CASE R.slot_hash = Unavailable \/ d = 0
  BY <1>1 DEF GodlReward
<1>2. CASE ~ (R.slot_hash = Unavailable \/ d = 0)
  <2>1. BlockReward(m, k, pooled) \in Nat /\ ShareOf(R.motherlode, d, R.deployed[w]) \in Nat
    BY <1>2, BlockRewardType
  <2>2. GodlReward(m, k, pooled)
          = BlockReward(m, k, pooled) + ShareOf(R.motherlode, d, R.deployed[w])
    BY <1>2 DEF GodlReward
  <2> HIDE DEF R, d, w
  <2> QED BY <2>1, <2>2
<1> QED BY <1>1, <1>2

\* A checkpoint preserves the types: fee, share and bot fee subtract at most what there is.
LEMMA CheckpointTypes ==
  ASSUME TypeOK, NEW m \in Miners, NEW pooled \in BOOLEAN, Checkpoint(m, pooled)
  PROVE  TypeOK' /\ miner'[m] \in MinerRecord
<1> DEFINE k == miner[m].round_id
           M == miner[m]
           R == round[k]
           sol == SolReward(M, R)
           godl == GodlReward(m, k, pooled)
           fee == M.checkpoint_fee - BotFee(m, k)
           rewards_sol == M.rewards_sol + sol
           rewards_godl == M.rewards_godl + godl
           cash == M.lamports + sol - BotFee(m, k)
           left == R.lamports - sol
           unclaimed == treasury.total_unclaimed + godl
           paid == [M EXCEPT !.checkpoint_id = k, !.checkpoint_fee = fee,
                             !.rewards_sol = rewards_sol, !.rewards_godl = rewards_godl,
                             !.lamports = cash]
           S == [R EXCEPT !.lamports = left, !.top_miner = TopMinerAfter(m, k)]
<1>1. M # None /\ k \in RoundIds /\ R # None /\ k # board.round_id
  BY DEF Checkpoint, Unsettled, Finished
<1>2. M \in MinerRecord /\ R \in RoundRecord
  BY <1>1 DEF TypeOK
<1>3. /\ R.slot_hash \in RngValues
      /\ R.slot_hash # Unavailable =>
           R.deployed[R.slot_hash.square] >= M.deployed[R.slot_hash.square]
  <2>1. R.slot_hash \in RngValues \cup {None} /\ R.slot_hash # None
    BY <1>2 DEF RoundRecord, Checkpoint
  <2> QED BY <2>1 DEF Checkpoint
<1>4. sol \in Nat
  BY <1>2, <1>3, SolRewardType
<1>5. godl \in Nat
  BY <1>1, <1>3, GodlRewardType
<1>6. M.checkpoint_fee \in Nat /\ M.rewards_sol \in Nat /\ M.rewards_godl \in Nat
      /\ M.lamports \in Int /\ k \in Nat /\ R.lamports \in Int
  BY <1>2 DEF MinerRecord, RoundRecord
<1>7. BotFee(m, k) \in {0, M.checkpoint_fee}
  BY DEF BotFee
<1>8. fee \in Nat /\ rewards_sol \in Nat /\ rewards_godl \in Nat /\ cash \in Int /\ left \in Int
  <2> HIDE DEF M, R, k, sol, godl
  <2> QED BY <1>4, <1>5, <1>6, <1>7
<1>9. paid \in MinerRecord
  <2> HIDE DEF M, k, fee, rewards_sol, rewards_godl, cash
  <2> QED BY <1>2, <1>6, <1>8 DEF MinerRecord
<1>10. TopMinerAfter(m, k) \in Marks
  BY <1>2 DEF TopMinerAfter, Marks, RoundRecord
<1>11. S \in RoundRecord
  <2> HIDE DEF R, left
  <2> QED BY <1>2, <1>8, <1>10 DEF RoundRecord, Marks
<1>12. /\ miner' = [miner EXCEPT ![m] = paid]
       /\ treasury' = [treasury EXCEPT !.total_unclaimed = unclaimed]
       /\ UNCHANGED <<slot, board, var, pool_round, pool_member, automation, referrer,
                      sol_motherlode, supply, config>>
  BY DEF Checkpoint
<1>13. round' = [round EXCEPT ![k] = S]
  <2>1. round' = [round EXCEPT ![k].lamports = @ - sol, ![k].top_miner = TopMinerAfter(m, k)]
    BY DEF Checkpoint
  <2> HIDE DEF sol, k
  <2> QED BY <1>1, <2>1 DEF TypeOK
<1>14. /\ miner' \in [Miners -> MinerRecord \cup {None}]
       /\ miner'[m] \in MinerRecord
  <2> HIDE DEF paid
  <2> QED BY <1>9, <1>12 DEF TypeOK
<1>15. /\ round' \in [RoundIds -> RoundRecord \cup {None}]
       /\ round'[board.round_id] = round[board.round_id]
  <2> HIDE DEF S, k
  <2> QED BY <1>1, <1>11, <1>13 DEF TypeOK
<1>16. treasury' \in [balance : Nat, lamports : Nat, motherlode : Nat,
                      total_unclaimed : Nat, tokens : Nat]
  <2>1. unclaimed \in Nat
    <3> HIDE DEF godl
    <3> QED BY <1>5 DEF TypeOK
  <2> HIDE DEF unclaimed
  <2> QED BY <1>12, <2>1 DEF TypeOK
<1> QED BY <1>12, <1>14, <1>15, <1>16 DEF TypeOK, Current

\* Closing a round of the past preserves the types and the current round.
LEMMA CloseTypes ==
  ASSUME TypeOK, NEW k \in RoundIds, Close(k)
  PROVE  TypeOK'
<1> DEFINE unclaimed == AtLeast(round[k].lamports, 0)
           balance == treasury.balance + unclaimed
           cash == treasury.lamports + unclaimed
<1>1. k # board.round_id /\ round[k] \in RoundRecord
  <2>1. k < board.round_id /\ round[k] # None
    BY DEF Close, Closable
  <2> QED BY <2>1, CurrentType DEF TypeOK, RoundIds
<1>2. unclaimed \in Nat
  <2>1. round[k].lamports \in Int
    BY <1>1 DEF RoundRecord
  <2> QED BY <2>1 DEF AtLeast
<1>3. balance \in Nat /\ cash \in Nat
  <2> HIDE DEF unclaimed
  <2> QED BY <1>2 DEF TypeOK
<1>4. treasury' = [treasury EXCEPT !.balance = balance, !.lamports = cash]
  BY DEF Close
<1>5. treasury' \in [balance : Nat, lamports : Nat, motherlode : Nat,
                     total_unclaimed : Nat, tokens : Nat]
  <2> HIDE DEF balance, cash
  <2> QED BY <1>3, <1>4 DEF TypeOK
<1>6. /\ round' = [round EXCEPT ![k] = None]
      /\ pool_round' = [pool_round EXCEPT ![k] = None]
      /\ UNCHANGED <<slot, board, var, miner, pool_member, automation, referrer,
                     sol_motherlode, supply, config>>
  BY DEF Close
<1>7. /\ round' \in [RoundIds -> RoundRecord \cup {None}]
      /\ round'[board.round_id] = round[board.round_id]
      /\ pool_round' \in [RoundIds -> PoolRoundRecord \cup {None}]
      /\ pool_round'[board.round_id] = pool_round[board.round_id]
  BY <1>1, <1>6, CurrentType DEF TypeOK
<1> QED BY <1>5, <1>6, <1>7 DEF TypeOK, Current
-----------------------------------------------------------------------------
(* Referrers, settings and the vaults preserve the types *)

\* What the referrer's instructions leave alone.
LEMMA ReferralsTypes ==
  ASSUME TypeOK, RoundsUntouched,
         miner' \in [Miners -> MinerRecord \cup {None}],
         referrer' \in [Referrers -> ReferrerRecord \cup {None}]
  PROVE  TypeOK'
BY DEF RoundsUntouched, TypeOK, Current

\* Opening a Referrer account and claiming its SOL preserve the types.
LEMMA ReferrerTypes ==
  ASSUME TypeOK, NEW r \in Referrers, InitializeReferrer(r) \/ ClaimReferral(r)
  PROVE  TypeOK'
<1>1. CASE InitializeReferrer(r)
  <2>1. referrer' \in [Referrers -> ReferrerRecord \cup {None}]
    BY <1>1, NewTypes DEF InitializeReferrer, TypeOK
  <2> QED BY <1>1, <2>1, ReferralsTypes DEF InitializeReferrer, TypeOK
<1>2. CASE ClaimReferral(r)
  <2> DEFINE purse == referrer[r].lamports - referrer[r].rewards_sol
             S == [referrer[r] EXCEPT !.rewards_sol = 0, !.lamports = purse]
  <2>1. referrer[r] \in ReferrerRecord /\ purse \in Nat
    BY <1>2 DEF ClaimReferral, TypeOK, ReferrerRecord
  <2>2. S \in ReferrerRecord
    <3> HIDE DEF purse
    <3> QED BY <2>1 DEF ReferrerRecord
  <2>3. referrer' = [referrer EXCEPT ![r] = S]
    BY <1>2 DEF ClaimReferral, TypeOK
  <2>4. referrer' \in [Referrers -> ReferrerRecord \cup {None}]
    <3> HIDE DEF S
    <3> QED BY <2>2, <2>3 DEF TypeOK
  <2> QED BY <1>2, <2>4, ReferralsTypes DEF ClaimReferral, TypeOK
<1> QED BY <1>1, <1>2

\* A miner's choice of a referrer preserves the types.
LEMMA SetReferrerTypes ==
  ASSUME TypeOK, NEW m \in Claimants,
         SetNoReferrer(m) \/ \E r \in Referrers : SetReferrer(m, r)
  PROVE  TypeOK'
<1>1. m \in Miners /\ miner[m] \in MinerRecord
  BY SizesAssumption DEF SetNoReferrer, SetReferrer, Unreferred, TypeOK
<1>2. CASE SetNoReferrer(m)
  <2>1. miner' = [miner EXCEPT ![m] = [miner[m] EXCEPT !.referrer = LOCKED]]
    BY <1>1, <1>2 DEF SetNoReferrer, TypeOK
  <2>2. [miner[m] EXCEPT !.referrer = LOCKED] \in MinerRecord
    BY <1>1 DEF MinerRecord
  <2> QED BY <1>1, <1>2, <2>1, <2>2, ReferralsTypes DEF SetNoReferrer, TypeOK
<1>3. ASSUME NEW r \in Referrers, SetReferrer(m, r) PROVE TypeOK'
  <2> DEFINE count == referrer[r].referrer_count + 1
             S == [referrer[r] EXCEPT !.referrer_count = count]
             N == [miner[m] EXCEPT !.referrer = r]
  <2>1. referrer[r] \in ReferrerRecord /\ count \in Nat
    BY <1>3 DEF SetReferrer, TypeOK, ReferrerRecord
  <2>2. S \in ReferrerRecord
    <3> HIDE DEF count
    <3> QED BY <2>1 DEF ReferrerRecord
  <2>3. N \in MinerRecord
    BY <1>1 DEF MinerRecord
  <2>4. /\ referrer' = [referrer EXCEPT ![r] = S]
        /\ miner' = [miner EXCEPT ![m] = N]
    BY <1>1, <1>3 DEF SetReferrer, TypeOK
  <2>5. /\ miner' \in [Miners -> MinerRecord \cup {None}]
        /\ referrer' \in [Referrers -> ReferrerRecord \cup {None}]
    <3> HIDE DEF S, N
    <3> QED BY <1>1, <2>2, <2>3, <2>4 DEF TypeOK
  <2> QED BY <1>3, <2>5, ReferralsTypes DEF SetReferrer
<1> QED BY <1>2, <1>3

\* The admin's settings preserve the types.
LEMMA SettingsTypes ==
  ASSUME TypeOK,
         \/ \E rate \in Rates : SetGodlPerRound(rate)
         \/ \E denominator \in Denominators : SetMotherlodeDenominator(denominator)
         \/ \E t \in Timings : UpdateProtocolConfig(t)
  PROVE  TypeOK'
<1>1. config \in ConfigRecord
  BY DEF TypeOK
<1>2. config' \in ConfigRecord
  <2>1. ASSUME NEW rate \in Rates, SetGodlPerRound(rate) PROVE config' \in ConfigRecord
    BY <1>1, <2>1, AdminAssumption DEF SetGodlPerRound, ConfigRecord
  <2>2. ASSUME NEW denominator \in Denominators, SetMotherlodeDenominator(denominator)
        PROVE  config' \in ConfigRecord
    BY <1>1, <2>2, AdminAssumption DEF SetMotherlodeDenominator, ConfigRecord
  <2>3. ASSUME NEW t \in Timings, UpdateProtocolConfig(t) PROVE config' \in ConfigRecord
    <3>1. \A x \in 1 .. ONE_DAY_SLOTS : x \in 0 .. ONE_DAY_SLOTS
      BY ConstantTypes
    <3>2. /\ t.round_slots \in 1 .. ONE_DAY_SLOTS
          /\ t.intermission_slots \in 1 .. ONE_DAY_SLOTS
      BY <2>3 DEF UpdateProtocolConfig
    <3>3. /\ t.round_slots \in 0 .. ONE_DAY_SLOTS
          /\ t.intermission_slots \in 0 .. ONE_DAY_SLOTS
      BY <3>1, <3>2
    <3> QED BY <1>1, <2>3, <3>3 DEF UpdateProtocolConfig, ConfigRecord
  <2> QED BY <2>1, <2>2, <2>3
<1>3. SettingsOnly
  BY DEF SetGodlPerRound, SetMotherlodeDenominator, UpdateProtocolConfig
<1> QED BY <1>2, <1>3 DEF SettingsOnly, TypeOK, Current

\* Taking SOL out of the vaults preserves the types: it is there.
LEMMA VaultTypes ==
  ASSUME TypeOK,
         \/ \E amount \in Withdrawals : TakeFromVault(amount)
         \/ \E amount \in GoldBuys : PreBuyGold(amount)
  PROVE  TypeOK'
<1> DEFINE TreasuryRecord == [balance : Nat, lamports : Nat, motherlode : Nat,
                              total_unclaimed : Nat, tokens : Nat]
<1>1. treasury \in TreasuryRecord /\ sol_motherlode \in [amount : Nat, lamports : Nat]
  BY DEF TypeOK
<1>2. ASSUME NEW amount \in Withdrawals, TakeFromVault(amount)
      PROVE  treasury' \in TreasuryRecord /\ sol_motherlode' = sol_motherlode
  <2> DEFINE balance == treasury.balance - amount
             cash == treasury.lamports - amount
  <2>1. balance \in Nat /\ cash \in Nat
    <3>1. amount \in Nat /\ amount <= treasury.balance /\ amount <= treasury.lamports
      BY <1>2, AdminAssumption DEF TakeFromVault
    <3> QED BY <1>1, <3>1
  <2>2. treasury' = [treasury EXCEPT !.balance = balance, !.lamports = cash]
    BY <1>2 DEF TakeFromVault
  <2> HIDE DEF balance, cash
  <2> QED BY <1>1, <1>2, <2>1, <2>2 DEF TakeFromVault
<1>3. ASSUME NEW amount \in GoldBuys, PreBuyGold(amount)
      PROVE  sol_motherlode' \in [amount : Nat, lamports : Nat] /\ treasury' = treasury
  <2>1. sol_motherlode.amount - amount \in Nat /\ sol_motherlode.lamports - amount \in Nat
    BY <1>1, <1>3, AdminAssumption DEF PreBuyGold
  <2> QED BY <1>3, <2>1 DEF PreBuyGold
<1>4. VaultOnly
  BY DEF TakeFromVault, PreBuyGold
<1>5. treasury' \in TreasuryRecord /\ sol_motherlode' \in [amount : Nat, lamports : Nat]
  BY <1>1, <1>2, <1>3
<1> QED BY <1>4, <1>5 DEF VaultOnly, TypeOK, Current
-----------------------------------------------------------------------------
(* Type correctness *)

\* The first state is well typed.
LEMMA InitTypes == Init => TypeOK
<1> SUFFICES ASSUME Init PROVE TypeOK
  OBVIOUS
<1>1. 1 \in RoundIds
  BY ConstantTypes, SizesAssumption DEF RoundIds
<1>2. slot \in 0 .. MaxSlot
  BY ConstantTypes DEF Init
<1>3. board \in BoardRecord /\ board.round_id = 1
  BY <1>1, ConstantTypes DEF Init, BoardRecord
<1>4. /\ round \in [RoundIds -> RoundRecord \cup {None}]
      /\ round[1] \in RoundRecord
      /\ pool_round \in [RoundIds -> PoolRoundRecord \cup {None}]
      /\ pool_round[1] \in PoolRoundRecord
  BY <1>1, NewTypes DEF Init
<1>5. /\ miner \in [Miners -> MinerRecord \cup {None}]
      /\ pool_member \in [Miners -> PoolMemberRecord \cup {None}]
      /\ automation \in [Miners -> AutomationRecord \cup {None}]
  BY DEF Init
<1>6. /\ var \in RngValues \cup {None}
      /\ referrer \in [Referrers -> ReferrerRecord \cup {None}]
      /\ config \in ConfigRecord
      /\ treasury \in [balance : Nat, lamports : Nat, motherlode : Nat,
                       total_unclaimed : Nat, tokens : Nat]
      /\ sol_motherlode \in [amount : Nat, lamports : Nat]
      /\ supply \in Nat
  BY AdminAssumption, ConstantTypes DEF Init, ConfigRecord
<1> QED BY <1>2, <1>3, <1>4, <1>5, <1>6 DEF TypeOK, BoardRecord, Current

\* TypeOK is inductive: one case per action.
LEMMA NextTypes == TypeOK /\ [Next]_vars => TypeOK'
<1> SUFFICES ASSUME TypeOK, [Next]_vars PROVE TypeOK'
  OBVIOUS
<1>1. CASE Tick
  BY <1>1, ConstantTypes DEF Tick, TypeOK, Current
<1>2. ASSUME NEW value \in RngValues, Reveal(value) PROVE TypeOK'
  BY <1>2 DEF Reveal, TypeOK, Current
<1>3. ASSUME NEW m \in Miners, NEW squares \in Masks, NEW amount \in Amounts,
             NEW pooled \in PoolModes, Deploy(m, squares, amount, pooled)
      PROVE  TypeOK'
  BY <1>3, DeployTypes
<1>4. ASSUME NEW m \in Miners, NEW r \in Hashes, NEW squares \in SUBSET Squares,
             DeployByExecutor(m, r, squares)
      PROVE  TypeOK'
  BY <1>4, DeployByExecutorTypes
<1>5. ASSUME NEW m \in Miners, NEW r \in Hashes, NEW squares \in SUBSET Squares,
             DeployCancelled(m, r, squares)
      PROVE  TypeOK'
  BY <1>5, DeployCancelledTypes
<1>6. ASSUME NEW m \in Miners, NEW plan \in Plans, NEW deposit \in Deposits,
             Automate(m, plan, deposit)
      PROVE  TypeOK'
  BY <1>6, AutomateTypes
<1>7. ASSUME NEW m \in Miners, CloseAutomation(m) PROVE TypeOK'
  BY <1>7, CloseAutomationTypes
<1>8. ASSUME NEW m \in Miners, NEW deposit \in Deposits, FundAutomation(m, deposit)
      PROVE  TypeOK'
  BY <1>8, FundAutomationTypes
<1>9. ASSUME NEW m \in Claimants, ClaimSol(m) PROVE TypeOK'
  BY <1>9, ClaimSolTypes
<1>10. ASSUME NEW m \in Claimants, ClaimSolAndFundAutomation(m) PROVE TypeOK'
  BY <1>10, ClaimSolAndFundAutomationTypes
<1>11. ASSUME NEW candidate \in Miners \cup {None},
              Reset(candidate) \/ ResetPermissionless(candidate)
       PROVE  TypeOK'
  BY <1>11, ResetTypes
<1>12. ASSUME NEW m \in Miners, NEW pooled \in BOOLEAN, Checkpoint(m, pooled) PROVE TypeOK'
  BY <1>12, CheckpointTypes
<1>13. ASSUME NEW m \in Miners, CheckpointForfeit(m) PROVE TypeOK'
  BY <1>13, CheckpointForfeitTypes
<1>14. ASSUME NEW k \in RoundIds, Close(k) PROVE TypeOK'
  BY <1>14, CloseTypes
<1>15. CASE UNCHANGED vars
  BY <1>15 DEF vars, TypeOK, Current
<1>16. ASSUME NEW r \in Referrers, InitializeReferrer(r) \/ ClaimReferral(r)
       PROVE  TypeOK'
  BY <1>16, ReferrerTypes
<1>17. ASSUME NEW m \in Claimants, SetNoReferrer(m) \/ \E r \in Referrers : SetReferrer(m, r)
       PROVE  TypeOK'
  BY <1>17, SetReferrerTypes
<1>18. CASE \/ \E rate \in Rates : SetGodlPerRound(rate)
            \/ \E denominator \in Denominators : SetMotherlodeDenominator(denominator)
            \/ \E t \in Timings : UpdateProtocolConfig(t)
  BY <1>18, SettingsTypes
<1>19. CASE \/ \E amount \in Withdrawals : TakeFromVault(amount)
            \/ \E amount \in GoldBuys : PreBuyGold(amount)
  BY <1>19, VaultTypes
<1> QED BY <1>1, <1>2, <1>3, <1>4, <1>5, <1>6, <1>7, <1>8, <1>9, <1>10, <1>11,
           <1>12, <1>13, <1>14, <1>15, <1>16, <1>17, <1>18, <1>19 DEF Next

\* Every account keeps its declared type in every reachable state, whatever the
\* instructions and their order; in particular no amount that process_reset or
\* process_checkpoint subtracts exceeds what it is subtracted from.
THEOREM TypesAreCorrect == Spec => []TypeOK
BY InitTypes, NextTypes, PTL DEF Spec
-----------------------------------------------------------------------------
(* The random mask *)

\* What generate_random_mask has taken before it looks at square i.
TakenBefore(squares, i) == Cardinality({j \in squares : j < i})

\* Before the first square nothing is taken; each square adds itself at most.
LEMMA TakenSteps ==
  ASSUME NEW squares \in SUBSET Squares
  PROVE  /\ TakenBefore(squares, 1) = 0
         /\ TakenBefore(squares, NumSquares + 1) = Cardinality(squares)
         /\ \A i \in Squares :
              /\ TakenBefore(squares, i) \in Nat
              /\ TakenBefore(squares, i + 1)
                   = TakenBefore(squares, i) + IF i \in squares THEN 1 ELSE 0
<1>1. NumSquares \in Nat
  BY ConstantTypes
<1>2. IsFiniteSet(squares)
  <2>1. IsFiniteSet(1 .. NumSquares)
    BY FS_Interval, <1>1
  <2> QED BY <2>1, FS_Subset DEF Squares
<1> DEFINE Low(i) == {j \in squares : j < i}
<1>3. Low(1) = {} /\ Low(NumSquares + 1) = squares
  <2>1. \A j \in squares : j \in Nat /\ ~(j < 1) /\ j < NumSquares + 1
    BY <1>1 DEF Squares
  <2> QED BY <2>1
<1>4. ASSUME NEW i \in Squares
      PROVE  /\ TakenBefore(squares, i) \in Nat
             /\ TakenBefore(squares, i + 1)
                  = TakenBefore(squares, i) + IF i \in squares THEN 1 ELSE 0
  <2> DEFINE B == {j \in squares : j < i}
             A == {j \in squares : j < i + 1}
  <2>1. IsFiniteSet(B)
    BY <1>2, FS_Subset
  <2>2. Cardinality(B) \in Nat
    BY <2>1, FS_CardinalityType
  <2>3. CASE i \in squares
    <3>1. A = B \cup {i} /\ i \notin B
      <4>1. \A j \in squares : j \in Nat /\ (j < i + 1 <=> j < i \/ j = i)
        BY <1>1 DEF Squares
      <4>2. i \in Nat
        BY <1>1 DEF Squares
      <4>3. ~(i < i)
        BY <4>2
      <4>4. \A j : j \in A <=> j \in B \/ j = i
        BY <2>3, <4>1
      <4> QED BY <4>3, <4>4, Zenon
    <3>2. Cardinality(A) = Cardinality(B) + 1
      <4> HIDE DEF A, B
      <4> QED BY <2>1, <3>1, FS_AddElement
    <3> QED BY <2>2, <2>3, <3>2 DEF TakenBefore
  <2>4. CASE i \notin squares
    <3>1. A = B
      <4>1. \A j \in squares : j \in Nat /\ j # i /\ (j < i + 1 <=> j < i \/ j = i)
        BY <1>1, <2>4 DEF Squares
      <4> QED BY <4>1
    <3> QED BY <2>2, <2>4, <3>1 DEF TakenBefore
  <2> QED BY <2>3, <2>4
<1> QED BY <1>3, <1>4, FS_EmptySet DEF TakenBefore

\* A byte is less than the scale: as long as every square left is needed, the
\* test of generate_random_mask cannot refuse one.
LEMMA ByteTest ==
  ASSUME NEW b \in 0 .. 255, NEW left \in Nat, left > 0
  PROVE  b * left < left * 256
OBVIOUS

\* Whatever the hash, generate_random_mask (deploy.rs:330) takes exactly as many
\* squares as it is asked for, when there are that many.
THEOREM RandomMaskFills ==
  ASSUME NEW num \in Nat, num <= NumSquares, NEW r \in [Squares -> 0 .. 255],
         NEW squares \in SUBSET Squares, IsRandomMask(num, r, squares)
  PROVE  Cardinality(squares) = num
<1> DEFINE taken(i) == TakenBefore(squares, i)
           Fits(i) == /\ taken(i) \in Nat /\ taken(i) <= num
                      /\ num - taken(i) <= NumSquares + 1 - i
           Bad == {i \in 1 .. NumSquares + 1 : ~Fits(i)}
<1>1. NumSquares \in Nat
  BY ConstantTypes
<1>2. Fits(1)
  BY <1>1, TakenSteps
<1>3. ASSUME NEW i \in Squares, Fits(i) PROVE Fits(i + 1)
  <2> DEFINE needed == num - taken(i)
             left == NumSquares - i + 1
  <2>1. i \in 1 .. NumSquares
    BY DEF Squares
  <2>2. i \in squares <=> needed > 0 /\ r[i] * left < needed * 256
    BY DEF IsRandomMask, TakenBefore
  <2>3. taken(i + 1) = taken(i) + IF i \in squares THEN 1 ELSE 0
    BY TakenSteps
  <2>4. needed \in Nat /\ left \in Nat /\ left > 0 /\ needed <= left
    BY <1>1, <1>3, <2>1
  <2>5. needed = left => i \in squares
    <3>1. r[i] \in 0 .. 255
      OBVIOUS
    <3>2. r[i] * left < left * 256
      <4> HIDE DEF left
      <4> QED BY <2>4, <3>1, ByteTest
    <3> HIDE DEF needed, left
    <3> QED BY <2>2, <2>4, <3>2
  <2>6. i \in squares => needed > 0
    BY <2>2
  <2> HIDE DEF Bad
  <2> QED BY <1>1, <1>3, <2>1, <2>3, <2>4, <2>5, <2>6
<1>4. Bad = {}
  <2> SUFFICES ASSUME Bad # {} PROVE FALSE
    OBVIOUS
  <2>1. PICK i \in Bad : \A k \in Bad : i <= k
    <3>1. Bad \subseteq Nat
      BY <1>1
    <3> HIDE DEF Bad
    <3> QED BY <3>1, NatMin
  <2>2. i \in 1 .. NumSquares + 1 /\ ~Fits(i)
    OBVIOUS
  <2> HIDE DEF Fits
  <2>3. i # 1
    BY <1>2, <2>2
  <2>4. i - 1 \in Squares /\ i - 1 \in 1 .. NumSquares + 1 /\ i - 1 + 1 = i /\ ~(i <= i - 1)
    BY <1>1, <2>2, <2>3 DEF Squares
  <2>5. Fits(i - 1)
    BY <2>1, <2>4
  <2> QED BY <1>3, <2>2, <2>4, <2>5
<1>5. NumSquares + 1 \in 1 .. NumSquares + 1
  BY <1>1
<1>6. Fits(NumSquares + 1)
  <2> HIDE DEF Fits
  <2> QED BY <1>4, <1>5
<1>7. taken(NumSquares + 1) = Cardinality(squares)
  BY TakenSteps
<1> QED BY <1>1, <1>6, <1>7

\* Only a deploy by the executor takes from the balance of an automation.
LEMMA OnlyDeploysSpend ==
  ASSUME TypeOK, [Next]_vars, NEW m \in Miners,
         automation[m] # None, automation'[m] # None,
         automation'[m].balance < automation[m].balance
  PROVE  \E r \in Hashes, squares \in SUBSET Squares : DeployByExecutor(m, r, squares)
<1> DEFINE Kept == automation'[m] = automation[m]
           Grew == automation'[m].balance >= automation[m].balance
<1>1. automation[m].balance \in Nat /\ automation \in [Miners -> AutomationRecord \cup {None}]
  BY AutomationType DEF TypeOK
<1>2. ~Kept /\ ~Grew
  <2>1. automation'[m] = automation[m] => ~(automation'[m].balance < automation[m].balance)
    BY <1>1
  <2>3. automation'[m].balance \in Nat
    BY NextTypes DEF TypeOK, AutomationRecord
  <2> QED BY <1>1, <2>1, <2>3
<1>3. ASSUME NEW n \in Miners, NEW r \in Hashes, NEW squares \in SUBSET Squares,
             DeployByExecutor(n, r, squares)
      PROVE  n = m
  <2> SUFFICES ASSUME n # m PROVE Kept
    BY <1>2
  <2> QED BY <1>1, <1>3 DEF DeployByExecutor
<1>4. ASSUME NEW n \in Miners, NEW r \in Hashes, NEW squares \in SUBSET Squares,
             DeployCancelled(n, r, squares)
      PROVE  FALSE
  BY <1>1, <1>2, <1>4 DEF DeployCancelled
<1>5. ASSUME NEW n \in Miners, NEW plan \in Plans, NEW deposit \in Deposits,
             Automate(n, plan, deposit)
      PROVE  FALSE
  <2>1. deposit \in Nat
    BY SizesAssumption
  <2> QED BY <1>1, <1>2, <1>5, <2>1 DEF Automate
<1>6. ASSUME NEW n \in Miners, CloseAutomation(n) PROVE FALSE
  BY <1>1, <1>2, <1>6 DEF CloseAutomation
<1>7. ASSUME NEW n \in Miners, NEW sol \in Nat, automation[n] # None,
             automation' = [automation EXCEPT ![n].balance = @ + sol, ![n].lamports = @ + sol]
      PROVE  FALSE
  <2>1. CASE n # m
    BY <1>1, <1>2, <1>7, <2>1
  <2>2. CASE n = m
    <3>1. automation[m] \in AutomationRecord
      BY <1>1
    <3>2. automation'[m].balance = automation[m].balance + sol
      BY <1>1, <1>7, <2>2, <3>1 DEF AutomationRecord
    <3> QED BY <1>1, <1>2, <3>2
  <2> QED BY <2>1, <2>2
<1>8. ASSUME NEW n \in Miners, NEW deposit \in Deposits, FundAutomation(n, deposit)
      PROVE  FALSE
  BY <1>7, <1>8, SizesAssumption DEF FundAutomation
<1>9. ASSUME NEW n \in Claimants, ClaimSolAndFundAutomation(n) PROVE FALSE
  <2> DEFINE bps == REFERRAL_BPS \div 10
             rest == miner[n].rewards_sol - ReferralCut(n, bps)
  <2>1. n \in Miners /\ miner[n] # None /\ automation[n] # None
    BY <1>9, SizesAssumption DEF ClaimSolAndFundAutomation
  <2>2. bps \in Nat /\ bps <= DENOMINATOR_BPS
    BY ConstantTypes, FeesAssumption
  <2>3. rest \in Nat
    <3> HIDE DEF bps
    <3> QED BY <2>1, <2>2, ReferralCutType
  <2>4. automation' = [automation EXCEPT ![n].balance = @ + rest, ![n].lamports = @ + rest]
    BY <1>9 DEF ClaimSolAndFundAutomation
  <2> HIDE DEF rest
  <2> QED BY <1>7, <2>1, <2>3, <2>4
<1>10. UNCHANGED automation => FALSE
  BY <1>2
<1> HIDE DEF Kept, Grew
<1> QED BY <1>3, <1>4, <1>5, <1>6, <1>8, <1>9, <1>10
    DEF Next, vars, Tick, Reveal, Deploy, ClaimSol, InitializeReferrer, ClaimReferral,
        SetNoReferrer, SetReferrer, RoundsUntouched, SetGodlPerRound,
        SetMotherlodeDenominator, UpdateProtocolConfig, SettingsOnly, TakeFromVault,
        PreBuyGold, VaultOnly, Reset, ResetPermissionless, Checkpoint, CheckpointForfeit, Close

\* Whoever enters a round starts with nothing deployed in it.
LEMMA EnteredEmpty ==
  ASSUME TypeOK, NEW m \in Miners, MayEnter(m)
  PROVE  EnteredMiner(m).deployed = Zero
<1>1. OpenedMiner(m) \in MinerRecord
  BY OpenedMinerType
<1> QED BY <1>1 DEF MayEnter, EnteredMiner, MinerRecord

\* An automation with a random strategy plays the number of squares its
\* authority asked for, and pays for exactly that many (deploy.rs:101-128).
THEOREM RandomPlansFill == Spec => RandomPlanFills
<1>1. ASSUME TypeOK, [Next]_vars, NEW m \in Miners, SpendsRandomPlan(m)
      PROVE  FillsPlan(m)
  <2> USE DEF SpendsRandomPlan
  <2>1. PICK r \in Hashes, squares \in SUBSET Squares : DeployByExecutor(m, r, squares)
    BY <1>1, OnlyDeploysSpend, Zenon
  <2> DEFINE plan == automation[m].plan
             wanted == AtMost(plan.num_squares, NumSquares)
             cost == plan.amount * wanted + plan.fee
             left == [automation[m] EXCEPT !.balance = @ - cost, !.lamports = @ - cost]
  <2>2. automation[m] \in AutomationRecord /\ automation \in [Miners -> AutomationRecord \cup {None}]
    BY <1>1 DEF TypeOK
  <2>3. plan.amount \in Nat /\ plan.fee \in Nat /\ plan.num_squares \in Nat
    BY <2>2, SizesAssumption DEF AutomationRecord
  <2>4. wanted \in Nat /\ wanted <= NumSquares
    BY <2>3, ConstantTypes DEF AtMost
  <2>5. Cardinality(squares) = wanted
    <3>1. IsRandomMask(wanted, r, squares)
      BY <1>1, <2>1 DEF DeployByExecutor, PlanPicks
    <3>2. r \in [Squares -> 0 .. 255]
      BY SizesAssumption
    <3> HIDE DEF wanted
    <3> QED BY <2>4, <3>1, <3>2, RandomMaskFills
  <2>6. Place(m, squares, plan.amount, plan.is_pooled)
    BY <2>1 DEF DeployByExecutor
  <2>7. {s \in Squares : miner'[m].deployed[s] > 0} = squares
    <3>1. EnteredMiner(m) \in MinerRecord /\ EnteredMiner(m).deployed = Zero
      BY <1>1, <2>6, EnteredMinerType, EnteredEmpty DEF Place
    <3>2. miner'[m] = DeployedMiner(m, squares, plan.amount)
      BY <1>1, <2>6 DEF Place, TypeOK
    <3>3. \A s \in Squares :
             miner'[m].deployed[s] = IF s \in squares THEN plan.amount ELSE 0
      BY <3>1, <3>2 DEF DeployedMiner, MinerRecord, Zero
    <3> QED BY <1>1, <2>3, <3>3
  <2>8. RoundCost(plan, squares) = cost
    BY <2>5 DEF RoundCost
  <2>9. automation'[m].balance = automation[m].balance - cost
    <3>1. automation'[m] \in {None, left}
      BY <2>1, <2>2, <2>8 DEF DeployByExecutor
    <3>2. left.balance = automation[m].balance - cost
      BY <2>2 DEF AutomationRecord
    <3> QED BY <1>1, <3>1, <3>2
  <2>10. automation[m].balance \in Nat /\ cost \in Nat
    <3> HIDE DEF wanted
    <3> QED BY <2>2, <2>3, <2>4 DEF AutomationRecord
  <2>11. automation[m].balance - automation'[m].balance = cost
    <3> HIDE DEF cost
    <3> QED BY <2>9, <2>10
  <2>12. Cardinality({s \in Squares : miner'[m].deployed[s] > 0}) = wanted
    BY <2>5, <2>7
  <2> QED BY <2>11, <2>12, Zenon DEF FillsPlan
<1>2. TypeOK /\ [Next]_vars => [\A m \in Miners : SpendsRandomPlan(m) => FillsPlan(m)]_vars
  BY <1>1
<1> QED BY <1>2, TypesAreCorrect, PTL DEF Spec, RandomPlanFills
-----------------------------------------------------------------------------
(* Referrers *)

\* The miners that name a referrer.
NamedBy(r) == {m \in Miners : miner[m] # None /\ miner[m].referrer = r}

\* No step but SetReferrer and SetNoReferrer changes whom a miner names, and
\* no step removes a referrer or changes its count.
SameReferrals ==
    /\ \A m \in Miners : (miner'[m] # None /\ miner'[m].referrer \in Referrers)
                            <=> (miner[m] # None /\ miner[m].referrer \in Referrers)
    /\ \A m \in Miners : miner[m] # None /\ miner[m].referrer \in Referrers =>
         miner'[m].referrer = miner[m].referrer
    /\ \A r \in Referrers : (referrer'[r] # None) <=> (referrer[r] # None)
    /\ \A r \in Referrers : referrer[r] # None =>
         referrer'[r].referrer_count = referrer[r].referrer_count

LEMMA SameReferralsKeep ==
  ASSUME ReferralsAreSound, SameReferrals
  PROVE  ReferralsAreSound'
<1>1. \A r \in Referrers : NamedBy(r)' = NamedBy(r)
  BY DEF NamedBy, SameReferrals
<1>2. \A r \in Referrers : referrer'[r] # None =>
         referrer'[r].referrer_count = Cardinality(NamedBy(r)')
  BY <1>1 DEF ReferralsAreSound, SameReferrals, NamedBy
<1>3. \A m \in Miners : miner'[m] # None /\ miner'[m].referrer \in Referrers =>
         miner'[m].referrer # m /\ referrer'[miner'[m].referrer] # None
  BY DEF ReferralsAreSound, SameReferrals, HasReferrer
<1> QED BY <1>2, <1>3 DEF ReferralsAreSound, HasReferrer, NamedBy

\* Every step but SetNoReferrer and SetReferrer keeps whom a miner names.
NamesKept == \A m \in Miners :
    \/ miner'[m] = miner[m]
    \/ miner'[m] # None /\ miner'[m].referrer = OpenedMiner(m).referrer

LEMMA NamesAreReferrals ==
  ASSUME NamesKept,
         \A r \in Referrers : (referrer'[r] # None) <=> (referrer[r] # None),
         \A r \in Referrers : referrer[r] # None =>
           referrer'[r].referrer_count = referrer[r].referrer_count
  PROVE  SameReferrals
<1>1. \A m \in Miners : miner[m] = None => OpenedMiner(m).referrer \notin Referrers
  BY MarksAssumption DEF OpenedMiner, NewMiner
<1>2. \A m \in Miners : miner[m] # None => OpenedMiner(m) = miner[m]
  BY DEF OpenedMiner
<1> QED BY <1>1, <1>2 DEF NamesKept, SameReferrals

\* A deployment, an automation and a checkpoint carry the name over.
LEMMA UpdatedName ==
  ASSUME TypeOK, NEW m \in Miners, NEW M \in MinerRecord,
         miner' = [miner EXCEPT ![m] = M], M.referrer = OpenedMiner(m).referrer
  PROVE  NamesKept
BY NoneAssumption DEF NamesKept, TypeOK

LEMMA DeployedName ==
  ASSUME TypeOK, NEW m \in Miners, NEW squares \in SUBSET Squares, NEW amount \in Nat
  PROVE  /\ EnteredMiner(m) \in MinerRecord
         /\ EnteredMiner(m).referrer = OpenedMiner(m).referrer
         /\ DeployedMiner(m, squares, amount) \in MinerRecord
         /\ DeployedMiner(m, squares, amount).referrer = OpenedMiner(m).referrer
<1>1. OpenedMiner(m) \in MinerRecord /\ EnteredMiner(m) \in MinerRecord
  BY OpenedMinerType, EnteredMinerType
<1>2. EnteredMiner(m).referrer = OpenedMiner(m).referrer
  BY <1>1 DEF EnteredMiner, MinerRecord
<1> DEFINE M == EnteredMiner(m)
           deployed == [s \in Squares |-> IF s \in squares THEN amount ELSE M.deployed[s]]
           cumulative == [s \in Squares |-> IF s \in squares THEN RangeStart(s) ELSE M.cumulative[s]]
           topUp == IF M.checkpoint_fee = 0 THEN CHECKPOINT_FEE ELSE 0
           fee == M.checkpoint_fee + topUp
           cash == M.lamports + topUp
           N == [M EXCEPT !.deployed = deployed, !.cumulative = cumulative,
                          !.checkpoint_fee = fee, !.lamports = cash]
<1>3. DeployedMiner(m, squares, amount) = N
  BY DEF DeployedMiner
<1>4. N.referrer = M.referrer
  <2> HIDE DEF M, deployed, cumulative, fee, cash
  <2> QED BY <1>1 DEF MinerRecord, M
<1> HIDE DEF N
<1> QED BY <1>1, <1>2, <1>3, <1>4, DeployedMinerType

\* A claim of SOL pays the referrer that the miner names, and keeps the name.
LEMMA PaidName ==
  ASSUME TypeOK, NEW m \in Miners, miner[m] # None, NEW cut \in Nat, PaySolOut(m, cut)
  PROVE  SameReferrals
<1>1. miner[m] \in MinerRecord /\ OpenedMiner(m) = miner[m]
  BY DEF TypeOK, OpenedMiner
<1>2. NamesKept
  <2> DEFINE cash == miner[m].lamports - miner[m].rewards_sol
             N == [miner[m] EXCEPT !.rewards_sol = 0, !.lamports = cash]
  <2>1. miner' = [miner EXCEPT ![m] = N]
    BY DEF PaySolOut, TypeOK
  <2>2. cash \in Int
    BY <1>1 DEF MinerRecord
  <2>3. N \in MinerRecord /\ N.referrer = miner[m].referrer
    <3> HIDE DEF cash
    <3> QED BY <1>1, <2>2 DEF MinerRecord
  <2> HIDE DEF N
  <2> QED BY <1>1, <2>1, <2>3, UpdatedName
<1>3. \A r \in Referrers : referrer[r] # None => referrer[r] \in ReferrerRecord
  BY DEF TypeOK
<1>4. \A r \in Referrers : /\ (referrer'[r] # None) <=> (referrer[r] # None)
                           /\ referrer[r] # None =>
                                referrer'[r].referrer_count = referrer[r].referrer_count
  <2>1. CASE ~HasReferrer(m)
    BY <2>1 DEF PaySolOut
  <2>2. CASE HasReferrer(m)
    <3> DEFINE h == miner[m].referrer
               S == referrer[h]
               owed == S.rewards_sol + cut
               held == S.lamports + cut
               T == [S EXCEPT !.rewards_sol = owed, !.lamports = held]
    <3>1. h \in Referrers /\ S \in ReferrerRecord
      BY <1>3, <2>2 DEF PaySolOut, HasReferrer
    <3>2. owed \in Nat /\ held \in Nat
      BY <3>1 DEF ReferrerRecord
    <3>3. T \in ReferrerRecord /\ T.referrer_count = S.referrer_count
      <4> HIDE DEF owed, held, S
      <4> QED BY <3>1, <3>2 DEF ReferrerRecord
    <3>4. referrer' = [referrer EXCEPT ![h] = T]
      <4>1. referrer' = [referrer EXCEPT ![h].rewards_sol = @ + cut, ![h].lamports = @ + cut]
        BY <2>2 DEF PaySolOut
      <4> HIDE DEF h
      <4> QED BY <3>1, <4>1 DEF TypeOK, ReferrerRecord
    <3>5. T # None
      BY <3>3, NoneAssumption
    <3>6. referrer'[h] = T /\ \A r \in Referrers \ {h} : referrer'[r] = referrer[r]
      <4> HIDE DEF T, h
      <4> QED BY <3>1, <3>4 DEF TypeOK
    <3>7. referrer[h] # None
      BY <2>2 DEF PaySolOut
    <3> HIDE DEF T, h
    <3> QED BY <3>3, <3>5, <3>6, <3>7 DEF S
  <2> QED BY <2>1, <2>2
<1> QED BY <1>2, <1>4, NamesAreReferrals

\* Deploys, automations and checkpoints.
LEMMA PlayersKeepNames ==
  ASSUME TypeOK, NEW m \in Miners,
         \/ \E squares \in Masks, amount \in Amounts, pooled \in PoolModes :
              Deploy(m, squares, amount, pooled)
         \/ \E r \in Hashes, squares \in SUBSET Squares : DeployByExecutor(m, r, squares)
         \/ \E r \in Hashes, squares \in SUBSET Squares : DeployCancelled(m, r, squares)
         \/ \E plan \in Plans, deposit \in Deposits : Automate(m, plan, deposit)
         \/ CloseAutomation(m)
         \/ CheckpointForfeit(m)
         \/ \E pooled \in BOOLEAN : Checkpoint(m, pooled)
  PROVE  SameReferrals
<1>1. OpenedMiner(m) \in MinerRecord
  BY OpenedMinerType
<1>2. UNCHANGED referrer
  BY DEF Deploy, DeployByExecutor, DeployCancelled, Automate, CloseAutomation,
         CheckpointForfeit, Checkpoint
<1>3. ASSUME NEW squares \in SUBSET Squares, NEW amount \in Nat, NEW pooled \in BOOLEAN,
             Place(m, squares, amount, pooled)
      PROVE  NamesKept
  BY <1>3, DeployedName, UpdatedName DEF Place
<1>4. ASSUME NEW squares \in Masks, NEW amount \in Amounts, NEW pooled \in PoolModes,
             Deploy(m, squares, amount, pooled)
      PROVE  NamesKept
  BY <1>3, <1>4, SizesAssumption DEF Deploy
<1>5. ASSUME NEW r \in Hashes, NEW squares \in SUBSET Squares, DeployByExecutor(m, r, squares)
      PROVE  NamesKept
  <2>1. automation[m].plan.amount \in Nat /\ automation[m].plan.is_pooled \in BOOLEAN
    <3>1. automation[m].plan \in Plans
      BY <1>5, AutomationType DEF DeployByExecutor
    <3> QED BY <3>1, SizesAssumption
  <2> QED BY <1>3, <1>5, <2>1 DEF DeployByExecutor
<1>6. ASSUME NEW r \in Hashes, NEW squares \in SUBSET Squares, DeployCancelled(m, r, squares)
      PROVE  NamesKept
  <2>1. 0 \in Nat /\ miner' = [miner EXCEPT ![m] = EnteredMiner(m)]
    BY <1>6 DEF DeployCancelled
  <2> QED BY <2>1, DeployedName, UpdatedName
<1>7. ASSUME NEW plan \in Plans, NEW deposit \in Deposits, Automate(m, plan, deposit)
      PROVE  NamesKept
  <2> DEFINE topUp == IF OpenedMiner(m).checkpoint_fee = 0 THEN CHECKPOINT_FEE ELSE 0
             fee == OpenedMiner(m).checkpoint_fee + topUp
             lamports == OpenedMiner(m).lamports + topUp
             M == [OpenedMiner(m) EXCEPT !.checkpoint_fee = fee, !.lamports = lamports]
  <2>1. miner' = [miner EXCEPT ![m] = M]
    BY <1>7 DEF Automate
  <2>2. fee \in Nat /\ lamports \in Int
    BY <1>1, ConstantTypes DEF MinerRecord
  <2>3. M \in MinerRecord /\ M.referrer = OpenedMiner(m).referrer
    <3> HIDE DEF fee, lamports
    <3> QED BY <1>1, <2>2 DEF MinerRecord
  <2> HIDE DEF M
  <2> QED BY <2>1, <2>3, UpdatedName
<1>8. ASSUME CloseAutomation(m) PROVE NamesKept
  BY <1>1, <1>8, UpdatedName DEF CloseAutomation
<1>9. ASSUME CheckpointForfeit(m) PROVE NamesKept
  <2> DEFINE M == [miner[m] EXCEPT !.checkpoint_id = miner[m].round_id]
  <2>1. miner[m] \in MinerRecord /\ OpenedMiner(m) = miner[m]
    BY <1>9 DEF CheckpointForfeit, Unsettled, TypeOK, OpenedMiner
  <2>2. miner' = [miner EXCEPT ![m] = M]
    BY <1>9, <2>1 DEF CheckpointForfeit, TypeOK
  <2>3. M \in MinerRecord /\ M.referrer = miner[m].referrer
    BY <2>1 DEF MinerRecord
  <2> HIDE DEF M
  <2> QED BY <2>1, <2>2, <2>3, UpdatedName
<1>10. ASSUME NEW pooled \in BOOLEAN, Checkpoint(m, pooled) PROVE NamesKept
  <2>1. miner[m] \in MinerRecord /\ OpenedMiner(m) = miner[m]
    BY <1>10 DEF Checkpoint, Unsettled, TypeOK, OpenedMiner
  <2>2. /\ miner'[m].referrer = miner[m].referrer
        /\ \A n \in Miners \ {m} : miner'[n] = miner[n]
    BY <1>10, <2>1 DEF Checkpoint, TypeOK, MinerRecord
  <2>3. miner'[m] # None
    BY <1>10, CheckpointTypes, NoneAssumption
  <2> QED BY <2>1, <2>2, <2>3 DEF NamesKept
<1>11. NamesKept
  BY <1>4, <1>5, <1>6, <1>7, <1>8, <1>9, <1>10, Zenon
<1> QED BY <1>2, <1>11, NamesAreReferrals

\* A choice adds one miner to those who name the referrer, and one to its count.
LEMMA ChoiceCounted ==
  ASSUME TypeOK, ReferralsAreSound, NEW m \in Claimants, NEW r \in Referrers, SetReferrer(m, r)
  PROVE  ReferralsAreSound'
<1> DEFINE count == referrer[r].referrer_count + 1
           S == [referrer[r] EXCEPT !.referrer_count = count]
           N == [miner[m] EXCEPT !.referrer = r]
<1>1. m \in Miners /\ miner[m] \in MinerRecord /\ miner[m].referrer = None /\ miner[m] # None
  BY SizesAssumption DEF SetReferrer, Unreferred, TypeOK
<1>2. referrer[r] \in ReferrerRecord /\ count \in Nat /\ referrer[r] # None /\ r # m
  BY DEF SetReferrer, TypeOK, ReferrerRecord
<1>3. S \in ReferrerRecord /\ S.referrer_count = count /\ S # None
  <2>1. S \in ReferrerRecord /\ S.referrer_count = count
    <3> HIDE DEF count
    <3> QED BY <1>2 DEF ReferrerRecord
  <2> QED BY <2>1, NoneAssumption
<1>4. N \in MinerRecord /\ N.referrer = r /\ N # None
  <2>1. N \in MinerRecord /\ N.referrer = r
    BY <1>1 DEF MinerRecord
  <2> QED BY <2>1, NoneAssumption
<1>5. referrer' = [referrer EXCEPT ![r] = S] /\ miner' = [miner EXCEPT ![m] = N]
  BY <1>1, <1>2 DEF SetReferrer, TypeOK
<1> HIDE DEF S, N
<1>6. /\ referrer'[r] = S /\ \A q \in Referrers \ {r} : referrer'[q] = referrer[q]
      /\ miner'[m] = N /\ \A n \in Miners \ {m} : miner'[n] = miner[n]
  BY <1>1, <1>5 DEF TypeOK
<1>7. NamedBy(r)' = NamedBy(r) \cup {m} /\ m \notin NamedBy(r)
  BY <1>1, <1>4, <1>6, MarksAssumption DEF NamedBy
<1>8. \A q \in Referrers \ {r} : NamedBy(q)' = NamedBy(q)
  BY <1>1, <1>4, <1>6, MarksAssumption DEF NamedBy
<1>9. Cardinality(NamedBy(r)') = Cardinality(NamedBy(r)) + 1
  <2>1. IsFiniteSet(Miners)
    BY FS_Interval, SizesAssumption DEF Miners
  <2>2. IsFiniteSet(NamedBy(r))
    BY <2>1, FS_Subset DEF NamedBy
  <2> QED BY <1>7, <2>2, FS_AddElement
<1>10. Cardinality(NamedBy(r)) = referrer[r].referrer_count
  BY <1>2 DEF ReferralsAreSound, NamedBy
<1>11. \A q \in Referrers : referrer'[q] # None =>
         referrer'[q].referrer_count = Cardinality(NamedBy(q)')
  <2>1. referrer'[r].referrer_count = Cardinality(NamedBy(r)')
    BY <1>3, <1>6, <1>9, <1>10
  <2>2. \A q \in Referrers \ {r} : referrer[q] # None =>
          referrer[q].referrer_count = Cardinality(NamedBy(q))
    BY DEF ReferralsAreSound, NamedBy
  <2> QED BY <1>6, <1>8, <2>1, <2>2
<1>12. \A n \in Miners : miner'[n] # None /\ miner'[n].referrer \in Referrers =>
         miner'[n].referrer # n /\ referrer'[miner'[n].referrer] # None
  BY <1>2, <1>3, <1>4, <1>6 DEF ReferralsAreSound, HasReferrer
<1> QED BY <1>11, <1>12 DEF ReferralsAreSound, HasReferrer, NamedBy

\* Nobody names a referrer that does not exist, so a new one starts at zero.
LEMMA NewReferrerCounted ==
  ASSUME TypeOK, ReferralsAreSound, NEW r \in Referrers, InitializeReferrer(r)
  PROVE  ReferralsAreSound'
<1>1. referrer[r] = None /\ UNCHANGED miner
  BY DEF InitializeReferrer
<1>2. referrer'[r] = NewReferrer /\ \A q \in Referrers \ {r} : referrer'[q] = referrer[q]
  BY DEF InitializeReferrer, TypeOK
<1>3. NamedBy(r) = {}
  BY <1>1 DEF NamedBy, ReferralsAreSound, HasReferrer
<1>4. NewReferrer.referrer_count = 0 /\ NewReferrer # None
  BY NoneAssumption DEF NewReferrer, ReferrerRecord
<1>5. Cardinality(NamedBy(r)) = 0
  BY <1>3, FS_EmptySet
<1>6. \A q \in Referrers : referrer'[q] # None =>
         referrer'[q].referrer_count = Cardinality(NamedBy(q))
  BY <1>2, <1>4, <1>5 DEF ReferralsAreSound, NamedBy
<1>7. \A n \in Miners : miner[n] # None /\ miner[n].referrer \in Referrers =>
         miner[n].referrer # n /\ referrer'[miner[n].referrer] # None
  BY <1>1, <1>2, <1>4 DEF ReferralsAreSound, HasReferrer
<1> QED BY <1>1, <1>6, <1>7 DEF ReferralsAreSound, HasReferrer, NamedBy

\* One case per action.
LEMMA NextReferrals ==
  TypeOK /\ ReferralsAreSound /\ [Next]_vars => ReferralsAreSound'
<1> SUFFICES ASSUME TypeOK, ReferralsAreSound, [Next]_vars PROVE ReferralsAreSound'
  OBVIOUS
<1>1. ASSUME UNCHANGED <<miner, referrer>> PROVE SameReferrals
  BY <1>1 DEF SameReferrals
<1>2. ASSUME NEW m \in Miners,
         \/ \E squares \in Masks, amount \in Amounts, pooled \in PoolModes :
              Deploy(m, squares, amount, pooled)
         \/ \E r \in Hashes, squares \in SUBSET Squares : DeployByExecutor(m, r, squares)
         \/ \E r \in Hashes, squares \in SUBSET Squares : DeployCancelled(m, r, squares)
         \/ \E plan \in Plans, deposit \in Deposits : Automate(m, plan, deposit)
         \/ CloseAutomation(m) \/ CheckpointForfeit(m)
         \/ \E pooled \in BOOLEAN : Checkpoint(m, pooled)
      PROVE  SameReferrals
  BY <1>2, PlayersKeepNames
<1>3. ASSUME NEW m \in Claimants, ClaimSol(m) \/ ClaimSolAndFundAutomation(m)
      PROVE  SameReferrals
  <2>1. m \in Miners /\ miner[m] # None
    BY <1>3, SizesAssumption DEF ClaimSol, ClaimSolAndFundAutomation
  <2> DEFINE bps == REFERRAL_BPS \div 10
  <2>2. bps \in Nat /\ bps <= DENOMINATOR_BPS /\ REFERRAL_BPS \in Nat /\ REFERRAL_BPS <= DENOMINATOR_BPS
    BY ConstantTypes, FeesAssumption
  <2>3. \A b \in {bps, REFERRAL_BPS} : ReferralCut(m, b) \in Nat
    <3> HIDE DEF bps
    <3> QED BY <2>1, <2>2, ReferralCutType
  <2>4. \E b \in {bps, REFERRAL_BPS} : PaySolOut(m, ReferralCut(m, b))
    BY <1>3 DEF ClaimSol, ClaimSolAndFundAutomation
  <2> HIDE DEF bps
  <2> QED BY <2>1, <2>3, <2>4, PaidName
<1>4. ASSUME NEW r \in Referrers, ClaimReferral(r) PROVE SameReferrals
  <2> DEFINE purse == referrer[r].lamports - referrer[r].rewards_sol
             S == [referrer[r] EXCEPT !.rewards_sol = 0, !.lamports = purse]
  <2>1. referrer[r] \in ReferrerRecord /\ purse \in Nat /\ referrer[r] # None
    BY <1>4 DEF ClaimReferral, TypeOK, ReferrerRecord
  <2>2. S \in ReferrerRecord /\ S.referrer_count = referrer[r].referrer_count
    <3> HIDE DEF purse
    <3> QED BY <2>1 DEF ReferrerRecord
  <2>3. referrer' = [referrer EXCEPT ![r] = S] /\ UNCHANGED miner
    BY <1>4 DEF ClaimReferral, TypeOK
  <2>4. S # None
    BY <2>2, NoneAssumption
  <2> HIDE DEF S
  <2> QED BY <2>1, <2>2, <2>3, <2>4 DEF SameReferrals, TypeOK
<1>5. ASSUME NEW m \in Claimants, SetNoReferrer(m) PROVE SameReferrals
  <2>1. m \in Miners /\ miner[m] \in MinerRecord /\ miner[m].referrer = None /\ miner[m] # None
    BY <1>5, SizesAssumption DEF SetNoReferrer, Unreferred, TypeOK
  <2> DEFINE N == [miner[m] EXCEPT !.referrer = LOCKED]
  <2>2. N \in MinerRecord /\ N.referrer = LOCKED
    BY <2>1 DEF MinerRecord
  <2>3. miner' = [miner EXCEPT ![m] = N] /\ UNCHANGED referrer
    BY <1>5, <2>1 DEF SetNoReferrer, TypeOK
  <2> HIDE DEF N
  <2>4. miner'[m] = N /\ \A n \in Miners \ {m} : miner'[n] = miner[n]
    BY <2>1, <2>3 DEF TypeOK
  <2> QED BY <2>1, <2>2, <2>3, <2>4, MarksAssumption DEF SameReferrals
<1>6. SameReferrals => ReferralsAreSound'
  BY SameReferralsKeep
<1> HIDE DEF Next
<1>7. CASE UNCHANGED <<miner, referrer>>
  BY <1>1, <1>6, <1>7
<1>8. CASE ~UNCHANGED <<miner, referrer>>
  <2>1. \/ \E m \in Miners :
             \/ \E squares \in Masks, amount \in Amounts, pooled \in PoolModes :
                  Deploy(m, squares, amount, pooled)
             \/ \E r \in Hashes, squares \in SUBSET Squares : DeployByExecutor(m, r, squares)
             \/ \E r \in Hashes, squares \in SUBSET Squares : DeployCancelled(m, r, squares)
             \/ \E plan \in Plans, deposit \in Deposits : Automate(m, plan, deposit)
             \/ CloseAutomation(m) \/ CheckpointForfeit(m)
             \/ \E pooled \in BOOLEAN : Checkpoint(m, pooled)
        \/ \E m \in Claimants : ClaimSol(m) \/ ClaimSolAndFundAutomation(m)
        \/ \E r \in Referrers : InitializeReferrer(r) \/ ClaimReferral(r)
        \/ \E m \in Claimants : SetNoReferrer(m) \/ \E r \in Referrers : SetReferrer(m, r)
    BY <1>8 DEF Next, vars, Tick, Reveal, FundAutomation, SetGodlPerRound,
         SetMotherlodeDenominator, UpdateProtocolConfig, SettingsOnly, TakeFromVault,
         PreBuyGold, VaultOnly, Reset, ResetPermissionless, Close
  <2> QED BY <1>2, <1>3, <1>4, <1>5, <1>6, <2>1, ChoiceCounted, NewReferrerCounted
<1> QED BY <1>7, <1>8

\* A miner's referrer exists, is another authority, and counts exactly the
\* miners that name it (set_referrer.rs:44-74), whatever else they do.
THEOREM ReferralsStaySound == Spec => []ReferralsAreSound
<1>1. Init => ReferralsAreSound
  BY DEF Init, ReferralsAreSound
<1> QED BY <1>1, NextReferrals, TypesAreCorrect, PTL DEF Spec
=============================================================================
