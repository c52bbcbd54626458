----------------------------- MODULE MoneyProofs -----------------------------
(***************************************************************************)
(* The money of the mining game: the books that the accounts keep of their *)
(* SOL, the books of the pool, and what the miners of a finished round may *)
(* still collect.                                                          *)
(***************************************************************************)
EXTENDS GameProofs
-----------------------------------------------------------------------------
(* The books of the accounts *)

\* The parts of BooksMatchCash, by account.
VaultBooks ==
    /\ treasury.balance = treasury.lamports
    /\ sol_motherlode.amount = sol_motherlode.lamports

ReferrerBooks ==
    \A r \in Referrers : referrer[r] # None => referrer[r].rewards_sol = referrer[r].lamports

RoundBooks ==
    /\ Current.lamports = Current.total_deployed
    /\ Current.total_deployed = Sum(Current.deployed, NumSquares)

MinerBalanced(M) == M.lamports = M.checkpoint_fee + M.rewards_sol
MinerBooks == \A m \in Miners : miner[m] # None => MinerBalanced(miner[m])

AutomationBooks ==
    \A m \in Miners : automation[m] # None => automation[m].lamports = automation[m].balance

LEMMA BooksInParts ==
  BooksMatchCash <=>
    VaultBooks /\ ReferrerBooks /\ RoundBooks /\ MinerBooks /\ AutomationBooks
BY DEF BooksMatchCash, VaultBooks, ReferrerBooks, RoundBooks, MinerBooks, MinerBalanced,
       AutomationBooks

\* A deployment adds its amount to the sum of the squares once per chosen square.
LEMMA GrownSum ==
  ASSUME NEW f \in Sqs, NEW squares \in SUBSET Squares, NEW amount \in Nat
  PROVE  Sum([s \in Squares |-> f[s] + IF s \in squares THEN amount ELSE 0], NumSquares)
           = Sum(f, NumSquares) + amount * Cardinality(squares)
<1> DEFINE g == [s \in Squares |-> f[s] + IF s \in squares THEN amount ELSE 0]
           T(k) == TakenBefore(squares, k + 1)
           D == {k \in 0 .. NumSquares : Sum(g, k) # Sum(f, k) + amount * T(k)}
<1>0. NumSquares \in Nat
  BY ConstantTypes
<1> SUFFICES ASSUME D # {} PROVE FALSE
  <2>1. NumSquares \in 0 .. NumSquares /\ T(NumSquares) = Cardinality(squares)
    BY <1>0, TakenSteps
  <2> QED BY <2>1
<1>1. D \subseteq Nat
  BY <1>0
<1>2. PICK x \in D : \A y \in D : x <= y
  <2> HIDE DEF D
  <2> QED BY <1>1, NatMin
<1>3. x # 0
  <2>1. T(0) = 0
    BY TakenSteps
  <2>2. Sum(g, 0) = 0 /\ Sum(f, 0) = 0
    <3> HIDE DEF g
    <3> QED BY SumZero
  <2>3. amount * 0 = 0
    OBVIOUS
  <2> QED BY <2>1, <2>2, <2>3
<1>4. x - 1 \in 0 .. NumSquares /\ x - 1 \notin D /\ x \in Squares /\ x \in Nat \ {0}
  BY <1>0, <1>2, <1>3 DEF Squares
<1>5. Sum(g, x - 1) = Sum(f, x - 1) + amount * T(x - 1)
  BY <1>4
<1>6. /\ Sum(f, x) = Sum(f, x - 1) + f[x]
      /\ Sum(g, x) = Sum(g, x - 1) + g[x]
  <2> HIDE DEF g
  <2> QED BY <1>4, SumStep
<1>7. Sum(f, x - 1) \in Nat
  <2>1. x - 1 \in Nat /\ \A i \in 1 .. x - 1 : f[i] \in Nat
    BY <1>0, <1>4 DEF Sqs, Squares
  <2> QED BY <2>1, SumNat
<1>8. T(x - 1) \in Nat /\ T(x) = T(x - 1) + IF x \in squares THEN 1 ELSE 0
  <2>1. (x - 1) + 1 = x
    BY <1>4
  <2> QED BY <1>4, <2>1, TakenSteps
<1>9. f[x] \in Nat /\ g[x] = f[x] + IF x \in squares THEN amount ELSE 0
  BY <1>4 DEF Sqs
<1>10. amount * T(x) = amount * T(x - 1) + IF x \in squares THEN amount ELSE 0
  <2> HIDE DEF T
  <2>1. amount * (T(x - 1) + 1) = amount * T(x - 1) + amount /\ amount * (T(x - 1) + 0) = amount * T(x - 1) + 0
    BY <1>8
  <2> QED BY <1>8, <2>1
<1>11. amount * T(x - 1) \in Nat
  <2> HIDE DEF T
  <2> QED BY <1>8
<1>12. Sum(g, x) = Sum(f, x) + amount * T(x)
  <2> DEFINE p == amount * T(x - 1)
             q == amount * T(x)
             e == IF x \in squares THEN amount ELSE 0
             a == Sum(f, x - 1)
  <2>1. e \in Nat /\ p \in Nat /\ q = p + e /\ a \in Nat
    BY <1>7, <1>10, <1>11
  <2>2. /\ Sum(g, x - 1) = a + p /\ Sum(f, x) = a + f[x] /\ Sum(g, x) = (a + p) + (f[x] + e)
    BY <1>5, <1>6, <1>9
  <2> HIDE DEF p, q, e, a, g
  <2>3. Sum(g, x) = Sum(f, x) + q
    BY <1>9, <2>1, <2>2
  <2> QED BY <2>3 DEF q
<1> QED BY <1>2, <1>12

\* The round after a deployment: what it holds, what it counts and what lies on
\* its squares grow by the same amount (deploy.rs:236-240).
LEMMA DeployedRoundFields ==
  ASSUME TypeOK, NEW squares \in SUBSET Squares, NEW amount \in Nat
  PROVE  /\ StartedRound \in RoundRecord
         /\ StartedRound.deployed = Current.deployed
         /\ StartedRound.total_deployed = Current.total_deployed
         /\ StartedRound.lamports = Current.lamports
         /\ StartedRound.count = Current.count
         /\ StartedRound.top_miner = Current.top_miner
         /\ DeployedRound(squares, amount) \in RoundRecord
         /\ DeployedRound(squares, amount).deployed =
              [s \in Squares |-> Current.deployed[s] + IF s \in squares THEN amount ELSE 0]
         /\ DeployedRound(squares, amount).total_deployed
              = Current.total_deployed + amount * Cardinality(squares)
         /\ DeployedRound(squares, amount).lamports
              = Current.lamports + amount * Cardinality(squares)
         /\ DeployedRound(squares, amount).count =
              [s \in Squares |-> Current.count[s] + IF s \in squares THEN 1 ELSE 0]
         /\ DeployedRound(squares, amount).top_miner = Current.top_miner
<1>1. /\ StartedRound \in RoundRecord
      /\ StartedRound.deployed = Current.deployed
      /\ StartedRound.total_deployed = Current.total_deployed
      /\ StartedRound.lamports = Current.lamports
      /\ StartedRound.count = Current.count
      /\ StartedRound.top_miner = Current.top_miner
  BY StartedTypes, CurrentType DEF StartedRound, RoundRecord
<1> DEFINE deployed == [s \in Squares |-> StartedRound.deployed[s] + IF s \in squares THEN amount ELSE 0]
           count == [s \in Squares |->
                       StartedRound.count[s] + IF s \in squares \cap Squares THEN 1 ELSE 0]
           total == StartedRound.total_deployed + amount * Cardinality(squares)
           cash == StartedRound.lamports + amount * Cardinality(squares)
           G == [StartedRound EXCEPT !.deployed = deployed, !.count = count,
                                     !.total_deployed = total]
           H == [G EXCEPT !.lamports = cash]
<1>2. G.lamports = StartedRound.lamports
  <2> HIDE DEF deployed, count, total
  <2> QED BY <1>1 DEF RoundRecord
<1>3. DeployedRound(squares, amount) = H
  BY <1>2 DEF DeployedRound, Grown
<1>4. /\ H.deployed = deployed /\ H.total_deployed = total /\ H.lamports = cash
      /\ H.count = count /\ H.top_miner = StartedRound.top_miner
  <2> HIDE DEF deployed, count, total, cash
  <2> QED BY <1>1 DEF RoundRecord
<1>5. count = [s \in Squares |-> Current.count[s] + IF s \in squares THEN 1 ELSE 0]
  BY <1>1
<1> HIDE DEF count
<1> QED BY <1>1, <1>3, <1>4, <1>5, DeployedRoundType

\* Entering a round changes neither the cash nor the books of a miner, and a
\* deployment adds the checkpoint fee to both (deploy.rs:286-288).
LEMMA DeployedMinerBalanced ==
  ASSUME TypeOK, MinerBooks, NEW m \in Miners, NEW squares \in SUBSET Squares, NEW amount \in Nat
  PROVE  /\ MinerBalanced(OpenedMiner(m)) /\ MinerBalanced(EnteredMiner(m))
         /\ MinerBalanced(DeployedMiner(m, squares, amount))
<1>1. OpenedMiner(m) \in MinerRecord /\ EnteredMiner(m) \in MinerRecord
  BY OpenedMinerType, EnteredMinerType
<1>2. MinerBalanced(OpenedMiner(m))
  BY DEF MinerBooks, MinerBalanced, OpenedMiner, NewMiner
<1>3. /\ EnteredMiner(m).lamports = OpenedMiner(m).lamports
      /\ EnteredMiner(m).checkpoint_fee = OpenedMiner(m).checkpoint_fee
      /\ EnteredMiner(m).rewards_sol = OpenedMiner(m).rewards_sol
  BY <1>1 DEF EnteredMiner, MinerRecord
<1> DEFINE M == EnteredMiner(m)
           deployed == [s \in Squares |-> IF s \in squares THEN amount ELSE M.deployed[s]]
           cumulative == [s \in Squares |-> IF s \in squares THEN RangeStart(s) ELSE M.cumulative[s]]
           topUp == IF M.checkpoint_fee = 0 THEN CHECKPOINT_FEE ELSE 0
           fee == M.checkpoint_fee + topUp
           cash == M.lamports + topUp
           N == [M EXCEPT !.deployed = deployed, !.cumulative = cumulative,
                          !.checkpoint_fee = fee, !.lamports = cash]
<1>4. DeployedMiner(m, squares, amount) = N
  BY DEF DeployedMiner
<1>5. N.lamports = cash /\ N.checkpoint_fee = fee /\ N.rewards_sol = M.rewards_sol
  <2> HIDE DEF deployed, cumulative, fee, cash, M
  <2> QED BY <1>1 DEF MinerRecord, M
<1>6. topUp \in Nat /\ M.lamports \in Int /\ M.checkpoint_fee \in Nat /\ M.rewards_sol \in Nat
  BY <1>1, ConstantTypes DEF MinerRecord
<1>7. M.lamports = M.checkpoint_fee + M.rewards_sol
  BY <1>2, <1>3 DEF MinerBalanced
<1>8. cash = fee + M.rewards_sol
  <2> HIDE DEF M, topUp
  <2> QED BY <1>6, <1>7
<1> HIDE DEF N
<1> QED BY <1>2, <1>4, <1>5, <1>7, <1>8 DEF MinerBalanced

\* One account is replaced by a balanced one.
LEMMA MinerReplaced ==
  ASSUME TypeOK, MinerBooks, NEW m \in Miners, NEW M, MinerBalanced(M),
         miner' = [miner EXCEPT ![m] = M]
  PROVE  MinerBooks'
<1>1. ASSUME NEW n \in Miners, miner'[n] # None
      PROVE  miner'[n].lamports = miner'[n].checkpoint_fee + miner'[n].rewards_sol
  BY <1>1 DEF TypeOK, MinerBooks, MinerBalanced
<1> QED BY <1>1 DEF MinerBooks, MinerBalanced

LEMMA AutomationReplaced ==
  ASSUME TypeOK, AutomationBooks, NEW m \in Miners, NEW A, A = None \/ A.lamports = A.balance,
         automation' = [automation EXCEPT ![m] = A]
  PROVE  AutomationBooks'
BY DEF TypeOK, AutomationBooks

LEMMA ReferrerReplaced ==
  ASSUME TypeOK, ReferrerBooks, NEW r \in Referrers, NEW S, S.rewards_sol = S.lamports,
         referrer' = [referrer EXCEPT ![r] = S]
  PROVE  ReferrerBooks'
BY DEF TypeOK, ReferrerBooks

\* Placing a deployment keeps the books of the round and of the miner.
LEMMA PlaceBooks ==
  ASSUME TypeOK, RoundBooks, MinerBooks, NEW m \in Miners, NEW squares \in SUBSET Squares,
         NEW amount \in Nat, NEW pooled, Place(m, squares, amount, pooled)
  PROVE  RoundBooks' /\ MinerBooks'
<1>1. board'.round_id = board.round_id /\ board.round_id \in RoundIds
  BY StartedTypes, CurrentType DEF Place
<1>2. Current' = DeployedRound(squares, amount)
  BY <1>1 DEF Place, Current, TypeOK
<1>3. Current.deployed \in Sqs /\ Current.lamports = Current.total_deployed
      /\ Current.total_deployed = Sum(Current.deployed, NumSquares)
  BY CurrentType DEF RoundRecord, RoundBooks
<1>4. /\ Current'.lamports = Current.lamports + amount * Cardinality(squares)
      /\ Current'.total_deployed = Current.total_deployed + amount * Cardinality(squares)
      /\ Current'.deployed =
           [s \in Squares |-> Current.deployed[s] + IF s \in squares THEN amount ELSE 0]
  BY <1>2, DeployedRoundFields
<1>5. RoundBooks'
  <2>1. Sum(Current'.deployed, NumSquares)
          = Sum(Current.deployed, NumSquares) + amount * Cardinality(squares)
    BY <1>3, <1>4, GrownSum
  <2> QED BY <1>3, <1>4, <2>1 DEF RoundBooks
<1>6. MinerBooks'
  <2>1. miner' = [miner EXCEPT ![m] = DeployedMiner(m, squares, amount)]
    BY DEF Place
  <2> QED BY <2>1, DeployedMinerBalanced, MinerReplaced
<1> QED BY <1>5, <1>6

\* A claim takes the same from the cash and the books of the miner, and adds
\* the cut to both of its referrer's (claim_sol.rs:55).
LEMMA PaidBooks ==
  ASSUME TypeOK, MinerBooks, ReferrerBooks, NEW m \in Miners, miner[m] # None,
         NEW cut \in Nat, PaySolOut(m, cut)
  PROVE  MinerBooks' /\ ReferrerBooks'
<1>1. MinerBooks'
  <2> DEFINE M == miner[m]
             cash == M.lamports - M.rewards_sol
             N == [M EXCEPT !.rewards_sol = 0, !.lamports = cash]
  <2>1. M \in MinerRecord /\ M.lamports = M.checkpoint_fee + M.rewards_sol
    BY DEF TypeOK, MinerBooks, MinerBalanced
  <2>2. N.lamports = cash /\ N.checkpoint_fee = M.checkpoint_fee /\ N.rewards_sol = 0
    <3> HIDE DEF M, cash
    <3> QED BY <2>1 DEF MinerRecord
  <2>3. cash = M.checkpoint_fee + 0
    <3>1. M.checkpoint_fee \in Nat /\ M.rewards_sol \in Nat
      BY <2>1 DEF MinerRecord
    <3> HIDE DEF M
    <3> QED BY <2>1, <3>1
  <2>4. miner' = [miner EXCEPT ![m] = N]
    BY DEF PaySolOut, TypeOK
  <2>5. MinerBalanced(N)
    <3> HIDE DEF N, M, cash
    <3> QED BY <2>2, <2>3 DEF MinerBalanced
  <2> HIDE DEF N
  <2> QED BY <2>4, <2>5, MinerReplaced
<1>2. CASE ~HasReferrer(m)
  BY <1>1, <1>2 DEF PaySolOut, ReferrerBooks
<1>3. CASE HasReferrer(m)
  <2> DEFINE h == miner[m].referrer
             S == referrer[h]
             owed == S.rewards_sol + cut
             held == S.lamports + cut
             T == [S EXCEPT !.rewards_sol = owed, !.lamports = held]
  <2>1. h \in Referrers /\ S \in ReferrerRecord /\ S.rewards_sol = S.lamports
    BY <1>3 DEF PaySolOut, HasReferrer, TypeOK, ReferrerBooks
  <2>2. T.rewards_sol = T.lamports
    <3>1. owed = held
      BY <2>1
    <3>2. T.rewards_sol = owed /\ T.lamports = held
      <4> HIDE DEF owed, held, S
      <4> QED BY <2>1 DEF ReferrerRecord
    <3> QED BY <3>1, <3>2
  <2>3. referrer' = [referrer EXCEPT ![h] = T]
    <3>1. referrer' = [referrer EXCEPT ![h].rewards_sol = @ + cut, ![h].lamports = @ + cut]
      BY <1>3 DEF PaySolOut
    <3> HIDE DEF h
    <3> QED BY <2>1, <3>1 DEF TypeOK, ReferrerRecord
  <2> HIDE DEF T, h
  <2> QED BY <1>1, <2>1, <2>2, <2>3, ReferrerReplaced
<1> QED BY <1>2, <1>3

\* The claims of miners.
LEMMA ClaimBooks ==
  ASSUME TypeOK, BooksMatchCash, NEW m \in Claimants, ClaimSol(m) \/ ClaimSolAndFundAutomation(m)
  PROVE  BooksMatchCash'
<1>1. m \in Miners /\ miner[m] # None
  BY SizesAssumption DEF ClaimSol, ClaimSolAndFundAutomation
<1> DEFINE bps == REFERRAL_BPS \div 10
<1>2. bps \in Nat /\ bps <= DENOMINATOR_BPS /\ REFERRAL_BPS \in Nat /\ REFERRAL_BPS <= DENOMINATOR_BPS
  BY ConstantTypes, FeesAssumption
<1>3. \A b \in {bps, REFERRAL_BPS} :
        ReferralCut(m, b) \in Nat /\ miner[m].rewards_sol - ReferralCut(m, b) \in Nat
  <2> HIDE DEF bps
  <2> QED BY <1>1, <1>2, ReferralCutType
<1>4. \E b \in {bps, REFERRAL_BPS} : PaySolOut(m, ReferralCut(m, b))
  BY DEF ClaimSol, ClaimSolAndFundAutomation
<1>5. MinerBooks' /\ ReferrerBooks'
  <2> HIDE DEF bps
  <2> QED BY <1>1, <1>3, <1>4, PaidBooks, BooksInParts
<1>6. AutomationBooks'
  <2>1. CASE ClaimSol(m)
    BY <2>1, BooksInParts DEF ClaimSol, AutomationBooks
  <2>2. CASE ClaimSolAndFundAutomation(m)
    <3> DEFINE rest == miner[m].rewards_sol - ReferralCut(m, bps)
               A == automation[m]
               balance == A.balance + rest
               cash == A.lamports + rest
               B == [A EXCEPT !.balance = balance, !.lamports = cash]
    <3>1. A \in AutomationRecord /\ A.lamports = A.balance
      BY <1>1, <2>2, BooksInParts DEF ClaimSolAndFundAutomation, TypeOK, AutomationBooks
    <3>2. automation' = [automation EXCEPT ![m].balance = @ + rest, ![m].lamports = @ + rest]
      BY <2>2 DEF ClaimSolAndFundAutomation
    <3>3. automation' = [automation EXCEPT ![m] = B]
      <4> HIDE DEF rest
      <4> QED BY <1>1, <3>1, <3>2 DEF TypeOK, AutomationRecord
    <3>4. B.lamports = B.balance
      <4>1. balance = cash
        BY <3>1
      <4>2. B.lamports = cash /\ B.balance = balance
        <5> HIDE DEF balance, cash, A
        <5> QED BY <3>1 DEF AutomationRecord
      <4> QED BY <4>1, <4>2
    <3> HIDE DEF B
    <3> QED BY <1>1, <3>3, <3>4, AutomationReplaced, BooksInParts
  <2> QED BY <2>1, <2>2
<1>7. RoundBooks' /\ VaultBooks'
  BY BooksInParts DEF ClaimSol, ClaimSolAndFundAutomation, RoundBooks, VaultBooks, Current
<1>8. (VaultBooks /\ ReferrerBooks /\ RoundBooks /\ MinerBooks /\ AutomationBooks)'
  BY <1>5, <1>6, <1>7
<1> QED BY <1>8, BooksInParts, PTL

\* Deploys by the authority or its executor, who pays from the automation
\* (deploy.rs:303-308), and a deploy that closes the automation.
LEMMA DeployBooks ==
  ASSUME TypeOK, BooksMatchCash, NEW m \in Miners,
         \/ \E squares \in Masks, amount \in Amounts, pooled \in PoolModes :
              Deploy(m, squares, amount, pooled)
         \/ \E r \in Hashes, squares \in SUBSET Squares : DeployByExecutor(m, r, squares)
         \/ \E r \in Hashes, squares \in SUBSET Squares : DeployCancelled(m, r, squares)
  PROVE  BooksMatchCash'
<1>1. VaultBooks' /\ ReferrerBooks'
  BY BooksInParts DEF Deploy, DeployByExecutor, DeployCancelled, VaultBooks, ReferrerBooks
<1>2. RoundBooks' /\ MinerBooks' /\ AutomationBooks'
  <2>1. ASSUME NEW squares \in Masks, NEW amount \in Amounts, NEW pooled \in PoolModes,
               Deploy(m, squares, amount, pooled)
        PROVE  RoundBooks' /\ MinerBooks' /\ AutomationBooks'
    <3>1. RoundBooks' /\ MinerBooks'
      BY <2>1, PlaceBooks, BooksInParts, SizesAssumption DEF Deploy
    <3> QED BY <2>1, <3>1, BooksInParts DEF Deploy, AutomationBooks
  <2>2. ASSUME NEW r \in Hashes, NEW squares \in SUBSET Squares, DeployByExecutor(m, r, squares)
        PROVE  RoundBooks' /\ MinerBooks' /\ AutomationBooks'
    <3> DEFINE A == automation[m]
               cost == RoundCost(A.plan, squares)
               balance == A.balance - cost
               cash == A.lamports - cost
               left == [A EXCEPT !.balance = balance, !.lamports = cash]
    <3>1. A \in AutomationRecord /\ A.plan.amount \in Nat /\ A.lamports = A.balance
      BY <2>2, AutomationType, BooksInParts DEF DeployByExecutor, AutomationBooks
    <3>2. RoundBooks' /\ MinerBooks'
      BY <2>2, <3>1, PlaceBooks, BooksInParts DEF DeployByExecutor
    <3>3. left.lamports = left.balance
      <4>1. balance = cash
        BY <3>1
      <4>2. left.lamports = cash /\ left.balance = balance
        <5> HIDE DEF balance, cash, A
        <5> QED BY <3>1 DEF AutomationRecord
      <4> QED BY <4>1, <4>2
    <3>4. automation' = [automation EXCEPT ![m] = left]
          \/ automation' = [automation EXCEPT ![m] = None]
      BY <2>2 DEF DeployByExecutor
    <3> HIDE DEF left
    <3> QED BY <3>2, <3>3, <3>4, AutomationReplaced, BooksInParts
  <2>3. ASSUME NEW r \in Hashes, NEW squares \in SUBSET Squares, DeployCancelled(m, r, squares)
        PROVE  RoundBooks' /\ MinerBooks' /\ AutomationBooks'
    <3>1. board'.round_id = board.round_id /\ board.round_id \in RoundIds
      BY <2>3, StartedTypes, CurrentType DEF DeployCancelled
    <3>2. Current' = StartedRound
      BY <2>3, <3>1 DEF DeployCancelled, Current, TypeOK
    <3>3. /\ Current'.lamports = Current.lamports
          /\ Current'.total_deployed = Current.total_deployed
          /\ Current'.deployed = Current.deployed
      BY <3>2, StartedTypes, CurrentType DEF StartedRound, RoundRecord
    <3>4. RoundBooks'
      BY <3>3, BooksInParts DEF RoundBooks
    <3>5. MinerBooks'
      <4>1. 0 \in Nat /\ miner' = [miner EXCEPT ![m] = EnteredMiner(m)]
        BY <2>3 DEF DeployCancelled
      <4> QED BY <4>1, DeployedMinerBalanced, MinerReplaced, BooksInParts
    <3>6. automation' = [automation EXCEPT ![m] = None]
      BY <2>3 DEF DeployCancelled
    <3> QED BY <3>4, <3>5, <3>6, AutomationReplaced, BooksInParts
  <2> QED BY <2>1, <2>2, <2>3
<1>3. (VaultBooks /\ ReferrerBooks /\ RoundBooks /\ MinerBooks /\ AutomationBooks)'
  BY <1>1, <1>2
<1> QED BY <1>3, BooksInParts, PTL

\* What an authority does with its automation (automate.rs, fund_automation.rs).
LEMMA AutomateBooks ==
  ASSUME TypeOK, BooksMatchCash, NEW m \in Miners,
         \/ \E plan \in Plans, deposit \in Deposits : Automate(m, plan, deposit)
         \/ CloseAutomation(m)
         \/ \E deposit \in Deposits : FundAutomation(m, deposit)
  PROVE  BooksMatchCash'
<1>1. VaultBooks' /\ ReferrerBooks' /\ RoundBooks'
  BY BooksInParts DEF Automate, CloseAutomation, FundAutomation, VaultBooks, ReferrerBooks,
                      RoundBooks, Current
<1>2. OpenedMiner(m) \in MinerRecord /\ MinerBalanced(OpenedMiner(m))
  <2>1. {} \in SUBSET Squares /\ 0 \in Nat
    OBVIOUS
  <2> QED BY <2>1, OpenedMinerType, DeployedMinerBalanced, BooksInParts
<1>3. MinerBooks' /\ AutomationBooks'
  <2>1. ASSUME NEW plan \in Plans, NEW deposit \in Deposits, Automate(m, plan, deposit)
        PROVE  MinerBooks' /\ AutomationBooks'
    <3> DEFINE old == automation[m]
               held == IF old = None THEN 0 ELSE old.balance
               cash == IF old = None THEN 0 ELSE old.lamports
               topUp == IF OpenedMiner(m).checkpoint_fee = 0 THEN CHECKPOINT_FEE ELSE 0
               fee == OpenedMiner(m).checkpoint_fee + topUp
               lamports == OpenedMiner(m).lamports + topUp
               A == [plan |-> plan, balance |-> held + deposit, lamports |-> cash + deposit]
               M == [OpenedMiner(m) EXCEPT !.checkpoint_fee = fee, !.lamports = lamports]
    <3>1. automation' = [automation EXCEPT ![m] = A] /\ miner' = [miner EXCEPT ![m] = M]
      BY <2>1 DEF Automate
    <3>2. A.lamports = A.balance
      BY BooksInParts DEF AutomationBooks
    <3>3. M.lamports = lamports /\ M.checkpoint_fee = fee
          /\ M.rewards_sol = OpenedMiner(m).rewards_sol
      <4> HIDE DEF fee, lamports
      <4> QED BY <1>2 DEF MinerRecord
    <3>4. lamports = fee + OpenedMiner(m).rewards_sol
      <4>1. topUp \in Nat /\ OpenedMiner(m).checkpoint_fee \in Nat
            /\ OpenedMiner(m).rewards_sol \in Nat
        BY <1>2, ConstantTypes DEF MinerRecord
      <4> HIDE DEF topUp
      <4> QED BY <1>2, <4>1 DEF MinerBalanced
    <3>5. MinerBalanced(M)
      <4> HIDE DEF M, fee, lamports
      <4> QED BY <3>3, <3>4 DEF MinerBalanced
    <3> HIDE DEF A, M
    <3> QED BY <3>1, <3>2, <3>5, MinerReplaced, AutomationReplaced, BooksInParts
  <2>2. CASE CloseAutomation(m)
    <3>1. /\ automation' = [automation EXCEPT ![m] = None]
          /\ miner' = [miner EXCEPT ![m] = OpenedMiner(m)]
      BY <2>2 DEF CloseAutomation
    <3> QED BY <1>2, <3>1, MinerReplaced, AutomationReplaced, BooksInParts
  <2>3. ASSUME NEW deposit \in Deposits, FundAutomation(m, deposit)
        PROVE  MinerBooks' /\ AutomationBooks'
    <3> DEFINE A == automation[m]
               balance == A.balance + deposit
               cash == A.lamports + deposit
               B == [A EXCEPT !.balance = balance, !.lamports = cash]
    <3>1. A \in AutomationRecord /\ A.lamports = A.balance
      BY <2>3, BooksInParts DEF FundAutomation, TypeOK, AutomationBooks
    <3>2. automation' = [automation EXCEPT ![m] = B]
      BY <2>3, <3>1 DEF FundAutomation, TypeOK, AutomationRecord
    <3>3. B.lamports = B.balance
      <4>1. B.lamports = cash /\ B.balance = balance
        <5> HIDE DEF balance, cash, A
        <5> QED BY <3>1 DEF AutomationRecord
      <4> QED BY <3>1, <4>1
    <3> HIDE DEF B
    <3>4. AutomationBooks'
      BY <3>2, <3>3, AutomationReplaced, BooksInParts
    <3> QED BY <2>3, <3>4, BooksInParts DEF FundAutomation, MinerBooks
  <2> QED BY <2>1, <2>2, <2>3
<1>4. (VaultBooks /\ ReferrerBooks /\ RoundBooks /\ MinerBooks /\ AutomationBooks)'
  BY <1>1, <1>3
<1> QED BY <1>4, BooksInParts, PTL

\* What a checkpoint finds: the round of the miner's claim is finished, and what
\* it pays is a natural.
LEMMA CheckpointFinds ==
  ASSUME TypeOK, NEW m \in Miners, NEW pooled \in BOOLEAN, Checkpoint(m, pooled)
  PROVE  /\ miner[m] # None /\ miner[m] \in MinerRecord
         /\ miner[m].round_id \in RoundIds /\ miner[m].round_id # board.round_id
         /\ round[miner[m].round_id] # None
         /\ round[miner[m].round_id] \in RoundRecord
         /\ round[miner[m].round_id].slot_hash \in RngValues
         /\ round[miner[m].round_id].slot_hash # Unavailable =>
              round[miner[m].round_id].deployed[round[miner[m].round_id].slot_hash.square]
                >= miner[m].deployed[round[miner[m].round_id].slot_hash.square]
         /\ SolReward(miner[m], round[miner[m].round_id]) \in Nat
         /\ GodlReward(m, miner[m].round_id, pooled) \in Nat
<1> DEFINE k == miner[m].round_id
<1>1. miner[m] # None /\ k \in RoundIds /\ k # board.round_id /\ round[k] # None
  BY DEF Checkpoint, Unsettled, Finished
<1>2. miner[m] \in MinerRecord /\ round[k] \in RoundRecord
  BY <1>1 DEF TypeOK
<1>3. /\ round[k].slot_hash \in RngValues
      /\ round[k].slot_hash # Unavailable =>
           round[k].deployed[round[k].slot_hash.square]
             >= miner[m].deployed[round[k].slot_hash.square]
  <2>1. round[k].slot_hash \in RngValues \cup {None} /\ round[k].slot_hash # None
    BY <1>2 DEF RoundRecord, Checkpoint
  <2> QED BY <2>1 DEF Checkpoint
<1>4. SolReward(miner[m], round[k]) \in Nat
  BY <1>2, <1>3, SolRewardType
<1>5. GodlReward(m, k, pooled) \in Nat
  BY <1>1, <1>3, GodlRewardType
<1> QED BY <1>1, <1>2, <1>3, <1>4, <1>5

\* A checkpoint credits the miner what it takes from the finished round, and a
\* forfeit nothing (checkpoint.rs:205-230).
LEMMA CheckpointBooks ==
  ASSUME TypeOK, BooksMatchCash, NEW m \in Miners, NEW pooled \in BOOLEAN,
         Checkpoint(m, pooled) \/ CheckpointForfeit(m)
  PROVE  BooksMatchCash'
<1>1. ReferrerBooks' /\ AutomationBooks'
  BY BooksInParts DEF Checkpoint, CheckpointForfeit, ReferrerBooks, AutomationBooks
<1>2. miner[m] \in MinerRecord /\ miner[m].lamports = miner[m].checkpoint_fee + miner[m].rewards_sol
  BY BooksInParts DEF Checkpoint, CheckpointForfeit, Unsettled, TypeOK, MinerBooks, MinerBalanced
<1>3. VaultBooks' /\ RoundBooks' /\ MinerBooks'
  <2>1. CASE CheckpointForfeit(m)
    <3> DEFINE N == [miner[m] EXCEPT !.checkpoint_id = miner[m].round_id]
    <3>1. miner' = [miner EXCEPT ![m] = N]
      BY <2>1 DEF CheckpointForfeit, TypeOK
    <3>2. MinerBalanced(N)
      BY <1>2 DEF MinerBalanced, MinerRecord
    <3> HIDE DEF N
    <3>3. MinerBooks'
      BY <3>1, <3>2, MinerReplaced, BooksInParts
    <3> QED BY <2>1, <3>3, BooksInParts DEF CheckpointForfeit, VaultBooks, RoundBooks, Current
  <2>2. CASE Checkpoint(m, pooled)
    <3> DEFINE k == miner[m].round_id
               M == miner[m]
               sol == SolReward(M, round[k])
               fee == M.checkpoint_fee - BotFee(m, k)
               rewards_sol == M.rewards_sol + sol
               rewards_godl == M.rewards_godl + GodlReward(m, k, pooled)
               cash == M.lamports + sol - BotFee(m, k)
               paid == [M EXCEPT !.checkpoint_id = k, !.checkpoint_fee = fee,
                                 !.rewards_sol = rewards_sol, !.rewards_godl = rewards_godl,
                                 !.lamports = cash]
    <3>1. miner' = [miner EXCEPT ![m] = paid]
      BY <2>2 DEF Checkpoint
    <3>2. sol \in Nat /\ k # board.round_id /\ k \in RoundIds
      BY <2>2, CheckpointFinds
    <3>3. paid.lamports = cash /\ paid.checkpoint_fee = fee /\ paid.rewards_sol = rewards_sol
      <4> HIDE DEF k, fee, rewards_sol, rewards_godl, cash, M
      <4> QED BY <1>2 DEF MinerRecord, M
    <3>4. cash = fee + rewards_sol
      <4>1. BotFee(m, k) \in {0, M.checkpoint_fee}
        BY DEF BotFee
      <4>2. M.checkpoint_fee \in Nat /\ M.rewards_sol \in Nat
        BY <1>2 DEF MinerRecord
      <4> HIDE DEF sol, k
      <4> QED BY <1>2, <3>2, <4>1, <4>2
    <3>5. MinerBooks'
      <4> HIDE DEF k, fee, rewards_sol, rewards_godl, cash
      <4>1. MinerBalanced(paid)
        <5> HIDE DEF paid
        <5> QED BY <3>3, <3>4 DEF MinerBalanced, rewards_sol
      <4> HIDE DEF paid
      <4> QED BY <3>1, <4>1, MinerReplaced, BooksInParts
    <3>6. VaultBooks'
      <4>1. /\ treasury' = [treasury EXCEPT !.total_unclaimed = @ + GodlReward(m, k, pooled)]
            /\ UNCHANGED sol_motherlode
        BY <2>2 DEF Checkpoint
      <4> HIDE DEF k
      <4> QED BY <4>1, BooksInParts DEF VaultBooks, TypeOK
    <3>7. RoundBooks'
      <4>1. board.round_id \in RoundIds /\ UNCHANGED board
        BY <2>2, CurrentType DEF Checkpoint
      <4>2. round'[board.round_id] = round[board.round_id]
        <5>1. round' = [round EXCEPT ![k].lamports = @ - sol, ![k].top_miner = TopMinerAfter(m, k)]
          BY <2>2 DEF Checkpoint
        <5> HIDE DEF k, sol
        <5> QED BY <3>2, <4>1, <5>1 DEF TypeOK
      <4> QED BY <4>1, <4>2, BooksInParts DEF RoundBooks, Current
    <3> QED BY <3>5, <3>6, <3>7
  <2> QED BY <2>1, <2>2
<1>4. (VaultBooks /\ ReferrerBooks /\ RoundBooks /\ MinerBooks /\ AutomationBooks)'
  BY <1>1, <1>3
<1> QED BY <1>4, BooksInParts, PTL

\* Both resets open an empty round, and pay vault and SOL motherlode in cash
\* what they book (reset.rs:182-214, 234, 351); a closing sweeps a round of the past.
LEMMA ResetBooks ==
  ASSUME TypeOK, BooksMatchCash,
         \/ \E candidate \in Miners \cup {None} : Reset(candidate) \/ ResetPermissionless(candidate)
         \/ \E k \in RoundIds : Close(k)
  PROVE  BooksMatchCash'
<1>1. ReferrerBooks' /\ AutomationBooks' /\ MinerBooks'
  BY BooksInParts DEF Reset, ResetPermissionless, Close, ReferrerBooks, AutomationBooks, MinerBooks
<1>2. VaultBooks' /\ RoundBooks'
  <2>1. ASSUME NEW R, NEW top, Settle(R, top) PROVE VaultBooks' /\ RoundBooks'
    <3>1. \E settled : AdvanceBoard(settled)
      BY <2>1 DEF Settle
    <3>2. Current' = NewRound
      <4>1. board.round_id \in RoundIds /\ board.round_id < MaxRounds
        BY <3>1, CurrentType DEF AdvanceBoard
      <4>2. board.round_id + 1 \in RoundIds
        BY <4>1, ConstantTypes DEF RoundIds
      <4> QED BY <3>1, <4>2 DEF AdvanceBoard, Current, TypeOK
    <3>3. Sum(Zero, NumSquares) = 0
      BY SumOfZeros, ConstantTypes DEF Zero, Squares
    <3>4. RoundBooks'
      BY <3>2, <3>3 DEF RoundBooks, NewRound
    <3>5. \/ UNCHANGED <<treasury, sol_motherlode>>
          \/ \E amount, lode : Vault(amount, lode)
          \/ \E amount, lode : MintAndVault(R, amount, lode)
      BY <2>1 DEF Settle
    <3>6. VaultBooks'
      <4>1. CASE UNCHANGED <<treasury, sol_motherlode>>
        BY <4>1, BooksInParts DEF VaultBooks
      <4>2. ASSUME NEW amount, NEW lode, Vault(amount, lode) \/ MintAndVault(R, amount, lode)
            PROVE  VaultBooks'
        <5>1. /\ treasury'.balance = treasury.balance + amount
              /\ treasury'.lamports = treasury.lamports + amount
          BY <4>2 DEF Vault, MintAndVault, TypeOK
        <5>2. /\ sol_motherlode'.amount = sol_motherlode.amount + lode
              /\ sol_motherlode'.lamports = sol_motherlode.lamports + lode
          BY <4>2 DEF Vault, MintAndVault
        <5> QED BY <5>1, <5>2, BooksInParts DEF VaultBooks
      <4> QED BY <3>5, <4>1, <4>2
    <3> QED BY <3>4, <3>6
  <2>2. ASSUME NEW k \in RoundIds, Close(k) PROVE VaultBooks' /\ RoundBooks'
    <3>1. k < board.round_id /\ board.round_id \in RoundIds
      BY <2>2, CurrentType DEF Close, Closable
    <3>2. k # board.round_id
      BY <3>1 DEF RoundIds
    <3>3. Current' = Current
      BY <2>2, <3>1, <3>2 DEF Close, Current, TypeOK
    <3> DEFINE unclaimed == AtLeast(round[k].lamports, 0)
    <3>4. /\ treasury' = [treasury EXCEPT !.balance = @ + unclaimed, !.lamports = @ + unclaimed]
          /\ UNCHANGED sol_motherlode
      BY <2>2 DEF Close
    <3> HIDE DEF unclaimed
    <3>5. VaultBooks'
      BY <3>4, BooksInParts DEF VaultBooks, TypeOK
    <3> QED BY <3>3, <3>5, BooksInParts DEF RoundBooks
  <2> QED BY <2>1, <2>2 DEF Reset, ResetPermissionless
<1>3. (VaultBooks /\ ReferrerBooks /\ RoundBooks /\ MinerBooks /\ AutomationBooks)'
  BY <1>1, <1>2
<1> QED BY <1>3, BooksInParts, PTL

\* Referrers, settings and what the admins take.
LEMMA OtherBooks ==
  ASSUME TypeOK, BooksMatchCash,
         \/ UNCHANGED vars \/ Tick \/ \E value \in RngValues : Reveal(value)
         \/ \E r \in Referrers : InitializeReferrer(r) \/ ClaimReferral(r)
         \/ \E m \in Claimants : SetNoReferrer(m) \/ \E r \in Referrers : SetReferrer(m, r)
         \/ \E rate \in Rates : SetGodlPerRound(rate)
         \/ \E denominator \in Denominators : SetMotherlodeDenominator(denominator)
         \/ \E t \in Timings : UpdateProtocolConfig(t)
         \/ \E amount \in Withdrawals : TakeFromVault(amount)
         \/ \E amount \in GoldBuys : PreBuyGold(amount)
  PROVE  BooksMatchCash'
<1>1. RoundBooks' /\ AutomationBooks'
  <2>1. UNCHANGED <<board, round, automation>>
    BY DEF vars, Tick, Reveal, InitializeReferrer, ClaimReferral, SetNoReferrer, SetReferrer,
       RoundsUntouched, SetGodlPerRound, SetMotherlodeDenominator, UpdateProtocolConfig,
       SettingsOnly, TakeFromVault, PreBuyGold, VaultOnly
  <2> QED BY <2>1, BooksInParts DEF RoundBooks, AutomationBooks, Current
<1>2. VaultBooks' /\ MinerBooks' /\ ReferrerBooks'
  <2>1. CASE UNCHANGED <<treasury, sol_motherlode, miner, referrer>>
    BY <2>1, BooksInParts DEF VaultBooks, MinerBooks, ReferrerBooks
  <2>2. ASSUME NEW amount \in Withdrawals \cup GoldBuys, TakeFromVault(amount) \/ PreBuyGold(amount)
        PROVE  VaultBooks' /\ MinerBooks' /\ ReferrerBooks'
    <3>1. VaultBooks'
      <4>1. CASE TakeFromVault(amount)
        BY <4>1, BooksInParts DEF TakeFromVault, VaultBooks, TypeOK
      <4>2. CASE PreBuyGold(amount)
        BY <4>2, BooksInParts DEF PreBuyGold, VaultBooks
      <4> QED BY <2>2, <4>1, <4>2
    <3>2. UNCHANGED <<miner, referrer>>
      BY <2>2 DEF TakeFromVault, PreBuyGold, VaultOnly
    <3> QED BY <3>1, <3>2, BooksInParts DEF MinerBooks, ReferrerBooks
  <2>3. ASSUME NEW r \in Referrers, InitializeReferrer(r) \/ ClaimReferral(r)
        PROVE  VaultBooks' /\ MinerBooks' /\ ReferrerBooks'
    <3>1. UNCHANGED <<treasury, sol_motherlode, miner>>
      BY <2>3 DEF InitializeReferrer, ClaimReferral, RoundsUntouched
    <3>2. ReferrerBooks'
      <4>1. CASE InitializeReferrer(r)
        <5>1. NewReferrer.rewards_sol = NewReferrer.lamports
          BY DEF NewReferrer
        <5> QED BY <4>1, <5>1, ReferrerReplaced, BooksInParts DEF InitializeReferrer
      <4>2. CASE ClaimReferral(r)
        <5> DEFINE purse == referrer[r].lamports - referrer[r].rewards_sol
                   S == [referrer[r] EXCEPT !.rewards_sol = 0, !.lamports = purse]
        <5>1. referrer[r] \in ReferrerRecord /\ purse = 0
          BY <4>2, BooksInParts DEF ClaimReferral, TypeOK, ReferrerBooks, ReferrerRecord
        <5>2. S.rewards_sol = 0 /\ S.lamports = purse
          <6> HIDE DEF purse
          <6> QED BY <5>1 DEF ReferrerRecord
        <5>3. referrer' = [referrer EXCEPT ![r] = S]
          BY <4>2 DEF ClaimReferral, TypeOK
        <5> HIDE DEF S
        <5> QED BY <5>1, <5>2, <5>3, ReferrerReplaced, BooksInParts
      <4> QED BY <2>3, <4>1, <4>2
    <3> QED BY <3>1, <3>2, BooksInParts DEF VaultBooks, MinerBooks
  <2>4. ASSUME NEW m \in Claimants, SetNoReferrer(m) \/ \E r \in Referrers : SetReferrer(m, r)
        PROVE  VaultBooks' /\ MinerBooks' /\ ReferrerBooks'
    <3>1. m \in Miners /\ miner[m] \in MinerRecord /\ miner[m] # None
      BY <2>4, SizesAssumption DEF SetNoReferrer, SetReferrer, Unreferred, TypeOK
    <3>2. PICK x \in Referrers \cup {LOCKED} : miner' = [miner EXCEPT ![m].referrer = x]
      BY <2>4 DEF SetNoReferrer, SetReferrer
    <3> DEFINE M == [miner[m] EXCEPT !.referrer = x]
    <3>3. miner' = [miner EXCEPT ![m] = M]
      BY <3>1, <3>2 DEF TypeOK
    <3>4. MinerBalanced(M)
      BY <3>1, BooksInParts DEF MinerBalanced, MinerBooks, MinerRecord
    <3> HIDE DEF M
    <3>5. MinerBooks'
      BY <3>1, <3>3, <3>4, MinerReplaced, BooksInParts
    <3>6. ReferrerBooks'
      <4>1. CASE SetNoReferrer(m)
        BY <4>1, BooksInParts DEF SetNoReferrer, ReferrerBooks
      <4>2. ASSUME NEW r \in Referrers, SetReferrer(m, r) PROVE ReferrerBooks'
        <5> DEFINE count == referrer[r].referrer_count + 1
                   S == [referrer[r] EXCEPT !.referrer_count = count]
        <5>1. referrer[r] \in ReferrerRecord /\ referrer[r].rewards_sol = referrer[r].lamports
          BY <4>2, BooksInParts DEF SetReferrer, TypeOK, ReferrerBooks
        <5>2. referrer' = [referrer EXCEPT ![r] = S]
          BY <4>2 DEF SetReferrer, TypeOK
        <5>3. S.rewards_sol = S.lamports
          <6> HIDE DEF count
          <6> QED BY <5>1 DEF ReferrerRecord
        <5> HIDE DEF S
        <5> QED BY <5>2, <5>3, ReferrerReplaced, BooksInParts
      <4> QED BY <2>4, <4>1, <4>2
    <3>7. UNCHANGED <<treasury, sol_motherlode>>
      BY <2>4 DEF SetNoReferrer, SetReferrer, RoundsUntouched
    <3> QED BY <3>5, <3>6, <3>7, BooksInParts DEF VaultBooks
  <2>5. \/ UNCHANGED <<treasury, sol_motherlode, miner, referrer>>
        \/ \E amount \in Withdrawals : TakeFromVault(amount)
        \/ \E amount \in GoldBuys : PreBuyGold(amount)
        \/ \E r \in Referrers : InitializeReferrer(r) \/ ClaimReferral(r)
        \/ \E m \in Claimants : SetNoReferrer(m) \/ \E r \in Referrers : SetReferrer(m, r)
    BY DEF vars, Tick, Reveal, SetGodlPerRound, SetMotherlodeDenominator, UpdateProtocolConfig,
       SettingsOnly
  <2> QED BY <2>1, <2>2, <2>3, <2>4, <2>5
<1>3. (VaultBooks /\ ReferrerBooks /\ RoundBooks /\ MinerBooks /\ AutomationBooks)'
  BY <1>1, <1>2
<1> QED BY <1>3, BooksInParts, PTL

\* The SOL that the accounts book is the SOL they hold, whatever is deployed,
\* claimed, settled and swept in whatever order; and the SOL of the current
\* round is what lies on its squares (deploy.rs, checkpoint.rs, reset.rs).
THEOREM BooksAlwaysMatch == Spec => []BooksMatchCash
<1>1. Init => BooksMatchCash
  <2> SUFFICES ASSUME Init PROVE BooksMatchCash
    OBVIOUS
  <2>1. Current = NewRound
    BY ConstantTypes, SizesAssumption DEF Init, Current, RoundIds
  <2>2. Sum(Zero, NumSquares) = 0
    BY SumOfZeros, ConstantTypes DEF Zero, Squares
  <2> QED BY <2>1, <2>2 DEF Init, BooksMatchCash, NewRound
<1>2. TypeOK /\ BooksMatchCash /\ [Next]_vars => BooksMatchCash'
  <2> SUFFICES ASSUME TypeOK, BooksMatchCash, [Next]_vars PROVE BooksMatchCash'
    OBVIOUS
  <2> HIDE DEF vars
  <2> QED BY DeployBooks, AutomateBooks, ClaimBooks, CheckpointBooks, ResetBooks, OtherBooks,
             SizesAssumption DEF Next
<1> QED BY <1>1, <1>2, TypesAreCorrect, PTL DEF Spec
-----------------------------------------------------------------------------
(* What the steps do, in the terms that the rest of the module needs *)

\* A checkpoint moves the reward from the round to the miner, in SOL and in
\* GODL, and leaves of everything else but the fee and the signature what it was.
LEMMA CheckpointDoes ==
  ASSUME TypeOK, NEW m \in Miners, NEW pooled \in BOOLEAN, Checkpoint(m, pooled)
  PROVE  LET k == miner[m].round_id
         IN  /\ miner'[m] \in MinerRecord
             /\ miner'[m].deployed = miner[m].deployed
             /\ miner'[m].cumulative = miner[m].cumulative
             /\ miner'[m].round_id = k /\ miner'[m].checkpoint_id = k
             /\ miner'[m].rewards_sol = miner[m].rewards_sol + SolReward(miner[m], round[k])
             /\ miner'[m].rewards_godl = miner[m].rewards_godl + GodlReward(m, k, pooled)
             /\ \A n \in Miners \ {m} : miner'[n] = miner[n]
             /\ round'[k] \in RoundRecord
             /\ round'[k].lamports = round[k].lamports - SolReward(miner[m], round[k])
             /\ round'[k].top_miner = TopMinerAfter(m, k)
             /\ round'[k].deployed = round[k].deployed
             /\ round'[k].count = round[k].count
             /\ round'[k].slot_hash = round[k].slot_hash
             /\ round'[k].expires_at = round[k].expires_at
             /\ round'[k].motherlode = round[k].motherlode
             /\ round'[k].top_miner_reward = round[k].top_miner_reward
             /\ round'[k].total_winnings = round[k].total_winnings
             /\ round'[k].total_deployed = round[k].total_deployed
             /\ \A j \in RoundIds \ {k} : round'[j] = round[j]
             /\ treasury'.total_unclaimed
                  = treasury.total_unclaimed + GodlReward(m, k, pooled)
             /\ treasury'.motherlode = treasury.motherlode
             /\ treasury'.tokens = treasury.tokens
<1> DEFINE k == miner[m].round_id
           M == miner[m]
           R == round[k]
           sol == SolReward(M, R)
           godl == GodlReward(m, k, pooled)
           fee == M.checkpoint_fee - BotFee(m, k)
           rewards_sol == M.rewards_sol + sol
           rewards_godl == M.rewards_godl + godl
           cash == M.lamports + sol - BotFee(m, k)
           left == R.lamports - sol
           top == TopMinerAfter(m, k)
           paid == [M EXCEPT !.checkpoint_id = k, !.checkpoint_fee = fee,
                             !.rewards_sol = rewards_sol, !.rewards_godl = rewards_godl,
                             !.lamports = cash]
           S == [R EXCEPT !.lamports = left, !.top_miner = top]
<1>1. M \in MinerRecord /\ k \in RoundIds /\ R \in RoundRecord /\ R # None
      /\ sol \in Nat /\ godl \in Nat
  BY CheckpointFinds
<1>2. /\ paid.deployed = M.deployed /\ paid.cumulative = M.cumulative
      /\ paid.round_id = k /\ paid.checkpoint_id = k
      /\ paid.rewards_sol = rewards_sol /\ paid.rewards_godl = rewards_godl
  <2> HIDE DEF fee, rewards_sol, rewards_godl, cash
  <2> QED BY <1>1 DEF MinerRecord
<1>3. miner' = [miner EXCEPT ![m] = paid] /\ miner'[m] \in MinerRecord
  BY CheckpointTypes DEF Checkpoint
<1>4. miner'[m] = paid /\ \A n \in Miners \ {m} : miner'[n] = miner[n]
  <2> HIDE DEF paid
  <2> QED BY <1>3 DEF TypeOK
<1>5. top \in Marks /\ left \in Int
  BY <1>1 DEF TopMinerAfter, Marks, RoundRecord
<1>6. /\ S \in RoundRecord
      /\ S.lamports = left /\ S.top_miner = top
      /\ S.deployed = R.deployed /\ S.count = R.count
      /\ S.slot_hash = R.slot_hash /\ S.expires_at = R.expires_at
      /\ S.motherlode = R.motherlode /\ S.top_miner_reward = R.top_miner_reward
      /\ S.total_winnings = R.total_winnings /\ S.total_deployed = R.total_deployed
  <2> HIDE DEF R, left, top
  <2> QED BY <1>1, <1>5 DEF RoundRecord, Marks
<1>7. round' = [round EXCEPT ![k] = S]
  <2>1. round' = [round EXCEPT ![k].lamports = @ - sol, ![k].top_miner = TopMinerAfter(m, k)]
    BY DEF Checkpoint
  <2> HIDE DEF sol, k
  <2> QED BY <1>1, <2>1 DEF TypeOK
<1>8. round'[k] = S /\ \A j \in RoundIds \ {k} : round'[j] = round[j]
  <2> HIDE DEF S, k
  <2> QED BY <1>1, <1>7 DEF TypeOK
<1>9. /\ treasury'.total_unclaimed = treasury.total_unclaimed + godl
      /\ treasury'.motherlode = treasury.motherlode
      /\ treasury'.tokens = treasury.tokens
  <2>1. treasury' = [treasury EXCEPT !.total_unclaimed = @ + godl]
    BY DEF Checkpoint
  <2> HIDE DEF godl
  <2> QED BY <2>1 DEF TypeOK
<1>10. /\ rewards_sol = M.rewards_sol + SolReward(M, R) /\ rewards_godl = M.rewards_godl + godl
       /\ left = R.lamports - SolReward(M, R)
  OBVIOUS
<1> HIDE DEF paid, S, M, R, godl, left, rewards_sol, rewards_godl
<1> QED BY <1>2, <1>3, <1>4, <1>6, <1>8, <1>9, <1>10 DEF M, R, godl

\* Both resets settle the round as one of the three outcomes says, with a mark
\* that the code leaves, and open the next one.
LEMMA ResetDoes ==
  ASSUME TypeOK, NEW candidate \in Miners \cup {None},
         Reset(candidate) \/ ResetPermissionless(candidate)
  PROVE  /\ Over /\ Closing \in RoundRecord /\ Closing.slot_hash \in RngValues
         /\ \A k \in Nat : k = board.round_id =>
              k \in RoundIds /\ k + 1 \in RoundIds /\ board'.round_id = k + 1
         /\ UNCHANGED <<slot, miner, pool_member>>
         /\ pool_round' = [pool_round EXCEPT ![board.round_id + 1] = NewPoolRound]
         /\ round'[board.round_id + 1] = NewRound
         /\ \A k \in RoundIds \ {board.round_id, board.round_id + 1} : round'[k] = round[k]
         /\ round'[board.round_id] \in RoundRecord
         /\ round'[board.round_id].deployed = Current.deployed
         /\ round'[board.round_id].count = Current.count
         /\ round'[board.round_id].expires_at = Current.expires_at
         /\ round'[board.round_id].slot_hash = Closing.slot_hash
         /\ \E top \in {NoOne, SPLIT_ADDRESS, POOL_ADDRESS} : Settle(Closing, top)
              /\ round'[board.round_id] \in {Refunded(Closing), Vaulted(Closing), Won(Closing, top)}
<1> DEFINE R == Closing
           c == board.round_id
<1>1. /\ Over /\ UNCHANGED <<slot, miner, pool_member>>
      /\ \E top \in {NoOne, SPLIT_ADDRESS, POOL_ADDRESS} : Settle(R, top)
  BY DEF Reset, ResetPermissionless, LenientTopMiner, StrictTopMiner
<1>2. /\ R \in RoundRecord /\ R.slot_hash \in RngValues /\ R.deployed = Current.deployed
      /\ R.count = Current.count /\ R.expires_at = Current.expires_at
  BY <1>1, ClosingType, CurrentType DEF Closing, RoundRecord
<1> HIDE DEF R
<1>3. PICK top \in {NoOne, SPLIT_ADDRESS, POOL_ADDRESS} : Settle(R, top)
  BY <1>1
<1>4. /\ Refunded(R) \in RoundRecord /\ Vaulted(R) \in RoundRecord
      /\ R.slot_hash # Unavailable => Won(R, top) \in RoundRecord
  BY <1>2, SettledTypes DEF Marks
<1>5. ASSUME NEW S \in {Refunded(R), Vaulted(R), Won(R, top)}
      PROVE  /\ S.deployed = R.deployed /\ S.count = R.count
             /\ S.expires_at = R.expires_at /\ S.slot_hash = R.slot_hash
  BY <1>2 DEF Refunded, Vaulted, Won, RoundRecord
<1>6. PICK S \in {Refunded(R), Vaulted(R), Won(R, top)} : S \in RoundRecord /\ AdvanceBoard(S)
  BY <1>3, <1>4 DEF Settle
<1>7. c \in RoundIds /\ c + 1 \in RoundIds /\ c # c + 1 /\ board'.round_id = c + 1
  <2>1. c \in RoundIds /\ c < MaxRounds /\ board'.round_id = c + 1
    BY <1>6, CurrentType DEF AdvanceBoard
  <2> QED BY <2>1, ConstantTypes DEF RoundIds
<1>8. /\ round' = [round EXCEPT ![c] = S, ![c + 1] = NewRound]
      /\ pool_round' = [pool_round EXCEPT ![c + 1] = NewPoolRound]
  BY <1>6 DEF AdvanceBoard
<1> HIDE DEF c
<1>9. /\ round'[c] = S /\ round'[c + 1] = NewRound
      /\ \A k \in RoundIds \ {c, c + 1} : round'[k] = round[k]
  BY <1>7, <1>8 DEF TypeOK
<1> QED BY <1>1, <1>2, <1>3, <1>5, <1>6, <1>7, <1>8, <1>9 DEF c, R
-----------------------------------------------------------------------------
(* The books of the pool *)

\* What a member of the pool of round k holds on a square.
Stake(m, k, s) ==
    IF pool_member[m] # None /\ pool_member[m].round_id = k
    THEN pool_member[m].deployed[s] ELSE 0

\* A pool exists only while its round does, and for rounds that were opened.
PoolBooks ==
    \A k \in RoundIds, s \in Squares : pool_round[k] # None =>
        /\ k <= board.round_id /\ round[k] # None
        /\ PoolHolds(k, s) <= pool_round[k].deployed[s]
        /\ k = board.round_id => PoolHolds(k, s) = pool_round[k].deployed[s]
        /\ pool_round[k].deployed[s] <= round[k].deployed[s]

\* A stake in the pool is a whole deployment of the member, and whoever has one
\* in the current round plays it: a miner who enters leaves its old stakes
\* behind (deploy.rs:262) and brings none of the current round.
MemberBooks ==
    \A m \in Miners : pool_member[m] # None =>
        /\ pool_member[m].round_id <= board.round_id
        /\ \A s \in Squares : pool_member[m].deployed[s] > 0 =>
             /\ pool_member[m].round_id \in RoundIds
             /\ pool_member[m].round_id = board.round_id => Plays(m, board.round_id)
             /\ Plays(m, pool_member[m].round_id) =>
                  miner[m].deployed[s] = pool_member[m].deployed[s]

PoolInv == PoolBooks /\ MemberBooks

\* The numbers of the pool.
PoolTyped ==
    /\ \A m \in Miners, s \in Squares : pool_member[m] # None =>
         /\ pool_member[m] \in PoolMemberRecord /\ pool_member[m].round_id \in Nat
         /\ pool_member[m].deployed[s] \in Nat
    /\ \A m \in Miners, k \in RoundIds, s \in Squares : Stake(m, k, s) \in Nat
    /\ \A k \in RoundIds, s \in Squares :
         /\ PoolHolds(k, s) = Sum([m \in Miners |-> Stake(m, k, s)], NumMiners)
         /\ PoolHolds(k, s) \in Nat
         /\ pool_round[k] # None => pool_round[k].deployed[s] \in Nat

LEMMA PoolTypes == TypeOK => PoolTyped
<1> SUFFICES ASSUME TypeOK PROVE PoolTyped
  OBVIOUS
<1>1. ASSUME NEW m \in Miners, NEW s \in Squares, pool_member[m] # None
      PROVE  /\ pool_member[m] \in PoolMemberRecord /\ pool_member[m].round_id \in Nat
             /\ pool_member[m].deployed[s] \in Nat
  <2>1. pool_member[m] \in PoolMemberRecord
    BY <1>1 DEF TypeOK
  <2> QED BY <2>1 DEF PoolMemberRecord, Sqs
<1>2. \A m \in Miners, k \in RoundIds, s \in Squares : Stake(m, k, s) \in Nat
  BY <1>1 DEF Stake
<1>3. ASSUME NEW k \in RoundIds, NEW s \in Squares
      PROVE  /\ PoolHolds(k, s) = Sum([m \in Miners |-> Stake(m, k, s)], NumMiners)
             /\ PoolHolds(k, s) \in Nat
  <2>1. PoolHolds(k, s) = Sum([m \in Miners |-> Stake(m, k, s)], NumMiners)
    BY DEF PoolHolds, Stake
  <2>2. \A i \in 1 .. NumMiners : [m \in Miners |-> Stake(m, k, s)][i] \in Nat
    BY <1>2 DEF Miners
  <2> QED BY <2>1, <2>2, SumNat, ConstantTypes
<1>4. ASSUME NEW k \in RoundIds, NEW s \in Squares, pool_round[k] # None
      PROVE  pool_round[k].deployed[s] \in Nat
  <2>1. pool_round[k] \in PoolRoundRecord
    BY <1>4 DEF TypeOK
  <2> QED BY <2>1 DEF PoolRoundRecord, Sqs
<1> QED BY <1>1, <1>2, <1>3, <1>4 DEF PoolTyped

LEMMA NextPoolTyped == TypeOK' => PoolTyped'
BY PoolTypes, PTL

\* If no stake in the pool of a round grows, neither does what it holds.
LEMMA HoldsLess ==
  ASSUME PoolTyped, PoolTyped', NEW k \in RoundIds, NEW s \in Squares,
         \A m \in Miners : Stake(m, k, s)' <= Stake(m, k, s)
  PROVE  PoolHolds(k, s)' <= PoolHolds(k, s)
<1> DEFINE f == [m \in Miners |-> Stake(m, k, s)]
           g == [m \in Miners |-> Stake(m, k, s)']
<1>1. \A i \in 1 .. NumMiners : f[i] \in Nat /\ g[i] \in Nat /\ g[i] <= f[i]
  BY DEF PoolTyped, Miners
<1>2. Sum(g, NumMiners) <= Sum(f, NumMiners)
  <2> HIDE DEF f, g
  <2> QED BY <1>1, SumMonotone, ConstantTypes
<1>3. PoolHolds(k, s) = Sum(f, NumMiners) /\ PoolHolds(k, s)' = Sum(g, NumMiners)
  BY DEF PoolTyped
<1> QED BY <1>2, <1>3

\* If they stay the same, so does what the pool holds.
LEMMA HoldsSame ==
  ASSUME PoolTyped, PoolTyped', NEW k \in RoundIds, NEW s \in Squares,
         \A m \in Miners : Stake(m, k, s)' = Stake(m, k, s)
  PROVE  PoolHolds(k, s)' = PoolHolds(k, s)
<1>1. [m \in Miners |-> Stake(m, k, s)'] = [m \in Miners |-> Stake(m, k, s)]
  OBVIOUS
<1> QED BY <1>1 DEF PoolTyped

\* A pool account that is only opened has no stake.
OpensPool(m) ==
    \/ pool_member'[m] = pool_member[m]
    \/ pool_member[m] = None /\ pool_member'[m] = NewPoolMember

LEMMA OpenedStakes ==
  ASSUME NEW m \in Miners, OpensPool(m), NEW k \in RoundIds, NEW s \in Squares
  PROVE  Stake(m, k, s)' = Stake(m, k, s)
<1>1. NewPoolMember.deployed[s] = 0
  BY DEF NewPoolMember, Zero
<1> QED BY <1>1 DEF OpensPool, Stake

\* A step that leaves plays, squares and pools alone, but may close a round
\* with its pool, keeps the books of the pool.
LEMMA UndisturbedPool ==
  ASSUME TypeOK, TypeOK', PoolInv, \A m \in Miners : SamePlay(m), SameSquares,
         \A m \in Miners : OpensPool(m),
         \A k \in RoundIds : pool_round'[k] # None =>
           /\ pool_round'[k] = pool_round[k]
           /\ round[k] # None => round'[k] # None
  PROVE  PoolInv'
<1>1. PoolTyped /\ PoolTyped'
  BY PoolTypes, NextPoolTyped
<1>2. board.round_id \in RoundIds /\ board'.round_id = board.round_id
  BY CurrentType DEF SameSquares
<1>3. PoolBooks'
  <2> SUFFICES ASSUME NEW k \in RoundIds, NEW s \in Squares, pool_round'[k] # None
               PROVE  /\ k <= board'.round_id /\ round'[k] # None
                      /\ PoolHolds(k, s)' <= pool_round'[k].deployed[s]
                      /\ k = board'.round_id => PoolHolds(k, s)' = pool_round'[k].deployed[s]
                      /\ pool_round'[k].deployed[s] <= round'[k].deployed[s]
    BY DEF PoolBooks
  <2>1. PoolHolds(k, s)' = PoolHolds(k, s)
    BY <1>1, OpenedStakes, HoldsSame
  <2>2. pool_round[k] # None /\ round[k] # None
    BY DEF PoolInv, PoolBooks
  <2>3. pool_round'[k] = pool_round[k] /\ round'[k] # None /\ round'[k].deployed = round[k].deployed
    BY <2>2 DEF SameSquares
  <2> QED BY <1>2, <2>1, <2>2, <2>3 DEF PoolInv, PoolBooks
<1>4. MemberBooks'
  <2> SUFFICES ASSUME NEW m \in Miners, pool_member'[m] # None
               PROVE  /\ pool_member'[m].round_id <= board'.round_id
                      /\ \A s \in Squares : pool_member'[m].deployed[s] > 0 =>
                           /\ pool_member'[m].round_id \in RoundIds
                           /\ pool_member'[m].round_id = board'.round_id =>
                                Plays(m, board.round_id)'
                           /\ Plays(m, pool_member[m].round_id)' =>
                                miner'[m].deployed[s] = pool_member'[m].deployed[s]
    BY DEF MemberBooks
  <2>1. CASE pool_member[m] = None /\ pool_member'[m] = NewPoolMember
    BY <1>2, <2>1 DEF NewPoolMember, Zero, RoundIds
  <2>2. CASE pool_member'[m] = pool_member[m]
    <3>1. pool_member[m] # None
      BY <2>2
    <3>2. pool_member[m].round_id <= board.round_id
      BY <3>1 DEF PoolInv, MemberBooks
    <3>3. ASSUME NEW s \in Squares, pool_member[m].deployed[s] > 0
          PROVE  /\ pool_member[m].round_id \in RoundIds
                 /\ pool_member[m].round_id = board.round_id => Plays(m, board.round_id)
                 /\ Plays(m, pool_member[m].round_id) =>
                      miner[m].deployed[s] = pool_member[m].deployed[s]
      BY <3>1, <3>3 DEF PoolInv, MemberBooks
    <3> DEFINE q == pool_member[m].round_id
    <3>4. ASSUME q \in RoundIds
          PROVE  /\ Plays(m, pool_member[m].round_id)' => Plays(m, q)
                 /\ Plays(m, q) => Plays(m, pool_member[m].round_id)'
                                   /\ miner'[m].deployed = miner[m].deployed
      BY <2>2, <3>4 DEF SamePlay, Plays
    <3>5. Plays(m, board.round_id) => Plays(m, board.round_id)'
      BY <1>2 DEF SamePlay, Plays
    <3> QED BY <1>2, <2>2, <3>2, <3>3, <3>4, <3>5
  <2> QED BY <2>1, <2>2 DEF OpensPool
<1> QED BY <1>3, <1>4 DEF PoolInv

\* A miner that enters the current round has no stake in its pool yet.
LEMMA EntersUnpooled ==
  ASSUME TypeOK, PoolInv, NEW m \in Miners, Enters(m),
         pool_member[m] # None, pool_member[m].round_id = board.round_id, NEW s \in Squares
  PROVE  pool_member[m].deployed[s] = 0
<1> SUFFICES ASSUME pool_member[m].deployed[s] # 0 PROVE FALSE
  OBVIOUS
<1>1. pool_member[m].deployed[s] > 0
  BY PoolTypes DEF PoolTyped
<1>2. Plays(m, board.round_id) /\ miner[m].deployed[s] = pool_member[m].deployed[s]
  BY <1>1 DEF PoolInv, MemberBooks
<1>3. miner[m].deployed[s] = 0
  BY <1>2 DEF Enters, Zero
<1> QED BY <1>1, <1>2, <1>3

\* Entering a round and staying out of its pool, where nothing is added to it.
LEMMA EnteringUnpooled ==
  ASSUME TypeOK, TypeOK', PoolInv, NEW m \in Miners, Enters(m), UNCHANGED pool_member,
         \A k \in RoundIds : (pool_round'[k] # None) <=> (pool_round[k] # None),
         \A k \in RoundIds, s \in Squares : pool_round[k] # None =>
           pool_round'[k].deployed[s] = pool_round[k].deployed[s]
  PROVE  PoolInv'
<1>1. PoolTyped /\ PoolTyped'
  BY PoolTypes, NextPoolTyped
<1> DEFINE c == board.round_id
<1>2. c \in RoundIds /\ board'.round_id = c /\ round[c] # None /\ round'[c] # None
      /\ Current = round[c] /\ Current' = round'[c]
  BY RoundTypes, NextTyped DEF Enters, SquaresTyped
<1>3. PoolBooks'
  <2> SUFFICES ASSUME NEW k \in RoundIds, NEW s \in Squares, pool_round'[k] # None
               PROVE  /\ k <= c /\ round'[k] # None
                      /\ PoolHolds(k, s)' <= pool_round'[k].deployed[s]
                      /\ k = c => PoolHolds(k, s)' = pool_round'[k].deployed[s]
                      /\ pool_round'[k].deployed[s] <= round'[k].deployed[s]
    BY <1>2 DEF PoolBooks
  <2>1. PoolHolds(k, s)' = PoolHolds(k, s)
    BY <1>1, HoldsSame DEF Stake
  <2>2. pool_round[k] # None /\ pool_round'[k].deployed[s] = pool_round[k].deployed[s]
    OBVIOUS
  <2>3. /\ k <= c /\ round[k] # None
        /\ PoolHolds(k, s) <= pool_round[k].deployed[s]
        /\ k = c => PoolHolds(k, s) = pool_round[k].deployed[s]
        /\ pool_round[k].deployed[s] <= round[k].deployed[s]
    BY <2>2 DEF PoolInv, PoolBooks
  <2>4. CASE k # c
    <3>1. round'[k] = round[k]
      BY <2>4 DEF Enters
    <3> QED BY <2>1, <2>2, <2>3, <2>4, <3>1
  <2>5. CASE k = c
    <3>1. round'[c].deployed[s] = round[c].deployed[s] + miner'[m].deployed[s]
      BY <1>2 DEF Enters
    <3>2. miner'[m].deployed[s] \in Nat /\ round[c].deployed[s] \in Nat
          /\ pool_round[c].deployed[s] \in Nat
      <4>1. Plays(m, c)'
        BY DEF Enters
      <4> QED BY <1>1, <1>2, <2>2, <2>5, <4>1, NextTyped, RoundTypes
              DEF RangesTyped, SquaresTyped, PoolTyped
    <3> QED BY <1>2, <2>1, <2>2, <2>3, <2>5, <3>1, <3>2
  <2> QED BY <2>4, <2>5
<1>4. MemberBooks'
  <2> SUFFICES ASSUME NEW n \in Miners, pool_member[n] # None
               PROVE  /\ pool_member[n].round_id <= c
                      /\ \A s \in Squares : pool_member[n].deployed[s] > 0 =>
                           /\ pool_member[n].round_id \in RoundIds
                           /\ pool_member[n].round_id = c => Plays(n, board.round_id)'
                           /\ Plays(n, pool_member[n].round_id)' =>
                                miner'[n].deployed[s] = pool_member[n].deployed[s]
    BY <1>2 DEF MemberBooks
  <2>1. /\ pool_member[n].round_id <= c
        /\ \A s \in Squares : pool_member[n].deployed[s] > 0 =>
             /\ pool_member[n].round_id \in RoundIds
             /\ pool_member[n].round_id = c => Plays(n, c)
             /\ Plays(n, pool_member[n].round_id) =>
                  miner[n].deployed[s] = pool_member[n].deployed[s]
    BY DEF PoolInv, MemberBooks
  <2>2. CASE n # m
    <3>1. miner'[n] = miner[n]
      BY <2>2 DEF Enters
    <3> QED BY <1>2, <2>1, <3>1 DEF Plays
  <2>3. CASE n = m
    <3>1. ASSUME NEW s \in Squares, pool_member[n].deployed[s] > 0
          PROVE  pool_member[n].round_id # c
      BY <2>3, <3>1, EntersUnpooled
    <3>2. Plays(n, pool_member[n].round_id)' => pool_member[n].round_id = c
      BY <1>2, <2>3 DEF Enters, Plays
    <3> QED BY <2>1, <3>1, <3>2
  <2> QED BY <2>2, <2>3
<1> QED BY <1>3, <1>4 DEF PoolInv

\* Entering a round through its pool: the stake is the deployment, and the pool
\* grows by it on each square.
Joins(m) ==
    /\ Enters(m)
    /\ \A n \in Miners \ {m} : pool_member'[n] = pool_member[n]
    /\ pool_member'[m] # None /\ pool_member'[m].round_id = board.round_id
    /\ \A k \in RoundIds \ {board.round_id} : pool_round'[k] = pool_round[k]
    /\ \A s \in Squares :
         /\ pool_member'[m].deployed[s] = miner'[m].deployed[s]
         /\ pool_round'[board.round_id].deployed[s]
              = pool_round[board.round_id].deployed[s] + miner'[m].deployed[s]

LEMMA JoiningPool ==
  ASSUME TypeOK, TypeOK', PoolInv, NEW m \in Miners, Joins(m)
  PROVE  PoolInv'
<1>1. PoolTyped /\ PoolTyped' /\ Enters(m)
  BY PoolTypes, NextPoolTyped DEF Joins
<1> DEFINE c == board.round_id
<1>2. c \in RoundIds /\ board'.round_id = c /\ round[c] # None /\ round'[c] # None
      /\ Current = round[c] /\ Current' = round'[c]
      /\ pool_round[c] # None /\ pool_round'[c] # None
  <2>1. c \in RoundIds /\ board'.round_id = c /\ round[c] # None /\ round'[c] # None
        /\ Current = round[c] /\ Current' = round'[c]
    BY <1>1, RoundTypes, NextTyped DEF Enters, SquaresTyped
  <2>2. pool_round[c] # None /\ pool_round'[c] # None
    BY <2>1, NoneAssumption DEF TypeOK
  <2> QED BY <2>1, <2>2
<1>3. ASSUME NEW s \in Squares
      PROVE  /\ Stake(m, c, s) = 0 /\ Stake(m, c, s)' = miner'[m].deployed[s]
             /\ miner'[m].deployed[s] \in Nat
             /\ \A k \in RoundIds \ {c} : Stake(m, k, s)' = 0
  <2>1. Stake(m, c, s) = 0
    BY <1>1, EntersUnpooled DEF Stake
  <2>2. Plays(m, c)'
    BY <1>1 DEF Enters
  <2> QED BY <1>2, <2>1, <2>2, NextTyped DEF RangesTyped, Joins, Stake
<1>4. \A n \in Miners \ {m}, k \in RoundIds, s \in Squares : Stake(n, k, s)' = Stake(n, k, s)
  BY DEF Joins, Stake
<1>5. ASSUME NEW s \in Squares
      PROVE  PoolHolds(c, s)' = PoolHolds(c, s) + miner'[m].deployed[s]
  <2> DEFINE f == [n \in Miners |-> Stake(n, c, s)]
             g == [n \in Miners |-> Stake(n, c, s)']
  <2>1. \A i \in 1 .. NumMiners : f[i] \in Nat /\ g[i] \in Nat
    BY <1>1, <1>2 DEF PoolTyped, Miners
  <2>2. \A i \in (1 .. NumMiners) \ {m} : g[i] = f[i]
    BY <1>2, <1>4 DEF Miners
  <2>3. f[m] = 0 /\ g[m] = miner'[m].deployed[s] /\ m \in 1 .. NumMiners
    BY <1>3 DEF Miners
  <2>4. PoolHolds(c, s) = Sum(f, NumMiners) /\ PoolHolds(c, s)' = Sum(g, NumMiners)
        /\ PoolHolds(c, s) \in Nat
    BY <1>1, <1>2 DEF PoolTyped
  <2>5. Sum(g, NumMiners) = Sum(f, NumMiners) + g[m] - f[m]
    <3> HIDE DEF f, g
    <3> QED BY <2>1, <2>2, <2>3, SumUpdate, ConstantTypes
  <2> HIDE DEF f, g
  <2> QED BY <1>3, <2>3, <2>4, <2>5
<1>6. PoolBooks'
  <2> SUFFICES ASSUME NEW k \in RoundIds, NEW s \in Squares, pool_round'[k] # None
               PROVE  /\ k <= c /\ round'[k] # None
                      /\ PoolHolds(k, s)' <= pool_round'[k].deployed[s]
                      /\ k = c => PoolHolds(k, s)' = pool_round'[k].deployed[s]
                      /\ pool_round'[k].deployed[s] <= round'[k].deployed[s]
    BY <1>2 DEF PoolBooks
  <2>1. CASE k = c
    <3>1. /\ PoolHolds(c, s) = pool_round[c].deployed[s]
          /\ pool_round[c].deployed[s] <= round[c].deployed[s]
      BY <1>2 DEF PoolInv, PoolBooks
    <3>2. /\ round'[c].deployed[s] = round[c].deployed[s] + miner'[m].deployed[s]
          /\ pool_round'[c].deployed[s] = pool_round[c].deployed[s] + miner'[m].deployed[s]
      BY <1>1, <1>2 DEF Enters, Joins
    <3>3. /\ round[c].deployed[s] \in Nat /\ pool_round[c].deployed[s] \in Nat
          /\ miner'[m].deployed[s] \in Nat
      BY <1>1, <1>2, <1>3, RoundTypes DEF SquaresTyped, PoolTyped
    <3>4. k <= c
      BY <2>1 DEF RoundIds
    <3> QED BY <1>2, <1>5, <2>1, <3>1, <3>2, <3>3, <3>4
  <2>2. CASE k # c
    <3>1. pool_round'[k] = pool_round[k] /\ round'[k] = round[k]
      BY <1>1, <2>2 DEF Enters, Joins
    <3>2. /\ k <= c /\ round[k] # None
          /\ PoolHolds(k, s) <= pool_round[k].deployed[s]
          /\ pool_round[k].deployed[s] <= round[k].deployed[s]
      BY <3>1 DEF PoolInv, PoolBooks
    <3>3. \A n \in Miners : Stake(n, k, s)' <= Stake(n, k, s)
      BY <1>1, <1>3, <1>4, <2>2 DEF PoolTyped
    <3>4. PoolHolds(k, s)' <= PoolHolds(k, s)
      BY <1>1, <3>3, HoldsLess
    <3>5. PoolHolds(k, s)' \in Nat /\ PoolHolds(k, s) \in Nat /\ pool_round[k].deployed[s] \in Nat
      BY <1>1, <3>1 DEF PoolTyped
    <3> QED BY <2>2, <3>1, <3>2, <3>4, <3>5
  <2> QED BY <2>1, <2>2
<1>7. MemberBooks'
  <2> SUFFICES ASSUME NEW n \in Miners, pool_member'[n] # None
               PROVE  /\ pool_member'[n].round_id <= c
                      /\ \A s \in Squares : pool_member'[n].deployed[s] > 0 =>
                           /\ pool_member'[n].round_id \in RoundIds
                           /\ pool_member'[n].round_id = c => Plays(n, board.round_id)'
                           /\ Plays(n, pool_member[n].round_id)' =>
                                miner'[n].deployed[s] = pool_member'[n].deployed[s]
    BY <1>2 DEF MemberBooks
  <2>1. CASE n = m
    <3>1. c <= c /\ Plays(m, board.round_id)'
      BY <1>1, <1>2 DEF Enters, RoundIds
    <3> QED BY <1>2, <2>1, <3>1 DEF Joins
  <2>2. CASE n # m
    <3>1. miner'[n] = miner[n] /\ pool_member'[n] = pool_member[n]
      BY <1>1, <2>2 DEF Enters, Joins
    <3> QED BY <1>2, <3>1 DEF PoolInv, MemberBooks, Plays
  <2> QED BY <2>1, <2>2
<1> QED BY <1>6, <1>7 DEF PoolInv

\* A deployment through the pool, and one that stays out of it.
LEMMA PlacePool ==
  ASSUME TypeOK, TypeOK', PoolInv, NEW m \in Miners, NEW squares \in SUBSET Squares,
         NEW amount \in Nat, NEW pooled \in BOOLEAN, Place(m, squares, amount, pooled)
  PROVE  PoolInv'
<1> DEFINE c == board.round_id
           P == EnteredPoolMember(m)
           newcomers == {s \in Squares : P.deployed[s] = 0}
           joined == DeployedPoolMember(m, squares, amount)
           G == Grown(pool_round[c], squares, amount, newcomers)
<1>1. Enters(m)
  BY PlaceEnters
<1>2. c \in RoundIds /\ pool_round[c] \in PoolRoundRecord /\ pool_round[c] # None
  BY CurrentType, NoneAssumption
<1>3. CASE StayOutOfPool
  BY <1>1, <1>3, EnteringUnpooled DEF StayOutOfPool
<1>4. CASE JoinPool(m, squares, amount)
  <2>1. /\ joined # None
        /\ pool_member' = [pool_member EXCEPT ![m] = joined]
        /\ pool_round' = [pool_round EXCEPT ![c] = G]
    BY <1>4 DEF JoinPool
  <2>2. G \in PoolRoundRecord
    <3> HIDE DEF newcomers
    <3> QED BY <1>2, GrownPoolType
  <2>3. G.deployed = [s \in Squares |-> pool_round[c].deployed[s]
                                          + IF s \in squares THEN amount ELSE 0]
    <3> DEFINE count == [s \in Squares |->
                  pool_round[c].count[s] + IF s \in squares \cap newcomers THEN 1 ELSE 0]
               total == pool_round[c].total_deployed + amount * Cardinality(squares)
    <3> HIDE DEF count, total, newcomers, c
    <3> QED BY <1>2 DEF Grown, PoolRoundRecord, count, total
  <2>4. /\ pool_round'[c] = G /\ \A k \in RoundIds \ {c} : pool_round'[k] = pool_round[k]
        /\ pool_member'[m] = joined
        /\ \A n \in Miners \ {m} : pool_member'[n] = pool_member[n]
    <3> HIDE DEF G, joined
    <3> QED BY <1>2, <2>1 DEF TypeOK
  <2>5. ASSUME NEW s \in Squares
        PROVE  pool_round[c].deployed[s] \in Nat
    BY <1>2 DEF PoolRoundRecord, Sqs
  <2>6. CASE squares = {}
    <3>1. UNCHANGED pool_member
      BY <2>1, <2>6 DEF DeployedPoolMember, TypeOK
    <3>2. \A k \in RoundIds : (pool_round'[k] # None) <=> (pool_round[k] # None)
      BY <1>2, <2>2, <2>4, NoneAssumption
    <3>3. \A s \in Squares : G.deployed[s] = pool_round[c].deployed[s]
      <4> HIDE DEF G
      <4> QED BY <2>3, <2>5, <2>6
    <3>4. \A k \in RoundIds, s \in Squares : pool_round[k] # None =>
            pool_round'[k].deployed[s] = pool_round[k].deployed[s]
      <4> HIDE DEF G
      <4> QED BY <2>4, <3>3
    <3> QED BY <1>1, <3>1, <3>2, <3>4, EnteringUnpooled
  <2>7. CASE squares # {}
    <3> DEFINE deployed == [s \in Squares |-> P.deployed[s] + IF s \in squares THEN amount ELSE 0]
               total == P.total_deployed + amount * Cardinality(squares)
               Q == [P EXCEPT !.deployed = deployed, !.total_deployed = total]
    <3>1. joined = Q
      BY <2>7 DEF DeployedPoolMember
    <3>2. P \in PoolMemberRecord /\ P.round_id = c
      <4>1. P \in PoolMemberRecord
        BY DeployedPoolMemberType
      <4> QED BY <4>1 DEF EnteredPoolMember, NewPoolMember
    <3>3. Q.round_id = c /\ Q.deployed = deployed
      <4> HIDE DEF P, deployed, total, c
      <4> QED BY <3>2 DEF PoolMemberRecord
    <3>4. ASSUME NEW s \in Squares PROVE P.deployed[s] = 0
      <4>1. CASE OpenedPoolMember(m).round_id # c
        BY <4>1 DEF EnteredPoolMember, NewPoolMember, Zero
      <4>2. CASE OpenedPoolMember(m).round_id = c /\ pool_member[m] = None
        BY <4>2 DEF EnteredPoolMember, OpenedPoolMember, NewPoolMember, Zero
      <4>3. CASE OpenedPoolMember(m).round_id = c /\ pool_member[m] # None
        <5>1. P = pool_member[m] /\ pool_member[m].round_id = c
          BY <4>3 DEF EnteredPoolMember, OpenedPoolMember
        <5> QED BY <1>1, <4>3, <5>1, EntersUnpooled
      <4> QED BY <4>1, <4>2, <4>3
    <3>5. ASSUME NEW s \in Squares
          PROVE  miner'[m].deployed[s] = IF s \in squares THEN amount ELSE 0
      <4>1. MayEnter(m) /\ miner' = [miner EXCEPT ![m] = DeployedMiner(m, squares, amount)]
        BY DEF Place
      <4>2. miner'[m] = DeployedMiner(m, squares, amount)
        BY <4>1 DEF TypeOK
      <4>3. EnteredMiner(m) \in MinerRecord /\ EnteredMiner(m).deployed = Zero
        BY <4>1, EnteredIsEmpty
      <4>4. DeployedMiner(m, squares, amount).deployed =
              [t \in Squares |-> IF t \in squares THEN amount ELSE EnteredMiner(m).deployed[t]]
        BY <4>3 DEF DeployedMiner, MinerRecord
      <4> QED BY <4>2, <4>3, <4>4 DEF Zero
    <3>6. ASSUME NEW s \in Squares
          PROVE  /\ deployed[s] = miner'[m].deployed[s]
                 /\ G.deployed[s] = pool_round[c].deployed[s] + miner'[m].deployed[s]
      <4> HIDE DEF P, G
      <4> QED BY <2>3, <3>4, <3>5
    <3>7. Joins(m)
      <4> HIDE DEF Q, G, joined, deployed
      <4> QED BY <1>1, <2>1, <2>4, <3>1, <3>3, <3>6 DEF Joins
    <3> QED BY <3>7, JoiningPool
  <2> QED BY <2>6, <2>7
<1> QED BY <1>3, <1>4 DEF Place

\* A reset opens a pool that nobody has joined, and finishes the current one.
LEMMA ResetPool ==
  ASSUME TypeOK, TypeOK', PoolInv, NEW candidate \in Miners \cup {None},
         Reset(candidate) \/ ResetPermissionless(candidate)
  PROVE  PoolInv'
<1>1. PoolTyped /\ PoolTyped'
  BY PoolTypes, NextPoolTyped
<1> DEFINE c == board.round_id
<1>2. /\ c \in RoundIds /\ c + 1 \in RoundIds /\ board'.round_id = c + 1
      /\ UNCHANGED <<miner, pool_member>>
      /\ round'[c + 1] = NewRound
      /\ round'[c] \in RoundRecord /\ round'[c].deployed = Current.deployed
      /\ \A k \in RoundIds \ {c, c + 1} : round'[k] = round[k]
      /\ pool_round' = [pool_round EXCEPT ![c + 1] = NewPoolRound]
  <2>1. board.round_id \in Nat
    BY CurrentType DEF RoundIds
  <2> QED BY <2>1, ResetDoes
<1>3. /\ pool_round'[c + 1] = NewPoolRound
      /\ \A k \in RoundIds \ {c + 1} : pool_round'[k] = pool_round[k]
  <2> HIDE DEF c
  <2> QED BY <1>2 DEF TypeOK
<1>4. \A k \in RoundIds : k <= c => k <= c + 1 /\ k # c + 1
  BY <1>2 DEF RoundIds
<1>5. \A m \in Miners, k \in RoundIds, s \in Squares : Stake(m, k, s)' = Stake(m, k, s)
  BY <1>2 DEF Stake
<1>6. \A m \in Miners, s \in Squares : Stake(m, c + 1, s) = 0
  <2>1. ASSUME NEW m \in Miners, pool_member[m] # None PROVE pool_member[m].round_id # c + 1
    <3>1. pool_member[m].round_id <= c /\ pool_member[m].round_id \in Nat
      BY <2>1, PoolTypes DEF PoolInv, MemberBooks, TypeOK, PoolMemberRecord
    <3> QED BY <1>2, <3>1 DEF RoundIds
  <2> QED BY <2>1 DEF Stake
<1>7. PoolBooks'
  <2> SUFFICES ASSUME NEW k \in RoundIds, NEW s \in Squares, pool_round'[k] # None
               PROVE  /\ k <= c + 1 /\ round'[k] # None
                      /\ PoolHolds(k, s)' <= pool_round'[k].deployed[s]
                      /\ k = c + 1 => PoolHolds(k, s)' = pool_round'[k].deployed[s]
                      /\ pool_round'[k].deployed[s] <= round'[k].deployed[s]
    BY <1>2 DEF PoolBooks
  <2>1. PoolHolds(k, s)' = PoolHolds(k, s)
    BY <1>1, <1>5, HoldsSame
  <2>2. CASE k = c + 1
    <3>1. PoolHolds(k, s) = 0
      <4>1. \A i \in 1 .. NumMiners : [m \in Miners |-> Stake(m, k, s)][i] = 0
        BY <1>6, <2>2 DEF Miners
      <4>2. Sum([m \in Miners |-> Stake(m, k, s)], NumMiners) = 0
        BY <4>1, SumOfZeros, ConstantTypes
      <4> QED BY <1>1, <4>2 DEF PoolTyped
    <3>2. pool_round'[k].deployed[s] = 0 /\ round'[k].deployed[s] = 0
      BY <1>2, <1>3, <2>2 DEF NewPoolRound, NewRound, Zero
    <3>3. k <= c + 1 /\ NewRound # None
      BY <1>2, <2>2, NewTypes, NoneAssumption DEF RoundIds
    <3> QED BY <1>2, <2>1, <2>2, <3>1, <3>2, <3>3
  <2>3. CASE k # c + 1
    <3>1. pool_round'[k] = pool_round[k] /\ pool_round[k] # None
      BY <1>3, <2>3
    <3>2. /\ k <= c /\ round[k] # None
          /\ PoolHolds(k, s) <= pool_round[k].deployed[s]
          /\ pool_round[k].deployed[s] <= round[k].deployed[s]
      BY <3>1 DEF PoolInv, PoolBooks
    <3>3. round'[k] # None /\ round'[k].deployed = round[k].deployed
      BY <1>2, <2>3, <3>2, NoneAssumption DEF Current
    <3> QED BY <1>4, <2>1, <2>3, <3>1, <3>2, <3>3
  <2> QED BY <2>2, <2>3
<1>8. MemberBooks'
  <2> SUFFICES ASSUME NEW m \in Miners, pool_member[m] # None
               PROVE  /\ pool_member[m].round_id <= c + 1
                      /\ pool_member[m].round_id # c + 1
                      /\ \A s \in Squares : pool_member[m].deployed[s] > 0 =>
                           /\ pool_member[m].round_id \in RoundIds
                           /\ Plays(m, pool_member[m].round_id) =>
                                miner[m].deployed[s] = pool_member[m].deployed[s]
    BY <1>2 DEF MemberBooks, Plays
  <2>1. pool_member[m].round_id <= c /\ pool_member[m].round_id \in Nat
    BY DEF PoolInv, MemberBooks, TypeOK, PoolMemberRecord
  <2>2. pool_member[m].round_id <= c + 1 /\ pool_member[m].round_id # c + 1
    <3>1. c \in Nat
      BY <1>2 DEF RoundIds
    <3> QED BY <2>1, <3>1
  <2> QED BY <2>2 DEF PoolInv, MemberBooks
<1> QED BY <1>7, <1>8 DEF PoolInv

\* One case per action.
LEMMA NextPool == TypeOK /\ TypeOK' /\ PoolInv /\ [Next]_vars => PoolInv'
<1> SUFFICES ASSUME TypeOK, TypeOK', PoolInv, [Next]_vars PROVE PoolInv'
  OBVIOUS
<1> DEFINE Undisturbed == (\A n \in Miners : SamePlay(n)) /\ SameSquares
           PoolsKept == /\ \A m \in Miners : OpensPool(m)
                        /\ \A k \in RoundIds : pool_round'[k] # None =>
                             /\ pool_round'[k] = pool_round[k]
                             /\ round[k] # None => round'[k] # None
<1>1. Undisturbed /\ PoolsKept => PoolInv'
  BY UndisturbedPool
<1>2. UNCHANGED <<pool_member, pool_round, round>> => PoolsKept
  BY DEF OpensPool
<1>3. ASSUME Tick \/ (\E value \in RngValues : Reveal(value)) \/ UNCHANGED vars
      PROVE  Undisturbed /\ PoolsKept
  BY <1>2, <1>3, KeptPlays DEF Tick, Reveal, vars, KeepsPlay, SameSquares
<1>4. ASSUME NEW m \in Miners, NEW squares \in Masks, NEW amount \in Amounts,
             NEW pooled \in PoolModes, Deploy(m, squares, amount, pooled)
      PROVE  PoolInv'
  BY <1>4, PlacePool, SizesAssumption DEF Deploy
<1>5. ASSUME NEW m \in Miners, NEW r \in Hashes, NEW squares \in SUBSET Squares,
             DeployByExecutor(m, r, squares)
      PROVE  PoolInv'
  <2>1. automation[m].plan \in Plans
    BY <1>5, AutomationType DEF DeployByExecutor
  <2>2. automation[m].plan.amount \in Nat /\ automation[m].plan.is_pooled \in BOOLEAN
    BY <2>1, SizesAssumption
  <2> QED BY <1>5, <2>2, PlacePool DEF DeployByExecutor
<1>6. ASSUME NEW m \in Miners, NEW r \in Hashes, NEW squares \in SUBSET Squares,
             DeployCancelled(m, r, squares)
      PROVE  PoolInv'
  <2>1. Enters(m)
    BY <1>6, CancelledEnters
  <2> QED BY <1>6, <2>1, EnteringUnpooled DEF DeployCancelled
<1>7. ASSUME NEW m \in Miners,
             \/ \E plan \in Plans, deposit \in Deposits : Automate(m, plan, deposit)
             \/ CloseAutomation(m)
             \/ \E deposit \in Deposits : FundAutomation(m, deposit)
             \/ ClaimSol(m)
             \/ ClaimSolAndFundAutomation(m)
             \/ CheckpointForfeit(m)
      PROVE  Undisturbed /\ PoolsKept
  <2>1. Undisturbed
    BY <1>7, AuthorityKeepsPlays
  <2>2. UNCHANGED <<pool_round, round>>
    BY <1>7 DEF Automate, CloseAutomation, FundAutomation, ClaimSol,
                ClaimSolAndFundAutomation, CheckpointForfeit
  <2>3. ASSUME NEW plan \in Plans, NEW deposit \in Deposits, Automate(m, plan, deposit)
        PROVE  \A n \in Miners : OpensPool(n)
    BY <2>3 DEF Automate, OpensPool, OpenedPoolMember, TypeOK
  <2>4. \/ \E plan \in Plans, deposit \in Deposits : Automate(m, plan, deposit)
        \/ UNCHANGED pool_member
    BY <1>7 DEF CloseAutomation, FundAutomation, ClaimSol, ClaimSolAndFundAutomation,
                CheckpointForfeit
  <2> QED BY <2>1, <2>2, <2>3, <2>4 DEF OpensPool
<1>8. ASSUME NEW candidate \in Miners \cup {None},
             Reset(candidate) \/ ResetPermissionless(candidate)
      PROVE  PoolInv'
  BY <1>8, ResetPool
<1>9. ASSUME NEW m \in Miners, NEW pooled \in BOOLEAN, Checkpoint(m, pooled)
      PROVE  Undisturbed /\ PoolsKept
  <2>1. Undisturbed
    BY <1>9, CheckpointKeepsPlays
  <2>2. UNCHANGED <<pool_member, pool_round>>
    BY <1>9 DEF Checkpoint
  <2>3. \A k \in RoundIds : round[k] # None => round'[k] # None
    BY <1>9, CheckpointDoes, NoneAssumption
  <2> QED BY <2>1, <2>2, <2>3 DEF OpensPool
<1>10. ASSUME NEW k \in RoundIds, Close(k) PROVE Undisturbed /\ PoolsKept
  <2>1. Undisturbed
    BY <1>10, CloseKeepsPlays
  <2>2. PoolsKept
    BY <1>10 DEF Close, OpensPool, TypeOK
  <2> QED BY <2>1, <2>2
<1>11. ASSUME \/ \E r \in Referrers : InitializeReferrer(r) \/ ClaimReferral(r)
              \/ \E m \in Claimants : SetNoReferrer(m) \/ \E r \in Referrers : SetReferrer(m, r)
              \/ \E rate \in Rates : SetGodlPerRound(rate)
              \/ \E denominator \in Denominators : SetMotherlodeDenominator(denominator)
              \/ \E t \in Timings : UpdateProtocolConfig(t)
              \/ \E amount \in Withdrawals : TakeFromVault(amount)
              \/ \E amount \in GoldBuys : PreBuyGold(amount)
       PROVE  Undisturbed /\ PoolsKept
  <2>1. Undisturbed
    BY <1>11, OthersKeepPlays
  <2>2. UNCHANGED <<pool_member, pool_round, round>>
    BY <1>11 DEF InitializeReferrer, ClaimReferral, SetNoReferrer, SetReferrer,
       RoundsUntouched, SetGodlPerRound, SetMotherlodeDenominator, UpdateProtocolConfig,
       SettingsOnly, TakeFromVault, PreBuyGold, VaultOnly
  <2> QED BY <1>2, <2>1, <2>2
<1>12. Claimants \subseteq Miners
  BY SizesAssumption
<1> HIDE DEF Undisturbed, PoolsKept
<1> QED BY <1>1, <1>3, <1>4, <1>5, <1>6, <1>7, <1>8, <1>9, <1>10, <1>11, <1>12 DEF Next

\* Initially nobody is in the pool.
LEMMA InitPool == Init => PoolInv
<1> SUFFICES ASSUME Init PROVE PoolInv
  OBVIOUS
<1>1. TypeOK
  BY InitTypes
<1>2. MemberBooks
  BY DEF Init, MemberBooks
<1>3. ASSUME NEW k \in RoundIds, NEW s \in Squares, pool_round[k] # None
      PROVE  k = 1 /\ pool_round[k].deployed[s] = 0 /\ round[k].deployed[s] = 0
             /\ PoolHolds(k, s) = 0 /\ k <= board.round_id /\ round[k] # None
  <2>1. k = 1
    BY <1>3 DEF Init
  <2>2. pool_round[k] = NewPoolRound /\ round[k] = NewRound /\ board.round_id = 1
    BY <2>1 DEF Init, RoundIds
  <2>3. \A i \in 1 .. NumMiners : [m \in Miners |-> Stake(m, k, s)][i] = 0
    BY DEF Init, Miners, Stake
  <2>4. PoolHolds(k, s) = 0
    BY <1>1, <2>3, SumOfZeros, ConstantTypes, PoolTypes DEF PoolTyped
  <2>5. NewRound # None
    BY NewTypes, NoneAssumption
  <2> QED BY <2>1, <2>2, <2>4, <2>5 DEF NewPoolRound, NewRound, Zero
<1>4. PoolBooks
  BY <1>3 DEF PoolBooks
<1> QED BY <1>2, <1>4 DEF PoolInv

LEMMA PoolInvariant == Spec => []PoolInv
<1>1. TypeOK /\ PoolInv /\ [Next]_vars => TypeOK' /\ PoolInv'
  BY NextTypes, NextPool
<1> QED BY InitTypes, InitPool, <1>1, PTL DEF Spec

\* The pool counts exactly what its members of the current round deployed
\* through it, never less than what the members of a finished round did, and
\* every stake is a whole deployment of the member (deploy.rs:261-267), however
\* miners enter, leave unsettled stakes behind, and rounds are reset and closed.
THEOREM PoolAlwaysAgrees == Spec => []PoolAgrees
<1>1. TypeOK /\ PoolInv => PoolAgrees
  <2> SUFFICES ASSUME TypeOK, PoolInv PROVE PoolAgrees
    OBVIOUS
  <2>1. ASSUME NEW m \in Miners, NEW s \in Squares,
               pool_member[m] # None, Plays(m, pool_member[m].round_id)
        PROVE  pool_member[m].deployed[s] \in {0, miner[m].deployed[s]}
    <3>1. pool_member[m].deployed[s] \in Nat
      BY <2>1, PoolTypes DEF PoolTyped
    <3>2. pool_member[m].deployed[s] > 0 => miner[m].deployed[s] = pool_member[m].deployed[s]
      BY <2>1 DEF PoolInv, MemberBooks
    <3> QED BY <3>1, <3>2
  <2> QED BY <2>1 DEF PoolInv, PoolBooks, PoolAgrees
<1> QED BY <1>1, PoolInvariant, TypesAreCorrect, PTL
-----------------------------------------------------------------------------
(* The kinds of steps: idle ones, and those that play, reset, settle or close *)

\* What the game knows of an account: all but its SOL, its fee and its referrer.
SameGame(M, N) ==
    /\ M.round_id = N.round_id /\ M.checkpoint_id = N.checkpoint_id
    /\ M.deployed = N.deployed /\ M.cumulative = N.cumulative
    /\ M.rewards_godl = N.rewards_godl

KeepsAccount(m) ==
    \/ miner'[m] = miner[m]
    \/ miner'[m] \in MinerRecord /\ SameGame(miner'[m], OpenedMiner(m))

\* A step that may open accounts, but leaves the game and the GODL alone.
Idle ==
    /\ \A m \in Miners : KeepsAccount(m) /\ OpensPool(m)
    /\ UNCHANGED <<board, round, pool_round, supply>>
    /\ treasury'.total_unclaimed = treasury.total_unclaimed
    /\ treasury'.motherlode = treasury.motherlode
    /\ treasury'.tokens = treasury.tokens

\* Miner m enters the current round, with a deployment or without.
Entering(m) ==
    /\ MayEnter(m) /\ Enters(m)
    /\ miner'[m] \in MinerRecord
    /\ miner'[m].checkpoint_id = OpenedMiner(m).checkpoint_id
    /\ miner'[m].rewards_godl = OpenedMiner(m).rewards_godl
    /\ \A n \in Miners \ {m} : pool_member'[n] = pool_member[n]
    /\ \A k \in RoundIds \ {board.round_id} : pool_round'[k] = pool_round[k]
    /\ Current'.top_miner = Current.top_miner
    /\ \A s \in Squares : Current'.count[s] >=
         Current.count[s] + IF miner'[m].deployed[s] > 0 THEN 1 ELSE 0
    /\ UNCHANGED <<slot, treasury, supply>>

LEMMA StoredKeeps ==
  ASSUME TypeOK, NEW m \in Miners, NEW M \in MinerRecord,
         miner' = [miner EXCEPT ![m] = M], SameGame(M, OpenedMiner(m))
  PROVE  \A n \in Miners : KeepsAccount(n)
BY DEF KeepsAccount, TypeOK

\* Settings and claims of an authority.
LEMMA AuthorityIsIdle ==
  ASSUME TypeOK, NEW m \in Miners,
         \/ \E plan \in Plans, deposit \in Deposits : Automate(m, plan, deposit)
         \/ CloseAutomation(m)
         \/ \E deposit \in Deposits : FundAutomation(m, deposit)
         \/ ClaimSol(m)
         \/ ClaimSolAndFundAutomation(m)
         \/ SetNoReferrer(m)
         \/ \E r \in Referrers : SetReferrer(m, r)
  PROVE  Idle
<1>1. OpenedMiner(m) \in MinerRecord
  BY OpenedMinerType
<1>2. UNCHANGED <<board, round, pool_round, supply, treasury>>
  BY DEF Automate, CloseAutomation, FundAutomation, ClaimSol, ClaimSolAndFundAutomation,
         SetNoReferrer, SetReferrer, RoundsUntouched
<1>3. \A n \in Miners : OpensPool(n)
  BY DEF Automate, CloseAutomation, FundAutomation, ClaimSol, ClaimSolAndFundAutomation,
         SetNoReferrer, SetReferrer, RoundsUntouched, OpensPool, OpenedPoolMember, TypeOK
<1>4. ASSUME NEW plan \in Plans, NEW deposit \in Deposits, Automate(m, plan, deposit)
      PROVE  \A n \in Miners : KeepsAccount(n)
  <2> DEFINE topUp == IF OpenedMiner(m).checkpoint_fee = 0 THEN CHECKPOINT_FEE ELSE 0
             fee == OpenedMiner(m).checkpoint_fee + topUp
             lamports == OpenedMiner(m).lamports + topUp
             M == [OpenedMiner(m) EXCEPT !.checkpoint_fee = fee, !.lamports = lamports]
  <2>1. miner' = [miner EXCEPT ![m] = M]
    BY <1>4 DEF Automate
  <2>2. fee \in Nat /\ lamports \in Int
    BY <1>1, ConstantTypes DEF MinerRecord
  <2>3. M \in MinerRecord /\ SameGame(M, OpenedMiner(m))
    <3> HIDE DEF fee, lamports
    <3> QED BY <1>1, <2>2 DEF MinerRecord, SameGame
  <2> HIDE DEF M
  <2> QED BY <2>1, <2>3, StoredKeeps
<1>5. ASSUME CloseAutomation(m)
      PROVE  \A n \in Miners : KeepsAccount(n)
  BY <1>1, <1>5, StoredKeeps DEF CloseAutomation, SameGame
<1>6. ASSUME \E deposit \in Deposits : FundAutomation(m, deposit)
      PROVE  \A n \in Miners : KeepsAccount(n)
  BY <1>6 DEF FundAutomation, KeepsAccount
<1>7. ASSUME ClaimSol(m) \/ ClaimSolAndFundAutomation(m)
      PROVE  \A n \in Miners : KeepsAccount(n)
  <2> DEFINE cash == miner[m].lamports - miner[m].rewards_sol
             M == [miner[m] EXCEPT !.rewards_sol = 0, !.lamports = cash]
  <2>1. miner[m] \in MinerRecord /\ OpenedMiner(m) = miner[m]
    BY <1>7 DEF ClaimSol, ClaimSolAndFundAutomation, TypeOK, OpenedMiner
  <2>2. miner' = [miner EXCEPT ![m] = M]
    BY <1>7, <2>1 DEF ClaimSol, ClaimSolAndFundAutomation, PaySolOut, TypeOK
  <2>3. cash \in Int
    BY <2>1 DEF MinerRecord
  <2>4. M \in MinerRecord /\ SameGame(M, miner[m])
    <3> HIDE DEF cash
    <3> QED BY <2>1, <2>3 DEF MinerRecord, SameGame
  <2> HIDE DEF M
  <2> QED BY <2>1, <2>2, <2>4, StoredKeeps
<1>8. ASSUME SetNoReferrer(m) \/ \E r \in Referrers : SetReferrer(m, r)
      PROVE  \A n \in Miners : KeepsAccount(n)
  <2>1. PICK x \in Referrers \cup {LOCKED} : miner' = [miner EXCEPT ![m].referrer = x]
    BY <1>8 DEF SetNoReferrer, SetReferrer
  <2>2. miner[m] \in MinerRecord /\ OpenedMiner(m) = miner[m]
    BY <1>8 DEF SetNoReferrer, SetReferrer, Unreferred, TypeOK, OpenedMiner
  <2> DEFINE M == [miner[m] EXCEPT !.referrer = x]
  <2>3. miner' = [miner EXCEPT ![m] = M]
    BY <2>1, <2>2 DEF TypeOK
  <2>4. M \in MinerRecord /\ SameGame(M, miner[m])
    BY <2>2 DEF MinerRecord, SameGame
  <2> HIDE DEF M
  <2> QED BY <2>2, <2>3, <2>4, StoredKeeps
<1>9. \A n \in Miners : KeepsAccount(n)
  BY <1>4, <1>5, <1>6, <1>7, <1>8
<1> QED BY <1>2, <1>3, <1>9 DEF Idle

\* The clock, the entropy program, referrers, settings and the SOL vaults.
LEMMA OthersAreIdle ==
  ASSUME TypeOK,
         \/ Tick
         \/ \E value \in RngValues : Reveal(value)
         \/ \E r \in Referrers : InitializeReferrer(r) \/ ClaimReferral(r)
         \/ \E rate \in Rates : SetGodlPerRound(rate)
         \/ \E denominator \in Denominators : SetMotherlodeDenominator(denominator)
         \/ \E t \in Timings : UpdateProtocolConfig(t)
         \/ \E amount \in Withdrawals : TakeFromVault(amount)
         \/ \E amount \in GoldBuys : PreBuyGold(amount)
         \/ UNCHANGED vars
  PROVE  Idle
<1>1. UNCHANGED <<board, round, pool_round, pool_member, miner, supply>>
  BY DEF Tick, Reveal, InitializeReferrer, ClaimReferral, RoundsUntouched, SetGodlPerRound,
         SetMotherlodeDenominator, UpdateProtocolConfig, SettingsOnly, TakeFromVault,
         PreBuyGold, VaultOnly, vars
<1>2. \/ UNCHANGED treasury
      \/ \E amount \in Withdrawals : TakeFromVault(amount)
  BY DEF Tick, Reveal, InitializeReferrer, ClaimReferral, RoundsUntouched, SetGodlPerRound,
         SetMotherlodeDenominator, UpdateProtocolConfig, SettingsOnly, PreBuyGold, vars
<1>3. ASSUME NEW amount \in Withdrawals, TakeFromVault(amount)
      PROVE  /\ treasury'.total_unclaimed = treasury.total_unclaimed
             /\ treasury'.motherlode = treasury.motherlode
             /\ treasury'.tokens = treasury.tokens
  <2>1. treasury' = [treasury EXCEPT !.balance = @ - amount, !.lamports = @ - amount]
    BY <1>3 DEF TakeFromVault
  <2> QED BY <2>1 DEF TypeOK
<1> QED BY <1>1, <1>2, <1>3 DEF Idle, KeepsAccount, OpensPool

\* A deployment, by hand or by the executor, or its cancellation.
LEMMA DeploysEnter ==
  ASSUME TypeOK, TypeOK', NEW m \in Miners,
         \/ \E squares \in Masks, amount \in Amounts, pooled \in PoolModes :
              Deploy(m, squares, amount, pooled)
         \/ \E r \in Hashes, squares \in SUBSET Squares : DeployByExecutor(m, r, squares)
         \/ \E r \in Hashes, squares \in SUBSET Squares : DeployCancelled(m, r, squares)
  PROVE  Entering(m)
<1>1. EnteredMiner(m) \in MinerRecord /\ OpenedMiner(m) \in MinerRecord
      /\ EnteredMiner(m).checkpoint_id = OpenedMiner(m).checkpoint_id
      /\ EnteredMiner(m).rewards_godl = OpenedMiner(m).rewards_godl
  <2>1. EnteredMiner(m) \in MinerRecord /\ OpenedMiner(m) \in MinerRecord
    BY EnteredMinerType, OpenedMinerType
  <2> QED BY <2>1 DEF EnteredMiner, MinerRecord
<1>2. ASSUME NEW squares \in SUBSET Squares, NEW amount \in Nat, NEW pooled \in BOOLEAN,
             Place(m, squares, amount, pooled), UNCHANGED <<slot, treasury, supply>>
      PROVE  Entering(m)
  <2>1. Enters(m) /\ MayEnter(m)
    BY <1>2, PlaceEnters DEF Place
  <2>2. /\ \A n \in Miners \ {m} : pool_member'[n] = pool_member[n]
        /\ \A k \in RoundIds \ {board.round_id} : pool_round'[k] = pool_round[k]
    BY <1>2 DEF Place, JoinPool, StayOutOfPool, TypeOK
  <2>3. miner'[m] = DeployedMiner(m, squares, amount)
    BY <1>2 DEF Place, TypeOK
  <2>4. /\ DeployedMiner(m, squares, amount) \in MinerRecord
        /\ DeployedMiner(m, squares, amount).checkpoint_id = EnteredMiner(m).checkpoint_id
        /\ DeployedMiner(m, squares, amount).rewards_godl = EnteredMiner(m).rewards_godl
    <3> DEFINE M == EnteredMiner(m)
               deployed == [s \in Squares |-> IF s \in squares THEN amount ELSE M.deployed[s]]
               cumulative == [s \in Squares |-> IF s \in squares THEN RangeStart(s) ELSE M.cumulative[s]]
               topUp == IF M.checkpoint_fee = 0 THEN CHECKPOINT_FEE ELSE 0
               fee == M.checkpoint_fee + topUp
               cash == M.lamports + topUp
               N == [M EXCEPT !.deployed = deployed, !.cumulative = cumulative,
                              !.checkpoint_fee = fee, !.lamports = cash]
    <3>1. DeployedMiner(m, squares, amount) = N
      BY DEF DeployedMiner
    <3>2. N.checkpoint_id = M.checkpoint_id /\ N.rewards_godl = M.rewards_godl
      <4> HIDE DEF M, deployed, cumulative, fee, cash
      <4> QED BY <1>1 DEF MinerRecord, M
    <3> HIDE DEF N
    <3> QED BY <3>1, <3>2, DeployedMinerType
  <2>5. /\ Current'.top_miner = Current.top_miner
        /\ \A s \in Squares : Current'.count[s] >=
             Current.count[s] + IF miner'[m].deployed[s] > 0 THEN 1 ELSE 0
    <3>1. Current' = DeployedRound(squares, amount)
      <4>1. board.round_id \in RoundIds /\ board'.round_id = board.round_id
        BY <2>1, CurrentType DEF Enters
      <4> QED BY <1>2, <4>1 DEF Place, TypeOK, Current
    <3>2. ASSUME NEW s \in Squares
          PROVE  /\ s \notin squares => ~(miner'[m].deployed[s] > 0)
                 /\ Current.count[s] \in Nat
      <4>1. EnteredMiner(m).deployed = Zero
        BY <2>1, EnteredIsEmpty
      <4>2. s \notin squares => DeployedMiner(m, squares, amount).deployed[s] = 0
        BY <1>1, <4>1 DEF DeployedMiner, MinerRecord, Zero
      <4> QED BY <2>3, <4>2, CurrentType DEF RoundRecord, Sqs
    <3>3. ASSUME NEW s \in Squares
          PROVE  Current'.count[s] = Current.count[s] + IF s \in squares THEN 1 ELSE 0
      <4>1. DeployedRound(squares, amount).count =
              [t \in Squares |-> Current.count[t] + IF t \in squares THEN 1 ELSE 0]
        BY <1>2, DeployedRoundFields
      <4> QED BY <3>1, <4>1
    <3>4. Current'.top_miner = Current.top_miner
      BY <3>1, DeployedRoundFields
    <3> QED BY <3>2, <3>3, <3>4
  <2> QED BY <1>1, <1>2, <2>1, <2>2, <2>3, <2>4, <2>5 DEF Entering
<1>3. ASSUME NEW squares \in Masks, NEW amount \in Amounts, NEW pooled \in PoolModes,
             Deploy(m, squares, amount, pooled)
      PROVE  Entering(m)
  BY <1>2, <1>3, SizesAssumption DEF Deploy
<1>4. ASSUME NEW r \in Hashes, NEW squares \in SUBSET Squares, DeployByExecutor(m, r, squares)
      PROVE  Entering(m)
  <2>1. automation[m].plan.amount \in Nat /\ automation[m].plan.is_pooled \in BOOLEAN
    <3>1. automation[m].plan \in Plans
      BY <1>4, AutomationType DEF DeployByExecutor
    <3> QED BY <3>1, SizesAssumption
  <2> QED BY <1>2, <1>4, <2>1 DEF DeployByExecutor
<1>5. ASSUME NEW r \in Hashes, NEW squares \in SUBSET Squares, DeployCancelled(m, r, squares)
      PROVE  Entering(m)
  <2>1. Enters(m)
    BY <1>5, CancelledEnters
  <2>2. miner'[m] = EnteredMiner(m) /\ MayEnter(m)
        /\ UNCHANGED <<slot, pool_round, pool_member, treasury, supply>>
    BY <1>5 DEF DeployCancelled, TypeOK
  <2>3. Current' = StartedRound
    <3>1. board.round_id \in RoundIds /\ board'.round_id = board.round_id
      BY <2>1, CurrentType DEF Enters
    <3> QED BY <1>5, <3>1 DEF DeployCancelled, TypeOK, Current
  <2>4. Current'.top_miner = Current.top_miner /\ Current'.count = Current.count
    BY <2>3, DeployedRoundFields
  <2>5. ASSUME NEW s \in Squares
        PROVE  ~(miner'[m].deployed[s] > 0) /\ Current.count[s] \in Nat
    BY <2>2, EnteredIsEmpty, CurrentType DEF Zero, RoundRecord, Sqs
  <2> QED BY <1>1, <2>1, <2>2, <2>4, <2>5 DEF Entering
<1> QED BY <1>3, <1>4, <1>5

\* Every step is of one of these kinds.
LEMMA StepKinds ==
  ASSUME TypeOK, TypeOK', [Next]_vars
  PROVE  \/ Idle
         \/ \E m \in Miners : Entering(m)
         \/ \E candidate \in Miners \cup {None} : Reset(candidate) \/ ResetPermissionless(candidate)
         \/ \E m \in Miners, pooled \in BOOLEAN : Checkpoint(m, pooled)
         \/ \E m \in Miners : CheckpointForfeit(m)
         \/ \E k \in RoundIds : Close(k)
<1>1. Claimants \subseteq Miners
  BY SizesAssumption
<1> QED BY <1>1, AuthorityIsIdle, OthersAreIdle, DeploysEnter DEF Next
-----------------------------------------------------------------------------
(* A play that is not settled *)

LEMMA TicketInvariant == Spec => []TicketInv
<1>1. TypeOK /\ TicketInv /\ [Next]_vars => TicketInv'
  BY NextMaps DEF Maps
<1> QED BY InitMaps, <1>1, TypesAreCorrect, PTL DEF Spec

\* What UnsettledPlayKept says of one miner.
PlayKept(m) ==
    /\ miner'[m].round_id = miner[m].round_id
    /\ \A s \in Squares : miner[m].deployed[s] > 0 =>
         /\ miner'[m].deployed[s] = miner[m].deployed[s]
         /\ miner'[m].cumulative[s] = miner[m].cumulative[s]
         /\ InPool(m, miner[m].round_id, s) =>
              pool_member'[m].deployed[s] = pool_member[m].deployed[s]

LEMMA SamePlayKept ==
  ASSUME TypeOK, TicketInv, NEW m \in Miners, Unsettled(m), SamePlay(m), OpensPool(m)
  PROVE  PlayKept(m)
<1>1. miner[m].round_id \in RoundIds /\ Plays(m, miner[m].round_id)
  BY UnsettledTicket DEF Plays, Unsettled
<1>2. ASSUME NEW q \in RoundIds, q = miner[m].round_id
      PROVE  miner'[m].round_id = q /\ miner'[m].deployed = miner[m].deployed
             /\ miner'[m].cumulative = miner[m].cumulative
  <2>1. Plays(m, q)
    BY <1>1, <1>2
  <2>2. Plays(m, q)' /\ miner'[m].deployed = miner[m].deployed
        /\ miner'[m].cumulative = miner[m].cumulative
    BY <2>1 DEF SamePlay
  <2> QED BY <2>2 DEF Plays
<1> QED BY <1>1, <1>2 DEF PlayKept, OpensPool, InPool

\* Whoever enters a round has no play that is not settled, but for an empty one
\* of this very round.
LEMMA EnteringKept ==
  ASSUME TypeOK, TicketInv, NEW m \in Miners, Unsettled(m), NEW n \in Miners, Entering(n)
  PROVE  PlayKept(m)
<1>1. CASE m # n
  <2>1. miner'[m] = miner[m] /\ pool_member'[m] = pool_member[m]
    BY <1>1 DEF Entering, Enters
  <2> QED BY <2>1 DEF PlayKept
<1>2. CASE m = n
  <2>1. OpenedMiner(m) = miner[m] /\ miner[m] # None
    BY DEF Unsettled, OpenedMiner
  <2>2. miner[m].round_id = board.round_id
    BY <1>2, <2>1 DEF Entering, MayEnter, Unsettled
  <2>3. miner[m].deployed = Zero
    BY <1>2, <2>1, <2>2 DEF Entering, MayEnter
  <2>4. miner'[m].round_id = board.round_id
    BY <1>2 DEF Entering, Enters, Plays
  <2>5. \A s \in Squares : ~(miner[m].deployed[s] > 0)
    BY <2>3 DEF Zero
  <2> QED BY <2>2, <2>4, <2>5 DEF PlayKept
<1> QED BY <1>1, <1>2

LEMMA EveryStepKeeps ==
  ASSUME TypeOK, TypeOK', TicketInv, [Next]_vars, NEW m \in Miners, Unsettled(m)
  PROVE  PlayKept(m)
<1>1. CASE Idle
  <2>1. KeepsPlay(m) /\ OpensPool(m)
    BY <1>1 DEF Idle, KeepsAccount, KeepsPlay, SameGame
  <2> QED BY <2>1, KeptPlays, SamePlayKept
<1>2. CASE \E n \in Miners : Entering(n)
  BY <1>2, EnteringKept
<1>3. CASE \E candidate \in Miners \cup {None} : Reset(candidate) \/ ResetPermissionless(candidate)
  <2>1. UNCHANGED <<miner, pool_member>>
    BY <1>3 DEF Reset, ResetPermissionless
  <2> QED BY <2>1 DEF PlayKept
<1>4. CASE \E n \in Miners, pooled \in BOOLEAN : Checkpoint(n, pooled)
  <2>1. PICK n \in Miners, pooled \in BOOLEAN : Checkpoint(n, pooled)
    BY <1>4
  <2>2. UNCHANGED pool_member /\ SamePlay(m)
    BY <2>1, CheckpointKeepsPlays DEF Checkpoint
  <2> QED BY <2>2, SamePlayKept DEF OpensPool
<1>5. CASE \E n \in Miners : CheckpointForfeit(n)
  <2>1. PICK n \in Miners : CheckpointForfeit(n)
    BY <1>5
  <2>2. UNCHANGED pool_member /\ SamePlay(m)
    BY <2>1, AuthorityKeepsPlays DEF CheckpointForfeit
  <2> QED BY <2>2, SamePlayKept DEF OpensPool
<1>6. CASE \E k \in RoundIds : Close(k)
  <2>1. UNCHANGED <<miner, pool_member>>
    BY <1>6 DEF Close
  <2> QED BY <2>1 DEF PlayKept
<1> QED BY <1>1, <1>2, <1>3, <1>4, <1>5, <1>6, StepKinds

\* The play that a miner has not settled stays on its account, with its ranges
\* and its stakes in the pool, whatever the authority, its executor or anybody
\* else does meanwhile (deploy.rs:165-174 and 262 reset only settled ones).
THEOREM UnsettledPlaysAreKept == Spec => UnsettledPlayKept
<1>1. TypeOK /\ TypeOK' /\ TicketInv /\ [Next]_vars =>
        \A m \in Miners : Unsettled(m) => PlayKept(m)
  BY EveryStepKeeps
<1>2. (\A m \in Miners : Unsettled(m) => PlayKept(m)) =>
        \A m \in Miners : Unsettled(m) =>
          LET k == miner[m].round_id
          IN  /\ miner'[m].round_id = k
              /\ \A s \in Squares : miner[m].deployed[s] > 0 =>
                   /\ miner'[m].deployed[s] = miner[m].deployed[s]
                   /\ miner'[m].cumulative[s] = miner[m].cumulative[s]
                   /\ InPool(m, k, s) =>
                        pool_member'[m].deployed[s] = pool_member[m].deployed[s]
  BY DEF PlayKept
<1> QED BY <1>1, <1>2, TypesAreCorrect, TicketInvariant, PTL DEF Spec, UnsettledPlayKept
-----------------------------------------------------------------------------
(* The solo winner *)

\* A miner t that signed a round has settled it, and is the only one still on
\* the round who holds its sample; only finished rounds are signed.
SignedBy(k, t) == round[k] # None /\ round[k].top_miner = t
Signature(k, t) ==
    /\ k < board.round_id
    /\ miner[t] # None
    /\ Plays(t, k) => miner[t].checkpoint_id = k
    /\ HasWinners(round[k])
    /\ \A n \in Miners : Plays(n, k) /\ HoldsSample(miner[n], round[k]) => n = t
SoloInv == \A k \in RoundIds, t \in Miners : SignedBy(k, t) => Signature(k, t)

\* What SoloWinnerIsFinal says of one round and its signer.
SoloKept(k, t) ==
    SignedBy(k, t) /\ round'[k] # None =>
        /\ round'[k].top_miner = t
        /\ miner'[t].rewards_godl = miner[t].rewards_godl \/ miner[t].round_id # k

\* A finished round that the step leaves alone or closes, with the same miners.
LEMMA SoloUndisturbed ==
  ASSUME SoloInv, NEW k \in RoundIds, NEW t \in Miners,
         round'[k] # None => round'[k] = round[k],
         k < board.round_id => k < board'.round_id,
         \A n \in Miners : miner[n] # None => miner'[n] # None,
         \A n \in Miners : Plays(n, k)' /\ k < board.round_id =>
            /\ Plays(n, k)
            /\ miner'[n].deployed = miner[n].deployed
            /\ miner'[n].cumulative = miner[n].cumulative
            /\ miner[n].checkpoint_id = k => miner'[n].checkpoint_id = k
  PROVE  SignedBy(k, t)' => Signature(k, t)'
<1> SUFFICES ASSUME SignedBy(k, t)' PROVE Signature(k, t)'
  OBVIOUS
<1>1. round'[k] = round[k] /\ Signature(k, t)
  BY DEF SignedBy, SoloInv
<1>2. k < board.round_id /\ HasWinners(round'[k])
  BY <1>1 DEF Signature
<1>3. \A n \in Miners : Plays(n, k)' /\ HoldsSample(miner'[n], round'[k]) => n = t
  BY <1>1, <1>2 DEF Signature, HoldsSample
<1> QED BY <1>1, <1>2, <1>3 DEF Signature

\* A checkpoint signs its round only if nobody has signed it, and only for the
\* holder of the sample, of whom there is one.
LEMMA CheckpointSigns ==
  ASSUME TypeOK, TypeOK', TicketInv, SoloInv, SampleHasOneHolder,
         NEW m \in Miners, NEW pooled \in BOOLEAN, Checkpoint(m, pooled),
         NEW k \in RoundIds, k = miner[m].round_id, NEW t \in Miners
  PROVE  (SignedBy(k, t)' => Signature(k, t)') /\ SoloKept(k, t)
<1> DEFINE R == round[k]
           S == round'[k]
<1>1. /\ Unsettled(m) /\ Plays(m, k) /\ k < board.round_id /\ R # None
      /\ R.slot_hash # None /\ board' = board
  <2>1. Unsettled(m) /\ R.slot_hash # None /\ board' = board
    BY DEF Checkpoint
  <2>2. k <= board.round_id /\ k # board.round_id /\ R # None
    BY <2>1, CheckpointFinds, UnsettledTicket
  <2>3. k \in Nat /\ board.round_id \in Nat
    BY CurrentType DEF RoundIds
  <2> QED BY <2>1, <2>2, <2>3 DEF Plays, Unsettled
<1>2. /\ S.top_miner = TopMinerAfter(m, k)
      /\ S.slot_hash = R.slot_hash /\ S.deployed = R.deployed /\ S \in RoundRecord
      /\ miner'[m].deployed = miner[m].deployed /\ miner'[m].cumulative = miner[m].cumulative
      /\ miner'[m].checkpoint_id = k /\ miner'[m] \in MinerRecord
      /\ \A n \in Miners \ {m} : miner'[n] = miner[n]
  BY CheckpointDoes
<1>3. \A n \in Miners : Plays(n, k)' => Plays(n, k)
  BY CheckpointKeepsPlays DEF SamePlay
<1>4. \A n \in Miners : HoldsSample(miner'[n], S) <=> HoldsSample(miner[n], R)
  <2>1. \A n \in Miners : /\ miner'[n].deployed = miner[n].deployed
                          /\ miner'[n].cumulative = miner[n].cumulative
    BY <1>2
  <2> HIDE DEF R, S
  <2> QED BY <1>2, <2>1 DEF HoldsSample, Sample
<1>5. HasWinners(S) <=> HasWinners(R)
  <2> HIDE DEF R, S
  <2> QED BY <1>2 DEF HasWinners
<1>6. miner'[m] # None /\ \A n \in Miners : miner[n] # None => miner'[n] # None
  BY <1>2, NoneAssumption
<1>7. CASE R.top_miner = t
  <2>1. Signature(k, t)
    BY <1>1, <1>7 DEF SoloInv, SignedBy
  <2>2. t # m /\ ~HoldsSample(miner[m], R)
    BY <1>1, <2>1 DEF Signature, Unsettled, Plays
  <2>3. S.top_miner = t
    BY <1>2, <1>7, <2>2 DEF TopMinerAfter
  <2>4. miner'[t] = miner[t]
    BY <1>2, <2>2
  <2>5. Signature(k, t)'
    BY <1>1, <1>3, <1>4, <1>5, <1>6, <2>1, <2>4 DEF Signature, Plays
  <2> QED BY <2>3, <2>4, <2>5 DEF SoloKept
<1>8. CASE R.top_miner # t
  <2>1. ASSUME S.top_miner = t PROVE Signature(k, t)'
    <3>1. /\ t = m /\ HasWinners(R) /\ HoldsSample(miner[m], R)
      BY <1>2, <1>8, <2>1 DEF TopMinerAfter
    <3>2. \A n \in Miners : Plays(n, k) /\ HoldsSample(miner[n], R) => n = m
      BY <1>1, <3>1 DEF SampleHasOneHolder
    <3> QED BY <1>1, <1>2, <1>3, <1>4, <1>5, <1>6, <3>1, <3>2 DEF Signature
  <2> QED BY <1>8, <2>1 DEF SignedBy, SoloKept
<1> QED BY <1>7, <1>8

\* Accounts are never deleted.
LEMMA AccountsStay ==
  ASSUME TypeOK, TypeOK', [Next]_vars, NEW n \in Miners, miner[n] # None
  PROVE  miner'[n] # None
<1>1. CASE Idle
  BY <1>1, NoneAssumption DEF Idle, KeepsAccount
<1>2. CASE \E m \in Miners : Entering(m)
  BY <1>2, NoneAssumption DEF Entering, Enters
<1>3. CASE \E m \in Miners, pooled \in BOOLEAN : Checkpoint(m, pooled)
  BY <1>3, CheckpointDoes, NoneAssumption
<1>4. CASE \E m \in Miners : CheckpointForfeit(m)
  <2>1. PICK m \in Miners : CheckpointForfeit(m)
    BY <1>4
  <2>2. miner'[m] \in MinerRecord
    <3>1. miner[m] \in MinerRecord /\ miner' = [miner EXCEPT ![m].checkpoint_id = miner[m].round_id]
      BY <2>1 DEF CheckpointForfeit, Unsettled, TypeOK
    <3> QED BY <3>1 DEF TypeOK, MinerRecord
  <2>3. m # n => miner'[n] = miner[n]
    BY <2>1 DEF CheckpointForfeit, TypeOK
  <2> QED BY <2>2, <2>3, NoneAssumption
<1>5. CASE \/ \E candidate \in Miners \cup {None} : Reset(candidate) \/ ResetPermissionless(candidate)
           \/ \E k \in RoundIds : Close(k)
  BY <1>5 DEF Reset, ResetPermissionless, Close
<1> QED BY <1>1, <1>2, <1>3, <1>4, <1>5, StepKinds

LEMMA NextSolo ==
  ASSUME TypeOK, TypeOK', TicketInv, SoloInv, SampleHasOneHolder, [Next]_vars,
         NEW k \in RoundIds, NEW t \in Miners
  PROVE  (SignedBy(k, t)' => Signature(k, t)') /\ SoloKept(k, t)
<1> DEFINE c == board.round_id
<1>1. /\ \A n \in Miners : miner[n] # None => miner'[n] # None
      /\ c \in RoundIds /\ c \in Nat /\ k \in Nat
  BY AccountsStay, CurrentType DEF RoundIds
<1>2. CASE Idle
  <2>1. board' = board /\ round' = round /\ \A n \in Miners : SamePlay(n)
    BY <1>2, KeptPlays DEF Idle, KeepsAccount, KeepsPlay, SameGame
  <2>2. \A n \in Miners : miner[n] # None =>
          /\ miner'[n].checkpoint_id = miner[n].checkpoint_id
          /\ miner'[n].rewards_godl = miner[n].rewards_godl
    BY <1>2 DEF Idle, KeepsAccount, SameGame, OpenedMiner
  <2>3. \A n \in Miners : Plays(n, k)' =>
          /\ Plays(n, k)
          /\ miner'[n].deployed = miner[n].deployed
          /\ miner'[n].cumulative = miner[n].cumulative
          /\ miner'[n].checkpoint_id = miner[n].checkpoint_id
    BY <2>1, <2>2 DEF SamePlay, Plays
  <2>4. SignedBy(k, t)' => Signature(k, t)'
    BY <1>1, <2>1, <2>3, SoloUndisturbed
  <2>5. SignedBy(k, t) => miner[t] # None
    BY DEF SoloInv, Signature
  <2> QED BY <2>1, <2>2, <2>4, <2>5 DEF SoloKept, SignedBy
<1>3. ASSUME NEW m \in Miners, Entering(m)
      PROVE  (SignedBy(k, t)' => Signature(k, t)') /\ SoloKept(k, t)
  <2>1. /\ board'.round_id = c /\ Enters(m) /\ Plays(m, c)'
        /\ \A n \in Miners \ {m} : miner'[n] = miner[n]
        /\ miner'[m].rewards_godl = OpenedMiner(m).rewards_godl
        /\ Current' = round'[c] /\ Current'.top_miner = Current.top_miner
    BY <1>3 DEF Entering, Enters, Current
  <2>2. CASE k = c
    <3>1. Current # None /\ Current = round[k]
      BY <2>2, CurrentType, NoneAssumption DEF Current
    <3>2. SignedBy(k, t)' \/ SignedBy(k, t) => SignedBy(k, t)
      BY <2>1, <2>2, <3>1 DEF SignedBy
    <3>3. ~SignedBy(k, t)
      BY <1>1, <2>2 DEF SoloInv, Signature
    <3> QED BY <3>2, <3>3 DEF SoloKept
  <2>3. CASE k # c
    <3>1. round'[k] = round[k]
      BY <2>1, <2>3 DEF Enters
    <3>2. \A n \in Miners : Plays(n, k)' => n # m
      BY <2>1, <2>3 DEF Plays
    <3>3. SignedBy(k, t)' => Signature(k, t)'
      BY <1>1, <2>1, <3>1, <3>2, SoloUndisturbed DEF Plays
    <3>4. SignedBy(k, t) => miner'[t].rewards_godl = miner[t].rewards_godl
      BY <2>1 DEF SoloInv, Signature, OpenedMiner
    <3> QED BY <3>1, <3>3, <3>4 DEF SoloKept, SignedBy
  <2> QED BY <2>2, <2>3
<1>4. ASSUME NEW candidate \in Miners \cup {None}, Reset(candidate) \/ ResetPermissionless(candidate)
      PROVE  (SignedBy(k, t)' => Signature(k, t)') /\ SoloKept(k, t)
  <2>1. /\ board'.round_id = c + 1 /\ miner' = miner
        /\ round'[c + 1] = NewRound
        /\ \A j \in RoundIds \ {c, c + 1} : round'[j] = round[j]
        /\ Closing \in RoundRecord
        /\ \E top \in {NoOne, SPLIT_ADDRESS, POOL_ADDRESS} :
             round'[c] \in {Refunded(Closing), Vaulted(Closing), Won(Closing, top)}
    BY <1>1, <1>4, ResetDoes
  <2>2. CASE k = c
    <3>1. ~SignedBy(k, t)
      BY <1>1, <2>2 DEF SoloInv, Signature
    <3>2. Current.top_miner # t /\ Closing.top_miner = Current.top_miner
      BY <2>2, <3>1, CurrentType, NoneAssumption DEF SignedBy, Closing, Current, RoundRecord
    <3>3. PICK top \in {NoOne, SPLIT_ADDRESS, POOL_ADDRESS} :
            round'[c] \in {Refunded(Closing), Vaulted(Closing), Won(Closing, top)}
      BY <2>1
    <3>4. round'[c].top_miner \in {Closing.top_miner, top}
      BY <2>1, <3>3 DEF Refunded, Vaulted, Won, RoundRecord
    <3>5. top # t
      BY <3>3, MarksAssumption
    <3> QED BY <2>2, <3>1, <3>2, <3>4, <3>5 DEF SoloKept, SignedBy
  <2>3. CASE k = c + 1
    <3>1. ~SignedBy(k, t)'
      BY <2>1, <2>3, MarksAssumption DEF SignedBy, NewRound
    <3>2. ~SignedBy(k, t)
      BY <1>1, <2>3 DEF SoloInv, Signature
    <3> QED BY <3>1, <3>2 DEF SoloKept
  <2>4. CASE k \notin {c, c + 1}
    <3>1. round'[k] = round[k]
      BY <2>1, <2>4
    <3>2. k < c => k < c + 1
      BY <1>1
    <3>3. SignedBy(k, t)' => Signature(k, t)'
      BY <1>1, <2>1, <3>1, <3>2, SoloUndisturbed DEF Plays
    <3> QED BY <2>1, <3>1, <3>3 DEF SoloKept, SignedBy
  <2> QED BY <2>2, <2>3, <2>4
<1>5. ASSUME NEW m \in Miners, NEW pooled \in BOOLEAN, Checkpoint(m, pooled)
      PROVE  (SignedBy(k, t)' => Signature(k, t)') /\ SoloKept(k, t)
  <2>1. CASE k = miner[m].round_id
    BY <1>5, <2>1, CheckpointSigns
  <2>2. CASE k # miner[m].round_id
    <3>1. /\ round'[k] = round[k] /\ board' = board
          /\ miner'[m].round_id = miner[m].round_id
          /\ \A n \in Miners \ {m} : miner'[n] = miner[n]
      BY <1>5, <2>2, CheckpointDoes DEF Checkpoint
    <3>2. \A n \in Miners : Plays(n, k)' => n # m
      BY <2>2, <3>1 DEF Plays
    <3>3. SignedBy(k, t)' => Signature(k, t)'
      BY <1>1, <3>1, <3>2, SoloUndisturbed DEF Plays
    <3> QED BY <2>2, <3>1, <3>3 DEF SoloKept, SignedBy
  <2> QED BY <2>1, <2>2
<1>6. ASSUME NEW m \in Miners, CheckpointForfeit(m)
      PROVE  (SignedBy(k, t)' => Signature(k, t)') /\ SoloKept(k, t)
  <2>1. /\ miner[m] \in MinerRecord /\ UNCHANGED <<board, round>>
        /\ miner' = [miner EXCEPT ![m].checkpoint_id = miner[m].round_id]
    BY <1>6 DEF CheckpointForfeit, Unsettled, TypeOK
  <2>2. /\ miner'[m].round_id = miner[m].round_id /\ miner'[m].checkpoint_id = miner[m].round_id
        /\ miner'[m].deployed = miner[m].deployed
        /\ miner'[m].cumulative = miner[m].cumulative
        /\ miner'[m].rewards_godl = miner[m].rewards_godl
        /\ \A n \in Miners \ {m} : miner'[n] = miner[n]
    BY <2>1 DEF TypeOK, MinerRecord
  <2>3. \A n \in Miners : Plays(n, k)' =>
          /\ Plays(n, k)
          /\ miner'[n].deployed = miner[n].deployed
          /\ miner'[n].cumulative = miner[n].cumulative
          /\ miner[n].checkpoint_id = k => miner'[n].checkpoint_id = k
    BY <2>1, <2>2, NoneAssumption DEF Plays
  <2>4. SignedBy(k, t)' => Signature(k, t)'
    BY <1>1, <2>1, <2>3, SoloUndisturbed
  <2> QED BY <2>1, <2>2, <2>4 DEF SoloKept, SignedBy
<1>7. ASSUME NEW j \in RoundIds, Close(j)
      PROVE  (SignedBy(k, t)' => Signature(k, t)') /\ SoloKept(k, t)
  <2>1. UNCHANGED <<board, miner>> /\ (round'[k] # None => round'[k] = round[k])
    BY <1>7 DEF Close, TypeOK
  <2>2. SignedBy(k, t)' => Signature(k, t)'
    BY <1>1, <2>1, SoloUndisturbed DEF Plays
  <2> QED BY <2>1, <2>2 DEF SoloKept, SignedBy
<1> QED BY <1>2, <1>3, <1>4, <1>5, <1>6, <1>7, StepKinds

LEMMA InitSolo == Init => SoloInv
<1> SUFFICES ASSUME Init, NEW k \in RoundIds, NEW t \in Miners PROVE ~SignedBy(k, t)
  BY DEF SoloInv
<1>1. round[k] = None \/ round[k].top_miner = NoOne
  BY DEF Init, NewRound
<1> QED BY <1>1, MarksAssumption DEF SignedBy

LEMMA SoloInvariant == Spec => []SoloInv
<1>1. TypeOK /\ TypeOK' /\ TicketInv /\ SampleHasOneHolder /\ SoloInv /\ [Next]_vars => SoloInv'
  BY NextSolo DEF SoloInv
<1> QED BY InitSolo, <1>1, TypesAreCorrect, TicketInvariant, OneHolderOfTheSample, PTL DEF Spec

\* The block reward of a round is paid to one miner alone: whoever is recorded
\* as its winner stays recorded, and no second checkpoint pays it anything more
\* (checkpoint.rs:157-171), because the ranges of the miners never overlap.
THEOREM OneSoloWinner == Spec => SoloWinnerIsFinal
<1>1. TypeOK /\ TypeOK' /\ TicketInv /\ SampleHasOneHolder /\ SoloInv /\ [Next]_vars =>
        \A k \in RoundIds, t \in Miners : SoloKept(k, t)
  BY NextSolo
<1>2. (\A k \in RoundIds, t \in Miners : SoloKept(k, t)) =>
        \A k \in RoundIds :
         round[k] # None /\ round'[k] # None /\ round[k].top_miner \in Miners =>
            /\ round'[k].top_miner = round[k].top_miner
            /\ miner'[round[k].top_miner].rewards_godl = miner[round[k].top_miner].rewards_godl
               \/ miner[round[k].top_miner].round_id # k
  BY DEF SoloKept, SignedBy
<1> QED BY <1>1, <1>2, TypesAreCorrect, TicketInvariant, OneHolderOfTheSample, SoloInvariant,
           PTL DEF Spec, SoloWinnerIsFinal
-----------------------------------------------------------------------------
(* What an unsettled miner of a finished round may collect *)

\* The outcome of round k is the same, but for the signature of its solo winner.
SameOutcome(k) ==
    /\ round'[k] # None
    /\ round'[k].slot_hash = round[k].slot_hash
    /\ round'[k].deployed = round[k].deployed
    /\ round'[k].expires_at = round[k].expires_at
    /\ round'[k].motherlode = round[k].motherlode
    /\ round'[k].top_miner_reward = round[k].top_miner_reward
    /\ round'[k].total_winnings = round[k].total_winnings
    /\ \/ round'[k].top_miner = round[k].top_miner
       \/ /\ round'[k].top_miner \notin {SPLIT_ADDRESS, POOL_ADDRESS}
          /\ round[k].top_miner \notin {SPLIT_ADDRESS, POOL_ADDRESS}
    /\ pool_round'[k] = pool_round[k]

\* Miner m still holds the same claim on round k.
SameClaim(m, k) ==
    /\ SameOutcome(k)
    /\ miner'[m] # None
    /\ miner'[m].round_id = miner[m].round_id
    /\ miner'[m].checkpoint_id = miner[m].checkpoint_id
    /\ miner'[m].deployed = miner[m].deployed
    /\ miner'[m].cumulative = miner[m].cumulative
    /\ OpensPool(m)

\* The same claim is worth the same SOL and the same GODL.
LEMMA SameWorth ==
  ASSUME NEW m \in Miners, NEW k \in RoundIds, SameClaim(m, k)
  PROVE  /\ SolReward(miner'[m], round'[k]) = SolReward(miner[m], round[k])
         /\ GodlWorth(m, k)' = GodlWorth(m, k)
<1> DEFINE R == round[k]
           S == round'[k]
           M == miner[m]
           N == miner'[m]
           w == R.slot_hash.square
<1>1. /\ S.slot_hash = R.slot_hash /\ S.deployed = R.deployed
      /\ S.total_winnings = R.total_winnings /\ S.motherlode = R.motherlode
      /\ S.top_miner_reward = R.top_miner_reward
      /\ N.deployed = M.deployed /\ N.cumulative = M.cumulative
      /\ pool_round'[k] = pool_round[k]
      /\ \/ S.top_miner = R.top_miner
         \/ /\ S.top_miner \notin {SPLIT_ADDRESS, POOL_ADDRESS}
            /\ R.top_miner \notin {SPLIT_ADDRESS, POOL_ADDRESS}
  BY DEF SameClaim, SameOutcome
<1>2. /\ InPool(m, k, w)' <=> InPool(m, k, w)
      /\ InPool(m, k, w) => pool_member'[m] = pool_member[m]
  <2>1. CASE pool_member'[m] = pool_member[m]
    BY <1>1, <2>1 DEF InPool
  <2>2. CASE pool_member[m] = None /\ pool_member'[m] = NewPoolMember
    BY <2>2 DEF InPool, NewPoolMember, RoundIds
  <2> QED BY <2>1, <2>2 DEF SameClaim, OpensPool
<1>3. SolReward(N, S) = SolReward(M, R)
  <2> HIDE DEF R, S, M, N
  <2> QED BY <1>1 DEF SolReward
<1>4. HoldsSample(N, S) <=> HoldsSample(M, R)
  <2> HIDE DEF R, S, M, N
  <2> QED BY <1>1 DEF HoldsSample, Sample
<1>5. BlockReward(m, k, TRUE)' = BlockReward(m, k, TRUE)
  BY <1>1, <1>2, <1>4 DEF BlockReward
<1>6. GodlWorth(m, k)' = GodlWorth(m, k)
  BY <1>1, <1>5 DEF GodlReward, GodlWorth
<1> QED BY <1>3, <1>6

\* From a finished round a miner collects, or forfeits once it expired; until
\* then its claim stays the same, unless the round is closed.
LEMMA ClaimSteps ==
  ASSUME TypeOK, TypeOK', TicketInv, [Next]_vars, NEW m \in Miners, NEW k \in RoundIds,
         Pending(m, k), Finished(k)
  PROVE  \/ SameClaim(m, k)
         \/ \E pooled \in BOOLEAN : Checkpoint(m, pooled)
         \/ CheckpointForfeit(m)
         \/ Close(k)
<1> DEFINE c == board.round_id
<1>1. /\ Unsettled(m) /\ miner[m].round_id = k /\ miner[m] # None /\ Plays(m, k)
      /\ OpenedMiner(m) = miner[m]
      /\ k < c /\ c \in RoundIds /\ c \in Nat /\ k \in Nat /\ round[k] # None
      /\ round[k] \in RoundRecord /\ miner[m] \in MinerRecord
  <2>1. Unsettled(m) /\ miner[m].round_id = k /\ miner[m] # None /\ k # c /\ round[k] # None
    BY DEF Pending, Unsettled, Finished
  <2>2. k <= c /\ miner[m] \in MinerRecord
    BY <2>1, UnsettledTicket
  <2>3. c \in RoundIds /\ c \in Nat /\ k \in Nat
    BY CurrentType DEF RoundIds
  <2>4. k < c
    BY <2>1, <2>2, <2>3
  <2>5. round[k] \in RoundRecord
    BY <2>1 DEF TypeOK
  <2> QED BY <2>1, <2>2, <2>3, <2>4, <2>5 DEF Plays, OpenedMiner
<1>2. CASE Idle
  <2>1. /\ round' = round /\ pool_round' = pool_round /\ OpensPool(m) /\ KeepsAccount(m)
    BY <1>2 DEF Idle
  <2>2. miner'[m] # None
    BY <1>1, <2>1, NoneAssumption DEF KeepsAccount
  <2> QED BY <1>1, <2>1, <2>2 DEF SameClaim, SameOutcome, KeepsAccount, SameGame
<1>3. ASSUME NEW n \in Miners, Entering(n)
      PROVE  SameClaim(m, k)
  <2>1. n # m
    BY <1>1, <1>3 DEF Entering, MayEnter, Unsettled
  <2>2. /\ miner'[m] = miner[m] /\ round'[k] = round[k]
        /\ pool_member'[m] = pool_member[m] /\ pool_round'[k] = pool_round[k]
    BY <1>1, <1>3, <2>1 DEF Entering, Enters
  <2> QED BY <1>1, <2>2 DEF SameClaim, SameOutcome, OpensPool
<1>4. ASSUME NEW candidate \in Miners \cup {None}, Reset(candidate) \/ ResetPermissionless(candidate)
      PROVE  SameClaim(m, k)
  <2>1. /\ UNCHANGED <<miner, pool_member>>
        /\ pool_round' = [pool_round EXCEPT ![c + 1] = NewPoolRound]
        /\ \A j \in RoundIds \ {c, c + 1} : round'[j] = round[j]
    BY <1>4, ResetDoes
  <2>2. k # c /\ k # c + 1
    BY <1>1
  <2>3. pool_round'[k] = pool_round[k] /\ round'[k] = round[k]
    BY <2>1, <2>2 DEF TypeOK
  <2> QED BY <1>1, <2>1, <2>3 DEF SameClaim, SameOutcome, OpensPool
<1>5. ASSUME NEW n \in Miners, NEW pooled \in BOOLEAN, Checkpoint(n, pooled), n # m
      PROVE  SameClaim(m, k)
  <2>1. miner'[m] = miner[m] /\ UNCHANGED <<pool_member, pool_round>>
    BY <1>5, CheckpointDoes DEF Checkpoint
  <2>2. CASE k # miner[n].round_id
    <3>1. round'[k] = round[k]
      BY <1>5, <2>2, CheckpointDoes
    <3> QED BY <1>1, <2>1, <3>1 DEF SameClaim, SameOutcome, OpensPool
  <2>3. CASE k = miner[n].round_id
    <3>1. /\ round'[k] \in RoundRecord
          /\ round'[k].top_miner = TopMinerAfter(n, k)
          /\ round'[k].deployed = round[k].deployed
          /\ round'[k].slot_hash = round[k].slot_hash
          /\ round'[k].expires_at = round[k].expires_at
          /\ round'[k].motherlode = round[k].motherlode
          /\ round'[k].top_miner_reward = round[k].top_miner_reward
          /\ round'[k].total_winnings = round[k].total_winnings
      BY <1>5, <2>3, CheckpointDoes
    <3>2. round'[k] # None
      BY <3>1, NoneAssumption
    <3>3. \/ TopMinerAfter(n, k) = round[k].top_miner
          \/ /\ TopMinerAfter(n, k) \notin {SPLIT_ADDRESS, POOL_ADDRESS}
             /\ round[k].top_miner \notin {SPLIT_ADDRESS, POOL_ADDRESS}
      BY MarksAssumption DEF TopMinerAfter
    <3>4. SameOutcome(k)
      BY <2>1, <3>1, <3>2, <3>3 DEF SameOutcome
    <3> QED BY <1>1, <2>1, <3>4 DEF SameClaim, OpensPool
  <2> QED BY <2>2, <2>3
<1>6. ASSUME NEW n \in Miners, CheckpointForfeit(n), n # m
      PROVE  SameClaim(m, k)
  BY <1>1, <1>6 DEF CheckpointForfeit, SameClaim, SameOutcome, OpensPool, TypeOK
<1>7. ASSUME NEW j \in RoundIds, Close(j), j # k
      PROVE  SameClaim(m, k)
  BY <1>1, <1>7 DEF Close, SameClaim, SameOutcome, OpensPool, TypeOK
<1> QED BY <1>2, <1>3, <1>4, <1>5, <1>6, <1>7, StepKinds

\* Outside the pool a checkpoint pays the same whatever accounts it is given.
LEMMA UnpooledWorth ==
  ASSUME NEW m \in Miners, NEW k \in RoundIds, NEW pooled \in BOOLEAN,
         pooled \/ round[k].top_miner # POOL_ADDRESS
  PROVE  GodlReward(m, k, pooled) = GodlWorth(m, k)
<1>1. CASE pooled
  <2>1. pooled = TRUE
    BY <1>1
  <2> QED BY <2>1 DEF GodlWorth
<1>2. CASE round[k].top_miner # POOL_ADDRESS
  <2>1. BlockReward(m, k, pooled) = BlockReward(m, k, TRUE)
    BY <1>2 DEF BlockReward
  <2> QED BY <2>1 DEF GodlReward, GodlWorth
<1> QED BY <1>1, <1>2

\* What NothingPayableLost says of one miner.
ClaimKept(m, k) ==
    \/ /\ miner'[m].checkpoint_id # k
       /\ round'[k] # None
       /\ round'[k].expires_at = round[k].expires_at
       /\ miner'[m].round_id = k
       /\ SolReward(miner'[m], round'[k]) = SolReward(miner[m], round[k])
       /\ GodlWorth(m, k)' = GodlWorth(m, k)
    \/ /\ miner'[m].checkpoint_id = k
       /\ miner'[m].rewards_sol = miner[m].rewards_sol + SolReward(miner[m], round[k])
       /\ \/ miner'[m].rewards_godl = miner[m].rewards_godl + GodlWorth(m, k)
          \/ /\ round[k].top_miner = POOL_ADDRESS
             /\ miner'[m].rewards_godl = miner[m].rewards_godl + GodlReward(m, k, FALSE)

LEMMA ClaimIsKept ==
  ASSUME TypeOK, TypeOK', TicketInv, [Next]_vars, NEW m \in Miners, Claimable(m)
  PROVE  ClaimKept(m, miner[m].round_id)
<1>1. /\ Unsettled(m) /\ miner[m].round_id \in RoundIds /\ round[miner[m].round_id] # None
      /\ slot < round[miner[m].round_id].expires_at
      /\ Finished(miner[m].round_id)
  BY DEF Claimable, Finished
<1> SUFFICES ASSUME NEW k \in RoundIds, k = miner[m].round_id PROVE ClaimKept(m, k)
  BY <1>1
<1>2. slot \in Nat /\ round[k].expires_at \in Nat /\ slot < round[k].expires_at
  <2>1. round[k] \in RoundRecord
    BY <1>1 DEF TypeOK
  <2> QED BY <1>1, <2>1, ConstantTypes DEF TypeOK, RoundRecord
<1>3. Pending(m, k) /\ Finished(k) /\ round[k] # None
  BY <1>1 DEF Pending
<1>4. ~Close(k) /\ ~CheckpointForfeit(m)
  BY <1>2, <1>3 DEF Close, Closable, CheckpointForfeit, Forfeited
<1>5. CASE SameClaim(m, k)
  <2>1. /\ miner'[m].checkpoint_id # k /\ round'[k] # None /\ miner'[m].round_id = k
        /\ round'[k].expires_at = round[k].expires_at
    BY <1>1, <1>5 DEF SameClaim, SameOutcome, Unsettled
  <2> QED BY <1>5, <2>1, SameWorth DEF ClaimKept
<1>6. ASSUME NEW pooled \in BOOLEAN, Checkpoint(m, pooled) PROVE ClaimKept(m, k)
  <2>1. /\ miner'[m].checkpoint_id = k
        /\ miner'[m].rewards_sol = miner[m].rewards_sol + SolReward(miner[m], round[k])
        /\ miner'[m].rewards_godl = miner[m].rewards_godl + GodlReward(m, k, pooled)
    BY <1>6, CheckpointDoes
  <2>2. CASE pooled \/ round[k].top_miner # POOL_ADDRESS
    BY <2>1, <2>2, UnpooledWorth DEF ClaimKept
  <2>3. CASE ~pooled /\ round[k].top_miner = POOL_ADDRESS
    <3>1. pooled = FALSE
      BY <2>3
    <3> QED BY <2>1, <2>3, <3>1 DEF ClaimKept
  <2> QED BY <2>2, <2>3
<1> QED BY <1>3, <1>4, <1>5, <1>6, ClaimSteps

\* After every step of anybody a reward that could be collected can be collected
\* still, in the same amount, or has been collected, in full but for the pool's
\* share of a block reward, which depends on the accounts the caller passed: only
\* the passing of the deadline takes it away (checkpoint.rs:50, 64-68, 129, close.rs).
THEOREM NothingPayableIsLost == Spec => NothingPayableLost
<1> DEFINE Kept(m) ==
             LET k == miner[m].round_id
             IN  \/ /\ miner'[m].checkpoint_id # k
                    /\ round'[k] # None
                    /\ round'[k].expires_at = round[k].expires_at
                    /\ SolReward(miner[m], round[k])' = SolReward(miner[m], round[k])
                    /\ GodlWorth(m, k)' = GodlWorth(m, k)
                 \/ /\ miner'[m].checkpoint_id = k
                    /\ miner'[m].rewards_sol
                         = miner[m].rewards_sol + SolReward(miner[m], round[k])
                    /\ \/ miner'[m].rewards_godl
                            = miner[m].rewards_godl + GodlWorth(m, k)
                       \/ /\ round[k].top_miner = POOL_ADDRESS
                          /\ miner'[m].rewards_godl
                               = miner[m].rewards_godl + GodlReward(m, k, FALSE)
<1>1. TypeOK /\ TypeOK' /\ TicketInv /\ [Next]_vars =>
        \A m \in Miners : Claimable(m) => ClaimKept(m, miner[m].round_id)
  BY ClaimIsKept
<1>2. (\A m \in Miners : Claimable(m) => ClaimKept(m, miner[m].round_id)) =>
        \A m \in Miners : Claimable(m) => Kept(m)
  BY DEF ClaimKept
<1> QED BY <1>1, <1>2, TypesAreCorrect, TicketInvariant, PTL DEF Spec, NothingPayableLost
-----------------------------------------------------------------------------
(* What the players of a round deployed, and what the round counted *)

\* What miner m deployed on square s in round k, and whether it did.
Part(m, k, s) == IF Plays(m, k) THEN miner[m].deployed[s] ELSE 0
Played(m, k, s) == IF Plays(m, k) /\ miner[m].deployed[s] > 0 THEN 1 ELSE 0

PlayedOn(k, s) == Sum([m \in Miners |-> Part(m, k, s)], NumMiners)
PlayersOn(k, s) == Sum([m \in Miners |-> Played(m, k, s)], NumMiners)

\* No round is opened ahead, a finished one has its entropy value, and on every
\* square a round counts at least the SOL and the miners that still play it.
StakeBooks ==
    \A k \in RoundIds : round[k] # None =>
        /\ k <= board.round_id
        /\ k # board.round_id => round[k].slot_hash # None
        /\ \A s \in Squares : /\ PlayedOn(k, s) <= round[k].deployed[s]
                              /\ PlayersOn(k, s) <= round[k].count[s]

\* The numbers behind them.
PartsTyped ==
    \A k \in RoundIds, s \in Squares :
        /\ \A m \in Miners : Part(m, k, s) \in Nat /\ Played(m, k, s) \in Nat
        /\ PlayedOn(k, s) \in Nat /\ PlayersOn(k, s) \in Nat

LEMMA PartTypes == TypeOK => PartsTyped
<1> SUFFICES ASSUME TypeOK, NEW k \in RoundIds, NEW s \in Squares
             PROVE  /\ \A m \in Miners : Part(m, k, s) \in Nat /\ Played(m, k, s) \in Nat
                    /\ PlayedOn(k, s) \in Nat /\ PlayersOn(k, s) \in Nat
  BY DEF PartsTyped
<1> DEFINE f == [m \in Miners |-> Part(m, k, s)]
           g == [m \in Miners |-> Played(m, k, s)]
<1>1. \A m \in Miners : Part(m, k, s) \in Nat /\ Played(m, k, s) \in Nat
  BY PlayTypes DEF Part, Played, RangesTyped
<1>2. \A i \in 1 .. NumMiners : f[i] \in Nat /\ g[i] \in Nat
  BY <1>1 DEF Miners
<1> HIDE DEF f, g
<1>3. Sum(f, NumMiners) \in Nat /\ Sum(g, NumMiners) \in Nat
  BY <1>2, SumNat, ConstantTypes
<1> QED BY <1>1, <1>3 DEF f, g, PlayedOn, PlayersOn

LEMMA NextPartsTyped == TypeOK' => PartsTyped'
BY PartTypes, PTL

\* Where nobody plays more than before, no more is played.
LEMMA PlayedLess ==
  ASSUME PartsTyped, PartsTyped', NEW k \in RoundIds, NEW s \in Squares,
         \A m \in Miners : Part(m, k, s)' <= Part(m, k, s) /\ Played(m, k, s)' <= Played(m, k, s)
  PROVE  PlayedOn(k, s)' <= PlayedOn(k, s) /\ PlayersOn(k, s)' <= PlayersOn(k, s)
<1> DEFINE f == [m \in Miners |-> Part(m, k, s)]
           f2 == [m \in Miners |-> Part(m, k, s)']
           g == [m \in Miners |-> Played(m, k, s)]
           g2 == [m \in Miners |-> Played(m, k, s)']
<1>1. \A i \in 1 .. NumMiners :
         /\ f[i] \in Nat /\ f2[i] \in Nat /\ f2[i] <= f[i]
         /\ g[i] \in Nat /\ g2[i] \in Nat /\ g2[i] <= g[i]
  BY DEF PartsTyped, Miners
<1> HIDE DEF f, f2, g, g2
<1>2. Sum(f2, NumMiners) <= Sum(f, NumMiners) /\ Sum(g2, NumMiners) <= Sum(g, NumMiners)
  BY <1>1, SumMonotone, ConstantTypes
<1> QED BY <1>2 DEF f, f2, g, g2, PlayedOn, PlayersOn

\* A step that leaves the plays and the rounds' counts alone.
LEMMA UndisturbedStakes ==
  ASSUME TypeOK, TypeOK', StakeBooks, \A m \in Miners : SamePlay(m),
         board'.round_id = board.round_id,
         \A k \in RoundIds : round'[k] # None =>
            /\ round[k] # None
            /\ round'[k].slot_hash = round[k].slot_hash
            /\ round'[k].deployed = round[k].deployed
            /\ round'[k].count = round[k].count
  PROVE  StakeBooks'
<1>1. PartsTyped /\ PartsTyped'
  BY PartTypes, NextPartsTyped
<1>2. ASSUME NEW k \in RoundIds, NEW s \in Squares, NEW m \in Miners
      PROVE  Part(m, k, s)' = Part(m, k, s) /\ Played(m, k, s)' = Played(m, k, s)
  BY DEF SamePlay, Part, Played
<1>3. ASSUME NEW k \in RoundIds, NEW s \in Squares
      PROVE  PlayedOn(k, s)' <= PlayedOn(k, s) /\ PlayersOn(k, s)' <= PlayersOn(k, s)
             /\ PlayedOn(k, s)' \in Nat /\ PlayersOn(k, s)' \in Nat
             /\ PlayedOn(k, s) \in Nat /\ PlayersOn(k, s) \in Nat
  <2>1. \A m \in Miners : Part(m, k, s)' <= Part(m, k, s) /\ Played(m, k, s)' <= Played(m, k, s)
    BY <1>1, <1>2 DEF PartsTyped
  <2>2. /\ PlayedOn(k, s)' \in Nat /\ PlayersOn(k, s)' \in Nat
        /\ PlayedOn(k, s) \in Nat /\ PlayersOn(k, s) \in Nat
    BY <1>1 DEF PartsTyped
  <2> QED BY <1>1, <2>1, <2>2, PlayedLess
<1> SUFFICES ASSUME NEW k \in RoundIds, round'[k] # None
             PROVE  /\ k <= board'.round_id
                    /\ k # board'.round_id => round'[k].slot_hash # None
                    /\ \A s \in Squares : /\ PlayedOn(k, s)' <= round'[k].deployed[s]
                                          /\ PlayersOn(k, s)' <= round'[k].count[s]
  BY DEF StakeBooks
<1>4. ASSUME NEW s \in Squares
      PROVE  round[k].deployed[s] \in Nat /\ round[k].count[s] \in Nat
             /\ PlayedOn(k, s) <= round[k].deployed[s] /\ PlayersOn(k, s) <= round[k].count[s]
  <2>1. round[k] \in RoundRecord
    BY DEF TypeOK
  <2> QED BY <2>1 DEF RoundRecord, Sqs, StakeBooks
<1>5. \A s \in Squares : /\ PlayedOn(k, s)' <= round'[k].deployed[s]
                         /\ PlayersOn(k, s)' <= round'[k].count[s]
  BY <1>3, <1>4
<1> QED BY <1>5 DEF StakeBooks

\* Whoever enters adds to the current round what the round adds for it, and
\* gives up the play of an earlier one.
LEMMA EnteringStakes ==
  ASSUME TypeOK, TypeOK', StakeBooks, NEW m \in Miners, Entering(m)
  PROVE  StakeBooks'
<1> DEFINE c == board.round_id
<1>1. PartsTyped /\ PartsTyped'
  BY PartTypes, NextPartsTyped
<1>2. /\ c \in RoundIds /\ board'.round_id = c /\ Current \in RoundRecord
      /\ Current' \in RoundRecord /\ Current' = round'[c]
      /\ Enters(m) /\ Plays(m, c)' /\ miner'[m].round_id = c
  BY CurrentType DEF Entering, Enters, TypeOK, Current, Plays
<1>3. ASSUME NEW n \in Miners \ {m}, NEW k \in RoundIds, NEW s \in Squares
      PROVE  Part(n, k, s)' = Part(n, k, s) /\ Played(n, k, s)' = Played(n, k, s)
  BY <1>2 DEF Enters, Part, Played, Plays
<1>4. ASSUME NEW k \in RoundIds \ {c}, NEW s \in Squares
      PROVE  Part(m, k, s)' = 0 /\ Played(m, k, s)' = 0
  BY <1>2 DEF Part, Played, Plays
<1>5. ASSUME NEW s \in Squares
      PROVE  /\ Part(m, c, s) = 0 /\ Played(m, c, s) = 0
             /\ Part(m, c, s)' = miner'[m].deployed[s]
             /\ Played(m, c, s)' = IF miner'[m].deployed[s] > 0 THEN 1 ELSE 0
  <2>1. Plays(m, c) => miner[m].deployed[s] = 0
    BY <1>2 DEF Enters, Zero
  <2>2. Part(m, c, s) = 0 /\ Played(m, c, s) = 0
    BY <2>1 DEF Part, Played
  <2> QED BY <1>2, <2>2 DEF Part, Played
<1> SUFFICES ASSUME NEW k \in RoundIds, round'[k] # None
             PROVE  /\ k <= board'.round_id
                    /\ k # board'.round_id => round'[k].slot_hash # None
                    /\ \A s \in Squares : /\ PlayedOn(k, s)' <= round'[k].deployed[s]
                                          /\ PlayersOn(k, s)' <= round'[k].count[s]
  BY DEF StakeBooks
<1>6. CASE k # c
  <2>1. round'[k] = round[k] /\ round[k] # None /\ round[k] \in RoundRecord
    BY <1>2, <1>6 DEF Enters, TypeOK
  <2>2. ASSUME NEW s \in Squares
        PROVE  PlayedOn(k, s)' <= round'[k].deployed[s] /\ PlayersOn(k, s)' <= round'[k].count[s]
    <3>1. \A n \in Miners : Part(n, k, s)' <= Part(n, k, s) /\ Played(n, k, s)' <= Played(n, k, s)
      BY <1>1, <1>3, <1>4, <1>6 DEF PartsTyped
    <3>2. PlayedOn(k, s)' <= PlayedOn(k, s) /\ PlayersOn(k, s)' <= PlayersOn(k, s)
      BY <1>1, <3>1, PlayedLess
    <3>3. PlayedOn(k, s)' \in Nat /\ PlayersOn(k, s)' \in Nat
      BY <1>1 DEF PartsTyped
    <3>4. /\ PlayedOn(k, s) \in Nat /\ PlayersOn(k, s) \in Nat
          /\ PlayedOn(k, s) <= round[k].deployed[s] /\ PlayersOn(k, s) <= round[k].count[s]
          /\ round[k].deployed[s] \in Nat /\ round[k].count[s] \in Nat
      BY <1>1, <2>1 DEF PartsTyped, StakeBooks, RoundRecord, Sqs
    <3> QED BY <2>1, <3>2, <3>3, <3>4
  <2> QED BY <1>2, <1>6, <2>1, <2>2 DEF StakeBooks
<1>7. CASE k = c
  <2>1. ASSUME NEW s \in Squares
        PROVE  PlayedOn(c, s)' <= Current'.deployed[s] /\ PlayersOn(c, s)' <= Current'.count[s]
    <3> DEFINE f == [n \in Miners |-> Part(n, c, s)]
               f2 == [n \in Miners |-> Part(n, c, s)']
               g == [n \in Miners |-> Played(n, c, s)]
               g2 == [n \in Miners |-> Played(n, c, s)']
               d == miner'[m].deployed[s]
               one == IF d > 0 THEN 1 ELSE 0
    <3>1. /\ \A i \in 1 .. NumMiners : /\ f[i] \in Nat /\ f2[i] \in Nat
                                       /\ g[i] \in Nat /\ g2[i] \in Nat
          /\ \A i \in (1 .. NumMiners) \ {m} : f2[i] = f[i] /\ g2[i] = g[i]
          /\ m \in 1 .. NumMiners
          /\ f[m] = 0 /\ g[m] = 0 /\ f2[m] = d /\ g2[m] = one
      <4>1. \A i \in Miners : /\ f[i] = Part(i, c, s) /\ f2[i] = Part(i, c, s)'
                              /\ g[i] = Played(i, c, s) /\ g2[i] = Played(i, c, s)'
        OBVIOUS
      <4> HIDE DEF f, f2, g, g2
      <4> QED BY <1>1, <1>2, <1>3, <1>5, <4>1 DEF PartsTyped, Miners
    <3> HIDE DEF f, f2, g, g2
    <3>2. Sum(f2, NumMiners) = Sum(f, NumMiners) + f2[m] - f[m]
          /\ Sum(g2, NumMiners) = Sum(g, NumMiners) + g2[m] - g[m]
      <4>1. NumMiners \in Nat /\ m \in 1 .. NumMiners
        BY <3>1, ConstantTypes
      <4>2. /\ \A i \in 1 .. NumMiners : f[i] \in Nat /\ f2[i] \in Nat
            /\ \A i \in (1 .. NumMiners) \ {m} : f2[i] = f[i]
        BY <3>1
      <4>3. /\ \A i \in 1 .. NumMiners : g[i] \in Nat /\ g2[i] \in Nat
            /\ \A i \in (1 .. NumMiners) \ {m} : g2[i] = g[i]
        BY <3>1
      <4>4. Sum(f2, NumMiners) = Sum(f, NumMiners) + f2[m] - f[m]
        BY ONLY <4>1, <4>2, SumUpdate
      <4>5. Sum(g2, NumMiners) = Sum(g, NumMiners) + g2[m] - g[m]
        BY ONLY <4>1, <4>3, SumUpdate
      <4> QED BY <4>4, <4>5
    <3>3. /\ PlayedOn(c, s) = Sum(f, NumMiners) /\ PlayedOn(c, s)' = Sum(f2, NumMiners)
          /\ PlayersOn(c, s) = Sum(g, NumMiners) /\ PlayersOn(c, s)' = Sum(g2, NumMiners)
      BY DEF f, f2, g, g2, PlayedOn, PlayersOn
    <3>4. /\ PlayedOn(c, s) \in Nat /\ PlayersOn(c, s) \in Nat
          /\ PlayedOn(c, s) <= Current.deployed[s] /\ PlayersOn(c, s) <= Current.count[s]
      BY <1>1, <1>2, NoneAssumption DEF PartsTyped, StakeBooks, Current
    <3>5. /\ Current.deployed[s] \in Nat /\ Current.count[s] \in Nat
          /\ Current'.count[s] \in Nat
          /\ Current'.deployed[s] = Current.deployed[s] + d
          /\ Current'.count[s] >= Current.count[s] + one
      BY <1>2 DEF RoundRecord, Sqs, Enters, Entering
    <3>6. d \in Nat /\ one \in Nat
      BY <3>1
    <3> HIDE DEF d, one
    <3> QED BY <3>1, <3>2, <3>3, <3>4, <3>5, <3>6
  <2> QED BY <1>2, <1>7, <2>1 DEF RoundIds
<1> QED BY <1>6, <1>7

\* A reset opens a round that nobody plays, with a finished one behind it.
LEMMA ResetStakes ==
  ASSUME TypeOK, TypeOK', StakeBooks, Lottery, NEW candidate \in Miners \cup {None},
         Reset(candidate) \/ ResetPermissionless(candidate)
  PROVE  StakeBooks'
<1> DEFINE c == board.round_id
<1>1. PartsTyped /\ PartsTyped'
  BY PartTypes, NextPartsTyped
<1>2. /\ c \in RoundIds /\ c + 1 \in RoundIds /\ c \in Nat /\ board'.round_id = c + 1
      /\ UNCHANGED miner
      /\ round'[c + 1] = NewRound
      /\ round'[c].deployed = Current.deployed /\ round'[c].count = Current.count
      /\ round'[c].slot_hash \in RngValues
      /\ \A k \in RoundIds \ {c, c + 1} : round'[k] = round[k]
  <2>1. c \in RoundIds /\ c \in Nat
    BY CurrentType DEF RoundIds
  <2> QED BY <2>1, ResetDoes
<1>3. None \notin RngValues
  BY SizesAssumption, MarksAssumption
<1>4. ASSUME NEW k \in RoundIds, NEW s \in Squares
      PROVE  PlayedOn(k, s)' = PlayedOn(k, s) /\ PlayersOn(k, s)' = PlayersOn(k, s)
  BY <1>2 DEF PlayedOn, PlayersOn, Part, Played, Plays
<1> SUFFICES ASSUME NEW k \in RoundIds, round'[k] # None
             PROVE  /\ k <= c + 1
                    /\ k # c + 1 => round'[k].slot_hash # None
                    /\ \A s \in Squares : /\ PlayedOn(k, s)' <= round'[k].deployed[s]
                                          /\ PlayersOn(k, s)' <= round'[k].count[s]
  BY <1>2 DEF StakeBooks
<1>5. CASE k = c
  <2>1. round[c] # None /\ Current = round[c]
    BY CurrentType, NoneAssumption DEF Current
  <2> QED BY <1>2, <1>3, <1>4, <1>5, <2>1 DEF StakeBooks
<1>6. CASE k = c + 1
  <2>1. \A m \in Miners : ~Plays(m, c + 1)
    BY <1>2 DEF Lottery, NoFuturePlay
  <2>2. ASSUME NEW s \in Squares
        PROVE  PlayedOn(k, s) = 0 /\ PlayersOn(k, s) = 0
    <3> DEFINE f == [m \in Miners |-> Part(m, k, s)]
               g == [m \in Miners |-> Played(m, k, s)]
    <3>1. \A i \in 1 .. NumMiners : f[i] = 0 /\ g[i] = 0
      BY <1>6, <2>1 DEF Part, Played, Miners
    <3> HIDE DEF f, g
    <3>2. Sum(f, NumMiners) = 0 /\ Sum(g, NumMiners) = 0
      BY <3>1, SumOfZeros, ConstantTypes
    <3> QED BY <3>2 DEF f, g, PlayedOn, PlayersOn
  <2>3. \A s \in Squares : round'[k].deployed[s] = 0 /\ round'[k].count[s] = 0
    BY <1>2, <1>6 DEF NewRound, Zero
  <2> QED BY <1>2, <1>4, <1>6, <2>2, <2>3
<1>7. CASE k \notin {c, c + 1}
  <2>1. round'[k] = round[k] /\ k <= c /\ k <= c + 1
    BY <1>2, <1>7 DEF StakeBooks, RoundIds
  <2> QED BY <1>2, <1>4, <1>7, <2>1 DEF StakeBooks
<1> QED BY <1>5, <1>6, <1>7

\* One case per kind of step.
LEMMA NextStakes ==
  ASSUME TypeOK, TypeOK', StakeBooks, Lottery, [Next]_vars
  PROVE  StakeBooks'
<1>1. CASE Idle
  <2>1. \A m \in Miners : SamePlay(m)
    BY <1>1, KeptPlays DEF Idle, KeepsAccount, KeepsPlay, SameGame
  <2> QED BY <1>1, <2>1, UndisturbedStakes DEF Idle
<1>2. ASSUME NEW m \in Miners, NEW pooled \in BOOLEAN, Checkpoint(m, pooled)
      PROVE  StakeBooks'
  <2>1. (\A n \in Miners : SamePlay(n)) /\ board' = board
    BY <1>2, CheckpointKeepsPlays DEF Checkpoint
  <2>2. \A k \in RoundIds : round'[k] # None =>
          /\ round[k] # None
          /\ round'[k].slot_hash = round[k].slot_hash
          /\ round'[k].deployed = round[k].deployed
          /\ round'[k].count = round[k].count
    BY <1>2, CheckpointDoes, CheckpointFinds
  <2> QED BY <2>1, <2>2, UndisturbedStakes
<1>3. ASSUME NEW m \in Miners, CheckpointForfeit(m)
      PROVE  StakeBooks'
  <2>1. (\A n \in Miners : SamePlay(n)) /\ UNCHANGED <<board, round>>
    BY <1>3, AuthorityKeepsPlays DEF CheckpointForfeit
  <2> QED BY <2>1, UndisturbedStakes
<1>4. ASSUME NEW k \in RoundIds, Close(k)
      PROVE  StakeBooks'
  <2>1. \A n \in Miners : SamePlay(n)
    BY <1>4, CloseKeepsPlays
  <2>2. board' = board /\ \A j \in RoundIds : round'[j] # None => round'[j] = round[j]
    BY <1>4 DEF Close, TypeOK
  <2> QED BY <2>1, <2>2, UndisturbedStakes
<1> QED BY <1>1, <1>2, <1>3, <1>4, EnteringStakes, ResetStakes, StepKinds

LEMMA InitStakes == Init => StakeBooks
<1> SUFFICES ASSUME Init, NEW k \in RoundIds, round[k] # None
             PROVE  /\ k <= board.round_id
                    /\ k # board.round_id => round[k].slot_hash # None
                    /\ \A s \in Squares : /\ PlayedOn(k, s) <= round[k].deployed[s]
                                          /\ PlayersOn(k, s) <= round[k].count[s]
  BY DEF StakeBooks
<1>1. k = 1 /\ board.round_id = 1 /\ round[k] = NewRound
  BY DEF Init
<1>2. ASSUME NEW s \in Squares
      PROVE  PlayedOn(k, s) = 0 /\ PlayersOn(k, s) = 0
  <2> DEFINE f == [m \in Miners |-> Part(m, k, s)]
             g == [m \in Miners |-> Played(m, k, s)]
  <2>1. \A i \in 1 .. NumMiners : f[i] = 0 /\ g[i] = 0
    BY DEF Part, Played, Plays, Init, Miners
  <2> HIDE DEF f, g
  <2>2. Sum(f, NumMiners) = 0 /\ Sum(g, NumMiners) = 0
    BY <2>1, SumOfZeros, ConstantTypes
  <2> QED BY <2>2 DEF f, g, PlayedOn, PlayersOn
<1> QED BY <1>1, <1>2 DEF NewRound, Zero

LEMMA StakesInvariant == Spec => []StakeBooks
<1>1. TypeOK /\ TypeOK' /\ StakeBooks /\ Lottery /\ [Next]_vars => StakeBooks'
  BY NextStakes
<1> QED BY InitStakes, <1>1, TypesAreCorrect, LotteryIsCorrect, PTL DEF Spec
-----------------------------------------------------------------------------
(* The GODL that a finished round may still pay                            *)

\* The invariants that say what a round with an entropy value owes to whom.
GameInv == Lottery /\ PoolInv /\ StakeBooks /\ SampleHasOneHolder
Decided(k) == round[k] # None /\ round[k].slot_hash \in RngValues

LEMMA GameInvariant == Spec => []GameInv
BY LotteryIsCorrect, PoolInvariant, StakesInvariant, OneHolderOfTheSample, PTL DEF GameInv

LEMMA FinishedIsDecided ==
  ASSUME TypeOK, GameInv, NEW k \in RoundIds, Finished(k)
  PROVE  Decided(k) /\ k < board.round_id
<1>1. round[k] # None /\ k # board.round_id /\ round[k] \in RoundRecord
  BY DEF Finished, TypeOK
<1>2. round[k].slot_hash # None /\ k <= board.round_id
  BY <1>1 DEF GameInv, StakeBooks
<1>3. board.round_id \in RoundIds
  BY CurrentType
<1> QED BY <1>1, <1>2, <1>3 DEF RoundRecord, Decided, RoundIds

\* A claim is worth a natural amount, and GODL only on a square with winners, of
\* which its stake is a part.
LEMMA ClaimWorth ==
  ASSUME TypeOK, GameInv, NEW m \in Miners, NEW k \in RoundIds, Decided(k), Pending(m, k)
  PROVE  /\ Plays(m, k)
         /\ SolReward(miner[m], round[k]) \in Nat
         /\ GodlWorth(m, k) \in Nat
         /\ ~HasWinners(round[k]) => GodlWorth(m, k) = 0
<1> DEFINE w == round[k].slot_hash.square
<1>1. /\ miner[m] # None /\ Plays(m, k) /\ round[k] # None /\ round[k].slot_hash \in RngValues
      /\ miner[m] \in MinerRecord /\ round[k] \in RoundRecord
  BY DEF Pending, Unsettled, Plays, Decided, TypeOK
<1>2. ASSUME round[k].slot_hash # Unavailable
      PROVE  /\ w \in Squares /\ round[k].deployed[w] \in Nat /\ miner[m].deployed[w] \in Nat
             /\ round[k].deployed[w] >= miner[m].deployed[w]
  <2>1. w \in Squares
    BY <1>1, <1>2, RngType
  <2>2. /\ round[k].deployed[w] \in Nat /\ miner[m].deployed[w] \in Nat
        /\ miner[m].cumulative[w] \in Nat
        /\ Span(m, w).high = miner[m].cumulative[w] + miner[m].deployed[w]
    BY <1>1, <2>1, PlayTypes, RoundTypes DEF RangesTyped, SquaresTyped
  <2>3. miner[m].deployed[w] > 0 => Span(m, w).high <= round[k].deployed[w]
    BY <1>1, <2>1 DEF GameInv, Lottery, SquaresTiled
  <2> QED BY <2>1, <2>2, <2>3
<1>3. SolReward(miner[m], round[k]) \in Nat
  BY <1>1, <1>2, SolRewardType
<1>4. GodlWorth(m, k) \in Nat
  BY <1>1, <1>2, GodlRewardType DEF GodlWorth
<1>5. ~HasWinners(round[k]) => GodlWorth(m, k) = 0
  <2>1. ~HasWinners(round[k]) => \A pooled \in BOOLEAN : GodlReward(m, k, pooled) = 0
    BY <1>2 DEF HasWinners, GodlReward
  <2> QED BY <2>1 DEF GodlWorth
<1> QED BY <1>1, <1>3, <1>4, <1>5

\* The claims of a round, by miner.
GodlClaim(m, k) == IF Pending(m, k) THEN GodlWorth(m, k) ELSE 0

LEMMA PendingGodlSums ==
  ASSUME TypeOK, GameInv, NEW k \in RoundIds, Decided(k)
  PROVE  /\ \A m \in Miners : GodlClaim(m, k) \in Nat
         /\ PendingGodl(k) = Sum([m \in Miners |-> GodlClaim(m, k)], NumMiners)
         /\ PendingGodl(k) \in Nat
         /\ ~HasWinners(round[k]) => PendingGodl(k) = 0
<1> DEFINE f == [m \in Miners |-> GodlClaim(m, k)]
<1>1. \A m \in Miners : /\ GodlClaim(m, k) \in Nat
                        /\ ~HasWinners(round[k]) => GodlClaim(m, k) = 0
  BY ClaimWorth DEF GodlClaim
<1>2. PendingGodl(k) = Sum(f, NumMiners)
  BY DEF PendingGodl, GodlClaim
<1>3. \A i \in 1 .. NumMiners : f[i] \in Nat /\ (~HasWinners(round[k]) => f[i] = 0)
  BY <1>1 DEF Miners
<1> HIDE DEF f
<1>4. Sum(f, NumMiners) \in Nat /\ (~HasWinners(round[k]) => Sum(f, NumMiners) = 0)
  BY <1>3, SumNat, SumOfZeros, ConstantTypes
<1> QED BY <1>1, <1>2, <1>4 DEF f

\* The shares of the motherlode, or of a reward that is split, stay within it.
LEMMA SplitShares ==
  ASSUME TypeOK, GameInv, NEW k \in RoundIds, Decided(k), HasWinners(round[k]),
         NEW total \in Nat, NEW g,
         \A m \in Miners :
           \/ g[m] = 0
           \/ /\ Plays(m, k)
              /\ g[m] = ShareOf(total, miner[m].deployed[round[k].slot_hash.square],
                                round[k].deployed[round[k].slot_hash.square])
  PROVE  (\A m \in Miners : g[m] \in Nat) /\ Sum(g, NumMiners) <= total
<1> DEFINE w == round[k].slot_hash.square
           D == round[k].deployed[w]
           f == [m \in Miners |-> Part(m, k, w)]
<1>1. w \in Squares /\ D \in Nat \ {0}
  <2>1. w \in Squares
    BY RngType DEF Decided, HasWinners
  <2> QED BY <2>1, RoundTypes DEF SquaresTyped, Decided, HasWinners
<1>2. Sum(f, NumMiners) <= D
  BY <1>1 DEF GameInv, StakeBooks, PlayedOn, Decided
<1>3. ASSUME NEW m \in Miners
      PROVE  f[m] \in Nat /\ g[m] \in Nat /\ g[m] * D <= total * f[m]
  <2>1. f[m] = Part(m, k, w) /\ f[m] \in Nat
    BY <1>1, PartTypes DEF PartsTyped
  <2> HIDE DEF f, D
  <2>2. CASE g[m] = 0
    BY <1>1, <2>1, <2>2
  <2>3. CASE Plays(m, k) /\ g[m] = ShareOf(total, miner[m].deployed[w], D)
    <3>1. g[m] = ShareOf(total, f[m], D)
      BY <2>1, <2>3 DEF Part
    <3>2. total * f[m] \in Nat
      BY <2>1
    <3>3. g[m] \in Nat /\ g[m] * D <= total * f[m]
      BY <1>1, <3>1, <3>2, DivBounds DEF ShareOf
    <3> QED BY <2>1, <3>3
  <2> QED BY <2>2, <2>3 DEF D
<1>4. \A i \in 1 .. NumMiners : f[i] \in Nat /\ g[i] \in Nat /\ g[i] * D <= total * f[i]
  BY <1>3 DEF Miners
<1> HIDE DEF f, D, w
<1>5. Sum(g, NumMiners) <= total
  BY <1>1, <1>2, <1>4, SharesBound, ConstantTypes
<1> QED BY <1>3, <1>5

\* So do the shares of the pool, whose stakes the pool covers.
LEMMA PoolShares ==
  ASSUME TypeOK, GameInv, NEW k \in RoundIds, Decided(k), HasWinners(round[k]),
         NEW total \in Nat, NEW g,
         \A m \in Miners :
           \/ g[m] = 0
           \/ /\ InPool(m, k, round[k].slot_hash.square)
              /\ pool_round[k] # None
              /\ pool_round[k].deployed[round[k].slot_hash.square] > 0
              /\ g[m] = ShareOf(total, pool_member[m].deployed[round[k].slot_hash.square],
                                pool_round[k].deployed[round[k].slot_hash.square])
  PROVE  (\A m \in Miners : g[m] \in Nat) /\ Sum(g, NumMiners) <= total
<1> DEFINE w == round[k].slot_hash.square
           D == pool_round[k].deployed[w]
           f == [m \in Miners |-> Stake(m, k, w)]
<1>1. w \in Squares
  BY RngType DEF Decided, HasWinners
<1>2. PoolTyped
  BY PoolTypes
<1>3. CASE pool_round[k] = None \/ ~(D > 0)
  <2>1. \A i \in 1 .. NumMiners : g[i] = 0
    BY <1>3 DEF Miners
  <2> QED BY <2>1, SumOfZeros, ConstantTypes DEF Miners
<1>4. CASE pool_round[k] # None /\ D > 0
  <2>1. D \in Nat \ {0} /\ Sum(f, NumMiners) <= D
    BY <1>1, <1>2, <1>4 DEF GameInv, PoolInv, PoolBooks, PoolTyped
  <2>2. ASSUME NEW m \in Miners
        PROVE  f[m] \in Nat /\ g[m] \in Nat /\ g[m] * D <= total * f[m]
    <3>1. f[m] = Stake(m, k, w) /\ f[m] \in Nat
      BY <1>1, <1>2 DEF PoolTyped
    <3> HIDE DEF f, D
    <3>2. CASE g[m] = 0
      BY <2>1, <3>1, <3>2
    <3>3. CASE InPool(m, k, w) /\ g[m] = ShareOf(total, pool_member[m].deployed[w], D)
      <4>1. g[m] = ShareOf(total, f[m], D)
        BY <3>1, <3>3 DEF Stake, InPool
      <4>2. total * f[m] \in Nat
        BY <3>1
      <4>3. g[m] \in Nat /\ g[m] * D <= total * f[m]
        BY <2>1, <4>1, <4>2, DivBounds DEF ShareOf
      <4> QED BY <3>1, <4>3
    <3> QED BY <3>2, <3>3 DEF D
  <2>3. \A i \in 1 .. NumMiners : f[i] \in Nat /\ g[i] \in Nat /\ g[i] * D <= total * f[i]
    BY <2>2 DEF Miners
  <2> HIDE DEF f, D, w
  <2>4. Sum(g, NumMiners) <= total
    BY <2>1, <2>3, SharesBound, ConstantTypes
  <2> QED BY <2>2, <2>4
<1> QED BY <1>3, <1>4

\* And a reward that is not shared goes to the one holder of the sample.
LEMMA SoloShares ==
  ASSUME TypeOK, GameInv, NEW k \in RoundIds, Decided(k), HasWinners(round[k]),
         NEW total \in Nat, NEW g,
         \A m \in Miners :
           \/ g[m] = 0
           \/ Plays(m, k) /\ HoldsSample(miner[m], round[k]) /\ g[m] = total
  PROVE  (\A m \in Miners : g[m] \in Nat) /\ Sum(g, NumMiners) <= total
<1>1. \A m \in Miners : g[m] \in Nat
  OBVIOUS
<1>2. CASE \A m \in Miners : g[m] = 0
  <2>1. \A i \in 1 .. NumMiners : g[i] = 0
    BY <1>2 DEF Miners
  <2> QED BY <1>1, <2>1, SumOfZeros, ConstantTypes
<1>3. CASE \E m \in Miners : g[m] # 0
  <2>1. PICK m \in Miners : g[m] # 0
    BY <1>3
  <2>2. Plays(m, k) /\ HoldsSample(miner[m], round[k]) /\ g[m] = total
    BY <2>1
  <2>3. round[k].slot_hash # None /\ round[k] # None
    BY SizesAssumption, MarksAssumption DEF Decided
  <2>4. \A n \in Miners \ {m} : g[n] = 0
    <3> SUFFICES ASSUME NEW n \in Miners \ {m}, g[n] # 0 PROVE FALSE
      OBVIOUS
    <3>1. Plays(n, k) /\ HoldsSample(miner[n], round[k])
      OBVIOUS
    <3> QED BY <2>2, <2>3, <3>1 DEF GameInv, SampleHasOneHolder
  <2>5. /\ m \in 1 .. NumMiners /\ \A i \in 1 .. NumMiners : g[i] \in Nat
        /\ \A i \in (1 .. NumMiners) \ {m} : g[i] = 0
    BY <1>1, <2>4 DEF Miners
  <2>6. Sum(g, NumMiners) = g[m]
    BY <2>5, SumOfOne, ConstantTypes
  <2> QED BY <1>1, <2>2, <2>6
<1> QED BY <1>2, <1>3

\* All that a round with winners may still pay is within its block reward and
\* its part of the motherlode, however the reward goes (checkpoint.rs:110-180).
LEMMA RoundCoversGodl ==
  ASSUME TypeOK, GameInv, NEW k \in RoundIds, Decided(k), HasWinners(round[k])
  PROVE  PendingGodl(k) <= round[k].top_miner_reward + round[k].motherlode
<1> DEFINE R == round[k]
           w == R.slot_hash.square
           pays(m) == Pending(m, k) /\ miner[m].deployed[w] # 0
           h == [m \in Miners |-> GodlClaim(m, k)]
           f == [m \in Miners |-> IF pays(m) THEN BlockReward(m, k, TRUE) ELSE 0]
           g == [m \in Miners |-> IF pays(m)
                   THEN ShareOf(R.motherlode, miner[m].deployed[w], R.deployed[w]) ELSE 0]
<1>1. R \in RoundRecord /\ R.top_miner_reward \in Nat /\ R.motherlode \in Nat
  <2>1. R \in RoundRecord
    BY DEF Decided, TypeOK
  <2> QED BY <2>1 DEF RoundRecord
<1>2. \A m \in Miners : Pending(m, k) => Plays(m, k)
  BY DEF Pending, Plays, Unsettled
<1>3. \A m \in Miners : h[m] = f[m] + g[m] \/ (h[m] = 0 /\ f[m] = 0 /\ g[m] = 0)
  BY DEF GodlClaim, GodlReward, GodlWorth, HasWinners
<1>4. (\A m \in Miners : g[m] \in Nat) /\ Sum(g, NumMiners) <= R.motherlode
  <2>1. \A m \in Miners :
          \/ g[m] = 0
          \/ Plays(m, k) /\ g[m] = ShareOf(R.motherlode, miner[m].deployed[w], R.deployed[w])
    BY <1>2
  <2> HIDE DEF g
  <2> QED BY <1>1, <2>1, SplitShares
<1>5. (\A m \in Miners : f[m] \in Nat) /\ Sum(f, NumMiners) <= R.top_miner_reward
  <2>1. CASE R.top_miner = SPLIT_ADDRESS
    <3>1. \A m \in Miners :
            \/ f[m] = 0
            \/ /\ Plays(m, k)
               /\ f[m] = ShareOf(R.top_miner_reward, miner[m].deployed[w], R.deployed[w])
      BY <1>2, <2>1, MarksAssumption DEF BlockReward
    <3> HIDE DEF f
    <3> QED BY <1>1, <3>1, SplitShares
  <2>2. CASE R.top_miner = POOL_ADDRESS
    <3>1. \A m \in Miners :
            \/ f[m] = 0
            \/ /\ InPool(m, k, w) /\ pool_round[k] # None /\ pool_round[k].deployed[w] > 0
               /\ f[m] = ShareOf(R.top_miner_reward, pool_member[m].deployed[w],
                                 pool_round[k].deployed[w])
      BY <2>2, MarksAssumption DEF BlockReward
    <3> HIDE DEF f
    <3> QED BY <1>1, <3>1, PoolShares
  <2>3. CASE R.top_miner \notin {SPLIT_ADDRESS, POOL_ADDRESS}
    <3>1. \A m \in Miners :
            \/ f[m] = 0
            \/ Plays(m, k) /\ HoldsSample(miner[m], R) /\ f[m] = R.top_miner_reward
      BY <1>2, <2>3 DEF BlockReward
    <3> HIDE DEF f
    <3> QED BY <1>1, <3>1, SoloShares
  <2> QED BY <2>1, <2>2, <2>3
<1>6. PendingGodl(k) = Sum(h, NumMiners)
  BY PendingGodlSums
<1> HIDE DEF f, g, h, R
<1>7. \A i \in 1 .. NumMiners : f[i] \in Nat /\ g[i] \in Nat /\ h[i] = f[i] + g[i]
  BY <1>3, <1>4, <1>5 DEF Miners
<1>8. Sum(h, NumMiners) = Sum(f, NumMiners) + Sum(g, NumMiners)
  BY <1>7, SumAdded, ConstantTypes
<1>9. Sum(f, NumMiners) \in Nat /\ Sum(g, NumMiners) \in Nat
  BY <1>7, SumNat, ConstantTypes
<1>10. PendingGodl(k) <= R.top_miner_reward + R.motherlode
  BY <1>1, <1>4, <1>5, <1>6, <1>8, <1>9
<1> QED BY <1>10 DEF R
-----------------------------------------------------------------------------
(* How the claims on finished rounds come and go                           *)

\* Nobody becomes a claimant of a round that is finished already, and whoever
\* remains one remains so with the same claim.
LEMMA ClaimsRemain ==
  ASSUME TypeOK, TypeOK', TicketInv, [Next]_vars, NEW m \in Miners, NEW k \in RoundIds,
         Finished(k), Finished(k)', Pending(m, k)'
  PROVE  Pending(m, k) /\ SameClaim(m, k)
<1>1. /\ miner'[m] # None /\ miner'[m].round_id = k /\ miner'[m].checkpoint_id # k
      /\ k # board.round_id /\ round'[k] # None
  BY DEF Pending, Unsettled, Finished
<1>2. \A pooled \in BOOLEAN : ~Checkpoint(m, pooled)
  BY <1>1, CheckpointDoes
<1>3. ~CheckpointForfeit(m)
  <2> SUFFICES ASSUME CheckpointForfeit(m) PROVE FALSE
    OBVIOUS
  <2>1. miner[m] \in MinerRecord /\ miner' = [miner EXCEPT ![m].checkpoint_id = miner[m].round_id]
    BY DEF CheckpointForfeit, Unsettled, TypeOK
  <2>2. miner'[m].checkpoint_id = miner'[m].round_id
    BY <2>1 DEF TypeOK, MinerRecord
  <2> QED BY <1>1, <2>2
<1>4. ~Close(k)
  BY <1>1 DEF Close, TypeOK
<1>5. Pending(m, k)
  <2>1. CASE miner'[m] = miner[m]
    BY <1>1, <2>1 DEF Pending, Unsettled
  <2>2. CASE Idle
    <3>1. KeepsAccount(m)
      BY <2>2 DEF Idle
    <3>2. CASE miner[m] = None
      BY <1>1, <3>1, <3>2 DEF KeepsAccount, SameGame, OpenedMiner, NewMiner
    <3>3. CASE miner[m] # None
      BY <1>1, <3>1, <3>3 DEF KeepsAccount, SameGame, OpenedMiner, Pending, Unsettled
    <3> QED BY <3>2, <3>3
  <2>3. ASSUME NEW n \in Miners, Entering(n) PROVE miner'[m] = miner[m]
    <3>1. n # m
      BY <1>1, <2>3 DEF Entering, Enters, Plays
    <3> QED BY <2>3, <3>1 DEF Entering, Enters
  <2>4. ASSUME NEW n \in Miners, NEW pooled \in BOOLEAN, Checkpoint(n, pooled)
        PROVE  miner'[m] = miner[m]
    BY <1>2, <2>4, CheckpointDoes
  <2>5. ASSUME NEW n \in Miners, CheckpointForfeit(n) PROVE miner'[m] = miner[m]
    BY <1>3, <2>5 DEF CheckpointForfeit, TypeOK
  <2>6. ASSUME NEW j \in RoundIds, Close(j) PROVE miner'[m] = miner[m]
    BY <2>6 DEF Close
  <2>7. ASSUME NEW candidate \in Miners \cup {None},
               Reset(candidate) \/ ResetPermissionless(candidate)
        PROVE  miner'[m] = miner[m]
    BY <2>7 DEF Reset, ResetPermissionless
  <2> QED BY <2>1, <2>2, <2>3, <2>4, <2>5, <2>6, <2>7, StepKinds
<1> QED BY <1>2, <1>3, <1>4, <1>5, ClaimSteps

\* A round finishes when a reset leaves it, and no other way.
LEMMA FinishedBefore ==
  ASSUME TypeOK, TypeOK', [Next]_vars, NEW k \in RoundIds, Finished(k)'
  PROVE  \/ Finished(k)
         \/ /\ k = board.round_id
            /\ \E candidate \in Miners \cup {None} :
                 Reset(candidate) \/ ResetPermissionless(candidate)
<1> DEFINE c == board.round_id
           Resets == \E candidate \in Miners \cup {None} :
                        Reset(candidate) \/ ResetPermissionless(candidate)
<1>1. round'[k] # None /\ k # board'.round_id
  BY DEF Finished
<1>2. CASE Resets
  <2>1. CASE k = c
    BY <1>2, <2>1
  <2>2. CASE k # c
    <3>1. c \in RoundIds /\ c \in Nat
      BY CurrentType DEF RoundIds
    <3>2. board'.round_id = c + 1 /\ \A j \in RoundIds \ {c, c + 1} : round'[j] = round[j]
      BY <1>2, <3>1, ResetDoes
    <3> QED BY <1>1, <2>2, <3>2 DEF Finished
  <2> QED BY <2>1, <2>2
<1>3. CASE Idle
  BY <1>1, <1>3 DEF Idle, Finished
<1>4. ASSUME NEW m \in Miners, Entering(m) PROVE Finished(k)
  BY <1>1, <1>4 DEF Entering, Enters, Finished
<1>5. ASSUME NEW m \in Miners, NEW pooled \in BOOLEAN, Checkpoint(m, pooled) PROVE Finished(k)
  <2>1. board' = board
    BY <1>5 DEF Checkpoint
  <2>2. round[k] # None
    BY <1>1, <1>5, CheckpointFinds, CheckpointDoes
  <2> QED BY <1>1, <2>1, <2>2 DEF Finished
<1>6. ASSUME NEW m \in Miners, CheckpointForfeit(m) PROVE Finished(k)
  BY <1>1, <1>6 DEF CheckpointForfeit, Finished
<1>7. ASSUME NEW j \in RoundIds, Close(j) PROVE Finished(k)
  BY <1>1, <1>7 DEF Close, Finished, TypeOK
<1> QED BY <1>2, <1>3, <1>4, <1>5, <1>6, <1>7, StepKinds
-----------------------------------------------------------------------------
(* What the treasury owes and holds *)

\* What the finished round k may still pay.
Owed(k) == IF Finished(k) THEN PendingGodl(k) ELSE 0

OwedTyped ==
    \A k \in RoundIds :
        /\ Owed(k) \in Nat
        /\ Finished(k) =>
             /\ k < board.round_id
             /\ \A m \in Miners : GodlClaim(m, k) \in Nat
             /\ Owed(k) = Sum([m \in Miners |-> GodlClaim(m, k)], NumMiners)
             /\ ~HasWinners(round[k]) => Owed(k) = 0
             /\ HasWinners(round[k]) => Owed(k) <= round[k].top_miner_reward + round[k].motherlode

LEMMA OwedTypes == TypeOK /\ GameInv => OwedTyped
<1> SUFFICES ASSUME TypeOK, GameInv, NEW k \in RoundIds
             PROVE  /\ Owed(k) \in Nat
                    /\ Finished(k) =>
                         /\ k < board.round_id
                         /\ \A m \in Miners : GodlClaim(m, k) \in Nat
                         /\ Owed(k) = Sum([m \in Miners |-> GodlClaim(m, k)], NumMiners)
                         /\ ~HasWinners(round[k]) => Owed(k) = 0
                         /\ HasWinners(round[k]) =>
                              Owed(k) <= round[k].top_miner_reward + round[k].motherlode
  BY DEF OwedTyped
<1>1. CASE ~Finished(k)
  BY <1>1 DEF Owed
<1>2. CASE Finished(k)
  <2>1. Decided(k) /\ k < board.round_id
    BY <1>2, FinishedIsDecided
  <2> QED BY <1>2, <2>1, PendingGodlSums, RoundCoversGodl DEF Owed
<1> QED BY <1>1, <1>2

LEMMA NextOwedTyped == TypeOK' /\ GameInv' => OwedTyped'
BY OwedTypes, PTL

\* What a miner may claim of a finished round does not change until it is gone.
LEMMA ClaimLess ==
  ASSUME TypeOK, TypeOK', TicketInv, GameInv, [Next]_vars, NEW k \in RoundIds, NEW m \in Miners,
         Finished(k), Finished(k)'
  PROVE  GodlClaim(m, k)' <= GodlClaim(m, k)
<1>1. GodlClaim(m, k) \in Nat
  BY OwedTypes DEF OwedTyped
<1>2. CASE ~Pending(m, k)'
  BY <1>1, <1>2 DEF GodlClaim
<1>3. CASE Pending(m, k)'
  <2>1. Pending(m, k) /\ GodlWorth(m, k)' = GodlWorth(m, k)
    BY <1>3, ClaimsRemain, SameWorth
  <2> QED BY <1>1, <1>3, <2>1 DEF GodlClaim
<1> QED BY <1>2, <1>3

\* No round that was finished owes more after a step than before.
LEMMA OwedLess ==
  ASSUME TypeOK, TypeOK', TicketInv, GameInv, GameInv', [Next]_vars, NEW k \in RoundIds,
         Finished(k) \/ ~Finished(k)'
  PROVE  Owed(k)' <= Owed(k)
<1>1. OwedTyped /\ OwedTyped'
  BY OwedTypes, NextOwedTyped
<1>2. CASE ~Finished(k)'
  <2>1. Owed(k)' = 0 /\ Owed(k) \in Nat
    BY <1>1, <1>2 DEF OwedTyped, Owed
  <2> QED BY <2>1
<1>3. CASE Finished(k) /\ Finished(k)'
  <2> DEFINE f == [m \in Miners |-> GodlClaim(m, k)]
             g == [m \in Miners |-> GodlClaim(m, k)']
  <2>1. Owed(k) = Sum(f, NumMiners) /\ Owed(k)' = Sum(g, NumMiners)
    BY <1>1, <1>3 DEF OwedTyped
  <2>2. \A m \in Miners : f[m] \in Nat /\ g[m] \in Nat /\ g[m] <= f[m]
    BY <1>1, <1>3, ClaimLess DEF OwedTyped
  <2> HIDE DEF f, g
  <2> QED BY <2>1, <2>2, SumMonotone, ConstantTypes DEF Miners
<1> QED BY <1>2, <1>3

\* Empty pool accounts never make a checkpoint pay more.
LEMMA PooledIsMost ==
  ASSUME TypeOK, NEW m \in Miners, NEW pooled \in BOOLEAN, Checkpoint(m, pooled)
  PROVE  LET k == miner[m].round_id
         IN  /\ GodlReward(m, k, pooled) \in Nat /\ GodlWorth(m, k) \in Nat
             /\ GodlReward(m, k, pooled) <= GodlWorth(m, k)
<1> DEFINE k == miner[m].round_id
           R == round[k]
           w == R.slot_hash.square
           d == miner[m].deployed[w]
           lode == ShareOf(R.motherlode, d, R.deployed[w])
<1>1. GodlReward(m, k, pooled) \in Nat /\ GodlWorth(m, k) \in Nat
  BY CheckpointFinds, GodlRewardType DEF GodlWorth
<1>2. CASE pooled \/ R.top_miner # POOL_ADDRESS
  BY <1>1, <1>2, CheckpointFinds, UnpooledWorth
<1>3. CASE ~pooled /\ R.top_miner = POOL_ADDRESS
  <2>1. CASE R.slot_hash = Unavailable \/ d = 0
    <3>1. \A p \in BOOLEAN : GodlReward(m, k, p) = 0
      BY <2>1 DEF GodlReward
    <3>2. GodlReward(m, k, pooled) = 0 /\ GodlWorth(m, k) = 0
      BY <3>1 DEF GodlWorth
    <3> QED BY <1>1, <3>2
  <2>2. CASE ~(R.slot_hash = Unavailable \/ d = 0)
    <3> DEFINE block == BlockReward(m, k, TRUE)
    <3>1. \A p \in BOOLEAN : GodlReward(m, k, p) = BlockReward(m, k, p) + lode
      BY <2>2 DEF GodlReward
    <3>2. GodlReward(m, k, pooled) = BlockReward(m, k, pooled) + lode
          /\ GodlWorth(m, k) = block + lode
      BY <3>1 DEF GodlWorth
    <3>3. BlockReward(m, k, pooled) = 0
      BY <1>3, MarksAssumption DEF BlockReward
    <3>4. block \in Nat /\ lode \in Nat
      BY <2>2, CheckpointFinds, BlockRewardType
    <3>5. GodlReward(m, k, pooled) <= GodlWorth(m, k)
      <4> HIDE DEF lode, k, block
      <4> QED BY <3>2, <3>3, <3>4
    <3> QED BY <1>1, <3>5
  <2> QED BY <2>1, <2>2
<1> QED BY <1>1, <1>2, <1>3

\* A checkpoint takes the claim it pays off what the round owes.
LEMMA CheckpointOwed ==
  ASSUME TypeOK, TypeOK', TicketInv, GameInv, GameInv',
         NEW m \in Miners, NEW pooled \in BOOLEAN, Checkpoint(m, pooled),
         NEW k \in RoundIds, k = miner[m].round_id
  PROVE  Owed(k)' + GodlReward(m, k, pooled) <= Owed(k) /\ GodlReward(m, k, pooled) \in Nat
<1> DEFINE f == [n \in Miners |-> GodlClaim(n, k)]
           g == [n \in Miners |-> GodlClaim(n, k)']
           godl == GodlReward(m, k, pooled)
<1>1. OwedTyped /\ OwedTyped' /\ [Next]_vars
  BY OwedTypes, NextOwedTyped DEF Next
<1>2. /\ Finished(k) /\ Pending(m, k)
      /\ godl \in Nat /\ GodlWorth(m, k) \in Nat /\ godl <= GodlWorth(m, k)
  BY PooledIsMost DEF Checkpoint, Pending
<1>3. Finished(k)'
  <2>1. round'[k] \in RoundRecord /\ board' = board
    BY CheckpointDoes DEF Checkpoint
  <2> QED BY <1>2, <2>1, NoneAssumption DEF Finished
<1>4. f[m] = GodlWorth(m, k) /\ g[m] = 0
  <2>1. ~Pending(m, k)'
    BY CheckpointDoes DEF Pending, Unsettled
  <2> QED BY <1>2, <2>1 DEF GodlClaim
<1>5. Owed(k) = Sum(f, NumMiners) /\ Owed(k)' = Sum(g, NumMiners)
  BY <1>1, <1>2, <1>3 DEF OwedTyped
<1>6. \A n \in Miners : f[n] \in Nat /\ g[n] \in Nat /\ g[n] <= f[n]
  BY <1>1, <1>2, <1>3, ClaimLess DEF OwedTyped
<1> HIDE DEF f, g, godl
<1>7. /\ m \in 1 .. NumMiners /\ \A i \in 1 .. NumMiners : f[i] \in Nat /\ g[i] \in Nat
      /\ \A i \in (1 .. NumMiners) \ {m} : g[i] <= f[i]
      /\ g[m] + godl <= f[m]
  BY <1>2, <1>4, <1>6 DEF Miners
<1>8. Sum(g, NumMiners) + godl <= Sum(f, NumMiners)
  BY <1>2, <1>7, SumDrop, ConstantTypes
<1> QED BY <1>2, <1>5, <1>8 DEF godl

\* What a reset mints for the winners and takes from the motherlode for them is
\* all that the round it finishes comes to owe (reset.rs:263-296).
LEMMA ResetOwed ==
  ASSUME TypeOK, TypeOK', TicketInv, GameInv, GameInv', NEW candidate \in Miners \cup {None},
         Reset(candidate) \/ ResetPermissionless(candidate),
         NEW c \in RoundIds, c = board.round_id
  PROVE  \E mint \in Nat, prize \in Nat, lode \in Nat :
           /\ supply' = supply + mint + lode
           /\ treasury'.tokens = treasury.tokens + mint + lode
           /\ treasury'.motherlode = treasury.motherlode - prize + lode
           /\ treasury'.total_unclaimed = treasury.total_unclaimed
           /\ supply <= MAX_SUPPLY => supply' <= MAX_SUPPLY
           /\ Owed(c) = 0
           /\ Owed(c)' <= mint + prize
<1> DEFINE R == Closing
<1>1. OwedTyped /\ OwedTyped' /\ c \in RoundIds /\ Owed(c) = 0
  BY OwedTypes, NextOwedTyped, CurrentType DEF Owed, Finished
<1>2. /\ R \in RoundRecord /\ R.slot_hash \in RngValues
      /\ round'[c] \in RoundRecord
      /\ round'[c].slot_hash = R.slot_hash /\ round'[c].deployed = R.deployed
      /\ UNCHANGED miner
  BY ResetDoes, ClosingType
<1>3. PICK top \in {NoOne, SPLIT_ADDRESS, POOL_ADDRESS} :
        Settle(R, top) /\ round'[c] \in {Refunded(R), Vaulted(R), Won(R, top)}
  BY ResetDoes
<1>4. /\ supply \in Nat /\ treasury.tokens \in Nat /\ treasury.motherlode \in Nat
      /\ treasury.total_unclaimed \in Nat
  BY DEF TypeOK
<1>5. Finished(c)' /\ (HasWinners(round'[c]) <=> HasWinners(R))
  <2>1. round'[c] # None /\ board'.round_id # c
    <3>1. c \in Nat
      BY <1>1 DEF RoundIds
    <3>2. board'.round_id = c + 1
      BY <3>1, ResetDoes
    <3> QED BY <1>2, <3>1, <3>2, NoneAssumption
  <2> QED BY <1>1, <1>2, <2>1 DEF Finished, HasWinners
<1>6. CASE ~HasWinners(R)
  <2>1. Owed(c)' = 0
    BY <1>1, <1>5, <1>6 DEF OwedTyped
  <2>2. UNCHANGED supply
    BY <1>3, <1>6 DEF Settle, HasWinners
  <2>3. \/ UNCHANGED treasury
        \/ /\ treasury'.tokens = treasury.tokens
           /\ treasury'.motherlode = treasury.motherlode
           /\ treasury'.total_unclaimed = treasury.total_unclaimed
    <3>1. UNCHANGED treasury \/ \E amount : treasury' = [treasury EXCEPT
             !.balance = @ + amount, !.lamports = @ + amount]
      BY <1>3, <1>6 DEF Settle, HasWinners, Vault
    <3> QED BY <3>1 DEF TypeOK
  <2> DEFINE z == 0
  <2>4. /\ z \in Nat
        /\ supply' = supply + z + z /\ treasury'.tokens = treasury.tokens + z + z
        /\ treasury'.motherlode = treasury.motherlode - z + z
        /\ treasury'.total_unclaimed = treasury.total_unclaimed
        /\ supply <= MAX_SUPPLY => supply' <= MAX_SUPPLY
        /\ Owed(c) = 0
        /\ Owed(c)' <= z + z
    BY <1>1, <1>4, <2>1, <2>2, <2>3
  <2> HIDE DEF z
  <2> QED BY <2>4
<1>7. CASE HasWinners(R)
  <2> DEFINE mint == MintAmount
             lode == MotherlodeMintAmount
             prize == MotherlodePrize(R)
             S == Won(R, top)
  <2>1. /\ AdvanceBoard(S) /\ config.motherlode_denominator # 0
        /\ MintAndVault(R, S.total_vaulted, MotherlodeFee(R.total_deployed))
    BY <1>3, <1>7 DEF Settle, HasWinners
  <2>2. mint \in Nat /\ lode \in Nat /\ prize \in Nat
    BY <2>1, MintTypes, PrizeType
  <2>3. round'[c].top_miner_reward = mint /\ round'[c].motherlode = prize
    <3>1. round'[c] = S
      <4>1. c \in RoundIds /\ c # c + 1
        BY <1>1 DEF RoundIds
      <4>2. round' = [round EXCEPT ![c] = S, ![c + 1] = NewRound]
        BY <2>1 DEF AdvanceBoard
      <4> HIDE DEF S
      <4> QED BY <4>1, <4>2 DEF TypeOK
    <3>2. S.top_miner_reward = mint /\ S.motherlode = prize
      <4> DEFINE vault == NetWinnings(R) \div 10
                 winnings == NetWinnings(R) - vault
                 cash == R.lamports - AdminFee(R.total_deployed)
                           - MotherlodeFee(R.total_deployed) - vault
      <4>1. S = [R EXCEPT !.total_winnings = winnings, !.total_vaulted = vault,
                          !.top_miner = top, !.top_miner_reward = mint,
                          !.motherlode = prize, !.lamports = cash]
        BY DEF Won
      <4> HIDE DEF S, R, winnings, vault, mint, prize, cash
      <4> QED BY <1>2, <4>1 DEF RoundRecord
    <3> QED BY <3>1, <3>2
  <2>4. Owed(c)' <= mint + prize
    BY <1>1, <1>5, <1>7, <2>3 DEF OwedTyped
  <2>5. /\ supply' = supply + mint + lode
        /\ treasury'.tokens = treasury.tokens + mint + lode
        /\ treasury'.motherlode = treasury.motherlode - prize + lode
        /\ treasury'.total_unclaimed = treasury.total_unclaimed
    <3>1. treasury' = [treasury EXCEPT
             !.balance = @ + S.total_vaulted, !.lamports = @ + S.total_vaulted,
             !.motherlode = @ - prize + lode,
             !.tokens = @ + mint + lode]
          /\ supply' = supply + mint + lode
      BY <2>1 DEF MintAndVault
    <3> HIDE DEF S, mint, lode, prize
    <3> QED BY <3>1 DEF TypeOK
  <2>6. supply <= MAX_SUPPLY => supply' <= MAX_SUPPLY
    <3> SUFFICES ASSUME supply <= MAX_SUPPLY PROVE supply' <= MAX_SUPPLY
      OBVIOUS
    <3>1. config.godl_per_round \in Nat
      BY DEF TypeOK, ConfigRecord
    <3>2. mint <= MAX_SUPPLY - supply
      BY <1>4, <3>1, ConstantTypes DEF MintAmount, AtMost, Monus
    <3> DEFINE q == config.godl_per_round \div config.motherlode_denominator
    <3>3. config.motherlode_denominator \in Nat \ {0}
      BY <2>1 DEF TypeOK, ConfigRecord
    <3>4. q \in Nat
      BY <3>1, <3>3, DivBounds
    <3>5. lode = AtMost(Monus(MAX_SUPPLY, supply + mint), q)
      BY DEF MotherlodeMintAmount
    <3> HIDE DEF q, mint, lode
    <3>6. lode <= MAX_SUPPLY - (supply + mint)
      BY <1>4, <2>2, <3>2, <3>4, <3>5, ConstantTypes DEF AtMost, Monus
    <3> QED BY <1>4, <2>2, <2>5, <3>6, ConstantTypes
  <2> HIDE DEF mint, lode, prize
  <2> QED BY <1>1, <2>2, <2>4, <2>5, <2>6
<1> QED BY <1>6, <1>7

\* GodlBacked and, so that the cap on the mint is one on the tokens, that the
\* program's own mints are all there is: the GODL it books is the supply.
GodlInv ==
    /\ supply = treasury.tokens
    /\ supply <= MAX_SUPPLY
    /\ treasury.total_unclaimed + treasury.motherlode
         + Sum([k \in RoundIds |-> Owed(k)], MaxRounds) <= treasury.tokens

\* Steps that neither mint nor settle.
LEMMA OwedSumLess ==
  ASSUME TypeOK, TypeOK', TicketInv, GameInv, GameInv', [Next]_vars,
         \A k \in RoundIds : Finished(k) \/ ~Finished(k)'
  PROVE  Sum([k \in RoundIds |-> Owed(k)'], MaxRounds) <= Sum([k \in RoundIds |-> Owed(k)], MaxRounds)
<1> DEFINE f == [k \in RoundIds |-> Owed(k)]
           g == [k \in RoundIds |-> Owed(k)']
<1>1. OwedTyped /\ OwedTyped'
  BY OwedTypes, NextOwedTyped
<1>2. \A i \in 1 .. MaxRounds : f[i] \in Nat /\ g[i] \in Nat /\ g[i] <= f[i]
  BY <1>1, OwedLess DEF OwedTyped, RoundIds
<1> HIDE DEF f, g
<1>3. Sum(g, MaxRounds) <= Sum(f, MaxRounds)
  BY <1>2, SumMonotone, ConstantTypes
<1> QED BY <1>3 DEF f, g

LEMMA OwedSums ==
  ASSUME OwedTyped, OwedTyped'
  PROVE  /\ \A i \in 1 .. MaxRounds : /\ [k \in RoundIds |-> Owed(k)][i] \in Nat
                                      /\ [k \in RoundIds |-> Owed(k)'][i] \in Nat
         /\ Sum([k \in RoundIds |-> Owed(k)], MaxRounds) \in Nat
         /\ Sum([k \in RoundIds |-> Owed(k)'], MaxRounds) \in Nat
<1> DEFINE f == [k \in RoundIds |-> Owed(k)]
           g == [k \in RoundIds |-> Owed(k)']
<1>1. \A i \in 1 .. MaxRounds : f[i] \in Nat /\ g[i] \in Nat
  BY DEF OwedTyped, RoundIds
<1> HIDE DEF f, g
<1>2. Sum(f, MaxRounds) \in Nat /\ Sum(g, MaxRounds) \in Nat
  BY <1>1, SumNat, ConstantTypes
<1> QED BY <1>1, <1>2 DEF f, g

\* A reset adds to the claims what it mints and takes from the motherlode; a
\* checkpoint moves a claim to the miners' rewards; nothing else adds anything.
LEMMA NextGodl ==
  ASSUME TypeOK, TypeOK', TicketInv, GameInv, GameInv', GodlInv, [Next]_vars
  PROVE  GodlInv'
<1> DEFINE f == [k \in RoundIds |-> Owed(k)]
           g == [k \in RoundIds |-> Owed(k)']
           F == Sum(f, MaxRounds)
           G == Sum(g, MaxRounds)
<1>1. OwedTyped /\ OwedTyped'
  BY OwedTypes, NextOwedTyped
<1>2. /\ \A i \in 1 .. MaxRounds : f[i] \in Nat /\ g[i] \in Nat
      /\ F \in Nat /\ G \in Nat
  BY <1>1, OwedSums
<1>3. /\ supply \in Nat /\ treasury.tokens \in Nat /\ treasury.motherlode \in Nat
      /\ treasury.total_unclaimed \in Nat
  BY DEF TypeOK
<1>4. /\ supply = treasury.tokens /\ supply <= MAX_SUPPLY
      /\ treasury.total_unclaimed + treasury.motherlode + F <= treasury.tokens
  BY DEF GodlInv
<1>5. ASSUME supply' = treasury'.tokens, supply' <= MAX_SUPPLY,
             treasury'.total_unclaimed + treasury'.motherlode + G <= treasury'.tokens
      PROVE  GodlInv'
  BY <1>5 DEF GodlInv
<1>6. \A k \in RoundIds : f[k] = Owed(k) /\ g[k] = Owed(k)'
  OBVIOUS
<1> DEFINE Quiet == /\ UNCHANGED supply
                    /\ treasury'.tokens = treasury.tokens
                    /\ treasury'.motherlode = treasury.motherlode
                    /\ treasury'.total_unclaimed = treasury.total_unclaimed
<1>7. ASSUME Quiet, board'.round_id = board.round_id
      PROVE  GodlInv'
  <2>1. \A k \in RoundIds : Finished(k) \/ ~Finished(k)'
    BY <1>7, FinishedBefore DEF Finished
  <2>2. G <= F
    BY <2>1, OwedSumLess
  <2> HIDE DEF F, G, f, g
  <2>3. treasury'.total_unclaimed + treasury'.motherlode + G <= treasury'.tokens
    BY <1>2, <1>3, <1>4, <1>7, <2>2
  <2> QED BY <1>4, <1>5, <1>7, <2>3
<1>8. ASSUME NEW m \in Miners, NEW pooled \in BOOLEAN, Checkpoint(m, pooled)
      PROVE  GodlInv'
  <2>1. PICK k0 \in RoundIds : k0 = miner[m].round_id /\ k0 \in 1 .. MaxRounds
    BY <1>8, CheckpointFinds DEF RoundIds
  <2> DEFINE godl == GodlReward(m, k0, pooled)
  <2>2. Owed(k0)' + godl <= Owed(k0) /\ godl \in Nat
    BY <1>8, <2>1, CheckpointOwed
  <2>3. /\ treasury'.total_unclaimed = treasury.total_unclaimed + godl
        /\ treasury'.motherlode = treasury.motherlode
        /\ treasury'.tokens = treasury.tokens
        /\ UNCHANGED <<supply, board>>
    BY <1>8, <2>1, CheckpointDoes DEF Checkpoint
  <2>4. \A k \in RoundIds : Owed(k)' <= Owed(k)
    <3>1. \A k \in RoundIds : Finished(k) \/ ~Finished(k)'
      BY <2>3, FinishedBefore DEF Finished
    <3> QED BY <3>1, OwedLess
  <2> HIDE DEF F, G, f, g, godl
  <2>5. Sum(g, MaxRounds) + godl <= Sum(f, MaxRounds)
    <3>1. g[k0] + godl <= f[k0] /\ \A i \in (1 .. MaxRounds) \ {k0} : g[i] <= f[i]
      BY <1>6, <2>1, <2>2, <2>4 DEF RoundIds
    <3> QED BY <1>2, <2>1, <2>2, <3>1, SumDrop, ConstantTypes
  <2>6. treasury'.total_unclaimed + treasury'.motherlode + G <= treasury'.tokens
    <3>1. G + godl <= F
      BY <2>5 DEF F, G
    <3> QED BY <1>2, <1>3, <1>4, <2>2, <2>3, <3>1
  <2> QED BY <1>4, <1>5, <2>3, <2>6
<1>9. ASSUME NEW candidate \in Miners \cup {None}, Reset(candidate) \/ ResetPermissionless(candidate)
      PROVE  GodlInv'
  <2>0. PICK c \in RoundIds : c = board.round_id
    BY CurrentType
  <2>1. PICK mint \in Nat, prize \in Nat, lode \in Nat :
           /\ supply' = supply + mint + lode
           /\ treasury'.tokens = treasury.tokens + mint + lode
           /\ treasury'.motherlode = treasury.motherlode - prize + lode
           /\ treasury'.total_unclaimed = treasury.total_unclaimed
           /\ supply <= MAX_SUPPLY => supply' <= MAX_SUPPLY
           /\ Owed(c) = 0
           /\ Owed(c)' <= mint + prize
    BY <1>9, <2>0, ResetOwed
  <2>2. \A k \in RoundIds \ {c} : Owed(k)' <= Owed(k)
    BY <2>0, FinishedBefore, OwedLess
  <2>3. c \in RoundIds /\ c \in 1 .. MaxRounds
    BY DEF RoundIds
  <2> HIDE DEF F, G, f, g
  <2>4. Sum(g, MaxRounds) <= Sum(f, MaxRounds) + (mint + prize)
    <3>1. g[c] <= f[c] + (mint + prize) /\ \A i \in (1 .. MaxRounds) \ {c} : g[i] <= f[i]
      BY <1>6, <2>1, <2>2, <2>3 DEF RoundIds
    <3>2. mint + prize \in Nat
      OBVIOUS
    <3> QED BY <1>2, <2>3, <3>1, <3>2, SumRise, ConstantTypes
  <2>5. treasury'.total_unclaimed + treasury'.motherlode + G <= treasury'.tokens
    <3>1. G <= F + (mint + prize)
      BY <2>4 DEF F, G
    <3> QED BY <1>2, <1>3, <1>4, <2>1, <3>1
  <2> QED BY <1>4, <1>5, <2>1, <2>5
<1>10. CASE Idle
  BY <1>7, <1>10 DEF Idle
<1>11. ASSUME NEW m \in Miners, Entering(m) PROVE GodlInv'
  BY <1>7, <1>11 DEF Entering, Enters
<1>12. ASSUME NEW m \in Miners, CheckpointForfeit(m) PROVE GodlInv'
  BY <1>7, <1>12 DEF CheckpointForfeit
<1>13. ASSUME NEW k \in RoundIds, Close(k) PROVE GodlInv'
  <2>1. /\ UNCHANGED <<supply, board>>
        /\ \E x : treasury' = [treasury EXCEPT !.balance = @ + x, !.lamports = @ + x]
    BY <1>13 DEF Close
  <2>2. Quiet
    BY <2>1 DEF TypeOK
  <2> QED BY <1>7, <2>1, <2>2
<1> HIDE DEF F, G, f, g, Quiet
<1> QED BY <1>8, <1>9, <1>10, <1>11, <1>12, <1>13, StepKinds

LEMMA InitGodl == Init => GodlInv
<1> SUFFICES ASSUME Init PROVE GodlInv
  OBVIOUS
<1> DEFINE f == [k \in RoundIds |-> Owed(k)]
<1>1. \A i \in 1 .. MaxRounds : f[i] = 0
  <2>1. \A k \in RoundIds : ~Finished(k)
    BY DEF Init, Finished
  <2> QED BY <2>1 DEF Owed, RoundIds
<1> HIDE DEF f
<1>2. Sum(f, MaxRounds) = 0
  BY <1>1, SumOfZeros, ConstantTypes
<1>3. /\ supply = 0 /\ treasury.tokens = 0 /\ treasury.total_unclaimed = 0
      /\ treasury.motherlode = 0
  BY DEF Init
<1> QED BY <1>2, <1>3, ConstantTypes DEF GodlInv, f

\* The treasury's GODL always covers what it has booked to miners, what the
\* motherlode holds and all that finished rounds may still pay, however the
\* block reward is shared, and the mint never exceeds its cap (reset.rs:263-296,
\* checkpoint.rs:110-180).
THEOREM MiningBacksItsGodl == Spec => []GodlBacked
<1>1. TypeOK /\ GodlInv => GodlBacked
  <2> SUFFICES ASSUME TypeOK, GodlInv PROVE GodlBacked
    OBVIOUS
  <2>1. treasury.tokens <= MAX_SUPPLY
    BY DEF GodlInv
  <2> QED BY <2>1 DEF GodlInv, GodlBacked, Owed
<1>2. TypeOK /\ TypeOK' /\ TicketInv /\ GameInv /\ GameInv' /\ GodlInv /\ [Next]_vars => GodlInv'
  BY NextGodl
<1> QED BY <1>1, <1>2, InitGodl, TypesAreCorrect, TicketInvariant, GameInvariant, PTL DEF Spec
-----------------------------------------------------------------------------
(* The SOL that a finished round may still pay                             *)

\* The rate of the fee that a winner pays on its stake, and of what it keeps.
FeeRate == ADMIN_FEE_BPS + SOL_MOTHERLODE_BPS
KeepRate == DENOMINATOR_BPS - FeeRate

LEMMA FeeRates == FeeRate \in Nat /\ KeepRate \in Nat /\ KeepRate = DENOMINATOR_BPS - FeeRate
BY ConstantTypes, FeesAssumption DEF FeeRate, KeepRate

\* A fee falls short of its rate by less than one lamport.
LEMMA PlayFeeRest ==
  ASSUME NEW T \in Nat
  PROVE  /\ PlayFee(T) \in Nat /\ PlayFee(T) <= T
         /\ PlayFee(T) * DENOMINATOR_BPS <= T * FeeRate
         /\ T * FeeRate < PlayFee(T) * DENOMINATOR_BPS + DENOMINATOR_BPS
<1> DEFINE p == T * FeeRate
<1>1. p \in Nat
  BY FeeRates
<1>2. PlayFee(T) = p \div DENOMINATOR_BPS
  BY DEF PlayFee, Bps, FeeRate
<1> HIDE DEF p
<1>3. /\ PlayFee(T) * DENOMINATOR_BPS <= p
      /\ p < PlayFee(T) * DENOMINATOR_BPS + DENOMINATOR_BPS
  BY <1>1, <1>2, DivRest, ConstantTypes
<1> QED BY <1>3, FeeTypes DEF p

\* The two fees that a reset takes from the total do not exceed their rate.
LEMMA ResetFees ==
  ASSUME NEW T \in Nat
  PROVE  (AdminFee(T) + MotherlodeFee(T)) * DENOMINATOR_BPS <= T * FeeRate
<1> DEFINE a == ADMIN_FEE_BPS
           b == SOL_MOTHERLODE_BPS
           p == T * a
           q == T * b
<1>1. a \in Nat /\ b \in Nat /\ p \in Nat /\ q \in Nat
  BY ConstantTypes
<1>2. T * FeeRate = p + q
  BY <1>1 DEF FeeRate
<1>3. AdminFee(T) = p \div DENOMINATOR_BPS /\ MotherlodeFee(T) = q \div DENOMINATOR_BPS
  BY DEF AdminFee, MotherlodeFee, Bps
<1> HIDE DEF a, b, p, q
<1>4. /\ AdminFee(T) * DENOMINATOR_BPS <= p /\ MotherlodeFee(T) * DENOMINATOR_BPS <= q
      /\ AdminFee(T) \in Nat /\ MotherlodeFee(T) \in Nat
  BY <1>1, <1>3, DivRest, ConstantTypes
<1> DEFINE x == AdminFee(T) * DENOMINATOR_BPS
           y == MotherlodeFee(T) * DENOMINATOR_BPS
<1>5. (AdminFee(T) + MotherlodeFee(T)) * DENOMINATOR_BPS = x + y /\ x \in Nat /\ y \in Nat
  BY <1>4, ConstantTypes
<1> HIDE DEF x, y
<1>6. x <= p /\ y <= q
  BY <1>4 DEF x, y
<1> QED BY <1>1, <1>2, <1>5, <1>6

\* The claims of a round, by miner.
SolClaim(m, k) == IF Pending(m, k) THEN SolReward(miner[m], round[k]) ELSE 0

\* Every fee that a claimant pays on its stake is within loss / DENOMINATOR_BPS
\* of its rate.
FeesWithin(k, loss) ==
    \A m \in Miners : Pending(m, k) =>
        miner[m].deployed[round[k].slot_hash.square] * FeeRate
          <= PlayFee(miner[m].deployed[round[k].slot_hash.square]) * DENOMINATOR_BPS + loss

\* Without entropy the claims are stakes, which the squares cover.
LEMMA RefundsCovered ==
  ASSUME TypeOK, GameInv, NEW k \in RoundIds, Decided(k), round[k].slot_hash = Unavailable
  PROVE  Sum([m \in Miners |-> SolClaim(m, k)], NumMiners) <= Sum(round[k].deployed, NumSquares)
<1> DEFINE row(m) == [s \in Squares |-> Part(m, k, s)]
           F == [m \in Miners |-> row(m)]
           f == [m \in Miners |-> SolClaim(m, k)]
           sums == [m \in 1 .. NumMiners |-> Sum(F[m], NumSquares)]
           tops == [s \in 1 .. NumSquares |-> Sum([m \in 1 .. NumMiners |-> F[m][s]], NumMiners)]
<1>1. PartsTyped
  BY PartTypes
<1>2. ASSUME NEW m \in Miners
      PROVE  F[m] = row(m) /\ Sum(F[m], NumSquares) \in Nat /\ f[m] \in Nat
             /\ f[m] <= Sum(F[m], NumSquares)
  <2>1. F[m] = row(m)
    OBVIOUS
  <2>2. Sum(row(m), NumSquares) \in Nat
    <3>1. \A i \in 1 .. NumSquares : row(m)[i] \in Nat
      BY <1>1 DEF PartsTyped, Squares
    <3> HIDE DEF row
    <3> QED BY <3>1, SumNat, ConstantTypes
  <2>3. CASE ~Pending(m, k)
    <3>1. f[m] = 0
      BY <2>3 DEF SolClaim
    <3> HIDE DEF f, F, row
    <3> QED BY <2>1, <2>2, <3>1
  <2>4. CASE Pending(m, k)
    <3>1. miner[m] \in MinerRecord /\ Plays(m, k)
      BY <2>4 DEF Pending, Unsettled, Plays, TypeOK
    <3>2. row(m) = miner[m].deployed
      BY <3>1 DEF MinerRecord, Sqs, Part
    <3>3. f[m] = Sum(miner[m].deployed, NumSquares)
      BY <2>4 DEF SolClaim, SolReward
    <3> HIDE DEF f, F, row
    <3> QED BY <2>1, <2>2, <3>2, <3>3
  <2> QED BY <2>1, <2>2, <2>3, <2>4
<1>3. Sum(f, NumMiners) <= Sum(sums, NumMiners)
  <2>1. \A i \in 1 .. NumMiners : f[i] \in Nat /\ sums[i] \in Nat /\ f[i] <= sums[i]
    <3> HIDE DEF f, F
    <3> QED BY <1>2 DEF Miners
  <2> HIDE DEF f, sums
  <2> QED BY <2>1, SumMonotone, ConstantTypes
<1>4. Sum(sums, NumMiners) = Sum(tops, NumSquares)
  <2> DEFINE G == [s \in Squares |-> [m \in Miners |-> F[m][s]]]
  <2>1. \A i \in 1 .. NumMiners, j \in 1 .. NumSquares : F[i][j] \in Nat
    BY <1>1 DEF PartsTyped, Miners, Squares
  <2>2. \A i \in 1 .. NumMiners, j \in 1 .. NumSquares : G[j][i] = F[i][j]
    <3> HIDE DEF F
    <3> QED BY DEF Miners, Squares
  <2>3. \A i \in 1 .. NumMiners : sums[i] = Sum(F[i], NumSquares)
    <3> HIDE DEF F
    <3> QED OBVIOUS
  <2>4. ASSUME NEW j \in 1 .. NumSquares
        PROVE  tops[j] = Sum(G[j], NumMiners)
    <3>1. G[j] = [m \in 1 .. NumMiners |-> F[m][j]]
      <4> HIDE DEF F
      <4> QED BY DEF Miners, Squares
    <3>2. tops[j] = Sum([m \in 1 .. NumMiners |-> F[m][j]], NumMiners)
      OBVIOUS
    <3> HIDE DEF F, G, tops
    <3> QED BY <3>1, <3>2
  <2> HIDE DEF F, G, sums, tops
  <2>5. Turned(F, G, NumMiners, NumSquares, sums, tops)
    BY <2>1, <2>2, <2>3, <2>4 DEF Turned
  <2> QED BY <2>5, SumSwap, ConstantTypes
<1>5. ASSUME NEW s \in Squares
      PROVE  tops[s] \in Nat /\ round[k].deployed[s] \in Nat /\ tops[s] <= round[k].deployed[s]
  <2>1. [m \in 1 .. NumMiners |-> F[m][s]] = [m \in Miners |-> Part(m, k, s)]
    BY DEF Miners
  <2>2. tops[s] = PlayedOn(k, s)
    <3>1. tops[s] = Sum([m \in 1 .. NumMiners |-> F[m][s]], NumMiners)
      BY DEF Squares
    <3> HIDE DEF tops, F
    <3> QED BY <2>1, <3>1 DEF PlayedOn
  <2>3. PlayedOn(k, s) \in Nat /\ PlayedOn(k, s) <= round[k].deployed[s]
    BY <1>1 DEF PartsTyped, GameInv, StakeBooks, Decided
  <2> HIDE DEF tops
  <2> QED BY <2>2, <2>3, RoundTypes DEF SquaresTyped, Decided
<1>6. Sum(tops, NumSquares) <= Sum(round[k].deployed, NumSquares)
  <2> HIDE DEF tops
  <2> QED BY <1>5, SumMonotone, ConstantTypes DEF Squares
<1>7. Sum(f, NumMiners) \in Nat /\ Sum(tops, NumSquares) \in Nat
      /\ Sum(round[k].deployed, NumSquares) \in Nat
  <2> HIDE DEF f, tops
  <2> QED BY <1>2, <1>5, SumNat, ConstantTypes DEF Miners, Squares
<1> HIDE DEF sums, tops
<1> QED BY <1>3, <1>4, <1>6, <1>7

\* With winners the claims are shares of the winnings, and what the stakes on
\* the winning square keep of themselves after fees: at the rate, and by less
\* than a lamport per player more.
LEMMA WinnersClaim ==
  ASSUME TypeOK, GameInv, NEW k \in RoundIds, Decided(k), HasWinners(round[k]),
         NEW loss \in Nat, FeesWithin(k, loss)
  PROVE  \E kept \in Nat :
           /\ Sum([m \in Miners |-> SolClaim(m, k)], NumMiners) <= round[k].total_winnings + kept
           /\ kept * DENOMINATOR_BPS
                <= KeepRate * round[k].deployed[round[k].slot_hash.square]
                     + loss * round[k].count[round[k].slot_hash.square]
<1> DEFINE R == round[k]
           w == R.slot_hash.square
           B == DENOMINATOR_BPS
           d(m) == miner[m].deployed[w]
           pays(m) == Pending(m, k) /\ d(m) # 0
           h == [m \in Miners |-> SolClaim(m, k)]
           f == [m \in Miners |-> IF pays(m) THEN d(m) - AtLeast(PlayFee(d(m)), 1) ELSE 0]
           g == [m \in Miners |-> IF pays(m)
                   THEN ShareOf(R.total_winnings, d(m), R.deployed[w]) ELSE 0]
           parts == [m \in Miners |-> Part(m, k, w)]
           ones == [m \in Miners |-> Played(m, k, w)]
           rest == [m \in Miners |-> loss * ones[m]]
           bound == [m \in Miners |-> rest[m] + KeepRate * parts[m]]
<1>1. R \in RoundRecord /\ R.total_winnings \in Nat /\ w \in Squares
  <2>1. R \in RoundRecord /\ w \in Squares
    BY RngType DEF Decided, TypeOK, HasWinners
  <2> QED BY <2>1 DEF RoundRecord
<1>2. \A m \in Miners : Pending(m, k) => Plays(m, k) /\ d(m) \in Nat
  BY <1>1, PlayTypes DEF Pending, Plays, Unsettled, RangesTyped
<1>3. \A m \in Miners : h[m] = f[m] + g[m] \/ (h[m] = 0 /\ f[m] = 0 /\ g[m] = 0)
  BY DEF SolClaim, SolReward, HasWinners
<1>4. (\A m \in Miners : g[m] \in Nat) /\ Sum(g, NumMiners) <= R.total_winnings
  <2>1. \A m \in Miners :
          \/ g[m] = 0
          \/ Plays(m, k) /\ g[m] = ShareOf(R.total_winnings, miner[m].deployed[w], R.deployed[w])
    BY <1>2
  <2> HIDE DEF g
  <2> QED BY <1>1, <2>1, SplitShares
<1>5. ASSUME NEW m \in Miners
      PROVE  /\ parts[m] \in Nat /\ ones[m] \in Nat
             /\ rest[m] = loss * ones[m] /\ rest[m] \in Nat
             /\ bound[m] = rest[m] + KeepRate * parts[m] /\ bound[m] \in Nat
             /\ f[m] \in Nat /\ f[m] * B <= bound[m]
  <2>1. /\ parts[m] = Part(m, k, w) /\ ones[m] = Played(m, k, w)
        /\ parts[m] \in Nat /\ ones[m] \in Nat
    BY <1>1, PartTypes DEF PartsTyped
  <2>2. rest[m] = loss * ones[m] /\ bound[m] = rest[m] + KeepRate * parts[m]
    OBVIOUS
  <2>3. rest[m] \in Nat /\ KeepRate * parts[m] \in Nat /\ bound[m] \in Nat
    <3> HIDE DEF rest, bound, ones, parts
    <3>1. loss * ones[m] \in Nat /\ KeepRate * parts[m] \in Nat
      BY <2>1, FeeRates
    <3> QED BY <2>2, <3>1
  <2>4. CASE ~pays(m)
    <3>1. f[m] = 0
      BY <2>4
    <3> HIDE DEF f, rest, bound, ones, parts
    <3> QED BY <2>1, <2>2, <2>3, <3>1, ConstantTypes
  <2>5. CASE pays(m)
    <3> DEFINE e == d(m)
               x == AtLeast(PlayFee(e), 1)
    <3>1. e \in Nat \ {0} /\ f[m] = e - x /\ Plays(m, k)
      BY <1>2, <2>5
    <3>2. parts[m] = e /\ ones[m] = 1
      BY <2>1, <3>1 DEF Part, Played
    <3>3. e * FeeRate <= PlayFee(e) * B + loss
      BY <2>5 DEF FeesWithin
    <3> HIDE DEF e
    <3>4. PlayFee(e) \in Nat /\ PlayFee(e) <= e
      BY <3>1, PlayFeeRest
    <3>5. x \in Nat /\ x <= e /\ PlayFee(e) <= x
      BY <3>1, <3>4 DEF AtLeast
    <3> HIDE DEF x
    <3>6. f[m] \in Nat
      BY <3>1, <3>5
    <3> DEFINE y == PlayFee(e)
               yB == y * B
               xB == x * B
               eB == e * B
               eF == e * FeeRate
    <3>7. yB \in Nat /\ xB \in Nat /\ eB \in Nat /\ eF \in Nat /\ yB <= xB
      <4> HIDE DEF y
      <4>1. y \in Nat /\ x \in Nat /\ y <= x /\ B \in Nat
        BY <3>4, <3>5, ConstantTypes DEF y
      <4>2. B * y <= B * x
        BY <4>1, ProductMonotone
      <4> QED BY <3>1, <4>1, <4>2, FeeRates
    <3>8. (e - x) * B = eB - xB /\ KeepRate * e = eB - eF
      BY <3>1, <3>5, FeeRates, ConstantTypes
    <3>9. eF <= yB + loss
      BY <3>3
    <3> HIDE DEF y, yB, xB, eB, eF
    <3>10. (e - x) * B <= loss * 1 + KeepRate * e
      BY <3>7, <3>8, <3>9
    <3>11. f[m] * B <= bound[m]
      <4> HIDE DEF f, bound, rest, parts, ones
      <4> QED BY <2>2, <3>1, <3>2, <3>10
    <3> HIDE DEF f, bound, rest, parts, ones
    <3> QED BY <2>1, <2>2, <2>3, <3>6, <3>11
  <2> QED BY <2>4, <2>5
<1>6. Sum(parts, NumMiners) <= R.deployed[w] /\ Sum(ones, NumMiners) <= R.count[w]
  BY <1>1 DEF GameInv, StakeBooks, Decided, PlayedOn, PlayersOn
<1>7. R.deployed[w] \in Nat /\ R.count[w] \in Nat
  BY <1>1 DEF RoundRecord, Sqs
<1> HIDE DEF f, g, h, parts, ones, rest, bound, R, w, d, pays
<1>8. /\ \A i \in 1 .. NumMiners :
           /\ f[i] \in Nat /\ g[i] \in Nat /\ h[i] = f[i] + g[i]
           /\ parts[i] \in Nat /\ ones[i] \in Nat
           /\ rest[i] \in Nat /\ bound[i] \in Nat
           /\ f[i] * B <= bound[i]
           /\ bound[i] <= rest[i] + KeepRate * parts[i]
      /\ B \in Nat
  <2>1. ASSUME NEW i \in 1 .. NumMiners
        PROVE  /\ f[i] \in Nat /\ g[i] \in Nat
               /\ parts[i] \in Nat /\ ones[i] \in Nat
               /\ rest[i] \in Nat /\ bound[i] \in Nat
               /\ f[i] * B <= bound[i]
               /\ bound[i] = rest[i] + KeepRate * parts[i]
               /\ (h[i] = f[i] + g[i] \/ (h[i] = 0 /\ f[i] = 0 /\ g[i] = 0))
    BY <1>3, <1>4, <1>5 DEF Miners
  <2>2. ASSUME NEW i \in 1 .. NumMiners
        PROVE  h[i] = f[i] + g[i]
    BY <2>1
  <2>3. ASSUME NEW i \in 1 .. NumMiners
        PROVE  bound[i] <= rest[i] + KeepRate * parts[i]
    <3> DEFINE x == bound[i]
               y == rest[i] + KeepRate * parts[i]
    <3>1. x \in Nat /\ x = y
      BY <2>1
    <3> HIDE DEF x, y
    <3>2. x <= y
      BY <3>1
    <3> QED BY <3>2 DEF x, y
  <2> QED BY <2>1, <2>2, <2>3, ConstantTypes
<1>9. Sum(h, NumMiners) = Sum(f, NumMiners) + Sum(g, NumMiners)
  BY <1>8, SumAdded, ConstantTypes
<1>10. /\ Sum(f, NumMiners) \in Nat /\ Sum(g, NumMiners) \in Nat
       /\ Sum(parts, NumMiners) \in Nat /\ Sum(ones, NumMiners) \in Nat
       /\ Sum(rest, NumMiners) \in Nat /\ Sum(bound, NumMiners) \in Nat
  BY <1>8, SumNat, ConstantTypes
<1>11. Sum(f, NumMiners) * B <= Sum(bound, NumMiners)
  BY <1>8, SumTimes, ConstantTypes
<1>12. Sum(bound, NumMiners) <= Sum(rest, NumMiners) + KeepRate * Sum(parts, NumMiners)
  BY <1>8, SumScaled, ConstantTypes, FeeRates
<1>13. Sum(rest, NumMiners) <= loss * Sum(ones, NumMiners)
  <2> DEFINE z == [i \in 1 .. NumMiners |-> 0]
  <2>1. \A i \in 1 .. NumMiners : z[i] = 0
    OBVIOUS
  <2> HIDE DEF z
  <2>2. \A i \in 1 .. NumMiners : z[i] \in Nat /\ rest[i] <= z[i] + loss * ones[i]
    BY <1>5, <2>1 DEF Miners
  <2>3. Sum(rest, NumMiners) <= Sum(z, NumMiners) + loss * Sum(ones, NumMiners)
    BY <1>8, <2>2, SumScaled, ConstantTypes
  <2>4. Sum(z, NumMiners) = 0
    BY <2>1, SumOfZeros, ConstantTypes
  <2>5. loss * Sum(ones, NumMiners) \in Nat
    BY <1>10
  <2> QED BY <2>3, <2>4, <2>5
<1>14. /\ KeepRate * Sum(parts, NumMiners) <= KeepRate * R.deployed[w]
       /\ loss * Sum(ones, NumMiners) <= loss * R.count[w]
       /\ KeepRate * Sum(parts, NumMiners) \in Nat /\ loss * Sum(ones, NumMiners) \in Nat
       /\ KeepRate * R.deployed[w] \in Nat /\ loss * R.count[w] \in Nat
  BY <1>6, <1>7, <1>10, FeeRates, ProductMonotone
<1>15. Sum(f, NumMiners) * B <= KeepRate * R.deployed[w] + loss * R.count[w]
  <2> DEFINE a == Sum(f, NumMiners) * B
             b == KeepRate * Sum(parts, NumMiners)
             c == loss * Sum(ones, NumMiners)
             p == KeepRate * R.deployed[w]
             q == loss * R.count[w]
  <2>1. a \in Nat
    BY <1>8, <1>10
  <2>2. a <= Sum(bound, NumMiners) /\ Sum(bound, NumMiners) <= Sum(rest, NumMiners) + b
        /\ Sum(rest, NumMiners) <= c /\ b <= p /\ c <= q
        /\ b \in Nat /\ c \in Nat /\ p \in Nat /\ q \in Nat
    BY <1>11, <1>12, <1>13, <1>14
  <2> HIDE DEF a, b, c, p, q
  <2>3. a <= p + q
    BY <1>10, <2>1, <2>2
  <2> QED BY <2>3 DEF a, p, q
<1>16. Sum(h, NumMiners) <= R.total_winnings + Sum(f, NumMiners)
  BY <1>1, <1>4, <1>9, <1>10
<1> DEFINE kept == Sum(f, NumMiners)
<1>17. kept \in Nat /\ Sum(h, NumMiners) <= R.total_winnings + kept
       /\ kept * B <= KeepRate * R.deployed[w] + loss * R.count[w]
  BY <1>10, <1>15, <1>16
<1> HIDE DEF kept
<1> QED BY <1>17 DEF h, R, w

\* What a finished round may still pay, and the bounds on it.
SolTyped ==
    \A k \in RoundIds : Finished(k) =>
        /\ round[k] \in RoundRecord /\ Decided(k)
        /\ \A m \in Miners : SolClaim(m, k) \in Nat
        /\ PendingSol(k) = Sum([m \in Miners |-> SolClaim(m, k)], NumMiners)
        /\ PendingSol(k) \in Nat
        /\ round[k].slot_hash = Unavailable =>
             PendingSol(k) <= Sum(round[k].deployed, NumSquares)
        /\ round[k].slot_hash # Unavailable /\ ~HasWinners(round[k]) => PendingSol(k) = 0
        /\ HasWinners(round[k]) => FeesWithin(k, DENOMINATOR_BPS - 1)
        /\ \A loss \in Nat : HasWinners(round[k]) /\ FeesWithin(k, loss) =>
             \E kept \in Nat :
               /\ PendingSol(k) <= round[k].total_winnings + kept
               /\ kept * DENOMINATOR_BPS
                    <= KeepRate * round[k].deployed[round[k].slot_hash.square]
                         + loss * round[k].count[round[k].slot_hash.square]

LEMMA SolTypes == TypeOK /\ GameInv => SolTyped
<1> SUFFICES ASSUME TypeOK, GameInv, NEW k \in RoundIds, Finished(k)
             PROVE  /\ round[k] \in RoundRecord /\ Decided(k)
                    /\ \A m \in Miners : SolClaim(m, k) \in Nat
                    /\ PendingSol(k) = Sum([m \in Miners |-> SolClaim(m, k)], NumMiners)
                    /\ PendingSol(k) \in Nat
                    /\ round[k].slot_hash = Unavailable =>
                         PendingSol(k) <= Sum(round[k].deployed, NumSquares)
                    /\ round[k].slot_hash # Unavailable /\ ~HasWinners(round[k]) => PendingSol(k) = 0
                    /\ HasWinners(round[k]) => FeesWithin(k, DENOMINATOR_BPS - 1)
                    /\ \A loss \in Nat : HasWinners(round[k]) /\ FeesWithin(k, loss) =>
                         \E kept \in Nat :
                           /\ PendingSol(k) <= round[k].total_winnings + kept
                           /\ kept * DENOMINATOR_BPS
                                <= KeepRate * round[k].deployed[round[k].slot_hash.square]
                                     + loss * round[k].count[round[k].slot_hash.square]
  BY DEF SolTyped
<1> DEFINE f == [m \in Miners |-> SolClaim(m, k)]
           w == round[k].slot_hash.square
<1>1. Decided(k) /\ round[k] \in RoundRecord
  BY FinishedIsDecided DEF TypeOK, Decided
<1>2. \A m \in Miners : SolClaim(m, k) \in Nat
  BY <1>1, ClaimWorth DEF SolClaim
<1>3. PendingSol(k) = Sum(f, NumMiners)
  BY DEF PendingSol, SolClaim
<1>4. Sum(f, NumMiners) \in Nat
  <2>1. \A i \in 1 .. NumMiners : f[i] \in Nat
    BY <1>2 DEF Miners
  <2> HIDE DEF f
  <2> QED BY <2>1, SumNat, ConstantTypes
<1>5. round[k].slot_hash = Unavailable => PendingSol(k) <= Sum(round[k].deployed, NumSquares)
  BY <1>1, <1>3, RefundsCovered
<1>6. ASSUME round[k].slot_hash # Unavailable
      PROVE  /\ w \in Squares /\ round[k].deployed[w] \in Nat
             /\ \A m \in Miners : Pending(m, k) =>
                  /\ miner[m].deployed[w] \in Nat
                  /\ miner[m].deployed[w] <= round[k].deployed[w]
  <2>1. w \in Squares
    BY <1>1, <1>6, RngType DEF Decided
  <2>2. round[k].deployed[w] \in Nat
    BY <1>1, <2>1, RoundTypes DEF SquaresTyped, Decided
  <2>3. ASSUME NEW m \in Miners, Pending(m, k)
        PROVE  miner[m].deployed[w] \in Nat /\ miner[m].deployed[w] <= round[k].deployed[w]
    <3>1. Plays(m, k)
      BY <2>3 DEF Pending, Unsettled, Plays
    <3>2. /\ miner[m].deployed[w] \in Nat /\ miner[m].cumulative[w] \in Nat
          /\ Span(m, w).high = miner[m].cumulative[w] + miner[m].deployed[w]
      BY <2>1, <3>1, PlayTypes DEF RangesTyped
    <3>3. miner[m].deployed[w] > 0 => Span(m, w).high <= round[k].deployed[w]
      BY <1>1, <2>1, <3>1 DEF GameInv, Lottery, SquaresTiled, Decided
    <3> QED BY <2>2, <3>2, <3>3
  <2> QED BY <2>1, <2>2, <2>3
<1>7. ASSUME round[k].slot_hash # Unavailable, ~HasWinners(round[k])
      PROVE  PendingSol(k) = 0
  <2>1. \A m \in Miners : SolClaim(m, k) = 0
    <3>1. ASSUME NEW m \in Miners, Pending(m, k) PROVE SolReward(miner[m], round[k]) = 0
      <4>1. miner[m].deployed[w] = 0
        BY <1>6, <1>7, <3>1 DEF HasWinners
      <4> QED BY <1>7, <4>1 DEF SolReward
    <3> QED BY <3>1 DEF SolClaim
  <2>2. \A i \in 1 .. NumMiners : f[i] = 0
    BY <2>1 DEF Miners
  <2> HIDE DEF f
  <2> QED BY <1>3, <2>2, SumOfZeros, ConstantTypes
<1>8. ASSUME HasWinners(round[k])
      PROVE  FeesWithin(k, DENOMINATOR_BPS - 1)
  <2>1. ASSUME NEW m \in Miners, Pending(m, k)
        PROVE  miner[m].deployed[w] * FeeRate
                 <= PlayFee(miner[m].deployed[w]) * DENOMINATOR_BPS + (DENOMINATOR_BPS - 1)
    <3> DEFINE d == miner[m].deployed[w]
    <3>1. CASE d \in Nat
      <4> HIDE DEF d
      <4> DEFINE x == d * FeeRate
                 y == PlayFee(d) * DENOMINATOR_BPS
      <4>1. PlayFee(d) \in Nat /\ x < y + DENOMINATOR_BPS
        BY <3>1, PlayFeeRest
      <4>2. x \in Nat /\ y \in Nat /\ DENOMINATOR_BPS \in Nat
        BY <3>1, <4>1, FeeRates, ConstantTypes
      <4> HIDE DEF x, y
      <4>3. x <= y + (DENOMINATOR_BPS - 1)
        BY <4>1, <4>2
      <4> QED BY <4>3 DEF x, y, d
    <3>2. d \in Nat
      BY <1>6, <1>8, <2>1 DEF HasWinners
    <3> QED BY <3>1, <3>2
  <2> QED BY <2>1 DEF FeesWithin
<1>9. ASSUME NEW loss \in Nat, HasWinners(round[k]), FeesWithin(k, loss)
      PROVE  \E kept \in Nat :
               /\ PendingSol(k) <= round[k].total_winnings + kept
               /\ kept * DENOMINATOR_BPS
                    <= KeepRate * round[k].deployed[round[k].slot_hash.square]
                         + loss * round[k].count[round[k].slot_hash.square]
  BY <1>1, <1>3, <1>9, WinnersClaim
<1> HIDE DEF f, w
<1> QED BY <1>1, <1>2, <1>3, <1>4, <1>5, <1>7, <1>8, <1>9 DEF f

LEMMA NextSolTyped == TypeOK' /\ GameInv' => SolTyped'
BY SolTypes, PTL

\* What a reset makes of the round it finishes.
LEMMA ResetSettles ==
  ASSUME TypeOK, NEW candidate \in Miners \cup {None},
         Reset(candidate) \/ ResetPermissionless(candidate),
         NEW c \in RoundIds, c = board.round_id
  PROVE  LET T == Closing.total_deployed
             fees == AdminFee(T) + MotherlodeFee(T)
             vault == NetWinnings(Closing) \div 10
         IN  /\ round'[c].slot_hash = Closing.slot_hash
             /\ round'[c].deployed = Closing.deployed
             /\ round'[c].count = Closing.count
             /\ \/ /\ Closing.slot_hash = Unavailable
                   /\ round'[c].lamports = Closing.lamports
                \/ /\ Closing.slot_hash # Unavailable /\ ~HasWinners(Closing)
                   /\ round'[c].lamports = Closing.lamports - T
                \/ /\ HasWinners(Closing)
                   /\ round'[c].lamports = Closing.lamports - fees - vault
                   /\ round'[c].total_winnings = NetWinnings(Closing) - vault
<1> DEFINE R == Closing
           a == AdminFee(R.total_deployed)
           b == MotherlodeFee(R.total_deployed)
           vault == NetWinnings(R) \div 10
           left == R.total_deployed - a - b
<1>1. /\ R \in RoundRecord /\ R.slot_hash \in RngValues
      /\ round'[c].slot_hash = R.slot_hash
      /\ round'[c].deployed = R.deployed /\ round'[c].count = R.count
  BY ResetDoes, ClosingType, CurrentType DEF Closing, RoundRecord
<1>2. PICK top \in {NoOne, SPLIT_ADDRESS, POOL_ADDRESS} : Settle(R, top)
  BY ResetDoes
<1>3. ASSUME NEW S, AdvanceBoard(S) PROVE round'[c] = S
  <2>1. c # c + 1
    BY DEF RoundIds
  <2>2. round' = [round EXCEPT ![c] = S, ![c + 1] = NewRound]
    BY <1>3 DEF AdvanceBoard
  <2> QED BY <2>1, <2>2 DEF TypeOK
<1>4. R.total_deployed \in Nat /\ R.lamports \in Int
  BY <1>1 DEF RoundRecord
<1>5. a \in Nat /\ b \in Nat /\ left \in Nat
  BY <1>4, FeeTypes
<1>6. ASSUME R.slot_hash = Unavailable, AdvanceBoard(Refunded(R))
      PROVE  round'[c].lamports = R.lamports
  <2>1. Refunded(R).lamports = R.lamports
    <3> HIDE DEF R
    <3> QED BY <1>1 DEF Refunded, RoundRecord
  <2> QED BY <1>3, <1>6, <2>1
<1>7. ASSUME R.slot_hash # Unavailable, AdvanceBoard(Vaulted(R))
      PROVE  round'[c].lamports = R.lamports - R.total_deployed
  <2>1. Vaulted(R).lamports = R.lamports - a - b - left
    <3>1. Vaulted(R) = [R EXCEPT !.total_vaulted = left, !.lamports = R.lamports - a - b - left]
      BY DEF Vaulted
    <3> HIDE DEF R, a, b, left
    <3> QED BY <1>1, <3>1 DEF RoundRecord
  <2>2. R.lamports - a - b - left = R.lamports - R.total_deployed
    <3> HIDE DEF R, a, b
    <3> QED BY <1>4, <1>5
  <2> HIDE DEF R, a, b, left
  <2> QED BY <1>3, <1>7, <2>1, <2>2
<1>8. ASSUME R.slot_hash # Unavailable, AdvanceBoard(Won(R, top))
      PROVE  /\ round'[c].lamports = R.lamports - (a + b) - vault
             /\ round'[c].total_winnings = NetWinnings(R) - vault
  <2> DEFINE winnings == NetWinnings(R) - vault
             cash == R.lamports - a - b - vault
             mint == MintAmount
             prize == MotherlodePrize(R)
             S == Won(R, top)
  <2>1. S = [R EXCEPT !.total_winnings = winnings, !.total_vaulted = vault,
                      !.top_miner = top, !.top_miner_reward = mint,
                      !.motherlode = prize, !.lamports = cash]
    BY DEF Won
  <2>2. round'[c] = S
    BY <1>3, <1>8
  <2>3. vault \in Int
    <3>1. NetWinnings(R) \in Nat
      BY <1>1, <1>8, NetWinningsType
    <3> HIDE DEF R
    <3> QED BY <3>1
  <2>4. cash = R.lamports - (a + b) - vault
    <3> HIDE DEF R, a, b, vault
    <3> QED BY <1>4, <1>5, <2>3
  <2> HIDE DEF R, S, winnings, cash, mint, prize, vault, a, b
  <2>5. S.lamports = cash /\ S.total_winnings = winnings
    BY <1>1, <2>1 DEF RoundRecord
  <2> QED BY <2>2, <2>4, <2>5 DEF winnings
<1>9. \/ R.slot_hash = Unavailable /\ AdvanceBoard(Refunded(R))
      \/ R.slot_hash # Unavailable /\ ~HasWinners(R) /\ AdvanceBoard(Vaulted(R))
      \/ R.slot_hash # Unavailable /\ HasWinners(R) /\ AdvanceBoard(Won(R, top))
  BY <1>2 DEF Settle, HasWinners
<1> HIDE DEF a, b, vault, left
<1> QED BY <1>1, <1>6, <1>7, <1>8, <1>9 DEF a, b, vault

\* How many lamports the round may lack, so many for each player of the square.
Dust(k, each) ==
    IF HasWinners(round[k]) THEN each * round[k].count[round[k].slot_hash.square] ELSE 0

\* reset.rs:218-243 leaves in the round what its winners may take: their fees,
\* rounded one by one, fall short of the fee on the total by less than the
\* losses of each and one lamport.
LEMMA ResetCovers ==
  ASSUME TypeOK, TypeOK', GameInv', BooksMatchCash,
         NEW candidate \in Miners \cup {None},
         Reset(candidate) \/ ResetPermissionless(candidate),
         NEW c \in RoundIds, c = board.round_id,
         NEW loss \in Nat, NEW each \in Nat, loss <= each * DENOMINATOR_BPS,
         HasWinners(round'[c]) => FeesWithin(c, loss)'
  PROVE  PendingSol(c)' <= round'[c].lamports + Dust(c, each)'
<1> DEFINE R == Closing
           S == round'[c]
           w == R.slot_hash.square
           B == DENOMINATOR_BPS
           T == R.total_deployed
           X == AdminFee(T) + MotherlodeFee(T)
           vault == NetWinnings(R) \div 10
           owed == PendingSol(c)'
<1>1. /\ R \in RoundRecord /\ R.slot_hash \in RngValues
      /\ S \in RoundRecord /\ board'.round_id = c + 1
  BY ResetDoes, ClosingType DEF RoundIds
<1>2. /\ S.slot_hash = R.slot_hash /\ S.deployed = R.deployed /\ S.count = R.count
      /\ \/ R.slot_hash = Unavailable /\ S.lamports = R.lamports
         \/ /\ R.slot_hash # Unavailable /\ ~HasWinners(R)
            /\ S.lamports = R.lamports - T
         \/ /\ HasWinners(R)
            /\ S.lamports = R.lamports - X - vault
            /\ S.total_winnings = NetWinnings(R) - vault
  BY ResetSettles
<1>3. Finished(c)' /\ (HasWinners(S) <=> HasWinners(R))
  <2>1. c # c + 1
    BY DEF RoundIds
  <2> QED BY <1>1, <1>2, <2>1, NoneAssumption DEF Finished, HasWinners
<1>4. /\ R.lamports = T /\ T = Sum(R.deployed, NumSquares)
  <2>1. Current.lamports = Current.total_deployed
        /\ Current.total_deployed = Sum(Current.deployed, NumSquares)
    BY DEF BooksMatchCash
  <2>2. /\ R.lamports = Current.lamports /\ R.deployed = Current.deployed
        /\ R.total_deployed = Current.total_deployed
    BY CurrentType DEF Closing, RoundRecord
  <2> QED BY <2>1, <2>2
<1>5. /\ owed \in Nat
      /\ S.slot_hash = Unavailable => owed <= Sum(S.deployed, NumSquares)
      /\ S.slot_hash # Unavailable /\ ~HasWinners(S) => owed = 0
      /\ \A x \in Nat : HasWinners(S) /\ FeesWithin(c, x)' =>
           \E kept \in Nat :
             /\ owed <= S.total_winnings + kept
             /\ kept * B <= KeepRate * S.deployed[S.slot_hash.square]
                              + x * S.count[S.slot_hash.square]
  BY <1>3, NextSolTyped DEF SolTyped
<1>6. T \in Nat /\ R.lamports \in Int
  BY <1>1 DEF RoundRecord
<1>7. CASE R.slot_hash = Unavailable
  <2>1. S.lamports = T /\ owed <= T /\ ~HasWinners(S)
    BY <1>2, <1>3, <1>4, <1>5, <1>7 DEF HasWinners
  <2>2. Dust(c, each)' = 0
    BY <2>1 DEF Dust
  <2> HIDE DEF S, R, T, owed
  <2>3. owed <= S.lamports + 0
    BY <1>5, <1>6, <2>1
  <2> QED BY <2>2, <2>3 DEF S, owed
<1>8. CASE R.slot_hash # Unavailable /\ ~HasWinners(R)
  <2>1. S.lamports = T - T /\ owed = 0 /\ ~HasWinners(S)
    BY <1>2, <1>3, <1>4, <1>5, <1>8
  <2>2. Dust(c, each)' = 0
    BY <2>1 DEF Dust
  <2> HIDE DEF S, R, T, owed
  <2>3. owed <= S.lamports + 0
    BY <1>6, <2>1
  <2> QED BY <2>2, <2>3 DEF S, owed
<1>9. CASE HasWinners(R)
  <2> DEFINE D == R.deployed[w]
             n == R.count[w]
             losers == [R.deployed EXCEPT ![w] = 0]
             losing == Sum(losers, NumSquares)
             Y == PlayFee(losing)
  <2>1. w \in Squares /\ R.slot_hash # Unavailable /\ D \in Nat /\ n \in Nat
    <3>1. w \in Squares /\ R.slot_hash # Unavailable
      BY <1>1, <1>9, RngType DEF HasWinners
    <3> QED BY <1>1, <3>1 DEF RoundRecord, Sqs
  <2>2. losing \in Nat /\ T = D + losing
    <3>1. \A i \in 1 .. NumSquares : R.deployed[i] \in Nat /\ losers[i] \in Nat
      <4>1. R.deployed \in [Squares -> Nat]
        BY <1>1 DEF RoundRecord, Sqs
      <4> HIDE DEF R, w
      <4> QED BY <2>1, <4>1 DEF Squares
    <3>2. losers[w] = 0 /\ \A i \in (1 .. NumSquares) \ {w} : losers[i] = R.deployed[i]
      <4>1. R.deployed \in [Squares -> Nat]
        BY <1>1 DEF RoundRecord, Sqs
      <4> HIDE DEF R, w
      <4> QED BY <2>1, <4>1 DEF Squares
    <3>3. w \in 1 .. NumSquares
      BY <2>1 DEF Squares
    <3> HIDE DEF losers, w, R, T
    <3>4. losing = Sum(R.deployed, NumSquares) + losers[w] - R.deployed[w]
      BY <3>1, <3>2, <3>3, SumUpdate, ConstantTypes
    <3>5. losing \in Nat
      BY <3>1, SumNat, ConstantTypes
    <3> HIDE DEF D, losing
    <3> QED BY <1>4, <1>6, <2>1, <3>2, <3>4, <3>5 DEF D
  <2>3. NetWinnings(R) = losing - Y
    BY DEF NetWinnings
  <2>4. Y \in Nat /\ losing * FeeRate < Y * B + B
    BY <2>2, PlayFeeRest
  <2>5. X \in Nat /\ X * B <= T * FeeRate
    <3>1. AdminFee(T) \in Nat /\ MotherlodeFee(T) \in Nat
      BY <1>6, FeeTypes
    <3> QED BY <1>6, <3>1, ResetFees
  <2>6. NetWinnings(R) \in Nat /\ vault \in Nat
    <3>1. NetWinnings(R) \in Nat
      BY <1>1, <2>1, NetWinningsType
    <3> HIDE DEF R
    <3> QED BY <3>1
  <2>7. PICK kept \in Nat :
          /\ owed <= S.total_winnings + kept
          /\ kept * B <= KeepRate * D + loss * n
    BY <1>2, <1>3, <1>5, <1>9
  <2>8. Dust(c, each)' = each * n
    BY <1>2, <1>3, <1>9 DEF Dust
  <2>9. S.lamports = T - X - vault /\ S.total_winnings = NetWinnings(R) - vault
    BY <1>2, <1>4, <1>9 DEF HasWinners
  <2> HIDE DEF R, S, w, T, X, vault, owed, D, n, losers, losing, Y
  <2> DEFINE dust == each * n
  <2>10. dust \in Nat /\ loss * n <= dust * B
    <3>1. each * B \in Nat /\ B \in Nat
      BY ConstantTypes
    <3> DEFINE eB == each * B
    <3>2. eB \in Nat /\ loss <= eB
      BY <3>1
    <3> HIDE DEF eB
    <3>3. n * loss <= n * eB
      BY <2>1, <3>2, ProductMonotone
    <3>4. n * eB = dust * B
      BY <2>1, <3>1 DEF eB
    <3>5. n * loss = loss * n /\ dust \in Nat
      BY <2>1
    <3> HIDE DEF dust
    <3> QED BY <3>3, <3>4, <3>5
  <2>11. kept + X <= D + Y + dust
    <3> DEFINE kB == kept * B
               xB == X * B
               dB == D * B
               dF == D * FeeRate
               lF == losing * FeeRate
               yB == Y * B
               uB == dust * B
               ln == loss * n
               all == (kept + X) * B
               some == (D + Y + dust + 1) * B
    <3>1. B \in Nat \ {0} /\ FeeRate \in Nat /\ KeepRate = B - FeeRate
      BY FeeRates, ConstantTypes
    <3> HIDE DEF dust
    <3>2. /\ kB \in Nat /\ xB \in Nat /\ dB \in Nat /\ dF \in Nat /\ lF \in Nat
          /\ yB \in Nat /\ uB \in Nat /\ ln \in Nat
      BY <2>1, <2>2, <2>4, <2>5, <2>10, <3>1
    <3>3. KeepRate * D = dB - dF
      BY <2>1, <3>1
    <3>4. T * FeeRate = dF + lF
      BY <2>1, <2>2, <3>1
    <3>5. all = kB + xB
      BY <2>5, <3>1
    <3>6. some = dB + yB + uB + B
      BY <2>1, <2>4, <2>10, <3>1
    <3>7. kB <= KeepRate * D + ln /\ xB <= T * FeeRate /\ lF < yB + B /\ ln <= uB
      BY <2>4, <2>5, <2>7, <2>10
    <3>8. all < some
      <4> HIDE DEF kB, xB, dB, dF, lF, yB, uB, ln, all, some
      <4> QED BY <3>1, <3>2, <3>3, <3>4, <3>5, <3>6, <3>7
    <3>9. kept + X \in Int /\ D + Y + dust + 1 \in Int
      BY <2>1, <2>4, <2>5, <2>10
    <3>10. kept + X < D + Y + dust + 1
      BY <3>1, <3>8, <3>9, ProductReflectsLess
    <3> QED BY <2>1, <2>4, <2>5, <2>10, <3>10
  <2> HIDE DEF dust
  <2>12. owed <= S.lamports + dust
    <3> DEFINE W == NetWinnings(R)
    <3>1. W \in Nat /\ W = losing - Y
      BY <2>3, <2>6
    <3>2. S.total_winnings = W - vault
      BY <2>9
    <3> HIDE DEF W
    <3> QED BY <1>5, <2>1, <2>2, <2>4, <2>5, <2>6, <2>7, <2>9, <2>10, <2>11, <3>1, <3>2
  <2> QED BY <2>8, <2>12 DEF dust, owed, S
<1> QED BY <1>7, <1>8, <1>9

\* A finished round changes by the checkpoints of its players alone.
LEMMA FinishedStays ==
  ASSUME TypeOK, TypeOK', GameInv, [Next]_vars, NEW k \in RoundIds, Finished(k), Finished(k)'
  PROVE  \/ round'[k] = round[k]
         \/ \E m \in Miners, pooled \in BOOLEAN :
              Checkpoint(m, pooled) /\ miner[m].round_id = k
<1>1. k # board.round_id /\ k < board.round_id /\ round'[k] # None
  BY FinishedIsDecided DEF Finished
<1>2. CASE Idle
  BY <1>2 DEF Idle
<1>3. ASSUME NEW m \in Miners, Entering(m) PROVE round'[k] = round[k]
  BY <1>1, <1>3 DEF Entering, Enters
<1>4. ASSUME NEW candidate \in Miners \cup {None},
             Reset(candidate) \/ ResetPermissionless(candidate)
      PROVE  round'[k] = round[k]
  <2>1. PICK c \in RoundIds : c = board.round_id /\ c \in Nat /\ k \in Nat
    BY CurrentType DEF RoundIds
  <2>2. k \notin {c, c + 1}
    BY <1>1, <2>1
  <2> QED BY <1>4, <2>1, <2>2, ResetDoes
<1>5. ASSUME NEW m \in Miners, NEW pooled \in BOOLEAN, Checkpoint(m, pooled), miner[m].round_id # k
      PROVE  round'[k] = round[k]
  BY <1>5, CheckpointDoes
<1>6. ASSUME NEW m \in Miners, CheckpointForfeit(m) PROVE round'[k] = round[k]
  BY <1>6 DEF CheckpointForfeit
<1>7. ASSUME NEW j \in RoundIds, Close(j) PROVE round'[k] = round[k]
  BY <1>1, <1>7 DEF Close, TypeOK
<1> QED BY <1>2, <1>3, <1>4, <1>5, <1>6, <1>7, StepKinds

\* What a miner may take of a finished round does not change until it is gone.
LEMMA SolClaimLess ==
  ASSUME TypeOK, TypeOK', TicketInv, GameInv, [Next]_vars, NEW k \in RoundIds, NEW m \in Miners,
         Finished(k), Finished(k)'
  PROVE  SolClaim(m, k)' <= SolClaim(m, k)
<1>1. SolClaim(m, k) \in Nat
  BY SolTypes DEF SolTyped
<1>2. CASE ~Pending(m, k)'
  BY <1>1, <1>2 DEF SolClaim
<1>3. CASE Pending(m, k)'
  <2>1. Pending(m, k) /\ SolReward(miner'[m], round'[k]) = SolReward(miner[m], round[k])
    BY <1>3, ClaimsRemain, SameWorth
  <2> QED BY <1>1, <1>3, <2>1 DEF SolClaim
<1> QED BY <1>2, <1>3

\* Whatever a checkpoint takes out of a finished round is off its claims.
LEMMA FinishedCovers ==
  ASSUME TypeOK, TypeOK', TicketInv, GameInv, GameInv', [Next]_vars,
         NEW k \in RoundIds, Finished(k), Finished(k)', NEW each \in Nat,
         PendingSol(k) <= round[k].lamports + Dust(k, each)
  PROVE  PendingSol(k)' <= round'[k].lamports + Dust(k, each)'
<1> DEFINE f == [m \in Miners |-> SolClaim(m, k)]
           g == [m \in Miners |-> SolClaim(m, k)']
           n == round[k].count[round[k].slot_hash.square]
<1>1. SolTyped /\ SolTyped'
  BY SolTypes, NextSolTyped
<1>2. /\ PendingSol(k) = Sum(f, NumMiners) /\ PendingSol(k)' = Sum(g, NumMiners)
      /\ PendingSol(k) \in Nat /\ PendingSol(k)' \in Nat
      /\ round[k] \in RoundRecord /\ round'[k] \in RoundRecord
  BY <1>1 DEF SolTyped
<1>3. \A i \in 1 .. NumMiners : f[i] \in Nat /\ g[i] \in Nat /\ g[i] <= f[i]
  BY <1>1, SolClaimLess DEF SolTyped, Miners
<1>4. round[k].lamports \in Int /\ round'[k].lamports \in Int
  BY <1>2 DEF RoundRecord
<1>5. Dust(k, each) \in Nat
  <2>1. CASE ~HasWinners(round[k])
    BY <2>1 DEF Dust
  <2>2. CASE HasWinners(round[k])
    <3>1. round[k].slot_hash.square \in Squares
      BY <1>1, <2>2, RngType DEF SolTyped, Decided, HasWinners
    <3>2. n \in Nat
      BY <1>2, <3>1 DEF RoundRecord, Sqs
    <3>3. Dust(k, each) = each * n
      BY <2>2 DEF Dust
    <3> HIDE DEF n
    <3> QED BY <3>2, <3>3
  <2> QED BY <2>1, <2>2
<1>6. CASE round'[k] = round[k]
  <2>1. Dust(k, each)' = Dust(k, each)
    BY <1>6 DEF Dust
  <2> HIDE DEF f, g
  <2>2. Sum(g, NumMiners) <= Sum(f, NumMiners)
    BY <1>3, SumMonotone, ConstantTypes
  <2> QED BY <1>2, <1>4, <1>5, <1>6, <2>1, <2>2
<1>7. ASSUME NEW m \in Miners, NEW pooled \in BOOLEAN, Checkpoint(m, pooled), miner[m].round_id = k
      PROVE  PendingSol(k)' <= round'[k].lamports + Dust(k, each)'
  <2> DEFINE sol == SolReward(miner[m], round[k])
  <2>1. f[m] = sol /\ g[m] = 0 /\ sol \in Nat
    <3>1. Pending(m, k) /\ ~Pending(m, k)'
      BY <1>7, CheckpointDoes DEF Pending, Unsettled, Checkpoint
    <3>2. SolClaim(m, k) = sol /\ SolClaim(m, k)' = 0
      BY <3>1 DEF SolClaim
    <3>3. SolClaim(m, k) \in Nat
      BY <1>1 DEF SolTyped
    <3> QED BY <3>2, <3>3
  <2>2. /\ round'[k].lamports = round[k].lamports - sol
        /\ round'[k].slot_hash = round[k].slot_hash
        /\ round'[k].deployed = round[k].deployed
        /\ round'[k].count = round[k].count
    BY <1>7, CheckpointDoes
  <2>3. Dust(k, each)' = Dust(k, each)
    BY <2>2 DEF Dust, HasWinners
  <2>4. m \in 1 .. NumMiners
    BY DEF Miners
  <2> HIDE DEF f, g, sol
  <2>5. Sum(g, NumMiners) + sol <= Sum(f, NumMiners)
    <3>1. g[m] + sol <= f[m] /\ \A i \in (1 .. NumMiners) \ {m} : g[i] <= f[i]
      BY <1>3, <2>1, <2>4
    <3> QED BY <1>3, <2>1, <2>4, <3>1, SumDrop, ConstantTypes
  <2> QED BY <1>2, <1>4, <1>5, <2>1, <2>2, <2>3, <2>5
<1> QED BY <1>6, <1>7, FinishedStays

\* No finished round lacks more than so many lamports per player of its square.
Lacks(each) ==
    \A k \in RoundIds : Finished(k) => PendingSol(k) <= round[k].lamports + Dust(k, each)

\* The step of the induction: the claims of every round rest on the fees of its
\* players, as far off the rate as the loss allows.
LEMMA NextLacks ==
  ASSUME TypeOK, TypeOK', TicketInv, GameInv, GameInv', BooksMatchCash, [Next]_vars,
         NEW loss \in Nat, NEW each \in Nat, loss <= each * DENOMINATOR_BPS,
         \A k \in RoundIds : Finished(k)' /\ HasWinners(round'[k]) => FeesWithin(k, loss)',
         Lacks(each)
  PROVE  Lacks(each)'
<1> SUFFICES ASSUME NEW k \in RoundIds, Finished(k)'
             PROVE  PendingSol(k)' <= round'[k].lamports + Dust(k, each)'
  BY DEF Lacks
<1>1. CASE Finished(k)
  BY <1>1, FinishedCovers DEF Lacks
<1>2. ASSUME k = board.round_id,
             NEW candidate \in Miners \cup {None},
             Reset(candidate) \/ ResetPermissionless(candidate)
      PROVE  PendingSol(k)' <= round'[k].lamports + Dust(k, each)'
  BY <1>2, ResetCovers
<1> QED BY <1>1, <1>2, FinishedBefore

\* No finished round lacks more than a lamport for each player of the winning
\* square, whatever was deployed, collected or refunded: what reset.rs:218-243
\* and checkpoint.rs:110-180 round off is dust.
THEOREM RoundsLackOnlyDust == Spec => []ShortOfDustOnly
<1> DEFINE L == Lacks(1)
<1>1. TypeOK /\ GameInv /\ L => ShortOfDustOnly
  <2> SUFFICES ASSUME TypeOK, GameInv, L, NEW k \in RoundIds, Finished(k)
               PROVE  PendingSol(k) <= round[k].lamports
                        + (IF HasWinners(round[k])
                           THEN round[k].count[round[k].slot_hash.square] ELSE 0)
    BY DEF ShortOfDustOnly
  <2>1. PendingSol(k) <= round[k].lamports + Dust(k, 1)
    BY DEF Lacks
  <2>2. CASE ~HasWinners(round[k])
    BY <2>1, <2>2 DEF Dust
  <2>3. CASE HasWinners(round[k])
    <3>1. round[k] \in RoundRecord /\ round[k].slot_hash.square \in Squares
      BY <2>3, SolTypes, RngType DEF SolTyped, Decided, HasWinners
    <3>2. round[k].count[round[k].slot_hash.square] \in Nat
      BY <3>1 DEF RoundRecord, Sqs
    <3>3. 1 * round[k].count[round[k].slot_hash.square]
            = round[k].count[round[k].slot_hash.square]
      BY <3>2
    <3> QED BY <2>1, <2>3, <3>3 DEF Dust
  <2> QED BY <2>2, <2>3
<1>2. TypeOK /\ TypeOK' /\ TicketInv /\ GameInv /\ GameInv' /\ BooksMatchCash /\ L
        /\ [Next]_vars => L'
  <2> SUFFICES ASSUME TypeOK, TypeOK', TicketInv, GameInv, GameInv', BooksMatchCash, L, [Next]_vars
               PROVE  L'
    OBVIOUS
  <2> DEFINE loss == DENOMINATOR_BPS - 1
             each == 1
  <2>1. loss \in Nat /\ each \in Nat /\ loss <= each * DENOMINATOR_BPS
    BY ConstantTypes
  <2>2. \A k \in RoundIds : Finished(k)' /\ HasWinners(round'[k]) => FeesWithin(k, loss)'
    BY NextSolTyped DEF SolTyped
  <2>3. Lacks(each)
    OBVIOUS
  <2>4. Lacks(each)'
    <3> HIDE DEF loss, each
    <3> QED BY <2>1, <2>2, <2>3, NextLacks
  <2> QED BY <2>4
<1>3. Init => L
  BY DEF Init, Lacks, Finished
<1> HIDE DEF L
<1> QED BY <1>1, <1>2, <1>3, TypesAreCorrect, TicketInvariant, GameInvariant,
          BooksAlwaysMatch, PTL DEF Spec
-----------------------------------------------------------------------------
(* Rounds whose fees are whole                                             *)

\* The fee on x lamports is not rounded.
Whole(x) == \E q \in Nat : x * FeeRate = q * DENOMINATOR_BPS

\* Nobody may deploy, or let an automation deploy, an amount with a rounded fee.
WholeFees ==
    /\ \A amount \in Amounts : Whole(amount)
    /\ \A plan \in Plans : Whole(plan.amount)

\* No stake on a Miner account has a rounded fee.
WholeStakes ==
    \A m \in Miners, s \in Squares : miner[m] # None => Whole(miner[m].deployed[s])

LEMMA WholeZero == Whole(0)
<1> DEFINE q == 0
<1>1. q \in Nat /\ 0 * FeeRate = q * DENOMINATOR_BPS
  BY FeeRates, ConstantTypes
<1> QED BY <1>1 DEF Whole

\* A whole fee is collected in full.
LEMMA WholeFeesWithin ==
  ASSUME TypeOK, GameInv, WholeStakes, NEW k \in RoundIds, Finished(k), HasWinners(round[k])
  PROVE  FeesWithin(k, 0)
<1> DEFINE w == round[k].slot_hash.square
<1>1. w \in Squares
  BY FinishedIsDecided, RngType DEF Decided, HasWinners
<1>2. ASSUME NEW m \in Miners, Pending(m, k)
      PROVE  miner[m].deployed[w] * FeeRate
               <= PlayFee(miner[m].deployed[w]) * DENOMINATOR_BPS + 0
  <2> DEFINE d == miner[m].deployed[w]
             B == DENOMINATOR_BPS
  <2>1. miner[m] # None /\ Plays(m, k)
    BY <1>2 DEF Pending, Unsettled, Plays
  <2>2. d \in Nat /\ Whole(d)
    BY <1>1, <2>1, PlayTypes DEF RangesTyped, WholeStakes
  <2> HIDE DEF d
  <2>3. PICK q \in Nat : d * FeeRate = q * B
    BY <2>2 DEF Whole
  <2> DEFINE y == PlayFee(d)
  <2>4. y \in Nat /\ d * FeeRate < y * B + B
    BY <2>2, PlayFeeRest
  <2> HIDE DEF y
  <2>5. B \in Nat \ {0}
    BY ConstantTypes
  <2>6. q * B < (y + 1) * B
    BY <2>3, <2>4, <2>5
  <2>7. q \in Int /\ y + 1 \in Int
    BY <2>4
  <2>8. q < y + 1
    BY <2>5, <2>6, <2>7, ProductReflectsLess
  <2>9. q <= y
    BY <2>4, <2>8
  <2>10. B * q <= B * y
    BY <2>4, <2>5, <2>9, ProductMonotone
  <2>11. d * FeeRate <= y * B + 0
    BY <2>3, <2>4, <2>5, <2>10
  <2> QED BY <2>11 DEF y, d
<1> QED BY <1>2 DEF FeesWithin

LEMMA NextWholeWithin ==
  TypeOK' /\ GameInv' /\ WholeStakes' =>
    \A k \in RoundIds : Finished(k)' /\ HasWinners(round'[k]) => FeesWithin(k, 0)'
<1>1. TypeOK /\ GameInv /\ WholeStakes =>
        \A k \in RoundIds : Finished(k) /\ HasWinners(round[k]) => FeesWithin(k, 0)
  BY WholeFeesWithin
<1>2. TypeOK' /\ GameInv' /\ WholeStakes' =>
        (\A k \in RoundIds : Finished(k) /\ HasWinners(round[k]) => FeesWithin(k, 0))'
  BY <1>1, PTL
<1> QED BY <1>2

\* A deploy leaves a square at nothing or at the amount deployed.
LEMMA DeploysWhole ==
  ASSUME WholeFees, TypeOK, TypeOK', WholeStakes, NEW m \in Miners,
         \/ \E squares \in Masks, amount \in Amounts, pooled \in PoolModes :
              Deploy(m, squares, amount, pooled)
         \/ \E r \in Hashes, squares \in SUBSET Squares : DeployByExecutor(m, r, squares)
         \/ \E r \in Hashes, squares \in SUBSET Squares : DeployCancelled(m, r, squares)
  PROVE  WholeStakes'
<1>1. EnteredMiner(m) \in MinerRecord /\ OpenedMiner(m) \in MinerRecord
  BY EnteredMinerType, OpenedMinerType
<1>2. \A s \in Squares : Whole(OpenedMiner(m).deployed[s])
  <2>1. CASE miner[m] = None
    BY <2>1, WholeZero DEF OpenedMiner, NewMiner, Zero
  <2>2. CASE miner[m] # None
    BY <2>2 DEF OpenedMiner, WholeStakes
  <2> QED BY <2>1, <2>2
<1>3. \A s \in Squares : Whole(EnteredMiner(m).deployed[s])
  <2>1. EnteredMiner(m).deployed \in {Zero, OpenedMiner(m).deployed}
    BY <1>1 DEF EnteredMiner, MinerRecord
  <2> QED BY <1>2, <2>1, WholeZero DEF Zero
<1>4. ASSUME NEW M, miner' = [miner EXCEPT ![m] = M], \A s \in Squares : Whole(M.deployed[s])
      PROVE  WholeStakes'
  BY <1>4 DEF WholeStakes, TypeOK
<1>5. ASSUME NEW squares \in SUBSET Squares, NEW amount \in Nat, NEW pooled \in BOOLEAN,
             Place(m, squares, amount, pooled), Whole(amount)
      PROVE  WholeStakes'
  <2> DEFINE M == EnteredMiner(m)
             N == DeployedMiner(m, squares, amount)
             deployed == [s \in Squares |-> IF s \in squares THEN amount ELSE M.deployed[s]]
             cumulative == [s \in Squares |-> IF s \in squares THEN RangeStart(s) ELSE M.cumulative[s]]
             topUp == IF M.checkpoint_fee = 0 THEN CHECKPOINT_FEE ELSE 0
  <2>1. N = [M EXCEPT !.deployed = deployed, !.cumulative = cumulative,
                      !.checkpoint_fee = @ + topUp, !.lamports = @ + topUp]
    BY DEF DeployedMiner
  <2>2. N.deployed = deployed
    <3> HIDE DEF M, N, deployed, cumulative, topUp
    <3> QED BY <1>1, <2>1 DEF MinerRecord, M
  <2>3. \A s \in Squares : Whole(deployed[s])
    BY <1>3, <1>5
  <2>4. miner' = [miner EXCEPT ![m] = N]
    BY <1>5 DEF Place
  <2> HIDE DEF N, deployed
  <2> QED BY <1>4, <2>2, <2>3, <2>4
<1>6. ASSUME NEW squares \in Masks, NEW amount \in Amounts, NEW pooled \in PoolModes,
             Deploy(m, squares, amount, pooled)
      PROVE  WholeStakes'
  <2>1. squares \in SUBSET Squares /\ amount \in Nat /\ pooled \in BOOLEAN /\ Whole(amount)
    BY SizesAssumption DEF WholeFees
  <2>2. Place(m, squares, amount, pooled)
    BY <1>6 DEF Deploy
  <2> QED BY <1>5, <2>1, <2>2
<1>7. ASSUME NEW r \in Hashes, NEW squares \in SUBSET Squares, DeployByExecutor(m, r, squares)
      PROVE  WholeStakes'
  <2> DEFINE plan == automation[m].plan
  <2>1. plan \in Plans
    BY <1>7 DEF DeployByExecutor, TypeOK, AutomationRecord
  <2>2. plan.amount \in Nat /\ plan.is_pooled \in BOOLEAN /\ Whole(plan.amount)
    BY <2>1, SizesAssumption DEF WholeFees
  <2>3. Place(m, squares, plan.amount, plan.is_pooled)
    BY <1>7 DEF DeployByExecutor
  <2> HIDE DEF plan
  <2> QED BY <1>5, <2>2, <2>3
<1>8. ASSUME NEW r \in Hashes, NEW squares \in SUBSET Squares, DeployCancelled(m, r, squares)
      PROVE  WholeStakes'
  BY <1>3, <1>4, <1>8 DEF DeployCancelled
<1> QED BY <1>6, <1>7, <1>8

LEMMA NextWhole ==
  ASSUME WholeFees, TypeOK, TypeOK', WholeStakes, [Next]_vars
  PROVE  WholeStakes'
<1>1. ASSUME \A m \in Miners : KeepsAccount(m)
      PROVE  WholeStakes'
  <2>1. ASSUME NEW m \in Miners, NEW s \in Squares, miner'[m] # None
        PROVE  Whole(miner'[m].deployed[s])
    <3>1. CASE miner'[m] = miner[m]
      BY <2>1, <3>1 DEF WholeStakes
    <3>2. CASE SameGame(miner'[m], OpenedMiner(m)) /\ miner[m] = None
      BY <3>2, WholeZero DEF SameGame, OpenedMiner, NewMiner, Zero
    <3>3. CASE SameGame(miner'[m], OpenedMiner(m)) /\ miner[m] # None
      BY <3>3 DEF SameGame, OpenedMiner, WholeStakes
    <3> QED BY <1>1, <3>1, <3>2, <3>3 DEF KeepsAccount
  <2> QED BY <2>1 DEF WholeStakes
<1>2. CASE Idle
  BY <1>1, <1>2 DEF Idle
<1>3. ASSUME NEW candidate \in Miners \cup {None},
             Reset(candidate) \/ ResetPermissionless(candidate)
      PROVE  WholeStakes'
  BY <1>3 DEF Reset, ResetPermissionless, WholeStakes
<1>4. ASSUME NEW m \in Miners, NEW pooled \in BOOLEAN, Checkpoint(m, pooled)
      PROVE  WholeStakes'
  <2>1. /\ miner'[m].deployed = miner[m].deployed /\ miner[m] # None
        /\ \A n \in Miners \ {m} : miner'[n] = miner[n]
    BY <1>4, CheckpointDoes, CheckpointFinds
  <2> QED BY <2>1 DEF WholeStakes
<1>5. ASSUME NEW m \in Miners, CheckpointForfeit(m) PROVE WholeStakes'
  <2>1. miner[m] # None /\ miner[m] \in MinerRecord
        /\ miner' = [miner EXCEPT ![m].checkpoint_id = miner[m].round_id]
    BY <1>5 DEF CheckpointForfeit, Unsettled, TypeOK
  <2>2. miner'[m].deployed = miner[m].deployed
        /\ \A n \in Miners \ {m} : miner'[n] = miner[n]
    BY <2>1 DEF TypeOK, MinerRecord
  <2> QED BY <2>1, <2>2 DEF WholeStakes
<1>6. ASSUME NEW k \in RoundIds, Close(k) PROVE WholeStakes'
  BY <1>6 DEF Close, WholeStakes
<1>7. Claimants \subseteq Miners
  BY SizesAssumption
<1> QED BY <1>2, <1>3, <1>4, <1>5, <1>6, <1>7, AuthorityIsIdle, OthersAreIdle, DeploysWhole DEF Next

\* Where no fee is rounded, every finished round holds all that its players may
\* still take from it: what reset.rs:236-243 means to check.
THEOREM RoundsCoverTheirWinners == ASSUME WholeFees PROVE Spec => []WinnersCovered
<1> DEFINE L == Lacks(0)
<1>1. TypeOK /\ GameInv /\ L => WinnersCovered
  <2> SUFFICES ASSUME TypeOK, GameInv, L, NEW k \in RoundIds, Finished(k)
               PROVE  PendingSol(k) <= round[k].lamports
    BY DEF WinnersCovered
  <2>1. PendingSol(k) <= round[k].lamports + Dust(k, 0) /\ round[k] \in RoundRecord
    BY SolTypes DEF Lacks, SolTyped
  <2>2. Dust(k, 0) = 0
    <3>1. CASE ~HasWinners(round[k])
      BY <3>1 DEF Dust
    <3>2. CASE HasWinners(round[k])
      <4>1. round[k].slot_hash.square \in Squares
        BY <3>2, SolTypes, RngType DEF SolTyped, Decided, HasWinners
      <4>2. round[k].count[round[k].slot_hash.square] \in Nat
        BY <2>1, <4>1 DEF RoundRecord, Sqs
      <4> QED BY <3>2, <4>2 DEF Dust
    <3> QED BY <3>1, <3>2
  <2>3. round[k].lamports \in Int
    BY <2>1 DEF RoundRecord
  <2> QED BY <2>1, <2>2, <2>3
<1>2. TypeOK /\ TypeOK' /\ TicketInv /\ GameInv /\ GameInv' /\ BooksMatchCash
        /\ WholeStakes' /\ L /\ [Next]_vars => L'
  <2> SUFFICES ASSUME TypeOK, TypeOK', TicketInv, GameInv, GameInv', BooksMatchCash,
                      WholeStakes', L, [Next]_vars
               PROVE  L'
    OBVIOUS
  <2> DEFINE loss == 0
             each == 0
  <2>1. loss \in Nat /\ each \in Nat /\ loss <= each * DENOMINATOR_BPS
    BY ConstantTypes
  <2>2. \A k \in RoundIds : Finished(k)' /\ HasWinners(round'[k]) => FeesWithin(k, loss)'
    BY NextWholeWithin
  <2>3. Lacks(each)
    OBVIOUS
  <2>4. Lacks(each)'
    <3> HIDE DEF loss, each
    <3> QED BY <2>1, <2>2, <2>3, NextLacks
  <2> QED BY <2>4
<1>3. Init => L /\ WholeStakes
  BY DEF Init, Lacks, Finished, WholeStakes
<1>4. TypeOK /\ TypeOK' /\ WholeStakes /\ [Next]_vars => WholeStakes'
  BY NextWhole
<1> HIDE DEF L
<1> QED BY <1>1, <1>2, <1>3, <1>4, TypesAreCorrect, TicketInvariant, GameInvariant,
          BooksAlwaysMatch, PTL DEF Spec
=============================================================================
