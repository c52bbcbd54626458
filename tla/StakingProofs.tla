---------------------------- MODULE StakingProofs ----------------------------
(***************************************************************************)
(* Theorems about Staking, for any number of stakes and authorities, all   *)
(* amounts, locks, multipliers and boosts that satisfy the assumptions of  *)
(* Staking.                                                                *)
(***************************************************************************)
EXTENDS StakingProperties, SumsProofs
-----------------------------------------------------------------------------
(* Weights *)

\* The numbers among the constants.
LEMMA ScaleTypes ==
  /\ STAKE_MULTIPLIER_SCALE \in Nat \ {0} /\ MAX_STAKE_MULTIPLIER \in Nat \ {0}
  /\ MAX_LOCK_DURATION \in Nat \ {0}
  /\ NFT_BOOST_NUMERATOR \in Nat /\ NFT_BOOST_DENOMINATOR \in Nat \ {0}
  /\ FRACTION \in Nat \ {0} /\ CompoundFeeDivisor \in Nat \ {0}
BY ScalesAssumption

\* Every natural number has a floor root.
LEMMA FloorRootExists ==
  ASSUME NEW n \in Nat
  PROVE  \E r \in 0 .. n : r * r <= n /\ n < (r + 1) * (r + 1)
<1> DEFINE T == {r \in Nat : n < (r + 1) * (r + 1)}
<1>1. n \in T
  <2>1. (n + 1) * (n + 1) = n * n + 2 * n + 1 /\ n * n \in Nat
    OBVIOUS
  <2> DEFINE q == n * n
  <2> HIDE DEF q
  <2>2. n < (n + 1) * (n + 1)
    BY <2>1 DEF q
  <2> QED BY <2>2
<1>2. PICK r \in T : \A y \in T : r <= y
  <2>1. T \subseteq Nat /\ T # {}
    BY <1>1
  <2> HIDE DEF T
  <2> QED BY <2>1, NatMin
<1>3. r \in Nat /\ n < (r + 1) * (r + 1) /\ r <= n
  BY <1>1, <1>2
<1>4. r * r <= n
  <2>1. CASE r = 0
    BY <2>1
  <2>2. CASE r # 0
    <3>1. r - 1 \in Nat /\ ~ (r <= r - 1)
      BY <1>3, <2>2
    <3>2. r - 1 \notin T
      BY <1>2, <3>1
    <3>3. ~ (n < ((r - 1) + 1) * ((r - 1) + 1))
      BY <3>1, <3>2
    <3>4. (r - 1) + 1 = r
      BY <1>3
    <3>5. r * r \in Nat
      BY <1>3
    <3> QED BY <3>3, <3>4, <3>5
  <2> QED BY <2>1, <2>2
<1> QED BY <1>3, <1>4

\* The square root is a natural number.
LEMMA IsqrtNat ==
  ASSUME NEW n \in Nat PROVE isqrt(n) \in Nat
<1>1. isqrt(n) \in 0 .. n
  BY FloorRootExists DEF isqrt
<1> QED BY <1>1

\* A lock pays for a multiplier that is a natural number.
LEMMA MultiplierNat ==
  ASSUME NEW lock \in Nat PROVE stake_multiplier(lock) \in Nat
<1> DEFINE d == AtMost(AtLeast(lock, 0), MAX_LOCK_DURATION)
<1>1. d \in Nat
  BY ScaleTypes DEF AtMost, AtLeast
<1> DEFINE p == (MAX_STAKE_MULTIPLIER - 1) * d * STAKE_MULTIPLIER_SCALE
<1>2. p \in Nat
  <2> HIDE DEF d
  <2>1. MAX_STAKE_MULTIPLIER - 1 \in Nat BY ScaleTypes
  <2>2. (MAX_STAKE_MULTIPLIER - 1) * d \in Nat BY <2>1, <1>1
  <2> QED BY <2>2, ScaleTypes
<1>3. p \div MAX_LOCK_DURATION \in Nat
  <2> HIDE DEF p
  <2> QED BY <1>2, ScaleTypes, DivBounds
<1> HIDE DEF p
<1>4. STAKE_MULTIPLIER_SCALE + p \div MAX_LOCK_DURATION \in Nat
  BY <1>3, ScaleTypes
<1> QED BY <1>4 DEF stake_multiplier, p

\* A weight is a natural number.
LEMMA WeightNat ==
  ASSUME NEW st \in StakeRecord PROVE weighted_units(st) \in Nat
<1> DEFINE e == effective_multiplier(st)
           u == st.balance * e
           b == u \div STAKE_MULTIPLIER_SCALE
           v == b * NFT_BOOST_NUMERATOR
<1>1. st.balance \in Nat /\ st.multiplier \in Nat
  BY DEF StakeRecord
<1>2. e \in Nat
  <2>1. st.multiplier * STAKE_MULTIPLIER_SCALE \in Nat BY <1>1, ScaleTypes
  <2> QED BY <1>1, <2>1, IsqrtNat DEF effective_multiplier
<1>3. u \in Nat
  <2> HIDE DEF e
  <2> QED BY <1>1, <1>2
<1>4. b \in Nat
  <2> HIDE DEF u
  <2> QED BY <1>3, ScaleTypes, DivBounds
<1>5. v \in Nat
  <2> HIDE DEF b
  <2> QED BY <1>4, ScaleTypes
<1>6. v \div NFT_BOOST_DENOMINATOR \in Nat
  <2> HIDE DEF v
  <2> QED BY <1>5, ScaleTypes, DivBounds
<1>7. BaseUnits(st) = b
  BY DEF BaseUnits
<1> HIDE DEF b
<1> QED BY <1>4, <1>6, <1>7 DEF weighted_units

\* The weight depends on balance, multiplier, curve and boost alone.
LEMMA SameWeight ==
  ASSUME NEW a, NEW b, a.balance = b.balance, a.multiplier = b.multiplier,
         a.weight_version = b.weight_version, a.is_nft_staked = b.is_nft_staked
  PROVE  weighted_units(a) = weighted_units(b)
<1>1. effective_multiplier(a) = effective_multiplier(b)
  BY DEF effective_multiplier
<1>2. BaseUnits(a) = BaseUnits(b)
  BY <1>1 DEF BaseUnits
<1> QED BY <1>2 DEF weighted_units

\* A stake without a balance has no weight.
LEMMA EmptyWeight ==
  ASSUME NEW st \in StakeRecord, st.balance = 0 PROVE weighted_units(st) = 0
<1> DEFINE e == effective_multiplier(st)
<1>1. e \in Nat
  <2>1. st.multiplier \in Nat BY DEF StakeRecord
  <2>2. st.multiplier * STAKE_MULTIPLIER_SCALE \in Nat BY <2>1, ScaleTypes
  <2> QED BY <2>1, <2>2, IsqrtNat DEF effective_multiplier
<1>2. 0 * e = 0
  <2> HIDE DEF e
  <2> QED BY <1>1
<1>3. 0 \div STAKE_MULTIPLIER_SCALE = 0 /\ 0 \div NFT_BOOST_DENOMINATOR = 0
  BY ScaleTypes
<1>4. BaseUnits(st) = 0
  BY <1>2, <1>3 DEF BaseUnits
<1>5. 0 * NFT_BOOST_NUMERATOR = 0
  BY ScaleTypes
<1> QED BY <1>3, <1>4, <1>5 DEF weighted_units
-----------------------------------------------------------------------------
(* The sum of the weights *)

Account == StakeRecord \cup {None}
AccountV1 == StakeV1Record \cup {None}

WeightOf(v) == IF v = None THEN 0 ELSE weighted_units(v)
WeightOfV1(v) == IF v = None THEN 0 ELSE v.balance

TotalOf(accounts) == Sum([s \in Stakes |-> WeightOf(accounts[s])], NumStakes)
TotalOfV1(accounts) == Sum([a \in Authorities |-> WeightOfV1(accounts[a])], NumAuthorities)

\* The state functions of the model in terms of the accounts.
LEMMA TotalsAre == UnitsV2 = TotalOf(stake) /\ UnitsV1 = TotalOfV1(stake_v1)
BY DEF UnitsV2, UnitsV1, UnitsAt, UnitsAtV1, TotalOf, TotalOfV1, WeightOf, WeightOfV1

\* The same after a step.
LEMMA TotalsAreNext ==
  UnitsV2' = TotalOf(stake') /\ UnitsV1' = TotalOfV1(stake_v1')
BY DEF UnitsV2, UnitsV1, UnitsAt, UnitsAtV1, TotalOf, TotalOfV1, WeightOf, WeightOfV1,
       weighted_units, BaseUnits, effective_multiplier

\* Weights of accounts are natural numbers.
LEMMA WeightOfNat ==
  /\ \A v \in Account : WeightOf(v) \in Nat
  /\ \A v \in AccountV1 : WeightOfV1(v) \in Nat
BY WeightNat DEF Account, AccountV1, WeightOf, WeightOfV1, StakeV1Record

\* Changing one account changes the total by the difference of its weights.
LEMMA TotalUpdate ==
  ASSUME NEW f \in [Stakes -> Account], NEW s \in Stakes, NEW v \in Account
  PROVE  /\ TotalOf(f) \in Nat
         /\ TotalOf([f EXCEPT ![s] = v]) = TotalOf(f) + WeightOf(v) - WeightOf(f[s])
<1> DEFINE g == [f EXCEPT ![s] = v]
           wf == [t \in Stakes |-> WeightOf(f[t])]
           wg == [t \in Stakes |-> WeightOf(g[t])]
<1>1. NumStakes \in Nat /\ s \in 1 .. NumStakes
  BY PartiesAssumption DEF Stakes
<1>2. \A i \in 1 .. NumStakes : wf[i] \in Nat /\ wg[i] \in Nat
  BY WeightOfNat DEF Stakes
<1>3. \A i \in (1 .. NumStakes) \ {s} : wg[i] = wf[i]
  BY DEF Stakes
<1>4. wg[s] = WeightOf(v) /\ wf[s] = WeightOf(f[s])
  OBVIOUS
<1> HIDE DEF wf, wg
<1>5. Sum(wf, NumStakes) \in Nat
  BY <1>1, <1>2, SumNat
<1>6. Sum(wg, NumStakes) = Sum(wf, NumStakes) + wg[s] - wf[s]
  BY <1>1, <1>2, <1>3, SumUpdate
<1> QED BY <1>4, <1>5, <1>6 DEF TotalOf, wf, wg

\* The same for the accounts of version 1.
LEMMA TotalUpdateV1 ==
  ASSUME NEW f \in [Authorities -> AccountV1], NEW s \in Authorities, NEW v \in AccountV1
  PROVE  /\ TotalOfV1(f) \in Nat
         /\ TotalOfV1([f EXCEPT ![s] = v]) = TotalOfV1(f) + WeightOfV1(v) - WeightOfV1(f[s])
<1> DEFINE g == [f EXCEPT ![s] = v]
           wf == [t \in Authorities |-> WeightOfV1(f[t])]
           wg == [t \in Authorities |-> WeightOfV1(g[t])]
<1>1. NumAuthorities \in Nat /\ s \in 1 .. NumAuthorities
  BY PartiesAssumption DEF Authorities
<1>2. \A i \in 1 .. NumAuthorities : wf[i] \in Nat /\ wg[i] \in Nat
  BY WeightOfNat DEF Authorities
<1>3. \A i \in (1 .. NumAuthorities) \ {s} : wg[i] = wf[i]
  BY DEF Authorities
<1>4. wg[s] = WeightOfV1(v) /\ wf[s] = WeightOfV1(f[s])
  OBVIOUS
<1> HIDE DEF wf, wg
<1>5. Sum(wf, NumAuthorities) \in Nat
  BY <1>1, <1>2, SumNat
<1>6. Sum(wg, NumAuthorities) = Sum(wf, NumAuthorities) + wg[s] - wf[s]
  BY <1>1, <1>2, <1>3, SumUpdate
<1> QED BY <1>4, <1>5, <1>6 DEF TotalOfV1, wf, wg

\* The totals are natural numbers.
LEMMA TotalsNat ==
  ASSUME TypeOK
  PROVE  UnitsV2 \in Nat /\ UnitsV1 \in Nat
<1>1. NumStakes \in Nat /\ NumAuthorities \in Nat
  BY PartiesAssumption
<1> DEFINE w == [s \in Stakes |-> WeightOf(stake[s])]
           w1 == [a \in Authorities |-> WeightOfV1(stake_v1[a])]
<1>2. \A i \in 1 .. NumStakes : w[i] \in Nat
  BY WeightOfNat DEF Stakes, TypeOK, Account
<1>3. \A i \in 1 .. NumAuthorities : w1[i] \in Nat
  BY WeightOfNat DEF Authorities, TypeOK, AccountV1
<1> HIDE DEF w, w1
<1>4. Sum(w, NumStakes) \in Nat /\ Sum(w1, NumAuthorities) \in Nat
  BY <1>1, <1>2, <1>3, SumNat
<1> QED BY <1>4, TotalsAre DEF TotalOf, TotalOfV1, w, w1
-----------------------------------------------------------------------------
(* Settling and migrating a stake *)

\* The factor and the total are natural numbers.
LEMMA TreasuryTypes ==
  ASSUME TypeOK
  PROVE  /\ treasury.total_staked \in Nat /\ treasury.stake_rewards_factor \in Nat
         /\ treasury.tokens \in Nat
BY DEF TypeOK, TreasuryRecord

\* What a weight earned is a natural number.
LEMMA EarnedNat ==
  ASSUME TypeOK, NEW units \in Nat, NEW seen \in Nat
  PROVE  Earned(units, seen) \in Nat
<1> DEFINE m == Monus(treasury.stake_rewards_factor, seen)
           p == m * units
<1>1. m \in Nat
  BY TreasuryTypes DEF Monus
<1>2. p \in Nat
  <2> HIDE DEF m
  <2> QED BY <1>1
<1>3. p \div FRACTION \in Nat
  <2> HIDE DEF p
  <2> QED BY <1>2, ScaleTypes, DivBounds
<1> QED BY <1>3 DEF Earned

\* The terms of a stake that settling leaves alone.
SameTerms(a, b) ==
    /\ a.balance = b.balance /\ a.multiplier = b.multiplier
    /\ a.lock_duration = b.lock_duration /\ a.created_at = b.created_at
    /\ a.executor = b.executor /\ a.is_nft_staked = b.is_nft_staked
    /\ a.tokens = b.tokens

\* Settling keeps everything but the rewards.
LEMMA SettledType ==
  ASSUME TypeOK, NEW st \in StakeRecord
  PROVE  /\ update_rewards(st) \in StakeRecord
         /\ SameTerms(update_rewards(st), st)
         /\ update_rewards(st).weight_version = st.weight_version
         /\ weighted_units(update_rewards(st)) = weighted_units(st)
<1> DEFINE e == Earned(weighted_units(st), st.rewards_factor)
           r == st.rewards + e
           f == treasury.stake_rewards_factor
<1>1. r \in Nat /\ f \in Nat
  <2>1. weighted_units(st) \in Nat BY WeightNat
  <2>2. st.rewards_factor \in Nat /\ st.rewards \in Nat BY DEF StakeRecord
  <2>3. e \in Nat BY <2>1, <2>2, EarnedNat
  <2> HIDE DEF e
  <2> QED BY <2>2, <2>3, TreasuryTypes
<1>2. update_rewards(st) = [st EXCEPT !.rewards = r, !.rewards_factor = f]
  BY DEF update_rewards, StakeRecord
<1> HIDE DEF r, f
<1>3. /\ update_rewards(st) \in StakeRecord
      /\ SameTerms(update_rewards(st), st)
      /\ update_rewards(st).weight_version = st.weight_version
  BY <1>1, <1>2 DEF StakeRecord, SameTerms
<1>4. weighted_units(update_rewards(st)) = weighted_units(st)
  BY <1>3, SameWeight DEF SameTerms
<1> QED BY <1>3, <1>4

\* Migrating keeps the terms.
LEMMA MigratedType ==
  ASSUME TypeOK, NEW st \in StakeRecord
  PROVE  migrate_weight(st) \in StakeRecord /\ SameTerms(migrate_weight(st), st)
<1>1. CASE st.weight_version # 0
  BY <1>1 DEF migrate_weight, SameTerms
<1>2. CASE st.weight_version = 0
  <2> DEFINE u == update_rewards(st)
  <2>1. u \in StakeRecord /\ SameTerms(u, st)
    BY SettledType
  <2>2. migrate_weight(st) = [u EXCEPT !.weight_version = 1]
    BY <1>2 DEF migrate_weight
  <2> HIDE DEF u
  <2> QED BY <2>1, <2>2 DEF StakeRecord, SameTerms
<1> QED BY <1>1, <1>2

\* An account that is not empty, and what touching it makes of it.
LEMMA TouchedType ==
  ASSUME TypeOK, NEW s \in Stakes, stake[s] # None
  PROVE  /\ stake[s] \in StakeRecord
         /\ Touched(s) \in StakeRecord /\ SameTerms(Touched(s), stake[s])
         /\ TouchedTotal(s) \in Int
         /\ TouchedTotal(s) = treasury.total_staked + weighted_units(Touched(s)) - weighted_units(stake[s])
<1>1. stake[s] \in StakeRecord
  BY DEF TypeOK
<1>2. Touched(s) \in StakeRecord /\ SameTerms(Touched(s), stake[s])
  BY <1>1, MigratedType DEF Touched
<1>3. weighted_units(stake[s]) \in Nat /\ weighted_units(Touched(s)) \in Nat
  BY <1>1, <1>2, WeightNat
<1> QED BY <1>1, <1>2, <1>3, TreasuryTypes DEF TouchedTotal, Reweighed

\* Deposits, withdrawals and claims change one number of a settled stake.
LEMMA DepositedType ==
  ASSUME TypeOK, NEW st \in StakeRecord, NEW amount \in Nat
  PROVE  /\ Deposited(st, amount) \in StakeRecord
         /\ Deposited(st, amount).tokens = st.tokens
         /\ Deposited(st, amount).balance = st.balance + amount
<1> DEFINE u == update_rewards(st)
           b == u.balance + amount
<1>1. u \in StakeRecord /\ u.tokens = st.tokens /\ u.balance = st.balance
  BY SettledType DEF SameTerms
<1>2. Deposited(st, amount) = [u EXCEPT !.balance = b]
  BY DEF Deposited
<1> HIDE DEF u
<1>3. b \in Nat /\ b = st.balance + amount
  BY <1>1 DEF StakeRecord
<1> HIDE DEF b
<1> QED BY <1>1, <1>2, <1>3 DEF StakeRecord

LEMMA WithdrawnType ==
  ASSUME TypeOK, NEW st \in StakeRecord, NEW amount \in Nat, amount <= st.balance
  PROVE  /\ Withdrawn(st, amount) \in StakeRecord
         /\ Withdrawn(st, amount).tokens = st.tokens
         /\ Withdrawn(st, amount).balance = st.balance - amount
<1> DEFINE u == update_rewards(st)
           b == u.balance - amount
<1>1. u \in StakeRecord /\ u.tokens = st.tokens /\ u.balance = st.balance
  BY SettledType DEF SameTerms
<1>2. Withdrawn(st, amount) = [u EXCEPT !.balance = b]
  BY DEF Withdrawn
<1> HIDE DEF u
<1>3. b \in Nat /\ b = st.balance - amount
  BY <1>1 DEF StakeRecord
<1> HIDE DEF b
<1> QED BY <1>1, <1>2, <1>3 DEF StakeRecord

LEMMA ClaimedType ==
  ASSUME NEW st \in StakeRecord, NEW amount \in Nat, amount <= st.rewards
  PROVE  /\ Claimed(st, amount) \in StakeRecord
         /\ SameTerms(Claimed(st, amount), st)
         /\ Claimed(st, amount).weight_version = st.weight_version
<1> DEFINE r == st.rewards - amount
<1>1. r \in Nat
  BY DEF StakeRecord
<1>2. Claimed(st, amount) = [st EXCEPT !.rewards = r]
  BY DEF Claimed
<1> HIDE DEF r
<1> QED BY <1>1, <1>2 DEF StakeRecord, SameTerms
-----------------------------------------------------------------------------
(* Steps *)

\* What every step but the rebase preserves.
Keeps == TypeOK' /\ Drift' = Drift

\* One account of version 2 changes, and the total by the difference of its
\* weights.
LEMMA StakeStep ==
  ASSUME TypeOK, NEW s \in Stakes, NEW v \in Account,
         stake' = [stake EXCEPT ![s] = v], stake_v1' = stake_v1,
         treasury'.total_staked = treasury.total_staked + WeightOf(v) - WeightOf(stake[s])
  PROVE  stake' \in [Stakes -> Account] /\ Drift' = Drift
<1>1. stake \in [Stakes -> Account] /\ stake[s] \in Account
  BY DEF TypeOK, Account
<1>2. TotalOf(stake') = TotalOf(stake) + WeightOf(v) - WeightOf(stake[s])
  BY <1>1, TotalUpdate
<1>3. WeightOf(v) \in Nat /\ WeightOf(stake[s]) \in Nat
  BY <1>1, WeightOfNat
<1>4. TotalOf(stake) \in Nat /\ TotalOfV1(stake_v1) \in Nat
  BY TotalsNat, TotalsAre
<1>5. Drift = treasury.total_staked - (TotalOf(stake) + TotalOfV1(stake_v1))
  BY TotalsAre DEF Drift
<1>6. Drift' = treasury'.total_staked - (TotalOf(stake') + TotalOfV1(stake_v1))
  BY TotalsAreNext DEF Drift
<1>7. Drift' = Drift
  BY <1>2, <1>3, <1>4, <1>5, <1>6, TreasuryTypes
<1>8. stake' \in [Stakes -> Account]
  BY <1>1
<1> QED BY <1>7, <1>8

\* Nothing of the weights changes.
LEMMA IdleStep ==
  ASSUME TypeOK, stake' = stake, stake_v1' = stake_v1,
         treasury'.total_staked = treasury.total_staked
  PROVE  stake' \in [Stakes -> Account] /\ Drift' = Drift
<1>1. Drift = treasury.total_staked - (TotalOf(stake) + TotalOfV1(stake_v1))
  BY TotalsAre DEF Drift
<1>2. Drift' = treasury'.total_staked - (TotalOf(stake') + TotalOfV1(stake_v1'))
  BY TotalsAreNext DEF Drift
<1> QED BY <1>1, <1>2 DEF TypeOK, Account

\* GODL moves between the wallet of an authority and an account.
LEMMA WalletStep ==
  ASSUME TypeOK, NEW s \in Stakes, NEW amount \in Int, FromWallet(s, amount)
  PROVE  wallet' \in [Authorities -> Nat]
<1>1. Owner[s] \in Authorities
  BY PartiesAssumption
<1>2. wallet \in [Authorities -> Nat]
  BY DEF TypeOK
<1>3. wallet[Owner[s]] - amount \in Nat
  BY <1>1, <1>2 DEF FromWallet
<1> QED BY <1>1, <1>2, <1>3 DEF FromWallet

\* A handler stores a stake with the difference of the weights.
LEMMA StoreStep ==
  ASSUME TypeOK, NEW s \in Stakes, NEW new \in StakeRecord, NEW tokens \in Int,
         NEW total \in Int, Store(s, new, tokens, total), stake_v1' = stake_v1,
         total = treasury.total_staked + weighted_units(new) - WeightOf(stake[s])
  PROVE  /\ stake' \in [Stakes -> Account] /\ treasury' \in TreasuryRecord
         /\ Drift' = Drift
<1> DEFINE v == [new EXCEPT !.tokens = tokens]
<1>1. tokens \in Nat /\ total \in Nat
  BY DEF Store
<1>2. v \in StakeRecord
  BY <1>1 DEF StakeRecord
<1>3. weighted_units(v) = weighted_units(new)
  <2>1. /\ v.balance = new.balance /\ v.multiplier = new.multiplier
        /\ v.weight_version = new.weight_version /\ v.is_nft_staked = new.is_nft_staked
    BY DEF StakeRecord
  <2> HIDE DEF v
  <2> QED BY <2>1, SameWeight
<1>4. stake' = [stake EXCEPT ![s] = v] /\ treasury' = [treasury EXCEPT !.total_staked = total]
  BY DEF Store
<1> HIDE DEF v
<1>5. treasury' \in TreasuryRecord /\ treasury'.total_staked = total
  BY <1>1, <1>4 DEF TypeOK, TreasuryRecord
<1>6. v \in Account /\ WeightOf(v) = weighted_units(new)
  BY <1>2, <1>3, GenesisAssumption DEF Account, WeightOf
<1>7. stake' \in [Stakes -> Account] /\ Drift' = Drift
  BY <1>4, <1>5, <1>6, StakeStep
<1> QED BY <1>5, <1>7

\* The amounts that callers choose are natural numbers.
LEMMA AmountTypes ==
  /\ \A a \in DepositAmounts \cup WithdrawAmounts \cup ClaimAmounts \cup Donations : a \in Nat
  /\ \A a \in BuryAmounts \cup BuryTokensAmounts : a \in Nat
  /\ \A l \in Locks : l \in Nat
<1>1. DepositAmounts \subseteq Nat /\ WithdrawAmounts \subseteq Nat /\ ClaimAmounts \subseteq Nat
  BY AmountsAssumption
<1>2. Donations \subseteq Nat /\ BuryAmounts \subseteq Nat /\ BuryTokensAmounts \subseteq Nat
  BY AmountsAssumption
<1>3. Locks \subseteq Nat
  BY ScalesAssumption
<1> QED BY <1>1, <1>2, <1>3

\* The variables that no action but the rebase command's changes.
LEMMA Rest ==
  ASSUME TypeOK
  PROVE  /\ now \in 0 .. MaxTime /\ now \in Nat /\ stake_v1 \in [Authorities -> AccountV1]
         /\ stake \in [Stakes -> Account] /\ treasury \in TreasuryRecord
         /\ wallet \in [Authorities -> Nat] /\ assets \in Nat
         /\ audit \in AuditRecord /\ owed \in Int /\ taken \in Nat
BY AmountsAssumption DEF TypeOK, Account, AccountV1

\* The parts of the type invariant after a step.
LEMMA Assemble ==
  ASSUME now' \in 0 .. MaxTime, stake_v1' \in [Authorities -> AccountV1],
         stake' \in [Stakes -> Account], treasury' \in TreasuryRecord,
         wallet' \in [Authorities -> Nat], assets' \in Nat,
         audit' \in AuditRecord, owed' \in Int, taken' \in Nat
  PROVE  TypeOK'
BY DEF TypeOK, Account, AccountV1, TreasuryRecord, AuditRecord
-----------------------------------------------------------------------------
(* One lemma per instruction *)

LEMMA TickStep == ASSUME TypeOK, Tick PROVE Keeps
<1>1. now' \in 0 .. MaxTime
  BY Rest, AmountsAssumption DEF Tick
<1> QED BY <1>1, Rest, IdleStep, Assemble DEF Tick, Keeps

LEMMA DonateStep ==
  ASSUME TypeOK, NEW s \in Stakes, NEW amount \in Donations, Donate(s, amount)
  PROVE  Keeps
<1>1. amount \in Nat /\ wallet' \in [Authorities -> Nat]
  BY AmountTypes, WalletStep DEF Donate
<1>2. stake[s] \in StakeRecord /\ stake[s] # None
  BY TouchedType DEF Donate, Canonical
<1> DEFINE t == stake[s].tokens + amount
           v == [stake[s] EXCEPT !.tokens = t]
<1>3. t \in Nat
  BY <1>1, <1>2 DEF StakeRecord
<1>4. stake' = [stake EXCEPT ![s] = v]
  BY Rest DEF Donate
<1> HIDE DEF t
<1>5. v \in StakeRecord /\ weighted_units(v) = weighted_units(stake[s])
  <2>1. v \in StakeRecord
    BY <1>2, <1>3 DEF StakeRecord
  <2>2. /\ v.balance = stake[s].balance /\ v.multiplier = stake[s].multiplier
        /\ v.weight_version = stake[s].weight_version
        /\ v.is_nft_staked = stake[s].is_nft_staked
    BY <1>2 DEF StakeRecord
  <2> HIDE DEF v
  <2> QED BY <2>1, <2>2, SameWeight
<1> HIDE DEF v
<1>6. v \in Account /\ WeightOf(v) = WeightOf(stake[s]) /\ WeightOf(v) \in Nat
  BY <1>2, <1>5, GenesisAssumption, WeightOfNat DEF Account, WeightOf
<1>7. treasury'.total_staked = treasury.total_staked + WeightOf(v) - WeightOf(stake[s])
  BY <1>6, TreasuryTypes DEF Donate
<1>8. stake' \in [Stakes -> Account] /\ Drift' = Drift
  BY <1>4, <1>6, <1>7, StakeStep DEF Donate
<1> QED BY <1>1, <1>8, Rest, Assemble DEF Donate, Keeps

LEMMA DepositV2Step ==
  ASSUME TypeOK, NEW s \in Stakes, NEW amount \in DepositAmounts, NEW lock \in Locks,
         NEW executor \in Executors, DepositV2(s, amount, lock, executor)
  PROVE  Keeps
<1> DEFINE fresh == NewStake(lock, executor)
           new == Deposited(fresh, amount)
           total == Reweighed(treasury.total_staked, fresh, new)
<1>1. amount \in Nat /\ lock \in Nat /\ wallet' \in [Authorities -> Nat]
  BY AmountTypes, WalletStep DEF DepositV2
<1>2. fresh \in StakeRecord /\ fresh.balance = 0
  BY <1>1, MultiplierNat, Rest, TreasuryTypes DEF NewStake, StakeRecord
<1>3. Store(s, new, amount, total) /\ stake[s] = None
  BY DEF DepositV2
<1> HIDE DEF fresh
<1>4. new \in StakeRecord
  BY <1>1, <1>2, DepositedType
<1>5. weighted_units(fresh) = 0 /\ weighted_units(new) \in Nat
  BY <1>2, <1>4, EmptyWeight, WeightNat
<1>6. /\ total \in Int
      /\ total = treasury.total_staked + weighted_units(new) - WeightOf(stake[s])
  BY <1>3, <1>5, TreasuryTypes DEF Reweighed, WeightOf
<1> HIDE DEF new, total
<1>7. /\ stake' \in [Stakes -> Account] /\ treasury' \in TreasuryRecord
      /\ Drift' = Drift
  BY <1>1, <1>3, <1>4, <1>6, StoreStep DEF DepositV2
<1> QED BY <1>1, <1>7, Rest, Assemble DEF DepositV2, Keeps

\* The total after a stake is replaced, in the form StoreStep asks for.
LEMMA ReweighedIs ==
  ASSUME TypeOK, NEW s \in Stakes, stake[s] # None, NEW new \in StakeRecord
  PROVE  /\ Reweighed(treasury.total_staked, stake[s], new) \in Int
         /\ Reweighed(treasury.total_staked, stake[s], new)
               = treasury.total_staked + weighted_units(new) - WeightOf(stake[s])
<1>1. stake[s] \in StakeRecord
  BY TouchedType
<1>2. weighted_units(stake[s]) \in Nat /\ weighted_units(new) \in Nat
  BY <1>1, WeightNat
<1> QED BY <1>2, TreasuryTypes DEF Reweighed, WeightOf

LEMMA TopUpStakeV2Step ==
  ASSUME TypeOK, NEW s \in Stakes, NEW amount \in DepositAmounts, TopUpStakeV2(s, amount)
  PROVE  Keeps
<1> DEFINE new == Deposited(Touched(s), amount)
           restarted == [new EXCEPT !.created_at = now]
           total == Reweighed(treasury.total_staked, stake[s], new)
<1>1. amount \in Nat /\ wallet' \in [Authorities -> Nat]
  BY AmountTypes, WalletStep DEF TopUpStakeV2
<1>2. Store(s, restarted, new.tokens + amount, total) /\ stake[s] # None
  BY DEF TopUpStakeV2, Canonical
<1>3. new \in StakeRecord
  BY <1>1, <1>2, TouchedType, DepositedType
<1> HIDE DEF new
<1>4. /\ restarted \in StakeRecord
      /\ restarted.balance = new.balance /\ restarted.multiplier = new.multiplier
      /\ restarted.weight_version = new.weight_version
      /\ restarted.is_nft_staked = new.is_nft_staked
  BY <1>3, Rest DEF StakeRecord
<1> HIDE DEF restarted
<1>5. weighted_units(restarted) = weighted_units(new)
  BY <1>4, SameWeight
<1>6. /\ total \in Int
      /\ total = treasury.total_staked + weighted_units(restarted) - WeightOf(stake[s])
  BY <1>2, <1>3, <1>5, ReweighedIs
<1>7. new.tokens + amount \in Int
  BY <1>1, <1>3 DEF StakeRecord
<1> HIDE DEF total
<1>8. /\ stake' \in [Stakes -> Account] /\ treasury' \in TreasuryRecord
      /\ Drift' = Drift
  BY <1>2, <1>4, <1>6, <1>7, StoreStep DEF TopUpStakeV2
<1> QED BY <1>1, <1>8, Rest, Assemble DEF TopUpStakeV2, Keeps

LEMMA WithdrawV2Step ==
  ASSUME TypeOK, NEW s \in Stakes, NEW amount \in WithdrawAmounts, WithdrawV2(s, amount)
  PROVE  Keeps
<1> DEFINE out == AtMost(stake[s].balance, amount)
           new == Withdrawn(Touched(s), out)
           total == Reweighed(treasury.total_staked, stake[s], new)
<1>1. stake[s] # None /\ stake[s] \in StakeRecord /\ Touched(s) \in StakeRecord
      /\ Touched(s).balance = stake[s].balance
  BY TouchedType DEF WithdrawV2, Canonical, SameTerms
<1>2. out \in Nat /\ out <= Touched(s).balance
  BY <1>1, AmountTypes DEF AtMost, StakeRecord
<1>3. FromWallet(s, -out) /\ Store(s, new, new.tokens - out, total)
  BY DEF WithdrawV2
<1> HIDE DEF out
<1>4. new \in StakeRecord
  BY <1>1, <1>2, WithdrawnType
<1>5. wallet' \in [Authorities -> Nat]
  <2>1. -out \in Int BY <1>2
  <2> QED BY <1>3, <2>1, WalletStep
<1>6. /\ total \in Int
      /\ total = treasury.total_staked + weighted_units(new) - WeightOf(stake[s])
  BY <1>1, <1>4, ReweighedIs
<1> HIDE DEF new, total
<1>7. new.tokens - out \in Int
  BY <1>2, <1>4 DEF StakeRecord
<1>8. /\ stake' \in [Stakes -> Account] /\ treasury' \in TreasuryRecord
      /\ Drift' = Drift
  BY <1>3, <1>4, <1>6, <1>7, StoreStep DEF WithdrawV2
<1> QED BY <1>5, <1>8, Rest, Assemble DEF WithdrawV2, Keeps

\* A stake is replaced by one of the same weight, and the total stays.
LEMMA SameWeightStep ==
  ASSUME TypeOK, NEW s \in Stakes, stake[s] # None, NEW v \in StakeRecord,
         stake' = [stake EXCEPT ![s] = v], stake_v1' = stake_v1,
         weighted_units(v) = weighted_units(stake[s]),
         treasury'.total_staked = treasury.total_staked
  PROVE  stake' \in [Stakes -> Account] /\ Drift' = Drift
<1>1. v \in Account /\ WeightOf(v) = WeightOf(stake[s]) /\ WeightOf(v) \in Nat
  BY GenesisAssumption, WeightOfNat DEF Account, WeightOf
<1>2. treasury'.total_staked = treasury.total_staked + WeightOf(v) - WeightOf(stake[s])
  BY <1>1, TreasuryTypes
<1> QED BY <1>1, <1>2, StakeStep

\* A stake without weight is closed, and the total stays.
LEMMA CloseStep ==
  ASSUME TypeOK, NEW s \in Stakes, stake[s] # None, stake[s].balance = 0,
         stake' = [stake EXCEPT ![s] = None], stake_v1' = stake_v1,
         treasury'.total_staked = treasury.total_staked
  PROVE  stake' \in [Stakes -> Account] /\ Drift' = Drift
<1>1. stake[s] \in StakeRecord
  BY TouchedType
<1>2. WeightOf(stake[s]) = 0 /\ WeightOf(None) = 0 /\ None \in Account
  BY <1>1, EmptyWeight DEF WeightOf, Account
<1>3. treasury'.total_staked = treasury.total_staked + WeightOf(None) - WeightOf(stake[s])
  BY <1>2, TreasuryTypes
<1> QED BY <1>2, <1>3, StakeStep

\* What a claim pays is within the rewards.
LEMMA ClaimableBound ==
  ASSUME NEW st, st.rewards \in Nat, NEW amount \in Nat
  PROVE  Claimable(st, amount) \in Nat /\ Claimable(st, amount) <= st.rewards
BY DEF Claimable, AtMost

LEMMA ClaimYieldV2Step ==
  ASSUME TypeOK, NEW s \in Stakes, NEW amount \in ClaimAmounts, ClaimYieldV2(s, amount)
  PROVE  Keeps
<1> DEFINE settled == update_rewards(stake[s])
           out == Claimable(settled, amount)
           v == Claimed(settled, out)
<1>1. stake[s] # None /\ stake[s] \in StakeRecord
  BY TouchedType DEF ClaimYieldV2, Canonical
<1>2. settled \in StakeRecord /\ weighted_units(settled) = weighted_units(stake[s])
  BY <1>1, SettledType
<1>3. /\ PayYield(out, 0) /\ FromWallet(s, -out)
      /\ stake' = [stake EXCEPT ![s] = v] /\ stake_v1' = stake_v1
      /\ treasury' = [treasury EXCEPT !.tokens = @ - out]
  BY DEF ClaimYieldV2
<1> HIDE DEF settled
<1>4. out \in Nat /\ out <= settled.rewards
  <2>1. settled.rewards \in Nat BY <1>2 DEF StakeRecord
  <2>2. amount \in Nat BY AmountTypes
  <2> QED BY <2>1, <2>2, ClaimableBound
<1> HIDE DEF out
<1>5. v \in StakeRecord /\ weighted_units(v) = weighted_units(stake[s])
  BY <1>2, <1>4, ClaimedType, SameWeight DEF SameTerms
<1> HIDE DEF v
<1>6. treasury' \in TreasuryRecord /\ treasury'.total_staked = treasury.total_staked
  <2>1. treasury.tokens - out \in Nat
    BY <1>3, <1>4, TreasuryTypes DEF PayYield
  <2> QED BY <1>3, <2>1, Rest DEF TreasuryRecord
<1>7. wallet' \in [Authorities -> Nat] /\ owed' \in Int
  <2>1. -out \in Int BY <1>4
  <2> QED BY <1>3, <1>4, <2>1, WalletStep, Rest DEF PayYield
<1>8. stake' \in [Stakes -> Account] /\ Drift' = Drift
  BY <1>1, <1>3, <1>5, <1>6, SameWeightStep
<1> QED BY <1>6, <1>7, <1>8, Rest, Assemble DEF ClaimYieldV2, Keeps

\* The burnt fee is a part of what is compounded.
LEMMA BurntBound ==
  ASSUME NEW out \in Nat PROVE Burnt(out) \in Nat /\ Burnt(out) <= out
<1>1. /\ out \div CompoundFeeDivisor \in Nat
      /\ (out \div CompoundFeeDivisor) * CompoundFeeDivisor <= out
  BY ScaleTypes, DivBounds
<1> DEFINE q == out \div CompoundFeeDivisor
<1>2. q <= q * CompoundFeeDivisor
  <2> HIDE DEF q
  <2>1. q \in Nat BY <1>1 DEF q
  <2> QED BY <2>1, ScaleTypes
<1>3. q * CompoundFeeDivisor \in Nat
  <2> HIDE DEF q
  <2>1. q \in Nat BY <1>1 DEF q
  <2> QED BY <2>1, ScaleTypes
<1> QED BY <1>1, <1>2, <1>3 DEF Burnt

LEMMA CompoundYieldV2Step ==
  ASSUME TypeOK, NEW s \in Stakes, NEW signer, CompoundYieldV2(signer, s)
  PROVE  Keeps
<1> DEFINE settled == update_rewards(Touched(s))
           out == settled.rewards
           amount == out - Burnt(out)
           claimed == Claimed(settled, out)
           new == Deposited(claimed, amount)
           total == Reweighed(treasury.total_staked, stake[s], new)
<1>1. stake[s] # None /\ Touched(s) \in StakeRecord
  BY TouchedType DEF CompoundYieldV2, Canonical
<1>2. settled \in StakeRecord /\ out \in Nat
  BY <1>1, SettledType DEF StakeRecord
<1>3. /\ PayYield(amount, Burnt(out))
      /\ total >= 0
      /\ stake' = [stake EXCEPT ![s] = [new EXCEPT !.tokens = @ + amount]]
      /\ stake_v1' = stake_v1
      /\ treasury' = [treasury EXCEPT !.total_staked = total, !.tokens = @ - out]
  BY DEF CompoundYieldV2
<1> DEFINE tokens == new.tokens + amount
           v == [new EXCEPT !.tokens = tokens]
<1>4. stake' = [stake EXCEPT ![s] = v]
  BY <1>3
<1>5. claimed \in StakeRecord
  <2> HIDE DEF settled
  <2> QED BY <1>2, ClaimedType
<1> HIDE DEF settled, out, claimed
<1>6. amount \in Nat /\ Burnt(out) \in Nat /\ amount + Burnt(out) = out
  <2>1. out \in Nat BY <1>2 DEF out
  <2> QED BY <2>1, BurntBound
<1> HIDE DEF amount
<1>7. new \in StakeRecord
  BY <1>5, <1>6, DepositedType
<1> HIDE DEF new
<1>8. tokens \in Nat
  BY <1>6, <1>7 DEF StakeRecord
<1> HIDE DEF tokens
<1>9. v \in StakeRecord /\ weighted_units(v) = weighted_units(new)
  <2>1. v \in StakeRecord
    BY <1>7, <1>8 DEF StakeRecord
  <2>2. /\ v.balance = new.balance /\ v.multiplier = new.multiplier
        /\ v.weight_version = new.weight_version /\ v.is_nft_staked = new.is_nft_staked
    BY <1>7 DEF StakeRecord
  <2> HIDE DEF v
  <2> QED BY <2>1, <2>2, SameWeight
<1> HIDE DEF v
<1>10. /\ total \in Int
       /\ total = treasury.total_staked + weighted_units(v) - WeightOf(stake[s])
  BY <1>1, <1>7, <1>9, ReweighedIs
<1> HIDE DEF total
<1>11. v \in Account /\ WeightOf(v) = weighted_units(v)
  BY <1>9, GenesisAssumption DEF Account, WeightOf
<1>12. treasury' \in TreasuryRecord /\ treasury'.total_staked = total
  <2>1. treasury.tokens - out \in Nat
    BY <1>2, <1>3, <1>6, TreasuryTypes DEF PayYield
  <2>2. total \in Nat
    BY <1>3, <1>10
  <2> QED BY <1>3, <2>1, <2>2, Rest DEF TreasuryRecord
<1>13. owed' \in Int
  BY <1>3, <1>6, Rest DEF PayYield
<1>14. stake' \in [Stakes -> Account] /\ Drift' = Drift
  BY <1>3, <1>4, <1>10, <1>11, <1>12, StakeStep
<1> QED BY <1>12, <1>13, <1>14, Rest, Assemble DEF CompoundYieldV2, Keeps

\* The merged stake is a stake on the terms of a fresh deposit.
LEMMA FoldedType ==
  ASSUME TypeOK, NEW a \in StakeRecord, NEW b \in StakeRecord
  PROVE  Folded(a, b) \in StakeRecord
<1> DEFINE lock == MergedLock(a, b)
           balance == a.balance + b.balance
           rewards == a.rewards + b.rewards
           tokens == a.tokens + b.tokens
           multiplier == stake_multiplier(lock)
<1>1. lock \in Nat
  BY DEF MergedLock, AtLeast, StakeRecord
<1>2. balance \in Nat /\ rewards \in Nat /\ tokens \in Nat
  BY DEF StakeRecord
<1> HIDE DEF lock
<1>3. multiplier \in Nat
  BY <1>1, MultiplierNat
<1>4. Folded(a, b) = [a EXCEPT !.balance = balance, !.rewards = rewards, !.lock_duration = lock,
                               !.created_at = now, !.multiplier = multiplier, !.tokens = tokens]
  BY DEF Folded, lock
<1> HIDE DEF balance, rewards, tokens, multiplier
<1>5. now \in Nat
  BY Rest
<1> QED BY <1>1, <1>2, <1>3, <1>4, <1>5 DEF StakeRecord

LEMMA MergeStakeV2Step ==
  ASSUME TypeOK, NEW target \in Stakes, NEW source \in Stakes, MergeStakeV2(target, source)
  PROVE  Keeps
<1> DEFINE tt == Touched(target)
           ts == Touched(source)
           touched == Reweighed(TouchedTotal(target), stake[source], ts)
           merged == Folded(update_rewards(tt), update_rewards(ts))
           total == Reweighed(touched, tt, merged) - weighted_units(ts)
           mid == [stake EXCEPT ![target] = merged]
<1>1. /\ target # source /\ stake[target] # None /\ stake[source] # None
      /\ total >= 0
      /\ stake' = [stake EXCEPT ![target] = merged, ![source] = None]
      /\ treasury' = [treasury EXCEPT !.total_staked = total]
      /\ stake_v1' = stake_v1
  BY DEF MergeStakeV2, Canonical
<1>2. /\ stake[target] \in StakeRecord /\ stake[source] \in StakeRecord
      /\ tt \in StakeRecord /\ ts \in StakeRecord
      /\ TouchedTotal(target) = treasury.total_staked + weighted_units(tt) - weighted_units(stake[target])
  BY <1>1, TouchedType
<1> HIDE DEF tt, ts
<1>3. merged \in StakeRecord
  BY <1>2, SettledType, FoldedType
<1> HIDE DEF merged
<1>4. /\ weighted_units(stake[target]) \in Nat /\ weighted_units(stake[source]) \in Nat
      /\ weighted_units(tt) \in Nat /\ weighted_units(ts) \in Nat
      /\ weighted_units(merged) \in Nat
  BY <1>2, <1>3, WeightNat
<1>5. total = treasury.total_staked + weighted_units(merged)
                - weighted_units(stake[target]) - weighted_units(stake[source])
  BY <1>2, <1>4, TreasuryTypes DEF Reweighed
<1>6. total \in Nat
  BY <1>1, <1>4, <1>5, TreasuryTypes
<1> HIDE DEF total
<1>7. stake \in [Stakes -> Account] /\ merged \in Account /\ None \in Account
  BY <1>3, Rest DEF Account
<1>8. mid \in [Stakes -> Account] /\ mid[source] = stake[source]
  BY <1>1, <1>7
<1>9. TotalOf(mid) = TotalOf(stake) + WeightOf(merged) - WeightOf(stake[target])
  BY <1>7, TotalUpdate
<1>10. stake' = [mid EXCEPT ![source] = None]
  BY <1>1
<1> HIDE DEF mid
<1>11. TotalOf(stake') = TotalOf(mid) + WeightOf(None) - WeightOf(stake[source])
  BY <1>7, <1>8, <1>10, TotalUpdate
<1>12. /\ WeightOf(merged) = weighted_units(merged) /\ WeightOf(None) = 0
       /\ WeightOf(stake[target]) = weighted_units(stake[target])
       /\ WeightOf(stake[source]) = weighted_units(stake[source])
  BY <1>1, <1>3, GenesisAssumption DEF WeightOf
<1>13. treasury' \in TreasuryRecord /\ treasury'.total_staked = total
  BY <1>1, <1>6, Rest DEF TreasuryRecord
<1>14. stake' \in [Stakes -> Account]
  BY <1>7, <1>8, <1>10
<1>15. Drift' = Drift
  <2>1. Drift = treasury.total_staked - (TotalOf(stake) + TotalOfV1(stake_v1))
    BY TotalsAre DEF Drift
  <2>2. Drift' = total - (TotalOf(stake') + TotalOfV1(stake_v1))
    BY <1>1, <1>13, TotalsAreNext DEF Drift
  <2>3. TotalOf(stake) \in Nat /\ TotalOfV1(stake_v1) \in Nat
    BY TotalsNat, TotalsAre
  <2> QED BY <2>1, <2>2, <2>3, <1>4, <1>5, <1>9, <1>11, <1>12, TreasuryTypes
<1> QED BY <1>13, <1>14, <1>15, Rest, Assemble DEF MergeStakeV2, Keeps

LEMMA CloseStakeV2Step ==
  ASSUME TypeOK, NEW s \in Stakes, CloseStakeV2(s)
  PROVE  Keeps
<1> DEFINE rewards == update_rewards(stake[s]).rewards
           out == rewards + stake[s].tokens
<1>1. stake[s] # None /\ stake[s] \in StakeRecord
  BY TouchedType DEF CloseStakeV2, Canonical
<1>2. rewards \in Nat /\ out \in Nat
  BY <1>1, SettledType DEF StakeRecord
<1>3. /\ PayYield(rewards, 0) /\ FromWallet(s, -out)
      /\ treasury' = [treasury EXCEPT !.tokens = @ - rewards]
      /\ stake' = [stake EXCEPT ![s] = None] /\ stake[s].balance = 0 /\ stake_v1' = stake_v1
  BY DEF CloseStakeV2
<1> HIDE DEF rewards, out
<1>4. treasury' \in TreasuryRecord /\ treasury'.total_staked = treasury.total_staked
  <2>1. treasury.tokens - rewards \in Nat
    BY <1>2, <1>3, TreasuryTypes DEF PayYield
  <2> QED BY <1>3, <2>1, Rest DEF TreasuryRecord
<1>5. wallet' \in [Authorities -> Nat] /\ owed' \in Int
  <2>1. -out \in Int BY <1>2
  <2> QED BY <1>2, <1>3, <2>1, WalletStep, Rest DEF PayYield
<1>6. stake' \in [Stakes -> Account] /\ Drift' = Drift
  BY <1>1, <1>3, <1>4, CloseStep
<1> QED BY <1>4, <1>5, <1>6, Rest, Assemble DEF CloseStakeV2, Keeps

LEMMA SetStakeExecutorV2Step ==
  ASSUME TypeOK, NEW s \in Stakes, NEW executor \in Executors, SetStakeExecutorV2(s, executor)
  PROVE  Keeps
<1> DEFINE v == [stake[s] EXCEPT !.executor = executor]
<1>1. stake[s] # None /\ stake[s] \in StakeRecord
  BY TouchedType DEF SetStakeExecutorV2
<1>2. v \in StakeRecord /\ weighted_units(v) = weighted_units(stake[s])
  <2>1. v \in StakeRecord
    BY <1>1 DEF StakeRecord
  <2>2. /\ v.balance = stake[s].balance /\ v.multiplier = stake[s].multiplier
        /\ v.weight_version = stake[s].weight_version
        /\ v.is_nft_staked = stake[s].is_nft_staked
    BY <1>1 DEF StakeRecord
  <2> HIDE DEF v
  <2> QED BY <2>1, <2>2, SameWeight
<1>3. stake' = [stake EXCEPT ![s] = v]
  BY Rest DEF SetStakeExecutorV2
<1> HIDE DEF v
<1>4. stake' \in [Stakes -> Account] /\ Drift' = Drift
  BY <1>1, <1>2, <1>3, SameWeightStep DEF SetStakeExecutorV2
<1> QED BY <1>4, Rest, Assemble DEF SetStakeExecutorV2, Keeps

\* A handler that only reweighs the stake it touches.
LEMMA ReweighStep ==
  ASSUME TypeOK, NEW s \in Stakes, stake[s] # None, NEW new \in StakeRecord,
         Store(s, new, new.tokens, Reweighed(treasury.total_staked, stake[s], new)),
         UNCHANGED <<now, stake_v1, wallet, audit, owed, taken>>, assets' \in Nat
  PROVE  Keeps
<1>1. new.tokens \in Int
  BY DEF StakeRecord
<1> DEFINE total == Reweighed(treasury.total_staked, stake[s], new)
<1>2. /\ total \in Int
      /\ total = treasury.total_staked + weighted_units(new) - WeightOf(stake[s])
  BY ReweighedIs
<1>3. Store(s, new, new.tokens, total)
  OBVIOUS
<1> HIDE DEF total
<1>4. /\ stake' \in [Stakes -> Account] /\ treasury' \in TreasuryRecord
      /\ Drift' = Drift
  BY <1>1, <1>2, <1>3, StoreStep
<1> QED BY <1>4, Rest, Assemble DEF Keeps

LEMMA StakeNftStep ==
  ASSUME TypeOK, NEW s \in Stakes, StakeNft(s) PROVE Keeps
<1> DEFINE u == update_rewards(Touched(s))
           new == stake_nft(Touched(s))
<1>1. stake[s] # None /\ u \in StakeRecord
  BY TouchedType, SettledType DEF StakeNft, Canonical
<1>2. new \in StakeRecord
  <2>1. new = [u EXCEPT !.is_nft_staked = TRUE] BY DEF stake_nft
  <2> HIDE DEF u, new
  <2> QED BY <1>1, <2>1 DEF StakeRecord
<1>3. Store(s, new, new.tokens, Reweighed(treasury.total_staked, stake[s], new))
  BY DEF StakeNft
<1> HIDE DEF new
<1>4. assets' \in Nat
  BY Rest DEF StakeNft
<1> QED BY <1>1, <1>2, <1>3, <1>4, ReweighStep DEF StakeNft

LEMMA UnstakeNftStep ==
  ASSUME TypeOK, NEW s \in Stakes, UnstakeNft(s) PROVE Keeps
<1> DEFINE u == update_rewards(Touched(s))
           new == unstake_nft(Touched(s))
<1>1. stake[s] # None /\ u \in StakeRecord
  BY TouchedType, SettledType DEF UnstakeNft, Canonical
<1>2. new \in StakeRecord
  <2>1. new = [u EXCEPT !.is_nft_staked = FALSE] BY DEF unstake_nft
  <2> HIDE DEF u, new
  <2> QED BY <1>1, <2>1 DEF StakeRecord
<1>3. Store(s, new, new.tokens, Reweighed(treasury.total_staked, stake[s], new))
  BY DEF UnstakeNft
<1> HIDE DEF new
<1>4. assets' \in Nat
  BY Rest DEF UnstakeNft
<1> QED BY <1>1, <1>2, <1>3, <1>4, ReweighStep DEF UnstakeNft

LEMMA MigrateStakeWeightStep ==
  ASSUME TypeOK, NEW s \in Stakes, MigrateStakeWeight(s) PROVE Keeps
<1> DEFINE new == Touched(s)
<1>1. stake[s] # None /\ new \in StakeRecord /\ new.tokens = stake[s].tokens
  BY TouchedType DEF MigrateStakeWeight, SameTerms
<1>2. Store(s, new, new.tokens, Reweighed(treasury.total_staked, stake[s], new))
  BY <1>1 DEF MigrateStakeWeight, TouchedTotal
<1> HIDE DEF new
<1>3. assets' \in Nat
  BY Rest DEF MigrateStakeWeight
<1> QED BY <1>1, <1>2, <1>3, ReweighStep DEF MigrateStakeWeight

LEMMA ReconcileStakeV2Step ==
  ASSUME TypeOK, NEW s \in Stakes, ReconcileStakeV2(s) PROVE Keeps
<1> DEFINE gap == Unbacked(stake[s])
           new == Withdrawn(stake[s], gap)
<1>1. stake[s] # None /\ stake[s] \in StakeRecord
  BY TouchedType DEF ReconcileStakeV2
<1>2. gap \in Nat /\ gap <= stake[s].balance
  BY <1>1 DEF Unbacked, Monus, StakeRecord
<1>3. Store(s, new, new.tokens, Reweighed(treasury.total_staked, stake[s], new))
  BY DEF ReconcileStakeV2
<1> HIDE DEF gap
<1>4. new \in StakeRecord
  BY <1>1, <1>2, WithdrawnType
<1> HIDE DEF new
<1>5. assets' \in Nat
  BY Rest DEF ReconcileStakeV2
<1> QED BY <1>1, <1>3, <1>4, <1>5, ReweighStep DEF ReconcileStakeV2

LEMMA ClosePhantomStakeV2Step ==
  ASSUME TypeOK, NEW s \in Stakes, ClosePhantomStakeV2(s) PROVE Keeps
<1>1. stake' \in [Stakes -> Account] /\ Drift' = Drift
  BY CloseStep DEF ClosePhantomStakeV2, SweptBalance
<1> QED BY <1>1, Rest, Assemble DEF ClosePhantomStakeV2, Keeps
-----------------------------------------------------------------------------
(* Stakes of version 1 *)

\* An account of version 1 and its settled form.
LEMMA SettledV1Type ==
  ASSUME TypeOK, NEW a \in Authorities, stake_v1[a] # None
  PROVE  /\ stake_v1[a] \in StakeV1Record /\ SettledV1(a) \in StakeV1Record
         /\ SettledV1(a).balance = stake_v1[a].balance
         /\ SettledV1(a).tokens = stake_v1[a].tokens
<1>1. stake_v1[a] \in StakeV1Record
  BY DEF TypeOK
<1> DEFINE e == Earned(stake_v1[a].balance, stake_v1[a].rewards_factor)
           r == stake_v1[a].rewards + e
           f == treasury.stake_rewards_factor
<1>2. r \in Nat /\ f \in Nat
  <2>1. e \in Nat BY <1>1, EarnedNat DEF StakeV1Record
  <2> HIDE DEF e
  <2> QED BY <1>1, <2>1, TreasuryTypes DEF StakeV1Record
<1>3. SettledV1(a) = [stake_v1[a] EXCEPT !.rewards = r, !.rewards_factor = f]
  BY <1>1 DEF SettledV1, StakeV1Record
<1> HIDE DEF r, f
<1> QED BY <1>1, <1>2, <1>3 DEF StakeV1Record

\* One account of version 1 changes, and the total by the difference.
LEMMA StakeV1Step ==
  ASSUME TypeOK, NEW a \in Authorities, stake_v1[a] # None, NEW v \in StakeV1Record,
         stake_v1' = [stake_v1 EXCEPT ![a] = v], stake' = stake,
         treasury'.total_staked = treasury.total_staked + v.balance - stake_v1[a].balance
  PROVE  stake_v1' \in [Authorities -> AccountV1] /\ Drift' = Drift
<1>1. stake_v1 \in [Authorities -> AccountV1] /\ v \in AccountV1
  BY Rest DEF AccountV1
<1>2. TotalOfV1(stake_v1') = TotalOfV1(stake_v1) + WeightOfV1(v) - WeightOfV1(stake_v1[a])
  BY <1>1, TotalUpdateV1
<1>3. WeightOfV1(v) = v.balance /\ WeightOfV1(stake_v1[a]) = stake_v1[a].balance
  BY GenesisAssumption DEF WeightOfV1
<1>4. v.balance \in Nat /\ stake_v1[a].balance \in Nat
  BY SettledV1Type DEF StakeV1Record
<1>5. TotalOf(stake) \in Nat /\ TotalOfV1(stake_v1) \in Nat
  BY TotalsNat, TotalsAre
<1>6. Drift = treasury.total_staked - (TotalOf(stake) + TotalOfV1(stake_v1))
  BY TotalsAre DEF Drift
<1>7. Drift' = treasury'.total_staked - (TotalOf(stake) + TotalOfV1(stake_v1'))
  BY TotalsAreNext DEF Drift
<1>8. Drift' = Drift
  BY <1>2, <1>3, <1>4, <1>5, <1>6, <1>7, TreasuryTypes
<1> QED BY <1>1, <1>8

\* GODL is paid to the wallet of an authority.
LEMMA PaidOut ==
  ASSUME TypeOK, NEW a \in Authorities, NEW out \in Nat,
         wallet' = [wallet EXCEPT ![a] = @ + out]
  PROVE  wallet' \in [Authorities -> Nat]
<1>1. wallet \in [Authorities -> Nat]
  BY Rest
<1>2. wallet[a] + out \in Nat
  BY <1>1
<1> QED BY <1>1, <1>2

LEMMA WithdrawStep ==
  ASSUME TypeOK, NEW a \in Authorities, NEW amount \in WithdrawAmounts, Withdraw(a, amount)
  PROVE  Keeps
<1> DEFINE out == AtMost(stake_v1[a].balance, amount)
           balance == SettledV1(a).balance - out
           tokens == SettledV1(a).tokens - out
           v == [SettledV1(a) EXCEPT !.balance = balance, !.tokens = tokens]
<1>1. /\ stake_v1[a] # None /\ stake_v1[a] \in StakeV1Record
      /\ SettledV1(a) \in StakeV1Record
      /\ SettledV1(a).balance = stake_v1[a].balance
      /\ SettledV1(a).tokens = stake_v1[a].tokens
  BY SettledV1Type DEF Withdraw
<1>2. out \in Nat /\ out <= stake_v1[a].balance
  BY <1>1, AmountTypes DEF AtMost, StakeV1Record
<1>3. /\ treasury.total_staked >= out
      /\ stake_v1[a].tokens >= stake_v1[a].balance
      /\ stake_v1' = [stake_v1 EXCEPT ![a] = v]
      /\ treasury' = [treasury EXCEPT !.total_staked = @ - out]
      /\ wallet' = [wallet EXCEPT ![a] = @ + out]
      /\ stake' = stake
  BY <1>1 DEF Withdraw, StakeV1Record
<1> HIDE DEF out
<1>4. balance \in Nat /\ tokens \in Nat /\ balance = stake_v1[a].balance - out
  BY <1>1, <1>2, <1>3 DEF StakeV1Record
<1> HIDE DEF balance, tokens
<1>5. v \in StakeV1Record /\ v.balance = balance
  BY <1>1, <1>4 DEF StakeV1Record
<1> HIDE DEF v
<1>6. treasury' \in TreasuryRecord /\ treasury'.total_staked = treasury.total_staked - out
  <2>1. treasury.total_staked - out \in Nat BY <1>2, <1>3, TreasuryTypes
  <2> QED BY <1>3, <2>1, Rest DEF TreasuryRecord
<1>7. treasury'.total_staked = treasury.total_staked + v.balance - stake_v1[a].balance
  <2>1. stake_v1[a].balance \in Nat BY <1>1 DEF StakeV1Record
  <2> QED BY <1>2, <1>4, <1>5, <1>6, <2>1, TreasuryTypes
<1>8. stake_v1' \in [Authorities -> AccountV1] /\ Drift' = Drift
  BY <1>1, <1>3, <1>5, <1>7, StakeV1Step
<1>9. wallet' \in [Authorities -> Nat]
  BY <1>2, <1>3, PaidOut
<1> QED BY <1>6, <1>8, <1>9, Rest, Assemble DEF Withdraw, Keeps

LEMMA ClaimYieldStep ==
  ASSUME TypeOK, NEW a \in Authorities, NEW amount \in ClaimAmounts, ClaimYield(a, amount)
  PROVE  Keeps
<1> DEFINE u == SettledV1(a)
           out == Claimable(u, amount)
           rewards == u.rewards - out
           v == Claimed(u, out)
<1>1. /\ stake_v1[a] # None /\ stake_v1[a] \in StakeV1Record
      /\ u \in StakeV1Record /\ u.balance = stake_v1[a].balance
  BY SettledV1Type DEF ClaimYield
<1>2. /\ PayYield(out, 0)
      /\ stake_v1' = [stake_v1 EXCEPT ![a] = v]
      /\ treasury' = [treasury EXCEPT !.tokens = @ - out]
      /\ wallet' = [wallet EXCEPT ![a] = @ + out]
      /\ stake' = stake
  BY DEF ClaimYield
<1> HIDE DEF u
<1>3. out \in Nat /\ out <= u.rewards /\ rewards \in Nat
  <2>1. u.rewards \in Nat BY <1>1 DEF StakeV1Record
  <2>2. amount \in Nat BY AmountTypes
  <2>3. out \in Nat /\ out <= u.rewards BY <2>1, <2>2, ClaimableBound
  <2> HIDE DEF out
  <2> QED BY <2>1, <2>3
<1> HIDE DEF out
<1>4. v = [u EXCEPT !.rewards = rewards]
  BY DEF Claimed
<1> HIDE DEF rewards
<1>5. v \in StakeV1Record /\ v.balance = stake_v1[a].balance
  BY <1>1, <1>3, <1>4 DEF StakeV1Record
<1> HIDE DEF v
<1>6. treasury' \in TreasuryRecord /\ treasury'.total_staked = treasury.total_staked
  <2>1. treasury.tokens - out \in Nat BY <1>2, <1>3, TreasuryTypes DEF PayYield
  <2> QED BY <1>2, <2>1, Rest DEF TreasuryRecord
<1>7. treasury'.total_staked = treasury.total_staked + v.balance - stake_v1[a].balance
  <2>1. stake_v1[a].balance \in Nat BY <1>1 DEF StakeV1Record
  <2> QED BY <1>5, <1>6, <2>1, TreasuryTypes
<1>8. stake_v1' \in [Authorities -> AccountV1] /\ Drift' = Drift
  BY <1>1, <1>2, <1>5, <1>7, StakeV1Step
<1>9. wallet' \in [Authorities -> Nat] /\ owed' \in Int
  BY <1>2, <1>3, PaidOut, Rest DEF PayYield
<1> QED BY <1>6, <1>8, <1>9, Rest, Assemble DEF ClaimYield, Keeps
-----------------------------------------------------------------------------
(* Yield and the rebase command *)

\* What is shared with stakers is a part of the amount; the factor grows by a
\* natural number.
LEMMA SharedTypes ==
  ASSUME TypeOK, NEW amount \in Nat
  PROVE  /\ Shared(amount) \in Nat /\ Shared(amount) <= amount
         /\ PerUnit(Shared(amount)) \in Nat
<1>1. Shared(amount) \in Nat /\ Shared(amount) <= amount
  BY BpsBound, ScalesAssumption DEF Shared
<1> DEFINE x == Shared(amount)
           p == x * FRACTION
<1> HIDE DEF x
<1>2. p \in Nat
  <2>1. x \in Nat BY <1>1 DEF x
  <2> QED BY <2>1, ScaleTypes
<1> HIDE DEF p
<1>3. ASSUME treasury.total_staked # 0 PROVE p \div treasury.total_staked \in Nat
  BY <1>2, <1>3, TreasuryTypes, DivBounds
<1>4. PerUnit(x) \in Nat
  BY <1>3 DEF PerUnit, p
<1> QED BY <1>1, <1>4 DEF x

LEMMA BuryStep ==
  ASSUME TypeOK, NEW total_godl \in BuryAmounts, Bury(total_godl) PROVE Keeps
<1> DEFINE shared == Shared(total_godl)
           per == PerUnit(shared)
<1>1. shared \in Nat /\ per \in Nat
  BY AmountTypes, SharedTypes
<1>2. /\ Distribute(shared)
      /\ treasury' = [treasury EXCEPT !.stake_rewards_factor = @ + per, !.tokens = @ + shared]
      /\ taken' = taken
  BY DEF Bury
<1> HIDE DEF shared, per
<1>3. treasury' \in TreasuryRecord /\ treasury'.total_staked = treasury.total_staked
  <2>1. treasury.stake_rewards_factor + per \in Nat /\ treasury.tokens + shared \in Nat
    BY <1>1, TreasuryTypes
  <2> QED BY <1>2, <2>1, Rest DEF TreasuryRecord
<1>4. owed' \in Int
  BY <1>1, <1>2, Rest DEF Distribute
<1> QED BY <1>2, <1>3, <1>4, Rest, IdleStep, Assemble DEF Distribute, Keeps

LEMMA BuryTokensStep ==
  ASSUME TypeOK, NEW amount \in BuryTokensAmounts, BuryTokens(amount) PROVE Keeps
<1> DEFINE shared == Shared(amount)
           per == PerUnit(shared)
<1>1. amount \in Nat /\ shared \in Nat /\ shared <= amount /\ per \in Nat
  BY AmountTypes, SharedTypes
<1>2. /\ Distribute(shared) /\ treasury.tokens >= amount
      /\ treasury' = [treasury EXCEPT !.stake_rewards_factor = @ + per,
                                      !.tokens = @ - (amount - shared)]
      /\ taken' = taken + amount
  BY DEF BuryTokens
<1> HIDE DEF shared, per
<1>3. treasury' \in TreasuryRecord /\ treasury'.total_staked = treasury.total_staked
  <2>1. /\ treasury.stake_rewards_factor + per \in Nat
        /\ treasury.tokens - (amount - shared) \in Nat
    BY <1>1, <1>2, TreasuryTypes
  <2> QED BY <1>2, <2>1, Rest DEF TreasuryRecord
<1>4. owed' \in Int /\ taken' \in Nat
  BY <1>1, <1>2, Rest DEF Distribute
<1> QED BY <1>2, <1>3, <1>4, Rest, IdleStep, Assemble DEF Distribute, Keeps

\* Every call of the command but the compare-and-swap reads only.
LEMMA AuditSteps ==
  ASSUME TypeOK,
         ReadTreasury \/ ListStakes \/ ListLegacyStakes \/ RereadTreasury \/ RebaseMismatch
  PROVE  Keeps
<1>1. UNCHANGED <<now, stake, stake_v1, treasury, wallet, assets, owed, taken>>
  BY DEF ReadTreasury, ListStakes, ListLegacyStakes, RereadTreasury, RebaseMismatch, AuditStep
<1>2. audit' \in AuditRecord
  <2>1. CASE ReadTreasury
    <3>1. audit.attempt + 1 \in 0 .. MaxAttempts
      BY <2>1, Rest, AmountsAssumption DEF ReadTreasury, AuditRecord
    <3> QED BY <2>1, <3>1, Rest, TreasuryTypes DEF ReadTreasury, AuditRecord, Steps
  <2>2. CASE ListStakes
    <3> DEFINE o == \E s \in Stakes : stake[s] # None /\ stake[s].weight_version = 0
    <3>1. o \in BOOLEAN
      OBVIOUS
    <3>2. audit' = [audit EXCEPT !.step = "list_v1", !.sum = UnitsV2, !.old = o]
      BY <2>2 DEF ListStakes
    <3> HIDE DEF o
    <3> QED BY <3>1, <3>2, Rest, TotalsNat DEF AuditRecord, Steps
  <2>3. CASE ListLegacyStakes
    <3>1. audit.sum + UnitsV1 \in Nat
      BY Rest, TotalsNat DEF AuditRecord
    <3> QED BY <2>3, <3>1, Rest DEF ListLegacyStakes, AuditRecord, Steps
  <2>4. CASE RereadTreasury
    BY <2>4, Rest DEF RereadTreasury, AuditStep, AuditRecord, Steps
  <2>5. CASE RebaseMismatch
    BY <2>5, Rest DEF RebaseMismatch, AuditStep, AuditRecord, Steps
  <2> QED BY <2>1, <2>2, <2>3, <2>4, <2>5
<1> QED BY <1>1, <1>2, Rest, IdleStep, Assemble DEF Keeps

\* The compare-and-swap writes a natural number.
LEMMA RebaseStep == ASSUME TypeOK, RebaseTotalStaked PROVE TypeOK'
<1>1. treasury' \in TreasuryRecord
  BY Rest DEF RebaseTotalStaked, TreasuryRecord, AuditRecord
<1>2. audit' \in AuditRecord
  BY Rest DEF RebaseTotalStaked, AuditRecord, Steps
<1> QED BY <1>1, <1>2, Rest, Assemble DEF RebaseTotalStaked
-----------------------------------------------------------------------------
(* Vaults back the balances of canonical stakes *)

Backed(v) == v = None \/ v.tokens >= v.balance

VaultsBack == \A s \in Stakes \ Phantoms : Backed(stake[s])

\* One account changes to a backed one.
LEMMA BackedStep ==
  ASSUME TypeOK, VaultsBack, NEW s \in Stakes, NEW v,
         stake' = [stake EXCEPT ![s] = v], s \in Phantoms \/ Backed(v)
  PROVE  VaultsBack'
<1>1. \A t \in Stakes : stake'[t] = IF t = s THEN v ELSE stake[t]
  BY Rest
<1> QED BY <1>1 DEF VaultsBack, Backed

\* A handler stores a stake whose vault backs it.
LEMMA StoreBacked ==
  ASSUME TypeOK, VaultsBack, NEW s \in Stakes, NEW new \in StakeRecord, NEW tokens,
         NEW total, Store(s, new, tokens, total), s \in Phantoms \/ tokens >= new.balance
  PROVE  VaultsBack'
<1> DEFINE v == [new EXCEPT !.tokens = tokens]
<1>1. v.tokens = tokens /\ v.balance = new.balance
  BY DEF StakeRecord
<1>2. stake' = [stake EXCEPT ![s] = v]
  BY DEF Store
<1> HIDE DEF v
<1> QED BY <1>1, <1>2, BackedStep DEF Backed

LEMMA DepositsBacked ==
  ASSUME TypeOK, VaultsBack, NEW s \in Stakes, NEW amount \in DepositAmounts
  PROVE  /\ \A lock \in Locks, executor \in Executors :
               DepositV2(s, amount, lock, executor) => VaultsBack'
         /\ TopUpStakeV2(s, amount) => VaultsBack'
<1>1. amount \in Nat
  BY AmountTypes
<1>2. ASSUME NEW lock \in Locks, NEW executor \in Executors,
             DepositV2(s, amount, lock, executor)
      PROVE  VaultsBack'
  <2> DEFINE fresh == NewStake(lock, executor)
             new == Deposited(fresh, amount)
             total == Reweighed(treasury.total_staked, fresh, new)
  <2>1. lock \in Nat
    BY AmountTypes
  <2>2. fresh \in StakeRecord /\ fresh.balance = 0
    BY <2>1, MultiplierNat, Rest, TreasuryTypes DEF NewStake, StakeRecord
  <2>3. Store(s, new, amount, total)
    BY <1>2 DEF DepositV2
  <2> HIDE DEF fresh
  <2>4. new \in StakeRecord /\ new.balance = amount
    BY <1>1, <2>2, DepositedType
  <2> HIDE DEF new, total
  <2>5. amount >= new.balance
    BY <1>1, <2>4
  <2> QED BY <2>3, <2>4, <2>5, StoreBacked
<1>3. ASSUME TopUpStakeV2(s, amount) PROVE VaultsBack'
  <2> DEFINE new == Deposited(Touched(s), amount)
             restarted == [new EXCEPT !.created_at = now]
             total == Reweighed(treasury.total_staked, stake[s], new)
  <2>1. /\ Store(s, restarted, new.tokens + amount, total) /\ stake[s] # None
        /\ new.tokens + amount >= new.balance
    BY <1>3 DEF TopUpStakeV2, Canonical
  <2>2. new \in StakeRecord
    BY <1>1, <2>1, TouchedType, DepositedType
  <2> HIDE DEF new, total
  <2>3. restarted \in StakeRecord /\ restarted.balance = new.balance
    BY <2>2, Rest DEF StakeRecord
  <2> HIDE DEF restarted
  <2> QED BY <2>1, <2>3, StoreBacked
<1> QED BY <1>2, <1>3

LEMMA PaymentsBacked ==
  ASSUME TypeOK, VaultsBack, NEW s \in Stakes
  PROVE  /\ \A amount \in WithdrawAmounts : WithdrawV2(s, amount) => VaultsBack'
         /\ \A amount \in ClaimAmounts : ClaimYieldV2(s, amount) => VaultsBack'
         /\ \A amount \in Donations : Donate(s, amount) => VaultsBack'
<1>1. ASSUME NEW amount \in WithdrawAmounts, WithdrawV2(s, amount) PROVE VaultsBack'
  <2> DEFINE out == AtMost(stake[s].balance, amount)
             new == Withdrawn(Touched(s), out)
             total == Reweighed(treasury.total_staked, stake[s], new)
  <2>1. /\ stake[s] # None /\ stake[s] \in StakeRecord /\ Touched(s) \in StakeRecord
        /\ Touched(s).balance = stake[s].balance
    BY <1>1, TouchedType DEF WithdrawV2, Canonical, SameTerms
  <2>2. out \in Nat /\ out <= Touched(s).balance
    BY <2>1, AmountTypes DEF AtMost, StakeRecord
  <2>3. Store(s, new, new.tokens - out, total) /\ new.tokens - out >= new.balance
    BY <1>1 DEF WithdrawV2
  <2> HIDE DEF out
  <2>4. new \in StakeRecord
    BY <2>1, <2>2, WithdrawnType
  <2> HIDE DEF new, total
  <2> QED BY <2>3, <2>4, StoreBacked
<1>2. ASSUME NEW amount \in ClaimAmounts, ClaimYieldV2(s, amount) PROVE VaultsBack'
  <2> DEFINE settled == update_rewards(stake[s])
             out == Claimable(settled, amount)
             v == Claimed(settled, out)
  <2>1. s \notin Phantoms /\ stake[s] # None /\ stake[s] \in StakeRecord
    BY <1>2, TouchedType DEF ClaimYieldV2, Canonical
  <2>2. settled \in StakeRecord /\ SameTerms(settled, stake[s])
    BY <2>1, SettledType
  <2>3. stake' = [stake EXCEPT ![s] = v]
    BY <1>2 DEF ClaimYieldV2
  <2> HIDE DEF settled
  <2>4. out \in Nat /\ out <= settled.rewards
    <3>1. settled.rewards \in Nat BY <2>2 DEF StakeRecord
    <3>2. amount \in Nat BY AmountTypes
    <3> QED BY <3>1, <3>2, ClaimableBound
  <2> HIDE DEF out
  <2>5. v.tokens = stake[s].tokens /\ v.balance = stake[s].balance
    BY <2>2, <2>4, ClaimedType DEF SameTerms
  <2> HIDE DEF v
  <2>6. Backed(v)
    BY <2>1, <2>5 DEF VaultsBack, Backed
  <2> QED BY <2>3, <2>6, BackedStep
<1>3. ASSUME NEW amount \in Donations, Donate(s, amount) PROVE VaultsBack'
  <2> DEFINE t == stake[s].tokens + amount
             v == [stake[s] EXCEPT !.tokens = t]
  <2>1. stake[s] # None /\ stake[s] \in StakeRecord /\ amount \in Nat
    BY <1>3, AmountTypes, TouchedType DEF Donate
  <2>2. stake' = [stake EXCEPT ![s] = v]
    BY <1>3, Rest DEF Donate
  <2>3. s \in Phantoms \/ t >= stake[s].balance
    BY <2>1 DEF VaultsBack, Backed, StakeRecord
  <2> HIDE DEF t
  <2>4. s \in Phantoms \/ Backed(v)
    BY <2>1, <2>3 DEF Backed, StakeRecord
  <2> HIDE DEF v
  <2> QED BY <2>2, <2>4, BackedStep
<1> QED BY <1>1, <1>2, <1>3

LEMMA CompoundBacked ==
  ASSUME TypeOK, VaultsBack, NEW s \in Stakes, NEW signer, CompoundYieldV2(signer, s)
  PROVE  VaultsBack'
<1> DEFINE settled == update_rewards(Touched(s))
           out == settled.rewards
           amount == out - Burnt(out)
           claimed == Claimed(settled, out)
           new == Deposited(claimed, amount)
           tokens == new.tokens + amount
           v == [new EXCEPT !.tokens = tokens]
<1>1. stake[s] # None /\ Touched(s) \in StakeRecord
  BY TouchedType DEF CompoundYieldV2, Canonical
<1>2. settled \in StakeRecord /\ out \in Nat
  BY <1>1, SettledType DEF StakeRecord
<1>3. stake' = [stake EXCEPT ![s] = v] /\ tokens >= new.balance
  BY DEF CompoundYieldV2
<1>4. claimed \in StakeRecord
  <2> HIDE DEF settled
  <2> QED BY <1>2, ClaimedType
<1>5. amount \in Nat
  <2> HIDE DEF settled, out
  <2>1. out \in Nat BY <1>2 DEF out
  <2> QED BY <2>1, BurntBound
<1> HIDE DEF settled, out, claimed, amount
<1>6. new \in StakeRecord
  BY <1>4, <1>5, DepositedType
<1> HIDE DEF new, tokens
<1>7. Backed(v)
  BY <1>3, <1>6 DEF Backed, StakeRecord
<1> HIDE DEF v
<1> QED BY <1>3, <1>7, BackedStep

LEMMA MergeBacked ==
  ASSUME TypeOK, VaultsBack, NEW target \in Stakes, NEW source \in Stakes,
         MergeStakeV2(target, source)
  PROVE  VaultsBack'
<1> DEFINE a == update_rewards(Touched(target))
           b == update_rewards(Touched(source))
           merged == Folded(a, b)
<1>1. /\ stake[target] # None /\ stake[source] # None
      /\ stake' = [stake EXCEPT ![target] = merged, ![source] = None]
      /\ stake[target].tokens >= stake[target].balance
      /\ stake[source].tokens >= stake[source].balance
  BY DEF MergeStakeV2, Canonical
<1>2. /\ stake[target] \in StakeRecord /\ stake[source] \in StakeRecord
      /\ a \in StakeRecord /\ SameTerms(a, stake[target])
      /\ b \in StakeRecord /\ SameTerms(b, stake[source])
  BY <1>1, TouchedType, SettledType DEF SameTerms
<1> HIDE DEF a, b
<1>3. merged.tokens = a.tokens + b.tokens /\ merged.balance = a.balance + b.balance
  BY <1>2 DEF Folded, StakeRecord
<1> HIDE DEF merged
<1>4. merged.tokens >= merged.balance
  BY <1>1, <1>2, <1>3 DEF SameTerms, StakeRecord
<1>5. \A t \in Stakes : stake'[t] = None \/ stake'[t] = merged \/ stake'[t] = stake[t]
  BY <1>1, Rest
<1> QED BY <1>4, <1>5 DEF VaultsBack, Backed

\* Boosts and migrations leave balance and vault alone.
LEMMA ReweighingBacked ==
  ASSUME TypeOK, VaultsBack, NEW s \in Stakes,
         StakeNft(s) \/ UnstakeNft(s) \/ MigrateStakeWeight(s)
  PROVE  VaultsBack'
<1> DEFINE u == update_rewards(Touched(s))
<1>1. stake[s] # None
  BY DEF StakeNft, UnstakeNft, MigrateStakeWeight, Canonical
<1>2. /\ stake[s] \in StakeRecord /\ Touched(s) \in StakeRecord /\ u \in StakeRecord
      /\ SameTerms(Touched(s), stake[s]) /\ SameTerms(u, Touched(s))
  BY <1>1, TouchedType, SettledType
<1>3. s \in Phantoms \/ stake[s].tokens >= stake[s].balance
  BY <1>1 DEF VaultsBack, Backed
<1>4. PICK new, total :
        /\ new \in StakeRecord
        /\ Store(s, new, stake[s].tokens, total)
        /\ new.balance = stake[s].balance
  <2>1. CASE StakeNft(s)
    <3> DEFINE new == stake_nft(Touched(s))
    <3>1. new = [u EXCEPT !.is_nft_staked = TRUE] BY DEF stake_nft
    <3>2. Store(s, new, new.tokens, Reweighed(treasury.total_staked, stake[s], new))
      BY <2>1 DEF StakeNft
    <3> HIDE DEF new, u
    <3>3. new \in StakeRecord /\ new.tokens = u.tokens /\ new.balance = u.balance
      BY <1>2, <3>1 DEF StakeRecord
    <3> QED BY <1>2, <3>2, <3>3 DEF SameTerms
  <2>2. CASE UnstakeNft(s)
    <3> DEFINE new == unstake_nft(Touched(s))
    <3>1. new = [u EXCEPT !.is_nft_staked = FALSE] BY DEF unstake_nft
    <3>2. Store(s, new, new.tokens, Reweighed(treasury.total_staked, stake[s], new))
      BY <2>2 DEF UnstakeNft
    <3> HIDE DEF new, u
    <3>3. new \in StakeRecord /\ new.tokens = u.tokens /\ new.balance = u.balance
      BY <1>2, <3>1 DEF StakeRecord
    <3> QED BY <1>2, <3>2, <3>3 DEF SameTerms
  <2>3. CASE MigrateStakeWeight(s)
    BY <1>2, <2>3 DEF MigrateStakeWeight, SameTerms
  <2> QED BY <2>1, <2>2, <2>3
<1>5. s \in Phantoms \/ stake[s].tokens >= new.balance
  BY <1>3, <1>4
<1> QED BY <1>4, <1>5, StoreBacked

LEMMA ReconcileBacked ==
  ASSUME TypeOK, VaultsBack, NEW s \in Stakes, ReconcileStakeV2(s)
  PROVE  VaultsBack'
<1> DEFINE gap == Unbacked(stake[s])
           new == Withdrawn(stake[s], gap)
<1>1. stake[s] # None /\ stake[s] \in StakeRecord
  BY TouchedType DEF ReconcileStakeV2
<1>2. gap \in Nat /\ gap <= stake[s].balance /\ stake[s].balance - gap <= stake[s].tokens
  BY <1>1 DEF Unbacked, Monus, StakeRecord
<1>3. Store(s, new, new.tokens, Reweighed(treasury.total_staked, stake[s], new))
  BY DEF ReconcileStakeV2
<1> HIDE DEF gap
<1>4. /\ new \in StakeRecord /\ new.tokens = stake[s].tokens
      /\ new.balance = stake[s].balance - gap
  BY <1>1, <1>2, WithdrawnType
<1> HIDE DEF new
<1>5. new.tokens >= new.balance
  BY <1>1, <1>2, <1>4 DEF StakeRecord
<1> QED BY <1>3, <1>4, <1>5, StoreBacked

LEMMA RestBacked ==
  ASSUME TypeOK, VaultsBack, NEW s \in Stakes,
         \/ CloseStakeV2(s) \/ ClosePhantomStakeV2(s)
         \/ \E executor \in Executors : SetStakeExecutorV2(s, executor)
  PROVE  VaultsBack'
<1>1. CASE CloseStakeV2(s) \/ ClosePhantomStakeV2(s)
  BY <1>1, BackedStep DEF CloseStakeV2, ClosePhantomStakeV2, Backed
<1>2. ASSUME NEW executor \in Executors, SetStakeExecutorV2(s, executor) PROVE VaultsBack'
  <2> DEFINE v == [stake[s] EXCEPT !.executor = executor]
  <2>1. stake[s] # None /\ stake[s] \in StakeRecord
    BY <1>2, TouchedType DEF SetStakeExecutorV2
  <2>2. stake' = [stake EXCEPT ![s] = v]
    BY <1>2, Rest DEF SetStakeExecutorV2
  <2>3. s \in Phantoms \/ Backed(v)
    BY <2>1 DEF VaultsBack, Backed, StakeRecord
  <2> HIDE DEF v
  <2> QED BY <2>2, <2>3, BackedStep
<1> QED BY <1>1, <1>2

\* Every step keeps the vaults of canonical stakes full.
LEMMA NextBacked == TypeOK /\ VaultsBack /\ [Next]_vars => VaultsBack'
<1> SUFFICES ASSUME TypeOK, VaultsBack, [Next]_vars PROVE VaultsBack'
  OBVIOUS
<1>1. ASSUME stake' = stake PROVE VaultsBack'
  BY <1>1 DEF VaultsBack, Backed
<1>2. CASE Tick \/ UNCHANGED vars
  BY <1>1, <1>2 DEF Tick, vars
<1>3. ASSUME NEW s \in Stakes,
             \/ \E amount \in DepositAmounts, lock \in Locks, executor \in Executors :
                  DepositV2(s, amount, lock, executor)
             \/ \E amount \in DepositAmounts : TopUpStakeV2(s, amount)
      PROVE  VaultsBack'
  BY <1>3, DepositsBacked
<1>4. ASSUME NEW s \in Stakes,
             \/ \E amount \in WithdrawAmounts : WithdrawV2(s, amount)
             \/ \E amount \in ClaimAmounts : ClaimYieldV2(s, amount)
             \/ \E amount \in Donations : Donate(s, amount)
             \/ \E signer \in Executors \cup Authorities : CompoundYieldV2(signer, s)
             \/ \E source \in Stakes : MergeStakeV2(s, source)
      PROVE  VaultsBack'
  BY <1>4, PaymentsBacked, CompoundBacked, MergeBacked
<1>5. ASSUME NEW s \in Stakes,
             \/ \E executor \in Executors : SetStakeExecutorV2(s, executor)
             \/ CloseStakeV2(s) \/ StakeNft(s) \/ UnstakeNft(s)
             \/ MigrateStakeWeight(s) \/ ReconcileStakeV2(s) \/ ClosePhantomStakeV2(s)
      PROVE  VaultsBack'
  BY <1>5, ReweighingBacked, ReconcileBacked, RestBacked
<1>6. ASSUME NEW a \in Authorities,
             \/ \E amount \in WithdrawAmounts : Withdraw(a, amount)
             \/ \E amount \in ClaimAmounts : ClaimYield(a, amount)
      PROVE  VaultsBack'
  BY <1>1, <1>6 DEF Withdraw, ClaimYield
<1>7. CASE (\E total_godl \in BuryAmounts : Bury(total_godl))
           \/ \E amount \in BuryTokensAmounts : BuryTokens(amount)
  BY <1>1, <1>7 DEF Bury, BuryTokens, Distribute
<1>8. CASE ReadTreasury \/ ListStakes \/ ListLegacyStakes \/ RereadTreasury
           \/ RebaseMismatch \/ RebaseTotalStaked
  BY <1>1, <1>8 DEF ReadTreasury, ListStakes, ListLegacyStakes, RereadTreasury,
     RebaseMismatch, RebaseTotalStaked, AuditStep
<1> QED BY <1>2, <1>3, <1>4, <1>5, <1>6, <1>7, <1>8 DEF Next
-----------------------------------------------------------------------------
(* Theorems *)

\* The initial states have their types.
LEMMA TypesInit == Init => TypeOK
<1> SUFFICES ASSUME Init PROVE TypeOK
  OBVIOUS
<1>1. stake \in [Stakes -> Account] /\ stake_v1 \in [Authorities -> AccountV1]
  BY GenesisAssumption DEF Init, Account, AccountV1
<1>2. UnitsV2 \in Nat /\ UnitsV1 \in Nat
  <2> DEFINE w == [s \in Stakes |-> WeightOf(stake[s])]
             w1 == [a \in Authorities |-> WeightOfV1(stake_v1[a])]
  <2>1. NumStakes \in Nat /\ NumAuthorities \in Nat
    BY PartiesAssumption
  <2>2. \A i \in 1 .. NumStakes : w[i] \in Nat
    BY <1>1, WeightOfNat DEF Stakes
  <2>3. \A i \in 1 .. NumAuthorities : w1[i] \in Nat
    BY <1>1, WeightOfNat DEF Authorities
  <2> HIDE DEF w, w1
  <2>4. Sum(w, NumStakes) \in Nat /\ Sum(w1, NumAuthorities) \in Nat
    BY <2>1, <2>2, <2>3, SumNat
  <2> QED BY <2>4, TotalsAre DEF TotalOf, TotalOfV1, w, w1
<1>3. UnitsV2 + UnitsV1 + GenesisDrift \in Nat /\ OtherTokens \in Nat
  BY <1>2, GenesisAssumption, AmountsAssumption
<1>4. treasury \in TreasuryRecord
  BY <1>3 DEF Init, TreasuryRecord
<1>5. now \in 0 .. MaxTime /\ wallet \in [Authorities -> Nat] /\ assets \in Nat
  BY AmountsAssumption DEF Init
<1>6. audit \in AuditRecord
  BY AmountsAssumption DEF Init, AuditRecord, Steps
<1>7. owed \in Int /\ taken \in Nat
  BY DEF Init
<1> QED BY <1>1, <1>4, <1>5, <1>6, <1>7 DEF TypeOK, Account, AccountV1

\* Every step keeps the types, and the drift unless it is the rebase.
LEMMA NextKeeps ==
  TypeOK /\ [Next]_vars => TypeOK' /\ (Drift' = Drift \/ RebaseTotalStaked)
<1> SUFFICES ASSUME TypeOK, [Next]_vars
             PROVE  Keeps \/ (TypeOK' /\ RebaseTotalStaked)
  BY DEF Keeps
<1>1. CASE Tick
  BY <1>1, TickStep
<1>2. ASSUME NEW s \in Stakes, NEW amount \in DepositAmounts, NEW lock \in Locks,
             NEW executor \in Executors, DepositV2(s, amount, lock, executor)
      PROVE  Keeps
  BY <1>2, DepositV2Step
<1>3. ASSUME NEW s \in Stakes,
             \/ \E amount \in DepositAmounts : TopUpStakeV2(s, amount)
             \/ \E amount \in WithdrawAmounts : WithdrawV2(s, amount)
             \/ \E amount \in ClaimAmounts : ClaimYieldV2(s, amount)
             \/ \E signer \in Executors \cup Authorities : CompoundYieldV2(signer, s)
             \/ \E source \in Stakes : MergeStakeV2(s, source)
             \/ \E amount \in Donations : Donate(s, amount)
             \/ \E executor \in Executors : SetStakeExecutorV2(s, executor)
      PROVE  Keeps
  BY <1>3, TopUpStakeV2Step, WithdrawV2Step, ClaimYieldV2Step, CompoundYieldV2Step,
     MergeStakeV2Step, DonateStep, SetStakeExecutorV2Step
<1>4. ASSUME NEW s \in Stakes,
             \/ CloseStakeV2(s) \/ StakeNft(s) \/ UnstakeNft(s)
             \/ MigrateStakeWeight(s) \/ ReconcileStakeV2(s) \/ ClosePhantomStakeV2(s)
      PROVE  Keeps
  BY <1>4, CloseStakeV2Step, StakeNftStep, UnstakeNftStep, MigrateStakeWeightStep,
     ReconcileStakeV2Step, ClosePhantomStakeV2Step
<1>5. ASSUME NEW a \in Authorities,
             \/ \E amount \in WithdrawAmounts : Withdraw(a, amount)
             \/ \E amount \in ClaimAmounts : ClaimYield(a, amount)
      PROVE  Keeps
  BY <1>5, WithdrawStep, ClaimYieldStep
<1>6. ASSUME NEW total_godl \in BuryAmounts, Bury(total_godl) PROVE Keeps
  BY <1>6, BuryStep
<1>7. ASSUME NEW amount \in BuryTokensAmounts, BuryTokens(amount) PROVE Keeps
  BY <1>7, BuryTokensStep
<1>8. CASE ReadTreasury \/ ListStakes \/ ListLegacyStakes \/ RereadTreasury \/ RebaseMismatch
  BY <1>8, AuditSteps
<1>9. CASE RebaseTotalStaked
  BY <1>9, RebaseStep
<1>10. CASE UNCHANGED vars
  BY <1>10, Rest, IdleStep, Assemble DEF vars, Keeps
<1> QED BY <1>1, <1>2, <1>3, <1>4, <1>5, <1>6, <1>7, <1>8, <1>9, <1>10 DEF Next

\* Every account keeps its type: no balance, reward, vault or total of the
\* staking handlers is driven below zero.
THEOREM StakingTypes == Spec => []TypeOK
BY TypesInit, NextKeeps, PTL DEF Spec

\* No instruction but the rebase moves total_staked apart from the sum of the
\* weights (deposit, withdraw, migrate_weight, merge and the rest of
\* stake_v2.rs).
THEOREM WeightsAlwaysAddUp == Spec => WeightsAddUp
<1>1. TypeOK /\ [Next]_vars => [Drift' = Drift \/ RebaseTotalStaked]_vars
  BY NextKeeps
<1>2. TypeOK /\ [Next]_vars => TypeOK'
  BY NextKeeps
<1> QED BY TypesInit, <1>1, <1>2, PTL DEF Spec, WeightsAddUp
-----------------------------------------------------------------------------
(* Exit *)

\* The canonical stakes of the initial state are backed; only phantoms are not
\* (the safety checks that end every handler).
GenesisBacked == \A s \in Stakes \ Phantoms : Backed(Genesis[s])

\* The total never falls below the sum, unless a rebase writes a wrong one.
ExitInv ==
    /\ TypeOK
    /\ VaultsBack
    /\ Drift >= 0

\* One weight is a part of the sum.
LEMMA WeightWithinTotal ==
  ASSUME TypeOK, NEW s \in Stakes, stake[s] # None
  PROVE  weighted_units(stake[s]) <= UnitsV2
<1> DEFINE g == [stake EXCEPT ![s] = None]
<1>1. stake \in [Stakes -> Account] /\ None \in Account
  BY Rest DEF Account
<1>2. g \in [Stakes -> Account] /\ TotalOf(g) = TotalOf(stake) + WeightOf(None) - WeightOf(stake[s])
  BY <1>1, TotalUpdate
<1> HIDE DEF g
<1>3. TotalOf(g) \in Nat /\ TotalOf(stake) \in Nat
  BY <1>1, <1>2, TotalUpdate
<1>4. /\ WeightOf(None) = 0 /\ WeightOf(stake[s]) = weighted_units(stake[s])
      /\ weighted_units(stake[s]) \in Nat
  BY TouchedType, WeightNat DEF WeightOf
<1>5. UnitsV2 = TotalOf(stake)
  BY TotalsAre
<1> QED BY <1>2, <1>3, <1>4, <1>5

\* The initial states satisfy the invariant.
LEMMA ExitInit == ASSUME GenesisBacked PROVE Init => ExitInv
<1> SUFFICES ASSUME Init PROVE ExitInv
  OBVIOUS
<1>1. TypeOK
  BY TypesInit
<1>2. VaultsBack
  BY DEF Init, VaultsBack, GenesisBacked
<1>3. Drift >= 0
  BY <1>1, TotalsNat, GenesisAssumption DEF Init, Drift
<1> QED BY <1>1, <1>2, <1>3 DEF ExitInv

\* A rebase changes something, so a step formula about it says what it says.
LEMMA RebaseMoves ==
  ASSUME TypeOK, RebaseTotalStaked PROVE ~ UNCHANGED vars
<1>1. audit.step = "send" /\ audit'.step = "done"
  BY Rest DEF RebaseTotalStaked, AuditRecord
<1> QED BY <1>1 DEF vars

\* The total stays above the sum when a rebase writes the true one.
LEMMA DriftStays ==
  ASSUME TypeOK, Drift >= 0, [Next]_vars, [RebaseTotalStaked => Drift' = 0]_vars
  PROVE  TypeOK' /\ Drift' >= 0
<1>1. TypeOK' /\ (Drift' = Drift \/ RebaseTotalStaked)
  BY NextKeeps
<1>2. RebaseTotalStaked => Drift' = 0
  BY RebaseMoves
<1> QED BY <1>1, <1>2

\* Every step keeps the invariant.
LEMMA ExitNext ==
  ExitInv /\ [Next]_vars /\ [RebaseTotalStaked => Drift' = 0]_vars => ExitInv'
<1> SUFFICES ASSUME ExitInv, [Next]_vars, [RebaseTotalStaked => Drift' = 0]_vars
             PROVE  ExitInv'
  OBVIOUS
<1>1. TypeOK' /\ Drift' >= 0
  BY DriftStays DEF ExitInv
<1>2. VaultsBack'
  BY NextBacked DEF ExitInv
<1> QED BY <1>1, <1>2 DEF ExitInv

\* As long as the admin's rebase writes the true total, every canonical stake can
\* be withdrawn in full once its lock has passed: the vault holds the balance
\* and the checked subtraction of withdraw (stake_v2.rs:191) cannot fail.
THEOREM ExitStaysOpen ==
  ASSUME GenesisBacked
  PROVE  Spec /\ RebaseClearsDrift => []ExitIsOpen
<1>1. ExitInv => ExitIsOpen
  <2> SUFFICES ASSUME ExitInv, NEW s \in Stakes, Canonical(s)
               PROVE  /\ stake[s].tokens >= stake[s].balance
                      /\ treasury.total_staked >= weighted_units(stake[s])
    BY DEF ExitIsOpen
  <2>1. TypeOK /\ s \notin Phantoms /\ stake[s] # None
    BY DEF ExitInv, Canonical
  <2>2. stake[s].tokens >= stake[s].balance
    BY <2>1 DEF ExitInv, VaultsBack, Backed
  <2>3. weighted_units(stake[s]) \in Nat
    BY <2>1, TouchedType, WeightNat
  <2>4. treasury.total_staked >= weighted_units(stake[s])
    BY <2>1, <2>3, WeightWithinTotal, TotalsNat, TreasuryTypes DEF ExitInv, Drift
  <2> QED BY <2>2, <2>4
<1>2. Init => ExitInv
  BY ExitInit
<1>3. ExitInv /\ [Next]_vars /\ [RebaseTotalStaked => Drift' = 0]_vars => ExitInv'
  BY ExitNext
<1> QED BY <1>1, <1>2, <1>3, PTL DEF Spec, RebaseClearsDrift
-----------------------------------------------------------------------------
(* Commitments *)

\* What an account holds under a lock that lasts until t or longer.
Held(v, t) == IF v # None /\ UnlockAt(v) >= t THEN v.balance ELSE 0

\* No canonical stake started in the future (created_at is a clock's value).
Started == \A s \in Stakes \ Phantoms : stake[s] # None => stake[s].created_at <= now

\* An account may become w from v: what was locked beyond the present stays so.
LockKept(v, w) ==
    /\ w # None => w.created_at <= now
    /\ \A t \in Nat : t > now => Held(w, t) >= Held(v, t)

\* No commitment shrinks.
Committed ==
    \A a \in Authorities : \A t \in Nat :
        t > now' => CommittedUntil(a, t)' >= CommittedUntil(a, t)

HeldBy(a, t) ==
    [s \in Stakes |-> IF Owner[s] = a /\ s \notin Phantoms THEN Held(stake[s], t) ELSE 0]

LEMMA HeldNat == ASSUME NEW v \in Account, NEW t \in Nat PROVE Held(v, t) \in Nat
BY DEF Held, Account, StakeRecord

\* A commitment is the sum of what the owner's canonical stakes hold.
LEMMA CommittedIs ==
  ASSUME TypeOK, NEW a \in Authorities, NEW t \in Nat
  PROVE  /\ CommittedUntil(a, t) = Sum(HeldBy(a, t), NumStakes)
         /\ \A s \in 1 .. NumStakes : HeldBy(a, t)[s] \in Nat
         /\ Sum(HeldBy(a, t), NumStakes) \in Nat
<1> DEFINE f == [s \in Stakes |-> IF Owner[s] = a /\ Canonical(s) /\ UnlockAt(stake[s]) >= t
                                  THEN stake[s].balance ELSE 0]
<1>1. f = HeldBy(a, t)
  BY DEF HeldBy, Held, Canonical
<1>2. CommittedUntil(a, t) = Sum(f, NumStakes)
  BY DEF CommittedUntil
<1>3. \A s \in 1 .. NumStakes : HeldBy(a, t)[s] \in Nat
  <2> SUFFICES ASSUME NEW s \in Stakes PROVE HeldBy(a, t)[s] \in Nat
    BY DEF Stakes
  <2>1. Held(stake[s], t) \in Nat
    BY Rest, HeldNat
  <2> QED BY <2>1 DEF HeldBy
<1>4. Sum(HeldBy(a, t), NumStakes) \in Nat
  BY <1>3, PartiesAssumption, SumNat
<1> QED BY <1>1, <1>2, <1>3, <1>4

\* The same after a step.
LEMMA HeldNext ==
  ASSUME NEW a, NEW t
  PROVE  CommittedUntil(a, t)' = Sum([s \in Stakes |->
             IF Owner[s] = a /\ s \notin Phantoms THEN Held(stake'[s], t) ELSE 0], NumStakes)
<1> DEFINE h == [s \in Stakes |->
                  IF Owner[s] = a /\ (s \notin Phantoms /\ stake'[s] # None)
                       /\ UnlockAt(stake'[s]) >= t
                  THEN stake'[s].balance ELSE 0]
           g == [s \in Stakes |->
                  IF Owner[s] = a /\ s \notin Phantoms THEN Held(stake'[s], t) ELSE 0]
<1>1. h = g
  BY DEF Held
<1>2. CommittedUntil(a, t)' = Sum(h, NumStakes)
  BY DEF CommittedUntil, Canonical, UnlockAt
<1> QED BY <1>1, <1>2

\* The accounts keep their locks one by one.
LEMMA LocksAddUp ==
  ASSUME TypeOK, TypeOK', now <= now',
         \A s \in Stakes \ Phantoms : \A t \in Nat :
            t > now' => Held(stake'[s], t) >= Held(stake[s], t)
  PROVE  Committed
<1> SUFFICES ASSUME NEW a \in Authorities, NEW t \in Nat, t > now'
             PROVE  CommittedUntil(a, t)' >= CommittedUntil(a, t)
  BY DEF Committed
<1> DEFINE f == HeldBy(a, t)
           g == [s \in Stakes |-> IF Owner[s] = a /\ s \notin Phantoms
                                  THEN Held(stake'[s], t) ELSE 0]
<1>1. CommittedUntil(a, t) = Sum(f, NumStakes) /\ Sum(f, NumStakes) \in Nat
  BY CommittedIs
<1>2. CommittedUntil(a, t)' = Sum(g, NumStakes)
  BY HeldNext
<1>3. \A i \in 1 .. NumStakes : f[i] \in Nat /\ g[i] \in Nat /\ f[i] <= g[i]
  <2> SUFFICES ASSUME NEW s \in Stakes PROVE f[s] \in Nat /\ g[s] \in Nat /\ f[s] <= g[s]
    BY DEF Stakes
  <2>1. stake[s] \in Account /\ stake'[s] \in Account
    BY DEF TypeOK, Account
  <2>2. Held(stake[s], t) \in Nat /\ Held(stake'[s], t) \in Nat
    BY <2>1, HeldNat
  <2> QED BY <2>2 DEF HeldBy
<1>4. NumStakes \in Nat
  BY PartiesAssumption
<1> HIDE DEF f, g
<1>5. Sum(f, NumStakes) <= Sum(g, NumStakes) /\ Sum(g, NumStakes) \in Nat
  BY <1>3, <1>4, SumMonotone, SumNat
<1> QED BY <1>1, <1>2, <1>5

\* The same lock and no less balance.
LEMMA SameLock ==
  ASSUME NEW v \in StakeRecord, NEW w \in StakeRecord, now \in Nat,
         w.created_at = v.created_at, w.lock_duration = v.lock_duration,
         w.balance >= v.balance, v.created_at <= now
  PROVE  LockKept(v, w)
<1>1. v # None /\ w # None
  BY GenesisAssumption
<1>2. v.balance \in Nat /\ w.balance \in Nat
  BY DEF StakeRecord
<1> QED BY <1>1, <1>2 DEF LockKept, Held, UnlockAt

\* One account changes to one that keeps its lock.
LEMMA LockStep ==
  ASSUME TypeOK, TypeOK', Started, now' = now, NEW s \in Stakes, NEW v,
         stake' = [stake EXCEPT ![s] = v], s \in Phantoms \/ LockKept(stake[s], v)
  PROVE  Started' /\ Committed
<1>1. \A u \in Stakes : stake'[u] = IF u = s THEN v ELSE stake[u]
  BY Rest
<1>2. Started'
  BY <1>1 DEF Started, LockKept
<1>3. ASSUME NEW u \in Stakes \ Phantoms, NEW t \in Nat, t > now'
      PROVE  Held(stake'[u], t) >= Held(stake[u], t)
  <2>1. CASE u = s
    BY <1>1, <1>3, <2>1 DEF LockKept
  <2>2. CASE u # s
    <3>1. Held(stake[u], t) \in Nat
      BY Rest, HeldNat
    <3> QED BY <1>1, <2>2, <3>1
  <2> QED BY <2>1, <2>2
<1>4. now <= now'
  BY Rest
<1> QED BY <1>2, <1>3, <1>4, LocksAddUp

\* A handler stores a stake that keeps its lock.
LEMMA StoreLock ==
  ASSUME TypeOK, TypeOK', Started, now' = now, NEW s \in Stakes, NEW new \in StakeRecord,
         NEW tokens \in Int, NEW total, Store(s, new, tokens, total),
         s \in Phantoms \/ LockKept(stake[s], new)
  PROVE  Started' /\ Committed
<1> DEFINE v == [new EXCEPT !.tokens = tokens]
<1>1. /\ v.created_at = new.created_at /\ v.lock_duration = new.lock_duration
      /\ v.balance = new.balance /\ v \in StakeRecord
  BY DEF Store, StakeRecord
<1>2. stake' = [stake EXCEPT ![s] = v] /\ new # None
  BY GenesisAssumption DEF Store
<1> HIDE DEF v
<1>3. v # None
  BY <1>1, GenesisAssumption
<1>4. s \notin Phantoms => v.created_at <= now
  BY <1>1, <1>2 DEF LockKept
<1>5. ASSUME NEW t \in Nat, t > now, s \notin Phantoms
      PROVE  Held(v, t) >= Held(stake[s], t)
  <2>1. Held(new, t) >= Held(stake[s], t)
    BY <1>5 DEF LockKept
  <2>2. Held(v, t) = Held(new, t)
    BY <1>1, <1>2, <1>3 DEF Held, UnlockAt
  <2> QED BY <2>1, <2>2
<1>6. s \in Phantoms \/ LockKept(stake[s], v)
  BY <1>4, <1>5 DEF LockKept
<1> QED BY <1>2, <1>6, LockStep
\* A deposit keeps the terms of the stake it fills.
LEMMA DepositedTerms ==
  ASSUME TypeOK, NEW st \in StakeRecord, NEW amount \in Nat
  PROVE  /\ Deposited(st, amount) \in StakeRecord
         /\ Deposited(st, amount).balance = st.balance + amount
         /\ Deposited(st, amount).created_at = st.created_at
         /\ Deposited(st, amount).lock_duration = st.lock_duration
         /\ Deposited(st, amount).tokens = st.tokens
<1> DEFINE u == update_rewards(st)
           b == u.balance + amount
<1>1. u \in StakeRecord /\ SameTerms(u, st)
  BY SettledType
<1>2. Deposited(st, amount) = [u EXCEPT !.balance = b]
  BY DEF Deposited
<1> HIDE DEF u, b
<1>3. /\ Deposited(st, amount).created_at = u.created_at
      /\ Deposited(st, amount).lock_duration = u.lock_duration
  BY <1>1, <1>2 DEF StakeRecord
<1> QED BY <1>1, <1>3, DepositedType DEF SameTerms

\* A new stake starts now; a top-up starts its whole balance anew.
LEMMA DepositsLock ==
  ASSUME TypeOK, TypeOK', Started, NEW s \in Stakes, NEW amount \in DepositAmounts
  PROVE  /\ \A lock \in Locks, executor \in Executors :
               DepositV2(s, amount, lock, executor) => Started' /\ Committed
         /\ TopUpStakeV2(s, amount) => Started' /\ Committed
<1>1. amount \in Nat /\ now \in Nat
  BY AmountTypes, Rest
<1>2. ASSUME NEW lock \in Locks, NEW executor \in Executors,
             DepositV2(s, amount, lock, executor)
      PROVE  Started' /\ Committed
  <2> DEFINE fresh == NewStake(lock, executor)
             new == Deposited(fresh, amount)
             total == Reweighed(treasury.total_staked, fresh, new)
  <2>1. lock \in Nat
    BY AmountTypes
  <2>2. fresh \in StakeRecord /\ fresh.created_at = now
    BY <2>1, MultiplierNat, Rest, TreasuryTypes DEF NewStake, StakeRecord
  <2>3. Store(s, new, amount, total) /\ stake[s] = None /\ now' = now
    BY <1>2 DEF DepositV2
  <2> HIDE DEF fresh
  <2>4. new \in StakeRecord /\ new.created_at = now
    BY <1>1, <2>2, DepositedTerms
  <2> HIDE DEF new, total
  <2>5. LockKept(stake[s], new)
    <3>1. \A t \in Nat : Held(new, t) \in Nat
      BY <2>4, HeldNat DEF Account
    <3> QED BY <1>1, <2>3, <2>4, <3>1 DEF LockKept, Held
  <2> QED BY <1>1, <2>3, <2>4, <2>5, StoreLock
<1>3. ASSUME TopUpStakeV2(s, amount) PROVE Started' /\ Committed
  <2> DEFINE new == Deposited(Touched(s), amount)
             restarted == [new EXCEPT !.created_at = now]
             total == Reweighed(treasury.total_staked, stake[s], new)
  <2>1. /\ Store(s, restarted, new.tokens + amount, total) /\ Canonical(s) /\ now' = now
    BY <1>3 DEF TopUpStakeV2
  <2>2. /\ stake[s] \in StakeRecord /\ Touched(s) \in StakeRecord
        /\ SameTerms(Touched(s), stake[s])
    BY <2>1, TouchedType DEF Canonical
  <2>3. /\ new \in StakeRecord /\ new.balance = stake[s].balance + amount
        /\ new.lock_duration = stake[s].lock_duration /\ new.tokens \in Int
    <3>1. /\ new \in StakeRecord /\ new.balance = Touched(s).balance + amount
          /\ new.lock_duration = Touched(s).lock_duration
      BY <1>1, <2>2, DepositedTerms
    <3> HIDE DEF new
    <3> QED BY <2>2, <3>1 DEF SameTerms, StakeRecord
  <2> HIDE DEF new, total
  <2>4. /\ restarted \in StakeRecord /\ restarted.balance = new.balance
        /\ restarted.lock_duration = new.lock_duration /\ restarted.created_at = now
    BY <1>1, <2>3 DEF StakeRecord
  <2> HIDE DEF restarted
  <2>5. /\ stake[s].created_at \in Nat /\ stake[s].lock_duration \in Nat
        /\ stake[s].balance \in Nat
    BY <2>2 DEF StakeRecord
  <2>6. stake[s].created_at <= now
    BY <2>1 DEF Canonical, Started
  <2>7. LockKept(stake[s], restarted)
    BY <1>1, <2>3, <2>4, <2>5, <2>6, GenesisAssumption DEF LockKept, Held, UnlockAt
  <2>8. new.tokens + amount \in Int
    BY <1>1, <2>3
  <2> QED BY <2>1, <2>4, <2>7, <2>8, StoreLock
<1> QED BY <1>2, <1>3

\* Only what is unlocked is withdrawn, claims and donations leave the balance.
LEMMA PaymentsLock ==
  ASSUME TypeOK, TypeOK', Started, NEW s \in Stakes
  PROVE  /\ \A amount \in WithdrawAmounts : WithdrawV2(s, amount) => Started' /\ Committed
         /\ \A amount \in ClaimAmounts : ClaimYieldV2(s, amount) => Started' /\ Committed
         /\ \A amount \in Donations : Donate(s, amount) => Started' /\ Committed
<1>0. now \in Nat
  BY Rest
<1>1. ASSUME NEW amount \in WithdrawAmounts, WithdrawV2(s, amount)
      PROVE  Started' /\ Committed
  <2> DEFINE out == AtMost(stake[s].balance, amount)
             u == update_rewards(Touched(s))
             new == Withdrawn(Touched(s), out)
             total == Reweighed(treasury.total_staked, stake[s], new)
  <2>1. Canonical(s) /\ Unlocked(stake[s]) /\ now' = now
    BY <1>1 DEF WithdrawV2
  <2>2. /\ stake[s] \in StakeRecord /\ Touched(s) \in StakeRecord
        /\ SameTerms(Touched(s), stake[s])
    BY <2>1, TouchedType DEF Canonical
  <2>3. out \in Nat /\ out <= Touched(s).balance
    BY <2>2, AmountTypes DEF AtMost, StakeRecord, SameTerms
  <2>4. Store(s, new, new.tokens - out, total)
    BY <1>1 DEF WithdrawV2
  <2> HIDE DEF out
  <2>5. new \in StakeRecord /\ new.tokens \in Int
    BY <2>2, <2>3, WithdrawnType DEF StakeRecord
  <2>6. new.created_at = u.created_at /\ u \in StakeRecord /\ SameTerms(u, Touched(s))
    BY <2>2, SettledType DEF Withdrawn, StakeRecord
  <2> HIDE DEF new, u, total
  <2>7. new.created_at = stake[s].created_at
    BY <2>2, <2>6 DEF SameTerms
  <2>8. LockKept(stake[s], new)
    <3>1. \A t \in Nat : Held(new, t) \in Nat
      BY <2>5, HeldNat DEF Account
    <3>2. UnlockAt(stake[s]) \in Nat /\ UnlockAt(stake[s]) <= now
      BY <2>1, <2>2 DEF Unlocked, UnlockAt, StakeRecord
    <3>3. stake[s].created_at <= now
      BY <2>1 DEF Canonical, Started
    <3> QED BY <1>0, <2>7, <3>1, <3>2, <3>3 DEF LockKept, Held
  <2>9. new.tokens - out \in Int
    BY <2>3, <2>5
  <2> QED BY <2>1, <2>4, <2>5, <2>8, <2>9, StoreLock
<1>2. ASSUME NEW amount \in ClaimAmounts, ClaimYieldV2(s, amount) PROVE Started' /\ Committed
  <2> DEFINE settled == update_rewards(stake[s])
             out == Claimable(settled, amount)
             v == Claimed(settled, out)
  <2>1. Canonical(s) /\ stake[s] \in StakeRecord /\ now' = now
    BY <1>2, TouchedType DEF ClaimYieldV2, Canonical
  <2>2. settled \in StakeRecord /\ SameTerms(settled, stake[s])
    BY <2>1, SettledType
  <2>3. stake' = [stake EXCEPT ![s] = v]
    BY <1>2 DEF ClaimYieldV2
  <2> HIDE DEF settled
  <2>4. out \in Nat /\ out <= settled.rewards
    <3>1. settled.rewards \in Nat BY <2>2 DEF StakeRecord
    <3>2. amount \in Nat BY AmountTypes
    <3> QED BY <3>1, <3>2, ClaimableBound
  <2> HIDE DEF out
  <2>5. v \in StakeRecord /\ SameTerms(v, settled)
    BY <2>2, <2>4, ClaimedType
  <2> HIDE DEF v
  <2>6. stake[s].created_at <= now /\ stake[s].balance \in Nat
    BY <2>1 DEF Canonical, Started, StakeRecord
  <2>7. /\ v.created_at = stake[s].created_at /\ v.lock_duration = stake[s].lock_duration
        /\ v.balance >= stake[s].balance
    BY <2>2, <2>5, <2>6 DEF SameTerms
  <2>8. LockKept(stake[s], v)
    BY <1>0, <2>1, <2>5, <2>6, <2>7, SameLock
  <2> QED BY <2>1, <2>3, <2>8, LockStep
<1>3. ASSUME NEW amount \in Donations, Donate(s, amount) PROVE Started' /\ Committed
  <2> DEFINE t == stake[s].tokens + amount
             v == [stake[s] EXCEPT !.tokens = t]
  <2>1. stake[s] # None /\ stake[s] \in StakeRecord /\ amount \in Nat /\ now' = now
    BY <1>3, AmountTypes, TouchedType DEF Donate
  <2>2. stake' = [stake EXCEPT ![s] = v]
    BY <1>3, Rest DEF Donate
  <2>3. t \in Nat
    BY <2>1 DEF StakeRecord
  <2> HIDE DEF t
  <2>4. /\ v \in StakeRecord /\ v.balance >= stake[s].balance
        /\ v.created_at = stake[s].created_at /\ v.lock_duration = stake[s].lock_duration
    BY <2>1, <2>3 DEF StakeRecord
  <2> HIDE DEF v
  <2>5. s \in Phantoms \/ LockKept(stake[s], v)
    BY <1>0, <2>1, <2>4, SameLock DEF Started
  <2> QED BY <2>1, <2>2, <2>5, LockStep
<1> QED BY <1>1, <1>2, <1>3

LEMMA CompoundLock ==
  ASSUME TypeOK, TypeOK', Started, NEW s \in Stakes, NEW signer, CompoundYieldV2(signer, s)
  PROVE  Started' /\ Committed
<1> DEFINE settled == update_rewards(Touched(s))
           out == settled.rewards
           amount == out - Burnt(out)
           claimed == Claimed(settled, out)
           new == Deposited(claimed, amount)
           v == [new EXCEPT !.tokens = @ + amount]
<1>1. /\ Canonical(s) /\ Touched(s) \in StakeRecord /\ stake[s] \in StakeRecord
      /\ SameTerms(Touched(s), stake[s]) /\ now' = now /\ now \in Nat
  BY TouchedType, Rest DEF CompoundYieldV2, Canonical
<1>2. settled \in StakeRecord /\ out \in Nat /\ SameTerms(settled, Touched(s))
  BY <1>1, SettledType DEF StakeRecord
<1>3. stake' = [stake EXCEPT ![s] = v]
  BY DEF CompoundYieldV2
<1>4. claimed \in StakeRecord /\ SameTerms(claimed, settled)
  <2> HIDE DEF settled
  <2> QED BY <1>2, ClaimedType
<1>5. amount \in Nat
  <2> HIDE DEF settled, out
  <2>1. out \in Nat BY <1>2 DEF out
  <2> QED BY <2>1, BurntBound
<1> HIDE DEF settled, out, claimed, amount
<1>6. /\ new \in StakeRecord /\ new.balance = claimed.balance + amount
      /\ new.created_at = claimed.created_at /\ new.lock_duration = claimed.lock_duration
  BY <1>4, <1>5, DepositedTerms
<1> HIDE DEF new
<1>7. /\ v \in StakeRecord /\ v.balance = new.balance
      /\ v.created_at = new.created_at /\ v.lock_duration = new.lock_duration
  BY <1>5, <1>6 DEF StakeRecord
<1> HIDE DEF v
<1>8. stake[s].created_at <= now /\ stake[s].balance \in Nat
  BY <1>1 DEF Canonical, Started, StakeRecord
<1>9. /\ v.created_at = stake[s].created_at /\ v.lock_duration = stake[s].lock_duration
      /\ v.balance >= stake[s].balance
  BY <1>1, <1>2, <1>4, <1>5, <1>6, <1>7, <1>8 DEF SameTerms
<1>10. LockKept(stake[s], v)
  BY <1>1, <1>7, <1>8, <1>9, SameLock
<1> QED BY <1>1, <1>3, <1>10, LockStep

\* Two accounts in one: the target takes over what the source holds, on terms
\* that last as long as both.
LEMMA TwoInOne ==
  ASSUME TypeOK, TypeOK', NEW target \in Stakes \ Phantoms, NEW source \in Stakes \ Phantoms,
         target # source, Owner[target] = Owner[source], now' = now,
         stake'[source] = None,
         \A s \in Stakes \ {target, source} : stake'[s] = stake[s],
         \A t \in Nat : t > now =>
           Held(stake'[target], t) >= Held(stake[target], t) + Held(stake[source], t)
  PROVE  Committed
<1> SUFFICES ASSUME NEW a \in Authorities, NEW t \in Nat, t > now
             PROVE  CommittedUntil(a, t)' >= CommittedUntil(a, t)
  BY DEF Committed
<1> DEFINE f == HeldBy(a, t)
           g == [s \in Stakes |-> IF Owner[s] = a /\ s \notin Phantoms
                                  THEN Held(stake'[s], t) ELSE 0]
           h == [f EXCEPT ![source] = 0]
           k == [h EXCEPT ![target] = f[target] + f[source]]
<1>1. CommittedUntil(a, t) = Sum(f, NumStakes) /\ Sum(f, NumStakes) \in Nat
  BY CommittedIs
<1>2. CommittedUntil(a, t)' = Sum(g, NumStakes)
  BY HeldNext
<1>3. \A s \in Stakes : f[s] \in Nat /\ g[s] \in Nat
  <2> SUFFICES ASSUME NEW s \in Stakes PROVE f[s] \in Nat /\ g[s] \in Nat
    OBVIOUS
  <2>1. stake[s] \in Account /\ stake'[s] \in Account
    BY DEF TypeOK, Account
  <2>2. Held(stake[s], t) \in Nat /\ Held(stake'[s], t) \in Nat
    BY <2>1, HeldNat
  <2> QED BY <2>2 DEF HeldBy
<1>4. DOMAIN f = Stakes
  BY DEF HeldBy
<1>5. g[source] = 0 /\ g[target] >= f[target] + f[source]
  BY <1>3 DEF HeldBy, Held
<1>6. \A s \in Stakes \ {target, source} : g[s] = f[s]
  BY DEF HeldBy
<1> HIDE DEF f, g
<1>7. \A s \in Stakes : h[s] = IF s = source THEN 0 ELSE f[s]
  BY <1>4
<1>8. \A s \in Stakes : k[s] = IF s = target THEN f[target] + f[source]
                              ELSE IF s = source THEN 0 ELSE f[s]
  BY <1>4
<1> HIDE DEF h, k
<1>9. NumStakes \in Nat /\ target \in 1 .. NumStakes /\ source \in 1 .. NumStakes
  BY PartiesAssumption DEF Stakes
<1>10. \A s \in 1 .. NumStakes :
         /\ f[s] \in Nat /\ g[s] \in Nat /\ h[s] \in Nat /\ k[s] \in Nat /\ k[s] <= g[s]
         /\ (s # source => h[s] = f[s]) /\ (s # target => k[s] = h[s])
  <2> SUFFICES ASSUME NEW s \in Stakes
               PROVE  /\ f[s] \in Nat /\ g[s] \in Nat /\ h[s] \in Nat /\ k[s] \in Nat
                      /\ k[s] <= g[s]
                      /\ (s # source => h[s] = f[s]) /\ (s # target => k[s] = h[s])
    BY DEF Stakes
  <2>1. f[target] + f[source] \in Nat /\ f[s] \in Nat /\ g[s] \in Nat
    BY <1>3
  <2>2. h[s] \in Nat /\ k[s] \in Nat
    BY <1>7, <1>8, <2>1
  <2>3. k[s] <= g[s]
    BY <1>5, <1>6, <1>8, <2>1
  <2> QED BY <1>7, <1>8, <2>1, <2>2, <2>3
<1>11. h[source] = 0 /\ h[target] = f[target] /\ k[target] = f[target] + f[source]
  BY <1>7, <1>8
<1>12. Sum(h, NumStakes) = Sum(f, NumStakes) + h[source] - f[source]
  BY <1>9, <1>10, SumUpdate
<1>13. Sum(k, NumStakes) = Sum(h, NumStakes) + k[target] - h[target]
  BY <1>9, <1>10, SumUpdate
<1>14. Sum(k, NumStakes) <= Sum(g, NumStakes)
  BY <1>9, <1>10, SumMonotone
<1>15. Sum(k, NumStakes) = Sum(f, NumStakes)
  BY <1>1, <1>9, <1>10, <1>11, <1>12, <1>13
<1>16. Sum(g, NumStakes) \in Nat
  BY <1>9, <1>10, SumNat
<1> QED BY <1>1, <1>2, <1>14, <1>15, <1>16

\* A merge locks the sum for the longer of the two locks, from now on.
LEMMA MergeLock ==
  ASSUME TypeOK, TypeOK', Started, NEW target \in Stakes, NEW source \in Stakes,
         MergeStakeV2(target, source)
  PROVE  Started' /\ Committed
<1> DEFINE a == update_rewards(Touched(target))
           b == update_rewards(Touched(source))
           merged == Folded(a, b)
<1>1. /\ Canonical(target) /\ Canonical(source) /\ target # source
      /\ Owner[target] = Owner[source] /\ now' = now /\ now \in Nat
      /\ stake' = [stake EXCEPT ![target] = merged, ![source] = None]
  BY Rest DEF MergeStakeV2
<1>2. /\ stake[target] \in StakeRecord /\ a \in StakeRecord /\ SameTerms(a, stake[target])
      /\ stake[source] \in StakeRecord /\ b \in StakeRecord /\ SameTerms(b, stake[source])
  BY <1>1, TouchedType, SettledType DEF SameTerms, Canonical
<1> HIDE DEF a, b
<1>3. /\ merged.balance = a.balance + b.balance /\ merged.created_at = now
      /\ merged.lock_duration = MergedLock(a, b)
  BY <1>2 DEF Folded, StakeRecord
<1> HIDE DEF merged
<1>4. /\ stake'[target] = merged /\ stake'[source] = None
      /\ \A s \in Stakes \ {target, source} : stake'[s] = stake[s]
  BY <1>1, Rest
<1>5. Started'
  <2> SUFFICES ASSUME NEW s \in Stakes \ Phantoms, stake'[s] # None
               PROVE  stake'[s].created_at <= now'
    BY DEF Started
  <2>1. CASE s = target
    BY <1>1, <1>3, <1>4, <2>1
  <2>2. CASE s \notin {target, source}
    BY <1>1, <1>4, <2>2 DEF Started
  <2> QED BY <1>4, <2>1, <2>2
<1>6. /\ stake[target].created_at <= now /\ stake[source].created_at <= now
      /\ target \notin Phantoms /\ source \notin Phantoms
  BY <1>1 DEF Started, Canonical
<1>7. /\ a.balance = stake[target].balance /\ b.balance = stake[source].balance
      /\ a.lock_duration = stake[target].lock_duration
      /\ b.lock_duration = stake[source].lock_duration
      /\ a.balance \in Nat /\ b.balance \in Nat
      /\ a.lock_duration \in Nat /\ b.lock_duration \in Nat
      /\ stake[target].created_at \in Nat /\ stake[source].created_at \in Nat
  BY <1>2 DEF SameTerms, StakeRecord
<1>8. /\ merged.lock_duration \in Nat
      /\ merged.lock_duration >= a.lock_duration /\ merged.lock_duration >= b.lock_duration
  BY <1>3, <1>7 DEF MergedLock, AtLeast
<1>9. /\ UnlockAt(merged) >= UnlockAt(stake[target]) /\ UnlockAt(merged) \in Nat
      /\ UnlockAt(merged) >= UnlockAt(stake[source])
      /\ UnlockAt(stake[target]) \in Nat /\ UnlockAt(stake[source]) \in Nat
  BY <1>1, <1>3, <1>6, <1>7, <1>8 DEF UnlockAt
<1>10. merged # None
  <2>1. merged \in StakeRecord
    BY <1>2, FoldedType DEF merged
  <2> QED BY <2>1, GenesisAssumption
<1>11. ASSUME NEW t \in Nat, t > now
       PROVE  Held(merged, t) >= Held(stake[target], t) + Held(stake[source], t)
  BY <1>3, <1>7, <1>9, <1>10 DEF Held
<1>12. Committed
  BY <1>1, <1>4, <1>6, <1>11, TwoInOne
<1> QED BY <1>5, <1>12

\* The clock never runs backwards.
LEMMA ClockRuns == TypeOK /\ [Next]_vars => now' >= now
<1> SUFFICES ASSUME TypeOK, [Next]_vars PROVE now' >= now
  OBVIOUS
<1>1. now \in Nat
  BY Rest
<1>2. ASSUME NEW s \in Stakes,
             \/ \E amount \in DepositAmounts, lock \in Locks, executor \in Executors :
                  DepositV2(s, amount, lock, executor)
             \/ \E amount \in DepositAmounts : TopUpStakeV2(s, amount)
             \/ \E amount \in WithdrawAmounts : WithdrawV2(s, amount)
             \/ \E amount \in ClaimAmounts : ClaimYieldV2(s, amount)
             \/ \E amount \in Donations : Donate(s, amount)
      PROVE  now' = now
  BY <1>2 DEF DepositV2, TopUpStakeV2, WithdrawV2, ClaimYieldV2, Donate
<1>3. ASSUME NEW s \in Stakes,
             \/ \E signer \in Executors \cup Authorities : CompoundYieldV2(signer, s)
             \/ \E source \in Stakes : MergeStakeV2(s, source)
             \/ \E executor \in Executors : SetStakeExecutorV2(s, executor)
             \/ CloseStakeV2(s) \/ StakeNft(s) \/ UnstakeNft(s)
             \/ MigrateStakeWeight(s) \/ ReconcileStakeV2(s) \/ ClosePhantomStakeV2(s)
      PROVE  now' = now
  BY <1>3 DEF CompoundYieldV2, MergeStakeV2, SetStakeExecutorV2, CloseStakeV2, StakeNft,
     UnstakeNft, MigrateStakeWeight, ReconcileStakeV2, ClosePhantomStakeV2
<1>4. ASSUME NEW a \in Authorities,
             \/ \E amount \in WithdrawAmounts : Withdraw(a, amount)
             \/ \E amount \in ClaimAmounts : ClaimYield(a, amount)
      PROVE  now' = now
  BY <1>4 DEF Withdraw, ClaimYield
<1>5. ASSUME \/ \E total_godl \in BuryAmounts : Bury(total_godl)
             \/ \E amount \in BuryTokensAmounts : BuryTokens(amount)
      PROVE  now' = now
  BY <1>5 DEF Bury, BuryTokens, Distribute
<1>6. ASSUME \/ ReadTreasury \/ ListStakes \/ ListLegacyStakes \/ RereadTreasury
             \/ RebaseMismatch \/ RebaseTotalStaked
      PROVE  now' = now
  BY <1>6 DEF ReadTreasury, ListStakes, ListLegacyStakes, RereadTreasury, RebaseMismatch,
     RebaseTotalStaked, AuditStep
<1>7. Tick => now' = now + 1
  BY DEF Tick
<1>8. UNCHANGED vars => now' = now
  BY DEF vars
<1>9. now' = now \/ now' = now + 1
  BY <1>2, <1>3, <1>4, <1>5, <1>6, <1>7, <1>8 DEF Next
<1> QED BY <1>1, <1>9

\* Boosts and migrations leave balance and lock alone.
LEMMA ReweighingLock ==
  ASSUME TypeOK, TypeOK', Started, NEW s \in Stakes,
         StakeNft(s) \/ UnstakeNft(s) \/ MigrateStakeWeight(s)
  PROVE  Started' /\ Committed
<1> DEFINE u == update_rewards(Touched(s))
           Terms(v) == /\ v.balance = stake[s].balance /\ v.created_at = stake[s].created_at
                       /\ v.lock_duration = stake[s].lock_duration
<1>1. stake[s] # None /\ now' = now /\ now \in Nat
  BY Rest DEF StakeNft, UnstakeNft, MigrateStakeWeight, Canonical
<1>2. /\ stake[s] \in StakeRecord /\ Touched(s) \in StakeRecord /\ u \in StakeRecord
      /\ SameTerms(Touched(s), stake[s]) /\ SameTerms(u, Touched(s))
  BY <1>1, TouchedType, SettledType
<1>3. PICK new, tokens, total :
        new \in StakeRecord /\ tokens \in Int /\ Store(s, new, tokens, total) /\ Terms(new)
  <2>1. CASE StakeNft(s)
    <3> DEFINE new == stake_nft(Touched(s))
    <3>1. new = [u EXCEPT !.is_nft_staked = TRUE] BY DEF stake_nft
    <3>2. Store(s, new, new.tokens, Reweighed(treasury.total_staked, stake[s], new))
      BY <2>1 DEF StakeNft
    <3> HIDE DEF new, u
    <3>3. new \in StakeRecord
      BY <1>2, <3>1 DEF StakeRecord
    <3>4. /\ new.balance = u.balance /\ new.created_at = u.created_at
          /\ new.lock_duration = u.lock_duration
      BY <1>2, <3>1 DEF StakeRecord
    <3>5. new.tokens \in Int
      BY <3>3 DEF StakeRecord
    <3> QED BY <1>2, <3>2, <3>3, <3>4, <3>5 DEF SameTerms
  <2>2. CASE UnstakeNft(s)
    <3> DEFINE new == unstake_nft(Touched(s))
    <3>1. new = [u EXCEPT !.is_nft_staked = FALSE] BY DEF unstake_nft
    <3>2. Store(s, new, new.tokens, Reweighed(treasury.total_staked, stake[s], new))
      BY <2>2 DEF UnstakeNft
    <3> HIDE DEF new, u
    <3>3. new \in StakeRecord
      BY <1>2, <3>1 DEF StakeRecord
    <3>4. /\ new.balance = u.balance /\ new.created_at = u.created_at
          /\ new.lock_duration = u.lock_duration
      BY <1>2, <3>1 DEF StakeRecord
    <3>5. new.tokens \in Int
      BY <3>3 DEF StakeRecord
    <3> QED BY <1>2, <3>2, <3>3, <3>4, <3>5 DEF SameTerms
  <2>3. CASE MigrateStakeWeight(s)
    <3>1. Store(s, Touched(s), stake[s].tokens, TouchedTotal(s))
      BY <2>3 DEF MigrateStakeWeight
    <3>2. stake[s].tokens \in Int
      BY <1>2 DEF StakeRecord
    <3> QED BY <1>2, <3>1, <3>2 DEF SameTerms
  <2> QED BY <2>1, <2>2, <2>3
<1>4. stake[s].balance \in Nat /\ new.balance >= stake[s].balance
  BY <1>2, <1>3 DEF StakeRecord
<1>5. s \in Phantoms \/ LockKept(stake[s], new)
  BY <1>1, <1>2, <1>3, <1>4, SameLock DEF Started
<1> QED BY <1>1, <1>3, <1>5, StoreLock

\* A canonical stake is backed, so reconciling takes nothing from it.
LEMMA ReconcileLock ==
  ASSUME TypeOK, TypeOK', Started, VaultsBack, NEW s \in Stakes, ReconcileStakeV2(s)
  PROVE  Started' /\ Committed
<1> DEFINE gap == Unbacked(stake[s])
           u == update_rewards(stake[s])
           new == Withdrawn(stake[s], gap)
<1>1. stake[s] # None /\ stake[s] \in StakeRecord /\ now' = now /\ now \in Nat
  BY TouchedType, Rest DEF ReconcileStakeV2
<1>2. gap \in Nat /\ gap <= stake[s].balance
  BY <1>1 DEF Unbacked, Monus, StakeRecord
<1>3. s \in Phantoms \/ gap = 0
  BY <1>1 DEF Unbacked, Monus, StakeRecord, VaultsBack, Backed
<1>4. Store(s, new, new.tokens, Reweighed(treasury.total_staked, stake[s], new))
  BY DEF ReconcileStakeV2
<1> HIDE DEF gap
<1>5. /\ new \in StakeRecord /\ new.tokens = stake[s].tokens
      /\ new.balance = stake[s].balance - gap
  BY <1>1, <1>2, WithdrawnType
<1>6. u \in StakeRecord /\ SameTerms(u, stake[s])
  BY <1>1, SettledType
<1>7. new.created_at = u.created_at /\ new.lock_duration = u.lock_duration
  BY <1>6 DEF Withdrawn, StakeRecord
<1> HIDE DEF new, u
<1>8. stake[s].balance \in Nat /\ new.tokens \in Int
  BY <1>1, <1>5 DEF StakeRecord
<1>9. s \in Phantoms \/ LockKept(stake[s], new)
  <2> SUFFICES ASSUME s \notin Phantoms PROVE LockKept(stake[s], new)
    OBVIOUS
  <2>1. new.balance >= stake[s].balance
    BY <1>3, <1>5, <1>8
  <2>2. stake[s].created_at <= now
    BY <1>1 DEF Started
  <2> QED BY <1>1, <1>5, <1>6, <1>7, <2>1, <2>2, SameLock DEF SameTerms
<1> QED BY <1>1, <1>4, <1>5, <1>8, <1>9, StoreLock

\* Only empty stakes are closed.
LEMMA RestLock ==
  ASSUME TypeOK, TypeOK', Started, NEW s \in Stakes,
         \/ CloseStakeV2(s) \/ ClosePhantomStakeV2(s)
         \/ \E executor \in Executors : SetStakeExecutorV2(s, executor)
  PROVE  Started' /\ Committed
<1>0. now \in Nat
  BY Rest
<1>1. CASE CloseStakeV2(s)
  <2>1. /\ stake' = [stake EXCEPT ![s] = None] /\ now' = now
        /\ stake[s].balance = 0
    BY <1>1 DEF CloseStakeV2
  <2>2. LockKept(stake[s], None)
    BY <2>1 DEF LockKept, Held
  <2> QED BY <2>1, <2>2, LockStep
<1>2. CASE ClosePhantomStakeV2(s)
  BY <1>2, LockStep DEF ClosePhantomStakeV2
<1>3. ASSUME NEW executor \in Executors, SetStakeExecutorV2(s, executor)
      PROVE  Started' /\ Committed
  <2> DEFINE v == [stake[s] EXCEPT !.executor = executor]
  <2>1. stake[s] # None /\ stake[s] \in StakeRecord
    BY <1>3, TouchedType DEF SetStakeExecutorV2
  <2>2. stake' = [stake EXCEPT ![s] = v] /\ now' = now
    BY <1>3, Rest DEF SetStakeExecutorV2
  <2>3. /\ v \in StakeRecord /\ v.balance = stake[s].balance
        /\ v.created_at = stake[s].created_at /\ v.lock_duration = stake[s].lock_duration
        /\ stake[s].balance \in Nat
    BY <2>1 DEF StakeRecord
  <2> HIDE DEF v
  <2>4. s \in Phantoms \/ LockKept(stake[s], v)
    BY <1>0, <2>1, <2>3, SameLock DEF Started
  <2> QED BY <2>2, <2>4, LockStep
<1> QED BY <1>1, <1>2, <1>3

\* Every step keeps every commitment.
LEMMA NextLock ==
  TypeOK /\ VaultsBack /\ Started /\ [Next]_vars => Started' /\ Committed
<1> SUFFICES ASSUME TypeOK, VaultsBack, Started, [Next]_vars PROVE Started' /\ Committed
  OBVIOUS
<1>0. TypeOK'
  BY NextKeeps
<1>1. ASSUME stake' = stake, now' = now \/ now' = now + 1 PROVE Started' /\ Committed
  <2>1. now <= now' /\ now \in Nat
    BY <1>1, Rest
  <2>2. Started'
    <3> SUFFICES ASSUME NEW s \in Stakes \ Phantoms, stake'[s] # None
                 PROVE  stake'[s].created_at <= now'
      BY DEF Started
    <3>1. stake[s].created_at \in Nat /\ stake[s].created_at <= now
      BY <1>1, TouchedType DEF Started, StakeRecord
    <3> QED BY <1>1, <2>1, <3>1
  <2>3. \A s \in Stakes : \A t \in Nat : Held(stake[s], t) \in Nat
    BY Rest, HeldNat
  <2> QED BY <1>0, <1>1, <2>1, <2>2, <2>3, LocksAddUp
<1>2. CASE Tick \/ UNCHANGED vars
  BY <1>1, <1>2 DEF Tick, vars
<1>3. ASSUME NEW s \in Stakes,
             \/ \E amount \in DepositAmounts, lock \in Locks, executor \in Executors :
                  DepositV2(s, amount, lock, executor)
             \/ \E amount \in DepositAmounts : TopUpStakeV2(s, amount)
      PROVE  Started' /\ Committed
  BY <1>0, <1>3, DepositsLock
<1>4. ASSUME NEW s \in Stakes,
             \/ \E amount \in WithdrawAmounts : WithdrawV2(s, amount)
             \/ \E amount \in ClaimAmounts : ClaimYieldV2(s, amount)
             \/ \E amount \in Donations : Donate(s, amount)
             \/ \E signer \in Executors \cup Authorities : CompoundYieldV2(signer, s)
             \/ \E source \in Stakes : MergeStakeV2(s, source)
      PROVE  Started' /\ Committed
  BY <1>0, <1>4, PaymentsLock, CompoundLock, MergeLock
<1>5. ASSUME NEW s \in Stakes,
             \/ \E executor \in Executors : SetStakeExecutorV2(s, executor)
             \/ CloseStakeV2(s) \/ StakeNft(s) \/ UnstakeNft(s)
             \/ MigrateStakeWeight(s) \/ ReconcileStakeV2(s) \/ ClosePhantomStakeV2(s)
      PROVE  Started' /\ Committed
  BY <1>0, <1>5, ReweighingLock, ReconcileLock, RestLock
<1>6. ASSUME NEW a \in Authorities,
             \/ \E amount \in WithdrawAmounts : Withdraw(a, amount)
             \/ \E amount \in ClaimAmounts : ClaimYield(a, amount)
      PROVE  Started' /\ Committed
  BY <1>1, <1>6 DEF Withdraw, ClaimYield
<1>7. CASE (\E total_godl \in BuryAmounts : Bury(total_godl))
           \/ \E amount \in BuryTokensAmounts : BuryTokens(amount)
  BY <1>1, <1>7 DEF Bury, BuryTokens, Distribute
<1>8. CASE ReadTreasury \/ ListStakes \/ ListLegacyStakes \/ RereadTreasury
           \/ RebaseMismatch \/ RebaseTotalStaked
  BY <1>1, <1>8 DEF ReadTreasury, ListStakes, ListLegacyStakes, RereadTreasury,
     RebaseMismatch, RebaseTotalStaked, AuditStep
<1> QED BY <1>2, <1>3, <1>4, <1>5, <1>6, <1>7, <1>8 DEF Next

\* The stakes of the initial state started before it.
GenesisStarted == \A s \in Stakes \ Phantoms : Genesis[s] # None => Genesis[s].created_at <= 0

LEMMA LockInit ==
  ASSUME GenesisBacked, GenesisStarted PROVE Init => TypeOK /\ VaultsBack /\ Started
BY TypesInit DEF Init, VaultsBack, GenesisBacked, Started, GenesisStarted

\* A lock is a commitment: what an authority has under lock until a future time
\* only grows until then, whatever it withdraws, tops up, merges, compounds or
\* closes (withdraw of stake_v2.rs looks at the lock, merge_stake_v2.rs takes
\* the longer one, top_up_stake_v2.rs starts anew).
THEOREM CommitmentIsKept ==
  ASSUME GenesisBacked, GenesisStarted
  PROVE  Spec => CommitmentKept
<1> DEFINE Inv == TypeOK /\ VaultsBack /\ Started
<1>1. Init => Inv
  BY LockInit
<1>2. Inv /\ [Next]_vars => Inv'
  BY NextKeeps, NextBacked, NextLock
<1>3. Inv /\ [Next]_vars =>
        \A a \in Authorities : \A t \in now' + 1 .. MaxTime + MAX_LOCK_DURATION :
          CommittedUntil(a, t)' >= CommittedUntil(a, t)
  <2> SUFFICES ASSUME Inv, [Next]_vars, NEW a \in Authorities,
                      NEW t \in now' + 1 .. MaxTime + MAX_LOCK_DURATION
               PROVE  CommittedUntil(a, t)' >= CommittedUntil(a, t)
    OBVIOUS
  <2>1. Committed /\ TypeOK'
    BY NextLock, NextKeeps
  <2>2. now' \in Nat /\ MaxTime + MAX_LOCK_DURATION \in Nat
    BY <2>1, AmountsAssumption, ScalesAssumption DEF TypeOK
  <2>3. t \in Nat /\ t > now'
    <3>1. \A x \in Nat, y \in Nat : \A i \in x + 1 .. y : i \in Nat /\ i > x
      OBVIOUS
    <3> QED BY <2>2, <3>1
  <2> QED BY <2>1, <2>3 DEF Committed
<1> QED BY <1>1, <1>2, <1>3, PTL DEF Spec, CommitmentKept
-----------------------------------------------------------------------------
(* The rebase.  Every instruction changes the total and the accounts of one *)
(* version by the same; so if the total only falls while the command runs,  *)
(* a total that reads the same at the end has not moved, nor have the sums. *)

\* What the command has read is true, if the total is still what it was.
AuditSums ==
    audit.step \in Steps \ {"idle", "done"} =>
      /\ treasury.total_staked <= audit.expected
      /\ treasury.total_staked = audit.expected =>
           /\ audit.step = "list_v1" => audit.sum = UnitsV2
           /\ audit.step \in {"reread", "send"} => audit.sum = UnitsV2 + UnitsV1

\* An instruction touches stakes of one version only, and not what the command
\* has read.
InstructionKinds == audit' = audit /\ (stake' = stake \/ stake_v1' = stake_v1)

LEMMA Instructions ==
  ASSUME [Next]_vars
  PROVE  \/ InstructionKinds
         \/ ReadTreasury \/ ListStakes \/ ListLegacyStakes \/ RereadTreasury
         \/ RebaseMismatch \/ RebaseTotalStaked
<1>1. ASSUME NEW s \in Stakes,
             \/ \E amount \in DepositAmounts, lock \in Locks, executor \in Executors :
                  DepositV2(s, amount, lock, executor)
             \/ \E amount \in DepositAmounts : TopUpStakeV2(s, amount)
             \/ \E amount \in WithdrawAmounts : WithdrawV2(s, amount)
             \/ \E amount \in ClaimAmounts : ClaimYieldV2(s, amount)
      PROVE  InstructionKinds
  BY <1>1 DEF DepositV2, TopUpStakeV2, WithdrawV2, ClaimYieldV2, InstructionKinds
<1>2. ASSUME NEW s \in Stakes,
             \/ \E signer \in Executors \cup Authorities : CompoundYieldV2(signer, s)
             \/ \E source \in Stakes : MergeStakeV2(s, source)
             \/ \E amount \in Donations : Donate(s, amount)
             \/ \E executor \in Executors : SetStakeExecutorV2(s, executor)
             \/ CloseStakeV2(s)
      PROVE  InstructionKinds
  BY <1>2 DEF CompoundYieldV2, MergeStakeV2, Donate, SetStakeExecutorV2, CloseStakeV2,
     InstructionKinds
<1>3. ASSUME NEW s \in Stakes,
             \/ StakeNft(s) \/ UnstakeNft(s) \/ MigrateStakeWeight(s)
             \/ ReconcileStakeV2(s) \/ ClosePhantomStakeV2(s)
      PROVE  InstructionKinds
  BY <1>3 DEF StakeNft, UnstakeNft, MigrateStakeWeight, ReconcileStakeV2,
     ClosePhantomStakeV2, InstructionKinds
<1>4. ASSUME NEW a \in Authorities,
             \/ \E amount \in WithdrawAmounts : Withdraw(a, amount)
             \/ \E amount \in ClaimAmounts : ClaimYield(a, amount)
      PROVE  InstructionKinds
  BY <1>4 DEF Withdraw, ClaimYield, InstructionKinds
<1>5. ASSUME \/ \E total_godl \in BuryAmounts : Bury(total_godl)
             \/ \E amount \in BuryTokensAmounts : BuryTokens(amount)
             \/ Tick
      PROVE  InstructionKinds
  BY <1>5 DEF Bury, BuryTokens, Distribute, Tick, InstructionKinds
<1>6. UNCHANGED vars => InstructionKinds
  BY DEF vars, InstructionKinds
<1> QED BY <1>1, <1>2, <1>3, <1>4, <1>5, <1>6 DEF Next

\* The sums are functions of the accounts.
LEMMA SumsFollow ==
  /\ stake' = stake => UnitsV2' = UnitsV2
  /\ stake_v1' = stake_v1 => UnitsV1' = UnitsV1
BY TotalsAre, TotalsAreNext

LEMMA TotalsNatNext == (TypeOK => UnitsV2 \in Nat /\ UnitsV1 \in Nat)'
<1>1. TypeOK => UnitsV2 \in Nat /\ UnitsV1 \in Nat
  BY TotalsNat
<1> QED BY <1>1, PTL

LEMMA AuditSumsStep ==
  ASSUME TypeOK, AuditSums, [Next]_vars,
         audit.step \notin {"idle", "done"} =>
           RebaseTotalStaked \/ treasury'.total_staked <= treasury.total_staked
  PROVE  AuditSums'
<1> DEFINE total == treasury.total_staked
           total2 == treasury'.total_staked
           a2 == UnitsV2'
           b2 == UnitsV1'
           asked == audit.expected
<1>1. /\ TypeOK' /\ (Drift' = Drift \/ RebaseTotalStaked)
  BY NextKeeps
<1>2. /\ UnitsV2 \in Nat /\ UnitsV1 \in Nat /\ total \in Nat
      /\ audit \in AuditRecord /\ asked \in Nat /\ audit.step \in Steps
  BY TotalsNat, Rest, TreasuryTypes DEF AuditRecord
<1>3. a2 \in Nat /\ b2 \in Nat /\ total2 \in Nat
  <2>1. treasury' \in TreasuryRecord
    BY <1>1 DEF TypeOK
  <2> QED BY <1>1, <2>1, TotalsNatNext DEF TreasuryRecord
<1>4. CASE InstructionKinds /\ ~RebaseTotalStaked
  <2>1. /\ audit' = audit
        /\ \/ a2 = UnitsV2 \/ b2 = UnitsV1
    BY <1>4, SumsFollow DEF InstructionKinds
  <2>2. total2 - (a2 + b2) = total - (UnitsV2 + UnitsV1)
    BY <1>1, <1>4 DEF Drift
  <2>3. audit.step \in Steps \ {"idle", "done"} => total2 <= total /\ total <= asked
    BY <1>4 DEF AuditSums
  <2>4. ASSUME audit.step \in Steps \ {"idle", "done"}, total2 = asked
        PROVE  total = asked /\ a2 = UnitsV2 /\ b2 = UnitsV1
    <3> HIDE DEF total, total2, a2, b2, asked
    <3>1. total = asked
      BY <1>2, <1>3, <2>3, <2>4
    <3> QED BY <1>2, <1>3, <2>1, <2>2, <2>4, <3>1
  <2>5. audit.step \in Steps \ {"idle", "done"} => total2 <= asked
    <3> HIDE DEF total, total2, asked
    <3> QED BY <1>2, <1>3, <2>3
  <2> QED BY <2>1, <2>4, <2>5 DEF AuditSums
<1>5. CASE ReadTreasury
  BY <1>2, <1>5, Rest DEF ReadTreasury, AuditSums, AuditRecord
<1>6. CASE ListStakes
  <2>1. UnitsV2' = UnitsV2 /\ treasury' = treasury
    BY <1>6, SumsFollow DEF ListStakes
  <2>2. audit'.step = "list_v1" /\ audit'.sum = UnitsV2 /\ audit'.expected = audit.expected
    BY <1>2, <1>6 DEF ListStakes, AuditRecord
  <2>3. audit.step \in Steps \ {"idle", "done"}
    BY <1>6 DEF ListStakes, Steps
  <2> QED BY <2>1, <2>2, <2>3 DEF AuditSums
<1>7. CASE ListLegacyStakes
  <2>1. UnitsV2' = UnitsV2 /\ UnitsV1' = UnitsV1 /\ treasury' = treasury
    BY <1>7, SumsFollow DEF ListLegacyStakes
  <2>2. /\ audit'.step = "reread" /\ audit'.sum = audit.sum + UnitsV1
        /\ audit'.expected = audit.expected
    BY <1>2, <1>7 DEF ListLegacyStakes, AuditRecord
  <2>3. audit.step \in Steps \ {"idle", "done"} /\ audit.step = "list_v1"
    BY <1>7 DEF ListLegacyStakes, Steps
  <2> QED BY <2>1, <2>2, <2>3 DEF AuditSums
<1>8. CASE RereadTreasury \/ RebaseMismatch
  <2>1. UnitsV2' = UnitsV2 /\ UnitsV1' = UnitsV1 /\ treasury' = treasury
    BY <1>8, SumsFollow DEF RereadTreasury, RebaseMismatch, AuditStep
  <2>2. /\ audit'.sum = audit.sum /\ audit'.expected = audit.expected
        /\ audit'.step \in {"idle", "done"} \/ (audit.step = "reread" /\ audit'.step = "send")
    BY <1>2, <1>8 DEF RereadTreasury, RebaseMismatch, AuditStep, AuditRecord
  <2>3. audit.step \in Steps \ {"idle", "done"} /\ audit.step \in {"reread", "send"}
    BY <1>8 DEF RereadTreasury, RebaseMismatch, Steps
  <2> QED BY <2>1, <2>2, <2>3 DEF AuditSums
<1>9. CASE RebaseTotalStaked
  BY <1>2, <1>9 DEF RebaseTotalStaked, AuditSums, AuditRecord
<1> QED BY <1>4, <1>5, <1>6, <1>7, <1>8, <1>9, Instructions

\* A rebase writes the true sum of the weights, or fails because the total has
\* moved since the snapshot (rebase_total_staked.rs:31), although the command
\* reads treasury, stakes and legacy stakes in separate calls: for any
\* withdrawals, migrations, closings and clean-ups between its reads.  A
\* deposit could bring the total back to what it was, so no step may raise it.
THEOREM QuietRebaseClearsDrift == Spec /\ [][Quiet]_vars => RebaseClearsDrift
<1>1. Init => AuditSums
  BY DEF Init, AuditSums
<1>2. TypeOK /\ AuditSums /\ [Next]_vars /\ [Quiet]_vars => AuditSums'
  <2> SUFFICES ASSUME TypeOK, AuditSums, [Next]_vars, [Quiet]_vars PROVE AuditSums'
    OBVIOUS
  <2>1. UNCHANGED vars => treasury'.total_staked <= treasury.total_staked
    <3>1. treasury.total_staked \in Nat
      BY TreasuryTypes
    <3> QED BY <3>1 DEF vars
  <2> QED BY <2>1, AuditSumsStep DEF Quiet
<1>3. TypeOK /\ AuditSums /\ [Next]_vars => [RebaseTotalStaked => Drift' = 0]_vars
  <2> SUFFICES ASSUME TypeOK, AuditSums, RebaseTotalStaked PROVE Drift' = 0
    OBVIOUS
  <2>1. /\ audit.step = "send" /\ treasury.total_staked = audit.expected
        /\ treasury' = [treasury EXCEPT !.total_staked = audit.sum]
        /\ stake' = stake /\ stake_v1' = stake_v1
    BY DEF RebaseTotalStaked
  <2>2. audit.sum = UnitsV2 + UnitsV1
    BY <2>1 DEF AuditSums, Steps
  <2>3. treasury'.total_staked = audit.sum
    BY <2>1, Rest DEF TreasuryRecord
  <2> QED BY <2>1, <2>2, <2>3, SumsFollow, TotalsNat DEF Drift
<1>4. TypeOK /\ [Next]_vars => TypeOK'
  BY NextKeeps
<1> QED BY TypesInit, <1>1, <1>2, <1>3, <1>4, PTL DEF Spec, RebaseClearsDrift
=============================================================================
