----------------------------- MODULE RefiningProofs -----------------------------
(***************************************************************************)
(* What is proved of unrefined GODL and its two rewards, for any number of *)
(* miners.  Every step is one of four kinds as far as weights and refined  *)
(* GODL go: it leaves them alone, it settles a miner and adds weight, it   *)
(* is a claim, or it is the admin's rebase.  The sums of accounts change   *)
(* by what one account changes.                                            *)
(***************************************************************************)
EXTENDS RefiningProperties, SumsProofs

MinerAccount == MinerRecord \cup {None}
ExtendedAccount == ExtendedRecord \cup {None}
-----------------------------------------------------------------------------
(* Types *)

\* The bounds and the scales are what their assumptions say.
LEMMA ConstantTypes ==
  /\ NumMiners \in Nat /\ Miners = 1 .. NumMiners
  /\ FRACTION \in Nat \ {0} /\ FeeDivisor \in Nat \ {0} /\ DENOMINATOR_BPS \in Nat \ {0}
  /\ GOLD_FACTOR_SCALE \in Nat \ {0}
  /\ RewardAmounts \subseteq Nat /\ InjectAmounts \subseteq Nat
  /\ MotherlodeAmounts \subseteq Nat /\ BonusAmounts \subseteq Nat
  /\ XautAmounts \subseteq Nat /\ SolAmounts \subseteq Nat
  /\ GODL_PER_ROUND \in Nat /\ MOTHERLODE_MINT \in Nat /\ SolFee \in Nat
  /\ GenesisDrift \in Nat /\ GenesisPrizes \in Nat /\ MaxTime \in Nat /\ MaxAttempts \in Nat
  /\ MaxTokens \in Nat /\ MaxXaut \in Nat
  /\ LEGACY_INSTRUCTION_EXPIRY_TS \in Nat /\ AuditFrom \in Nat
  /\ None \notin MinerRecord /\ None \notin ExtendedRecord
BY PartiesAssumption, AmountsAssumption, ScalesAssumption, GenesisAssumption DEF Miners

\* What TypeOK says of each variable.
LEMMA StateTypes ==
  ASSUME TypeOK
  PROVE  /\ miner \in [Miners -> MinerAccount] /\ extended \in [Miners -> ExtendedAccount]
         /\ treasury \in TreasuryRecord /\ prizes \in Nat /\ paid \in Nat
         /\ referrer \in [rewards_godl : Nat, tokens : Nat]
         /\ gold_vault \in GoldVaultRecord /\ sol_motherlode \in [amount : Nat, lamports : Nat]
         /\ audit \in AuditRecord /\ now \in Nat /\ now <= MaxTime
BY ConstantTypes DEF TypeOK, MinerAccount, ExtendedAccount

LEMMA TreasuryTypes ==
  ASSUME TypeOK
  PROVE  /\ treasury.total_unclaimed \in Nat /\ treasury.total_refined \in Nat
         /\ treasury.miner_rewards_factor \in Nat /\ treasury.motherlode \in Nat
         /\ treasury.tokens \in Nat
BY StateTypes DEF TreasuryRecord

LEMMA VaultTypes ==
  ASSUME TypeOK
  PROVE  /\ gold_vault.xaut_rewards_factor \in Nat /\ gold_vault.pending_xaut \in Nat
         /\ gold_vault.total_xaut_distributed \in Nat
         /\ gold_vault.total_xaut_claimed \in Nat
         /\ gold_vault.wsol \in Nat /\ gold_vault.xaut \in Nat
BY StateTypes DEF GoldVaultRecord

\* A miner's weight is a natural number, also where there is no account.
LEMMA WeightTypes ==
  ASSUME TypeOK
  PROVE  /\ \A m \in Miners : Unrefined(m) \in Nat
         /\ \A m \in Miners : Opened(m) \in MinerRecord
         /\ \A m \in Miners : Opened(m).rewards_godl = Unrefined(m)
         /\ \A m \in Miners : miner[m] # None => miner[m] \in MinerRecord /\ Opened(m) = miner[m]
         /\ TotalUnrefined \in Nat
<1>1. NewMiner \in MinerRecord /\ NewMiner.rewards_godl = 0
  BY DEF NewMiner, MinerRecord
<1>2. \A m \in Miners : miner[m] \in MinerAccount
  BY StateTypes
<1>3. \A m \in Miners : Opened(m) \in MinerRecord /\ Opened(m).rewards_godl = Unrefined(m)
  BY <1>1, <1>2 DEF Opened, Unrefined, MinerAccount
<1>4. \A m \in Miners : Unrefined(m) \in Nat
  BY <1>3 DEF MinerRecord
<1> DEFINE f == [m \in Miners |-> Unrefined(m)]
<1>5. \A i \in 1 .. NumMiners : f[i] \in Nat
  BY <1>4, ConstantTypes
<1>6. Sum(f, NumMiners) \in Nat
  <2> HIDE DEF f
  <2> QED BY <1>5, ConstantTypes, SumNat
<1>7. \A m \in Miners : miner[m] # None => miner[m] \in MinerRecord /\ Opened(m) = miner[m]
  BY <1>2 DEF Opened, MinerAccount
<1> QED BY <1>3, <1>4, <1>6, <1>7 DEF TotalUnrefined

LEMMA MonusNat == \A a, b \in Nat : Monus(a, b) \in Nat
BY DEF Monus

\* A factor grows by a natural number.
LEMMA PerUnitNat ==
  ASSUME NEW a \in Nat, NEW w \in Nat \ {0}
  PROVE  PerUnit(a, w) \in Nat /\ PerUnit(a, w) * w <= a * FRACTION
<1> DEFINE p == a * FRACTION
<1>1. p \in Nat
  BY ConstantTypes
<1> HIDE DEF p
<1>2. p \div w \in Nat /\ (p \div w) * w <= p
  BY <1>1, DivBounds
<1> QED BY <1>2 DEF PerUnit, p

\* What a miner accrues, and a settled miner.
LEMMA AccruedNat ==
  ASSUME TypeOK, NEW w \in Nat, NEW seen \in Nat
  PROVE  Accrued(w, seen) \in Nat
<1> DEFINE d == Monus(treasury.miner_rewards_factor, seen)
           p == d * w
<1>1. d \in Nat
  BY TreasuryTypes, MonusNat
<1>2. p \in Nat
  <2> HIDE DEF d
  <2> QED BY <1>1
<1>3. p \div FRACTION \in Nat
  <2> HIDE DEF p
  <2> QED BY <1>2, ConstantTypes, DivBounds
<1> QED BY <1>3 DEF Accrued

LEMMA UpdatedType ==
  ASSUME TypeOK, NEW st \in MinerRecord
  PROVE  /\ update_rewards(st) \in MinerRecord
         /\ update_rewards(st).rewards_godl = st.rewards_godl
         /\ update_rewards(st).rewards_factor = treasury.miner_rewards_factor
         /\ update_rewards(st).refined_godl
              = st.refined_godl + Accrued(st.rewards_godl, st.rewards_factor)
         /\ update_rewards(st).lifetime_rewards_godl
              = st.lifetime_rewards_godl + Accrued(st.rewards_godl, st.rewards_factor)
         /\ update_rewards(st).playing = st.playing
<1> DEFINE a == Accrued(st.rewards_godl, st.rewards_factor)
<1>1. st.rewards_godl \in Nat /\ st.rewards_factor \in Nat
  BY DEF MinerRecord
<1>2. a \in Nat
  BY <1>1, AccruedNat
<1>3. update_rewards(st) =
        [st EXCEPT !.refined_godl = @ + a, !.lifetime_rewards_godl = @ + a,
                   !.rewards_factor = treasury.miner_rewards_factor]
  BY DEF update_rewards
<1> DEFINE u == update_rewards(st)
           f == treasury.miner_rewards_factor
<1> HIDE DEF a, u, f
<1>4. u = [st EXCEPT !.refined_godl = @ + a, !.lifetime_rewards_godl = @ + a,
                     !.rewards_factor = f]
  BY <1>3 DEF u, f
<1>5. f \in Nat
  BY TreasuryTypes DEF f
<1>6. /\ u \in MinerRecord /\ u.rewards_godl = st.rewards_godl /\ u.rewards_factor = f
      /\ u.refined_godl = st.refined_godl + a
      /\ u.lifetime_rewards_godl = st.lifetime_rewards_godl + a
      /\ u.playing = st.playing
  <2>1. /\ st.rewards_godl \in Nat /\ st.refined_godl \in Nat
        /\ st.lifetime_rewards_godl \in Nat /\ st.playing \in BOOLEAN
    BY DEF MinerRecord
  <2>2. u = [rewards_godl |-> st.rewards_godl, refined_godl |-> st.refined_godl + a,
             rewards_factor |-> f, lifetime_rewards_godl |-> st.lifetime_rewards_godl + a,
             playing |-> st.playing]
    BY <1>4 DEF MinerRecord
  <2> QED BY <1>2, <1>5, <2>1, <2>2 DEF MinerRecord
<1> QED BY <1>6 DEF a, u, f

LEMMA CreditedType ==
  ASSUME NEW st \in MinerRecord, NEW amount \in Nat
  PROVE  /\ Credited(st, amount) \in MinerRecord
         /\ Credited(st, amount).rewards_godl = st.rewards_godl + amount
         /\ Credited(st, amount).lifetime_rewards_godl = st.lifetime_rewards_godl + amount
         /\ Credited(st, amount).refined_godl = st.refined_godl
         /\ Credited(st, amount).rewards_factor = st.rewards_factor
<1> DEFINE u == Credited(st, amount)
<1> HIDE DEF u
<1>1. /\ st.rewards_godl \in Nat /\ st.refined_godl \in Nat /\ st.rewards_factor \in Nat
      /\ st.lifetime_rewards_godl \in Nat /\ st.playing \in BOOLEAN
  BY DEF MinerRecord
<1>2. u = [rewards_godl |-> st.rewards_godl + amount, refined_godl |-> st.refined_godl,
           rewards_factor |-> st.rewards_factor,
           lifetime_rewards_godl |-> st.lifetime_rewards_godl + amount,
           playing |-> st.playing]
  <2>1. u = [st EXCEPT !.rewards_godl = @ + amount, !.lifetime_rewards_godl = @ + amount]
    BY DEF Credited, u
  <2> QED BY <2>1 DEF MinerRecord
<1>3. u \in MinerRecord
  <2>1. st.rewards_godl + amount \in Nat /\ st.lifetime_rewards_godl + amount \in Nat
    BY <1>1
  <2> QED BY <1>1, <1>2, <2>1 DEF MinerRecord
<1> QED BY <1>2, <1>3 DEF u

\* What gold a weight accrues, and a settled extended account.
LEMMA XautAccruedNat ==
  ASSUME TypeOK, NEW w \in Nat, NEW seen \in Nat
  PROVE  XautAccrued(w, seen) \in Nat
<1> DEFINE d == Monus(gold_vault.xaut_rewards_factor, seen)
           q == PerUnit(w, GOLD_FACTOR_SCALE)
           p == d * q
           ff == FRACTION * FRACTION
<1>1. d \in Nat /\ q \in Nat
  BY VaultTypes, MonusNat, PerUnitNat, ConstantTypes
<1>2. p \in Nat
  <2> HIDE DEF d, q
  <2> QED BY <1>1
<1>3. ff \in Nat \ {0}
  BY ConstantTypes
<1>4. p \div ff \in Nat
  <2> HIDE DEF p, ff
  <2> QED BY <1>2, <1>3, DivBounds
<1> QED BY <1>4 DEF XautAccrued

LEMMA SyncedType ==
  ASSUME TypeOK, NEW ext \in ExtendedRecord, NEW w \in Nat
  PROVE  /\ Synced(ext, w) \in ExtendedRecord
         /\ Synced(ext, w).xaut_rewards
              = ext.xaut_rewards + XautAccrued(w, ext.xaut_rewards_factor)
         /\ Synced(ext, w).xaut_rewards_factor = gold_vault.xaut_rewards_factor
<1> DEFINE a == XautAccrued(w, ext.xaut_rewards_factor)
<1>1. ext.xaut_rewards_factor \in Nat /\ ext.xaut_rewards \in Nat
  BY DEF ExtendedRecord
<1>2. a \in Nat
  BY <1>1, XautAccruedNat
<1>3. Synced(ext, w) = [ext EXCEPT !.xaut_rewards = @ + a,
                                   !.xaut_rewards_factor = gold_vault.xaut_rewards_factor]
  BY DEF Synced
<1> DEFINE u == Synced(ext, w)
           f == gold_vault.xaut_rewards_factor
<1> HIDE DEF a, u, f
<1>4. u = [ext EXCEPT !.xaut_rewards = @ + a, !.xaut_rewards_factor = f]
  BY <1>3 DEF u, f
<1>5. f \in Nat
  BY VaultTypes DEF f
<1>6. /\ u \in ExtendedRecord /\ u.xaut_rewards = ext.xaut_rewards + a
      /\ u.xaut_rewards_factor = f
  <2>1. ext.xaut_rewards \in Nat
    BY DEF ExtendedRecord
  <2>2. u = [xaut_rewards_factor |-> f, xaut_rewards |-> ext.xaut_rewards + a]
    BY <1>4 DEF ExtendedRecord
  <2> QED BY <1>2, <1>5, <2>1, <2>2 DEF ExtendedRecord
<1> QED BY <1>6 DEF a, u, f

LEMMA LoadedType ==
  ASSUME TypeOK, NEW m \in Miners
  PROVE  /\ Loaded(m, TRUE) \in ExtendedRecord
         /\ \A create : Loaded(m, create) \in ExtendedAccount
         /\ \A create : extended[m] # None => Loaded(m, create) = extended[m]
         /\ NewExtended \in ExtendedRecord
<1>1. NewExtended \in ExtendedRecord
  BY VaultTypes DEF NewExtended, ExtendedRecord
<1>2. extended[m] \in ExtendedAccount
  BY StateTypes
<1> QED BY <1>1, <1>2 DEF Loaded, ExtendedAccount

LEMMA SyncType ==
  ASSUME TypeOK, NEW ext \in ExtendedAccount, NEW w \in Nat
  PROVE  Sync(ext, w) \in ExtendedAccount
BY SyncedType DEF Sync, ExtendedAccount

LEMMA InitTypes == Init => TypeOK
<1> SUFFICES ASSUME Init PROVE TypeOK
  OBVIOUS
<1>1. miner \in [Miners -> MinerAccount] /\ extended \in [Miners -> ExtendedAccount]
  BY GenesisAssumption DEF Init, MinerAccount, ExtendedAccount
<1> DEFINE f == [m \in Miners |-> Unrefined(m)]
<1>2. \A i \in 1 .. NumMiners : f[i] \in Nat
  BY <1>1, ConstantTypes DEF Unrefined, MinerAccount, MinerRecord
<1>3. Sum(f, NumMiners) \in Nat
  <2> HIDE DEF f
  <2> QED BY <1>2, ConstantTypes, SumNat
<1>4. TotalUnrefined \in Nat
  BY <1>3 DEF TotalUnrefined
<1>5. treasury \in TreasuryRecord
  BY <1>4, ConstantTypes DEF Init, TreasuryRecord
<1>6. audit \in AuditRecord
  BY ConstantTypes DEF Init, AuditRecord
<1>7. gold_vault \in GoldVaultRecord /\ referrer \in [rewards_godl : Nat, tokens : Nat]
      /\ sol_motherlode \in [amount : Nat, lamports : Nat] /\ prizes \in Nat /\ paid \in Nat
      /\ now \in 0 .. MaxTime
  BY ConstantTypes DEF Init, GoldVaultRecord
<1> QED BY <1>1, <1>5, <1>6, <1>7 DEF TypeOK, MinerAccount, ExtendedAccount
-----------------------------------------------------------------------------
(* Every step keeps the types *)

\* A treasury from its fields.
LEMMA TreasuryForm ==
  ASSUME TypeOK, NEW total \in Nat, NEW refined \in Nat, NEW factor \in Nat,
         NEW motherlode \in Nat, NEW tokens \in Nat
  PROVE  [treasury EXCEPT !.total_unclaimed = total, !.total_refined = refined,
                          !.miner_rewards_factor = factor, !.motherlode = motherlode,
                          !.tokens = tokens] \in TreasuryRecord
BY StateTypes DEF TreasuryRecord

LEMMA TickTypes == ASSUME TypeOK, Tick PROVE TypeOK'
<1>1. now' \in 0 .. MaxTime
  BY StateTypes, ConstantTypes DEF Tick
<1> QED BY <1>1 DEF Tick, TypeOK, godl, gold

LEMMA ResetTypes == ASSUME TypeOK, NEW hit \in BOOLEAN, Reset(hit) PROVE TypeOK'
<1> DEFINE rollover == treasury.motherlode \div FeeDivisor
           won == IF hit THEN treasury.motherlode - rollover ELSE 0
           left == treasury.motherlode - won + MOTHERLODE_MINT
           tokens == treasury.tokens + GODL_PER_ROUND + MOTHERLODE_MINT
<1>1. rollover \in Nat /\ rollover <= treasury.motherlode
  BY TreasuryTypes, ConstantTypes
<1>2. won \in Nat /\ won <= treasury.motherlode
  <2> HIDE DEF rollover
  <2> QED BY <1>1, TreasuryTypes
<1>3. left \in Nat /\ tokens \in Nat
  <2> HIDE DEF won
  <2> QED BY <1>2, TreasuryTypes, ConstantTypes
<1>4. /\ prizes' = prizes + GODL_PER_ROUND + won
      /\ treasury' = [treasury EXCEPT !.motherlode = left, !.tokens = tokens]
      /\ sol_motherlode' = [amount |-> sol_motherlode.amount + SolFee,
                            lamports |-> sol_motherlode.lamports + SolFee]
  BY DEF Reset
<1> HIDE DEF won, left, tokens
<1>5. prizes' \in Nat
  <2>1. prizes \in Nat /\ GODL_PER_ROUND \in Nat
    BY StateTypes, ConstantTypes
  <2>2. prizes + GODL_PER_ROUND + won \in Nat
    BY <1>2, <2>1
  <2> QED BY <1>4, <2>2
<1>6. treasury' \in TreasuryRecord
  <2>1. treasury' = [total_unclaimed |-> treasury.total_unclaimed,
                     total_refined |-> treasury.total_refined,
                     miner_rewards_factor |-> treasury.miner_rewards_factor,
                     motherlode |-> left, tokens |-> tokens]
    BY <1>4, StateTypes DEF TreasuryRecord
  <2> QED BY <1>3, <2>1, TreasuryTypes DEF TreasuryRecord
<1>7. sol_motherlode' \in [amount : Nat, lamports : Nat]
  <2>1. sol_motherlode.amount \in Nat /\ sol_motherlode.lamports \in Nat
    BY StateTypes
  <2>2. sol_motherlode.amount + SolFee \in Nat /\ sol_motherlode.lamports + SolFee \in Nat
    BY <2>1, ConstantTypes
  <2> QED BY <1>4, <2>2
<1> QED BY <1>5, <1>6, <1>7 DEF Reset, TypeOK

LEMMA AutomateTypes == ASSUME TypeOK, NEW m \in Miners, Automate(m) PROVE TypeOK'
<1>1. NewMiner \in MinerRecord
  BY DEF NewMiner, MinerRecord
<1> QED BY <1>1 DEF Automate, TypeOK, godl, gold

\* Ending and starting a play.
LEMMA PlayingType ==
  ASSUME NEW st \in MinerRecord, NEW p \in BOOLEAN
  PROVE  /\ [st EXCEPT !.playing = p] \in MinerRecord
         /\ [st EXCEPT !.playing = p].rewards_godl = st.rewards_godl
         /\ [st EXCEPT !.playing = p].refined_godl = st.refined_godl
         /\ [st EXCEPT !.playing = p].rewards_factor = st.rewards_factor
         /\ [st EXCEPT !.playing = p].lifetime_rewards_godl = st.lifetime_rewards_godl
BY DEF MinerRecord

LEMMA DeployTypes == ASSUME TypeOK, NEW m \in Miners, Deploy(m) PROVE TypeOK'
<1>1. [Opened(m) EXCEPT !.playing = TRUE] \in MinerRecord
  BY WeightTypes, PlayingType
<1> QED BY <1>1 DEF Deploy, TypeOK, godl, gold

LEMMA DeployWithMinerExtendedTypes ==
  ASSUME TypeOK, NEW m \in Miners, DeployWithMinerExtended(m) PROVE TypeOK'
<1>1. [Opened(m) EXCEPT !.playing = TRUE] \in MinerRecord /\ Loaded(m, TRUE) \in ExtendedRecord
  BY WeightTypes, PlayingType, LoadedType
<1> QED BY <1>1 DEF DeployWithMinerExtended, TypeOK, godl, gold

LEMMA CreateMinerExtendedTypes ==
  ASSUME TypeOK, NEW m \in Miners, CreateMinerExtended(m) PROVE TypeOK'
<1>1. Loaded(m, TRUE) \in ExtendedRecord
  BY LoadedType
<1> QED BY <1>1 DEF CreateMinerExtended, TypeOK, godl, gold

\* The account a settled play leaves.
LEMMA SettledType ==
  ASSUME TypeOK, NEW m \in Miners, NEW amount \in Nat, Settle(m, amount)
  PROVE  \E v \in MinerRecord :
           /\ miner' = [miner EXCEPT ![m] = v]
           /\ v.rewards_godl = Unrefined(m) + amount
           /\ v.refined_godl = update_rewards(Opened(m)).refined_godl
           /\ v.rewards_factor = treasury.miner_rewards_factor
           /\ v.lifetime_rewards_godl
                = update_rewards(Opened(m)).lifetime_rewards_godl + amount
           /\ prizes' = prizes - amount /\ prizes' \in Nat
<1> DEFINE u == update_rewards(miner[m])
           c == Credited(u, amount)
           v == [c EXCEPT !.playing = FALSE]
<1>1. miner[m] \in MinerRecord /\ Opened(m) = miner[m]
      /\ miner[m].rewards_godl = Unrefined(m)
  BY WeightTypes DEF Settle
<1>2. /\ u \in MinerRecord /\ u.rewards_godl = Unrefined(m)
      /\ u.rewards_factor = treasury.miner_rewards_factor
  BY <1>1, UpdatedType
<1>3. miner' = [miner EXCEPT ![m] = v] /\ prizes' = prizes - amount /\ amount <= prizes
  BY DEF Settle
<1>4. prizes' \in Nat
  BY <1>3, StateTypes
<1>5. u = update_rewards(Opened(m))
  BY <1>1
<1> HIDE DEF u
<1>6. /\ c \in MinerRecord /\ c.rewards_godl = u.rewards_godl + amount
      /\ c.lifetime_rewards_godl = u.lifetime_rewards_godl + amount
      /\ c.refined_godl = u.refined_godl /\ c.rewards_factor = u.rewards_factor
  BY <1>2, CreditedType
<1> HIDE DEF c
<1>7. /\ v \in MinerRecord /\ v.rewards_godl = c.rewards_godl
      /\ v.refined_godl = c.refined_godl /\ v.rewards_factor = c.rewards_factor
      /\ v.lifetime_rewards_godl = c.lifetime_rewards_godl
  BY <1>6, PlayingType
<1> HIDE DEF v
<1> QED BY <1>2, <1>3, <1>4, <1>5, <1>6, <1>7

\* total_unclaimed takes what is credited.
LEMMA UnclaimedType ==
  ASSUME TypeOK, NEW amount \in Nat
  PROVE  [treasury EXCEPT !.total_unclaimed = @ + amount] \in TreasuryRecord
<1> DEFINE t == treasury.total_unclaimed + amount
<1>1. t \in Nat
  BY TreasuryTypes
<1> HIDE DEF t
<1>2. [treasury EXCEPT !.total_unclaimed = t] \in TreasuryRecord
  BY <1>1, StateTypes DEF TreasuryRecord
<1> QED BY <1>2 DEF t

LEMMA CheckpointTypes ==
  ASSUME TypeOK, NEW m \in Miners, NEW amount \in Nat, Checkpoint(m, amount) PROVE TypeOK'
<1>1. Settle(m, amount)
  BY DEF Checkpoint
<1>2. PICK v \in MinerRecord : miner' = [miner EXCEPT ![m] = v] /\ prizes' \in Nat
  BY <1>1, SettledType
<1>3. treasury' \in TreasuryRecord
  BY UnclaimedType DEF Checkpoint
<1> QED BY <1>2, <1>3 DEF Checkpoint, TypeOK, gold

LEMMA CheckpointWithMinerExtendedTypes ==
  ASSUME TypeOK, NEW m \in Miners, NEW amount \in Nat, CheckpointWithMinerExtended(m, amount)
  PROVE  TypeOK'
<1>1. Settle(m, amount)
  BY DEF CheckpointWithMinerExtended
<1>2. PICK v \in MinerRecord : miner' = [miner EXCEPT ![m] = v] /\ prizes' \in Nat
  BY <1>1, SettledType
<1>3. treasury' \in TreasuryRecord
  BY UnclaimedType DEF CheckpointWithMinerExtended
<1>4. Sync(Loaded(m, FALSE), Unrefined(m)) \in ExtendedAccount
  BY LoadedType, SyncType, WeightTypes
<1>5. extended' \in [Miners -> ExtendedAccount]
  BY <1>4, StateTypes DEF CheckpointWithMinerExtended
<1> QED BY <1>2, <1>3, <1>5 DEF CheckpointWithMinerExtended, TypeOK, gold, ExtendedAccount

LEMMA CheckpointForfeitTypes ==
  ASSUME TypeOK, NEW m \in Miners, CheckpointForfeit(m) PROVE TypeOK'
<1>1. [miner[m] EXCEPT !.playing = FALSE] \in MinerRecord
  BY WeightTypes, PlayingType DEF CheckpointForfeit
<1>2. miner' = [miner EXCEPT ![m] = [miner[m] EXCEPT !.playing = FALSE]]
  BY StateTypes DEF CheckpointForfeit
<1> QED BY <1>1, <1>2 DEF CheckpointForfeit, TypeOK, godl, gold

LEMMA CreditTypes ==
  ASSUME TypeOK, NEW m \in Miners, NEW amount \in Nat
  PROVE  /\ Credited(update_rewards(Opened(m)), amount) \in MinerRecord
         /\ Synced(Loaded(m, TRUE), Unrefined(m)) \in ExtendedRecord
         /\ [treasury EXCEPT !.total_unclaimed = @ + amount, !.tokens = @ + amount]
              \in TreasuryRecord
<1>1. Credited(update_rewards(Opened(m)), amount) \in MinerRecord
  <2>1. update_rewards(Opened(m)) \in MinerRecord
    BY WeightTypes, UpdatedType
  <2> QED BY <2>1, CreditedType
<1>2. Synced(Loaded(m, TRUE), Unrefined(m)) \in ExtendedRecord
  BY WeightTypes, LoadedType, SyncedType
<1> DEFINE t == treasury.total_unclaimed + amount
           k == treasury.tokens + amount
<1>3. t \in Nat /\ k \in Nat
  BY TreasuryTypes
<1> HIDE DEF t, k
<1>4. [treasury EXCEPT !.total_unclaimed = t, !.tokens = k] \in TreasuryRecord
  BY <1>3, StateTypes DEF TreasuryRecord
<1> QED BY <1>1, <1>2, <1>4 DEF t, k

LEMMA InjectUnrefinedRewardsTypes ==
  ASSUME TypeOK, NEW m \in Miners, NEW amount \in Nat, InjectUnrefinedRewards(m, amount)
  PROVE  TypeOK'
<1>1. miner[m] = Opened(m)
  BY WeightTypes DEF InjectUnrefinedRewards
<1> DEFINE v == Credited(update_rewards(miner[m]), amount)
           e == Synced(Loaded(m, TRUE), Unrefined(m))
<1>2. v \in MinerRecord /\ e \in ExtendedRecord /\ treasury' \in TreasuryRecord
  BY <1>1, CreditTypes DEF InjectUnrefinedRewards
<1>3. miner' = [miner EXCEPT ![m] = v] /\ extended' = [extended EXCEPT ![m] = e]
  BY StateTypes DEF InjectUnrefinedRewards
<1> HIDE DEF v, e
<1> QED BY <1>2, <1>3 DEF InjectUnrefinedRewards, TypeOK, gold

LEMMA ExecuteOtcTradeTypes ==
  ASSUME TypeOK, NEW m \in Miners, NEW bonus \in Nat, ExecuteOtcTrade(m, bonus) PROVE TypeOK'
<1> DEFINE v == Credited(update_rewards(Opened(m)), bonus)
           e == Synced(Loaded(m, TRUE), Unrefined(m))
<1>1. /\ v \in MinerRecord /\ e \in ExtendedRecord /\ treasury' \in TreasuryRecord
      /\ Opened(m) \in MinerRecord
  BY CreditTypes, WeightTypes DEF ExecuteOtcTrade
<1>2. \/ miner' = [miner EXCEPT ![m] = Opened(m)] /\ extended' = extended
      \/ miner' = [miner EXCEPT ![m] = v] /\ extended' = [extended EXCEPT ![m] = e]
  BY DEF ExecuteOtcTrade
<1> HIDE DEF v, e
<1> QED BY <1>1, <1>2 DEF ExecuteOtcTrade, TypeOK, gold

\* A claim's fee is part of the rewards, so the payout is a natural number.
LEMMA FeeTypes ==
  ASSUME TypeOK, NEW st \in MinerRecord
  PROVE  /\ ClaimFee(st) \in Nat /\ ClaimFee(st) <= st.rewards_godl
         /\ Payout(st) \in Nat
         /\ Payout(st) = st.refined_godl + st.rewards_godl - ClaimFee(st)
         /\ treasury.total_unclaimed <= st.rewards_godl => ClaimFee(st) = 0
<1>1. st.rewards_godl \in Nat /\ st.refined_godl \in Nat /\ treasury.total_unclaimed \in Nat
  BY TreasuryTypes DEF MinerRecord
<1> DEFINE r == st.rewards_godl
           q == r \div FeeDivisor
<1>2. q \in Nat /\ q <= r
  <2>1. r \in Nat
    BY <1>1
  <2> HIDE DEF r
  <2> QED BY <2>1, ConstantTypes
<1>3. ClaimFee(st) = IF treasury.total_unclaimed > r THEN q ELSE 0
  BY DEF ClaimFee, Fee
<1> HIDE DEF q, r
<1>4. ClaimFee(st) \in Nat /\ ClaimFee(st) <= r
      /\ (treasury.total_unclaimed <= r => ClaimFee(st) = 0)
  BY <1>1, <1>2, <1>3 DEF r
<1>5. Payout(st) = st.refined_godl + st.rewards_godl - ClaimFee(st)
  BY DEF Payout
<1> QED BY <1>1, <1>4, <1>5 DEF r

\* What a claim leaves, in terms of the settled account st and its fee.
Left(st) == treasury.total_unclaimed - st.rewards_godl

LEMMA ClaimShape ==
  ASSUME TypeOK, NEW m \in Miners, ClaimGodl(m)
  PROVE  LET st == update_rewards(miner[m]) IN
         /\ miner[m] \in MinerRecord /\ st \in MinerRecord
         /\ Claimable(st) /\ Left(st) \in Nat
         /\ \E v \in MinerRecord :
              /\ miner' = [miner EXCEPT ![m] = v]
              /\ v.rewards_godl = 0 /\ v.refined_godl = 0
              /\ v.rewards_factor = treasury.miner_rewards_factor
              /\ v.lifetime_rewards_godl = st.lifetime_rewards_godl - ClaimFee(st)
              /\ v.playing = miner[m].playing
         /\ treasury' \in TreasuryRecord
         /\ treasury'.total_unclaimed = Left(st)
         /\ treasury'.total_refined
              = treasury.total_refined - st.refined_godl + ClaimFee(st)
         /\ treasury'.miner_rewards_factor =
              IF Left(st) > 0 THEN treasury.miner_rewards_factor + PerUnit(ClaimFee(st), Left(st))
              ELSE treasury.miner_rewards_factor
         /\ treasury'.motherlode = treasury.motherlode
         /\ treasury'.tokens = treasury.tokens - Payout(st)
<1> DEFINE st == update_rewards(miner[m])
           fee == ClaimFee(st)
           v == [st EXCEPT !.rewards_godl = 0, !.refined_godl = 0,
                           !.lifetime_rewards_godl = @ - fee]
           left == Left(st)
           refined == treasury.total_refined - st.refined_godl + fee
           factor == IF left > 0 THEN treasury.miner_rewards_factor + PerUnit(fee, left)
                     ELSE treasury.miner_rewards_factor
           tokens == treasury.tokens - Payout(st)
<1>1. miner[m] # None /\ miner[m] \in MinerRecord
  BY WeightTypes DEF ClaimGodl
<1>2. /\ st \in MinerRecord /\ st.rewards_factor = treasury.miner_rewards_factor
      /\ st.playing = miner[m].playing
  BY <1>1, UpdatedType
<1>3. /\ Claimable(st)
      /\ miner' = [miner EXCEPT ![m] = v]
      /\ treasury' = [treasury EXCEPT
           !.total_unclaimed = left, !.total_refined = refined,
           !.miner_rewards_factor = factor, !.tokens = tokens]
  BY DEF ClaimGodl, Left, UnclaimedAfter
<1>4. /\ treasury.total_unclaimed >= st.rewards_godl
      /\ treasury.total_refined >= st.refined_godl
      /\ st.lifetime_rewards_godl >= fee
      /\ treasury.tokens >= Payout(st)
  BY <1>3 DEF Claimable
<1> HIDE DEF st
<1>5. fee \in Nat /\ fee <= st.rewards_godl /\ Payout(st) \in Nat
  BY <1>2, FeeTypes
<1>6. /\ st.rewards_godl \in Nat /\ st.refined_godl \in Nat /\ st.rewards_factor \in Nat
      /\ st.lifetime_rewards_godl \in Nat /\ st.playing \in BOOLEAN
  BY <1>2 DEF MinerRecord
<1> HIDE DEF fee
<1>7. left \in Nat /\ refined \in Nat /\ tokens \in Nat
  BY <1>4, <1>5, <1>6, TreasuryTypes DEF Left
<1>8. factor \in Nat
  <2>1. left > 0 => PerUnit(fee, left) \in Nat
    BY <1>5, <1>7, PerUnitNat
  <2> HIDE DEF left
  <2> QED BY <1>7, <2>1, TreasuryTypes
<1> HIDE DEF v, left, refined, factor, tokens
<1>9. treasury' = [total_unclaimed |-> left, total_refined |-> refined,
                   miner_rewards_factor |-> factor, motherlode |-> treasury.motherlode,
                   tokens |-> tokens]
  BY <1>3, StateTypes DEF TreasuryRecord
<1>10. treasury' \in TreasuryRecord
  BY <1>7, <1>8, <1>9, TreasuryTypes DEF TreasuryRecord
<1>11. /\ v \in MinerRecord /\ v.rewards_godl = 0 /\ v.refined_godl = 0
       /\ v.rewards_factor = st.rewards_factor /\ v.playing = st.playing
       /\ v.lifetime_rewards_godl = st.lifetime_rewards_godl - fee
  <2> DEFINE l == st.lifetime_rewards_godl - fee
  <2>1. l \in Nat
    BY <1>4, <1>5, <1>6
  <2>2. v = [st EXCEPT !.rewards_godl = 0, !.refined_godl = 0, !.lifetime_rewards_godl = l]
    BY DEF v
  <2> HIDE DEF l
  <2>3. v = [rewards_godl |-> 0, refined_godl |-> 0, rewards_factor |-> st.rewards_factor,
             lifetime_rewards_godl |-> l, playing |-> st.playing]
    BY <1>2, <2>2 DEF MinerRecord
  <2>4. v \in MinerRecord
    BY <1>6, <2>1, <2>3 DEF MinerRecord
  <2> QED BY <2>3, <2>4 DEF l
<1>12. \E w \in MinerRecord :
              /\ miner' = [miner EXCEPT ![m] = w]
              /\ w.rewards_godl = 0 /\ w.refined_godl = 0
              /\ w.rewards_factor = treasury.miner_rewards_factor
              /\ w.lifetime_rewards_godl = st.lifetime_rewards_godl - fee
              /\ w.playing = miner[m].playing
  BY <1>2, <1>3, <1>11
<1> QED BY <1>1, <1>2, <1>3, <1>7, <1>9, <1>10, <1>12 DEF st, fee, left, refined, factor, tokens

LEMMA ClaimGodlTypes == ASSUME TypeOK, NEW m \in Miners, ClaimGodl(m) PROVE TypeOK'
<1> DEFINE st == update_rewards(miner[m])
           cut == ReferralCut(m, Payout(st))
           ext == Loaded(m, Unrefined(m) > 0)
           rewards == referrer.rewards_godl + cut
           tokens == referrer.tokens + cut
           sum == paid + Payout(st)
<1>1. st \in MinerRecord /\ treasury' \in TreasuryRecord
  BY ClaimShape
<1>2. PICK v \in MinerRecord : miner' = [miner EXCEPT ![m] = v]
  BY ClaimShape
<1>3. /\ extended' = [extended EXCEPT ![m] = Sync(ext, Unrefined(m))]
      /\ referrer' = [rewards_godl |-> rewards, tokens |-> tokens]
      /\ paid' = sum /\ UNCHANGED <<now, prizes, gold, audit>>
  BY DEF ClaimGodl
<1>4. Payout(st) \in Nat
  BY <1>1, FeeTypes
<1>5. cut \in Nat
  <2>1. Bps(Payout(st), REFERRAL_BPS, DENOMINATOR_BPS) \in Nat
    <3> HIDE DEF st
    <3>1. REFERRAL_BPS \in Nat /\ REFERRAL_BPS <= DENOMINATOR_BPS
      BY ScalesAssumption
    <3> QED BY <1>4, <3>1, ConstantTypes, BpsBound
  <2> QED BY <2>1 DEF ReferralCut
<1>6. Sync(ext, Unrefined(m)) \in ExtendedAccount
  <2>1. ext \in ExtendedAccount
    BY LoadedType
  <2> HIDE DEF ext
  <2> QED BY <2>1, SyncType, WeightTypes
<1> HIDE DEF st, cut, ext
<1>7. rewards \in Nat /\ tokens \in Nat /\ sum \in Nat
  <2> DEFINE p == Payout(st)
             a == referrer.rewards_godl
             b == referrer.tokens
  <2>1. a \in Nat /\ b \in Nat /\ paid \in Nat /\ p \in Nat
    BY <1>4, StateTypes
  <2> HIDE DEF p, a, b
  <2>2. a + cut \in Nat /\ b + cut \in Nat /\ paid + p \in Nat
    BY <1>5, <2>1
  <2> QED BY <2>2 DEF p, a, b
<1>8. referrer' \in [rewards_godl : Nat, tokens : Nat] /\ paid' \in Nat
  <2> HIDE DEF rewards, tokens, sum
  <2> QED BY <1>3, <1>7
<1>9. extended' \in [Miners -> ExtendedAccount] /\ miner' \in [Miners -> MinerAccount]
  BY <1>2, <1>3, <1>6, StateTypes DEF MinerAccount
<1> QED BY <1>1, <1>3, <1>8, <1>9 DEF TypeOK, gold, MinerAccount, ExtendedAccount

LEMMA ClaimReferralTypes == ASSUME TypeOK, ClaimReferral PROVE TypeOK'
<1> DEFINE t == referrer.tokens - referrer.rewards_godl
<1>1. t \in Nat
  <2>1. referrer.rewards_godl \in Nat /\ referrer.tokens \in Nat
    BY StateTypes
  <2>2. referrer.tokens >= referrer.rewards_godl
    BY DEF ClaimReferral
  <2> QED BY <2>1, <2>2
<1>2. referrer' = [rewards_godl |-> 0, tokens |-> t]
  BY DEF ClaimReferral
<1> HIDE DEF t
<1>3. referrer' \in [rewards_godl : Nat, tokens : Nat]
  BY <1>1, <1>2
<1> QED BY <1>3 DEF ClaimReferral, TypeOK, gold

LEMMA InjectGodlMotherlodeTypes ==
  ASSUME TypeOK, NEW amount \in Nat, InjectGodlMotherlode(amount) PROVE TypeOK'
<1> DEFINE l == treasury.motherlode + amount
           k == treasury.tokens + amount
<1>1. l \in Nat /\ k \in Nat
  <2>1. treasury.motherlode \in Nat /\ treasury.tokens \in Nat
    BY TreasuryTypes
  <2> QED BY <2>1
<1>2. treasury' = [treasury EXCEPT !.motherlode = l, !.tokens = k]
  BY DEF InjectGodlMotherlode
<1> HIDE DEF l, k
<1>3. treasury' \in TreasuryRecord
  <2>1. treasury' = [total_unclaimed |-> treasury.total_unclaimed,
                     total_refined |-> treasury.total_refined,
                     miner_rewards_factor |-> treasury.miner_rewards_factor,
                     motherlode |-> l, tokens |-> k]
    BY <1>2, StateTypes DEF TreasuryRecord
  <2> QED BY <1>1, <2>1, TreasuryTypes DEF TreasuryRecord
<1> QED BY <1>3 DEF InjectGodlMotherlode, TypeOK, gold

\* A vault from its fields.
LEMMA VaultForm ==
  ASSUME NEW v, NEW f \in Nat, NEW p \in Nat, NEW d \in Nat, NEW c \in Nat, NEW w \in Nat,
         NEW x \in Nat,
         v = [xaut_rewards_factor |-> f, pending_xaut |-> p, total_xaut_distributed |-> d,
              total_xaut_claimed |-> c, wsol |-> w, xaut |-> x]
  PROVE  v \in GoldVaultRecord
BY DEF GoldVaultRecord

\* What a distribution does to the vault's fields.
LEMMA DistributedShape ==
  ASSUME TypeOK, NEW xaut \in Nat
  PROVE  LET amount == gold_vault.pending_xaut + xaut
             total == treasury.total_unclaimed
             d == Distributed(xaut)
         IN  /\ amount \in Nat /\ total \in Nat /\ d \in GoldVaultRecord
             /\ d.xaut = gold_vault.xaut + xaut
             /\ d.wsol = gold_vault.wsol
             /\ d.total_xaut_claimed = gold_vault.total_xaut_claimed
             /\ total > 0 =>
                  /\ d.xaut_rewards_factor = gold_vault.xaut_rewards_factor
                       + PerUnit(amount * GOLD_FACTOR_SCALE, total)
                  /\ PerUnit(amount * GOLD_FACTOR_SCALE, total) \in Nat
                  /\ d.pending_xaut = 0
             /\ total = 0 =>
                  /\ d.xaut_rewards_factor = gold_vault.xaut_rewards_factor
                  /\ d.pending_xaut = amount
<1> DEFINE amount == gold_vault.pending_xaut + xaut
           total == treasury.total_unclaimed
           scaled == amount * GOLD_FACTOR_SCALE
           share == PerUnit(scaled, total)
           f == IF total > 0 THEN gold_vault.xaut_rewards_factor + share
                ELSE gold_vault.xaut_rewards_factor
           p == IF total = 0 THEN amount ELSE 0
           t == IF total > 0 THEN gold_vault.total_xaut_distributed + amount
                ELSE gold_vault.total_xaut_distributed
           x == gold_vault.xaut + xaut
           d == Distributed(xaut)
<1>1. amount \in Nat /\ total \in Nat /\ x \in Nat
  BY TreasuryTypes, VaultTypes
<1>2. d = [gold_vault EXCEPT !.xaut_rewards_factor = f, !.pending_xaut = p,
                             !.total_xaut_distributed = t, !.xaut = x]
  BY DEF Distributed, PendingAfter
<1>3. total > 0 => share \in Nat
  <2>1. scaled \in Nat
    <3> HIDE DEF amount
    <3> QED BY <1>1, ConstantTypes
  <2> HIDE DEF scaled, total
  <2> QED BY <1>1, <2>1, PerUnitNat
<1> HIDE DEF d, share
<1>4. f \in Nat /\ p \in Nat /\ t \in Nat
  <2> HIDE DEF amount, total
  <2> QED BY <1>1, <1>3, VaultTypes
<1>5. (total > 0 => f = gold_vault.xaut_rewards_factor + share /\ p = 0)
      /\ (total = 0 => f = gold_vault.xaut_rewards_factor /\ p = amount)
  <2> HIDE DEF amount
  <2> QED BY <1>1
<1> HIDE DEF f, p, t, x, amount, total
<1>6. d = [xaut_rewards_factor |-> f, pending_xaut |-> p, total_xaut_distributed |-> t,
           total_xaut_claimed |-> gold_vault.total_xaut_claimed, wsol |-> gold_vault.wsol,
           xaut |-> x]
  BY <1>2, StateTypes DEF GoldVaultRecord
<1>7. d \in GoldVaultRecord
  BY <1>1, <1>4, <1>6, VaultTypes, VaultForm
<1>8. /\ d.xaut = x /\ d.wsol = gold_vault.wsol
      /\ d.total_xaut_claimed = gold_vault.total_xaut_claimed
      /\ d.xaut_rewards_factor = f /\ d.pending_xaut = p
  BY <1>6
<1> QED BY <1>1, <1>3, <1>5, <1>7, <1>8 DEF d, x, share, scaled, amount, total

LEMMA PreBuyGoldTypes == ASSUME TypeOK, NEW amount \in Nat, PreBuyGold(amount) PROVE TypeOK'
<1> DEFINE rush == Bps(amount, RUSH_SOL_MOTHERLODE_BPS, DENOMINATOR_BPS)
           w == gold_vault.wsol + amount - rush
           a == sol_motherlode.amount - amount
           l == sol_motherlode.lamports - amount
<1>1. rush \in Nat /\ rush <= amount
  <2>1. RUSH_SOL_MOTHERLODE_BPS \in Nat /\ RUSH_SOL_MOTHERLODE_BPS <= DENOMINATOR_BPS
    BY ScalesAssumption
  <2> QED BY <2>1, ConstantTypes, BpsBound
<1>2. /\ amount <= sol_motherlode.amount /\ amount <= sol_motherlode.lamports
      /\ sol_motherlode' = [amount |-> a, lamports |-> l]
      /\ gold_vault' = [gold_vault EXCEPT !.wsol = w]
      /\ UNCHANGED <<now, miner, extended, godl, audit>>
  BY DEF PreBuyGold
<1>3. w \in Nat
  <2> HIDE DEF rush
  <2>1. gold_vault.wsol \in Nat
    BY VaultTypes
  <2> QED BY <1>1, <2>1
<1>4. a \in Nat /\ l \in Nat
  <2>1. sol_motherlode.amount \in Nat /\ sol_motherlode.lamports \in Nat
    BY StateTypes
  <2> QED BY <1>2, <2>1
<1> HIDE DEF w, a, l
<1>5. gold_vault' = [xaut_rewards_factor |-> gold_vault.xaut_rewards_factor,
         pending_xaut |-> gold_vault.pending_xaut,
         total_xaut_distributed |-> gold_vault.total_xaut_distributed,
         total_xaut_claimed |-> gold_vault.total_xaut_claimed, wsol |-> w,
         xaut |-> gold_vault.xaut]
  BY <1>2, StateTypes DEF GoldVaultRecord
<1>6. gold_vault' \in GoldVaultRecord
  BY <1>3, <1>5, VaultTypes, VaultForm
<1>7. sol_motherlode' \in [amount : Nat, lamports : Nat]
  BY <1>2, <1>4
<1> QED BY <1>2, <1>6, <1>7 DEF TypeOK, godl

\* An audit from its fields.
LEMMA AuditForm ==
  ASSUME NEW step \in {"idle", "miners", "extendeds", "judge", "send"},
         NEW n \in 0 .. MaxAttempts, NEW e \in Nat, NEW s \in Nat, NEW h \in SUBSET Miners,
         NEW p \in BOOLEAN, NEW b \in BOOLEAN
  PROVE  [step |-> step, attempt |-> n, expected |-> e, sum |-> s, holders |-> h,
          passed |-> p, buying |-> b] \in AuditRecord
BY DEF AuditRecord

LEMMA AuditFields ==
  ASSUME TypeOK
  PROVE  /\ audit.step \in {"idle", "miners", "extendeds", "judge", "send"}
         /\ audit.attempt \in 0 .. MaxAttempts /\ audit.expected \in Nat /\ audit.sum \in Nat
         /\ audit.holders \in SUBSET Miners
         /\ audit.passed \in BOOLEAN /\ audit.buying \in BOOLEAN
         /\ audit = [step |-> audit.step, attempt |-> audit.attempt,
                     expected |-> audit.expected, sum |-> audit.sum,
                     holders |-> audit.holders, passed |-> audit.passed,
                     buying |-> audit.buying]
BY StateTypes DEF AuditRecord

LEMMA BuyGoldTypes == ASSUME TypeOK, NEW xaut \in Nat, BuyGold(xaut) PROVE TypeOK'
<1>1. Distributed(xaut) \in GoldVaultRecord
  BY DistributedShape
<1>2. [Distributed(xaut) EXCEPT !.wsol = 0] \in GoldVaultRecord
  <2> DEFINE d == Distributed(xaut)
  <2> HIDE DEF d
  <2>1. d \in GoldVaultRecord => [d EXCEPT !.wsol = 0] \in GoldVaultRecord
    BY DEF GoldVaultRecord
  <2> QED BY <1>1, <2>1 DEF d
<1>3. audit' = [step |-> audit.step, attempt |-> audit.attempt, expected |-> audit.expected,
                sum |-> audit.sum, holders |-> audit.holders, passed |-> audit.passed,
                buying |-> FALSE]
  BY AuditFields DEF BuyGold
<1>4. audit' \in AuditRecord
  BY <1>3, AuditFields, AuditForm
<1> QED BY <1>2, <1>4 DEF BuyGold, TypeOK, godl

LEMMA DepositGoldTypes == ASSUME TypeOK, NEW xaut \in Nat, DepositGold(xaut) PROVE TypeOK'
<1>1. Distributed(xaut) \in GoldVaultRecord
  BY DistributedShape
<1> QED BY <1>1 DEF DepositGold, TypeOK, godl

\* A claim of gold pays what the settled extended account holds.
LEMMA ClaimGoldShape ==
  ASSUME TypeOK, NEW m \in Miners, ClaimGold(m)
  PROVE  LET ext == Synced(Loaded(m, TRUE), Unrefined(m)) IN
         /\ ext \in ExtendedRecord /\ gold_vault.xaut >= ext.xaut_rewards
         /\ \E e \in ExtendedRecord :
              /\ extended' = [extended EXCEPT ![m] = e]
              /\ e.xaut_rewards = 0 /\ e.xaut_rewards_factor = gold_vault.xaut_rewards_factor
         /\ gold_vault' \in GoldVaultRecord
         /\ gold_vault'.xaut_rewards_factor = gold_vault.xaut_rewards_factor
         /\ gold_vault'.pending_xaut = gold_vault.pending_xaut
         /\ gold_vault'.xaut = gold_vault.xaut - ext.xaut_rewards
<1> DEFINE ext == Synced(Loaded(m, TRUE), Unrefined(m))
           r == ext.xaut_rewards
           e == [ext EXCEPT !.xaut_rewards = 0]
           c == gold_vault.total_xaut_claimed + r
           x == gold_vault.xaut - r
<1>1. ext \in ExtendedRecord /\ ext.xaut_rewards_factor = gold_vault.xaut_rewards_factor
  BY WeightTypes, LoadedType, SyncedType
<1>2. /\ gold_vault.xaut >= r /\ extended' = [extended EXCEPT ![m] = e]
      /\ gold_vault' = [gold_vault EXCEPT !.total_xaut_claimed = c, !.xaut = x]
  BY DEF ClaimGold
<1> HIDE DEF ext
<1>3. e \in ExtendedRecord /\ e.xaut_rewards = 0
      /\ e.xaut_rewards_factor = gold_vault.xaut_rewards_factor /\ r \in Nat
  BY <1>1 DEF ExtendedRecord
<1> HIDE DEF e, r
<1>4. c \in Nat /\ x \in Nat
  BY <1>2, <1>3, VaultTypes
<1>5. gold_vault' = [xaut_rewards_factor |-> gold_vault.xaut_rewards_factor,
         pending_xaut |-> gold_vault.pending_xaut,
         total_xaut_distributed |-> gold_vault.total_xaut_distributed,
         total_xaut_claimed |-> c, wsol |-> gold_vault.wsol, xaut |-> x]
  <2> HIDE DEF c, x
  <2> QED BY <1>2, StateTypes DEF GoldVaultRecord
<1>6. gold_vault' \in GoldVaultRecord
  <2> HIDE DEF c, x
  <2> QED BY <1>4, <1>5, VaultTypes, VaultForm
<1> QED BY <1>1, <1>2, <1>3, <1>5, <1>6 DEF ext, r

LEMMA ClaimGoldTypes == ASSUME TypeOK, NEW m \in Miners, ClaimGold(m) PROVE TypeOK'
<1>1. gold_vault' \in GoldVaultRecord
  BY ClaimGoldShape
<1>2. PICK e \in ExtendedRecord : extended' = [extended EXCEPT ![m] = e]
  BY ClaimGoldShape
<1> QED BY <1>1, <1>2 DEF ClaimGold, TypeOK, godl
-----------------------------------------------------------------------------
(* The audit commands *)

LEMMA AuditTypes ==
  ASSUME TypeOK,
         ReadTreasury \/ ListMiners \/ ListMinerExtendeds \/ AuditUnclaimed
           \/ RereadTreasury \/ RebaseMismatch \/ RebaseTotalUnclaimed
  PROVE  TypeOK'
<1>0. /\ audit.step \in {"idle", "miners", "extendeds", "judge", "send"}
      /\ audit.attempt \in 0 .. MaxAttempts /\ audit.expected \in Nat /\ audit.sum \in Nat
      /\ audit.holders \in SUBSET Miners
      /\ audit.passed \in BOOLEAN /\ audit.buying \in BOOLEAN
      /\ audit = [step |-> audit.step, attempt |-> audit.attempt,
                  expected |-> audit.expected, sum |-> audit.sum,
                  holders |-> audit.holders, passed |-> audit.passed,
                  buying |-> audit.buying]
  BY AuditFields
<1>1. ASSUME audit' \in AuditRecord, UNCHANGED <<now, miner, extended, godl, gold>>
      PROVE  TypeOK'
  BY <1>1 DEF TypeOK, godl, gold
<1>2. ASSUME NEW step \in {"idle", "send"}, RebaseStep(step) PROVE TypeOK'
  <2>1. audit' = [step |-> step, attempt |-> audit.attempt, expected |-> audit.expected,
                  sum |-> audit.sum, holders |-> audit.holders, passed |-> audit.passed,
                  buying |-> FALSE]
    BY <1>0, <1>2 DEF RebaseStep
  <2>2. audit' \in AuditRecord
    BY <1>0, <2>1, AuditForm
  <2> QED BY <1>1, <1>2, <2>2 DEF RebaseStep
<1>3. CASE ReadTreasury
  <2> DEFINE n == audit.attempt + 1
             e == treasury.total_unclaimed
             b == ~DistributionLocked
  <2>1. n \in 0 .. MaxAttempts /\ e \in Nat /\ b \in BOOLEAN
    <3>1. audit.attempt < MaxAttempts
      BY <1>3 DEF ReadTreasury
    <3> DEFINE k == audit.attempt
    <3>2. k \in 0 .. MaxAttempts /\ k < MaxAttempts /\ MaxAttempts \in Nat
      BY <1>0, <3>1, ConstantTypes
    <3> HIDE DEF k
    <3>3. k + 1 \in 0 .. MaxAttempts
      BY <3>2
    <3>4. b \in BOOLEAN
      BY DEF DistributionLocked
    <3> QED BY <3>3, <3>4, TreasuryTypes DEF k
  <2>2. audit' = [audit EXCEPT !.step = "miners", !.attempt = n, !.expected = e, !.buying = b]
    BY <1>3 DEF ReadTreasury
  <2> HIDE DEF n, e, b
  <2>3. audit' = [step |-> "miners", attempt |-> n, expected |-> e, sum |-> audit.sum,
                  holders |-> audit.holders, passed |-> audit.passed, buying |-> b]
    BY <1>0, <2>2
  <2>4. audit' \in AuditRecord
    BY <1>0, <2>1, <2>3, AuditForm
  <2> QED BY <1>1, <1>3, <2>4 DEF ReadTreasury
<1>4. CASE ListMiners
  <2> DEFINE h == {m \in Miners : Unrefined(m) > 0}
  <2>1. h \in SUBSET Miners /\ TotalUnrefined \in Nat
    BY WeightTypes
  <2>2. audit' = [audit EXCEPT !.step = "extendeds", !.sum = TotalUnrefined, !.holders = h]
    BY <1>4 DEF ListMiners
  <2> HIDE DEF h
  <2>3. audit' = [step |-> "extendeds", attempt |-> audit.attempt,
                  expected |-> audit.expected, sum |-> TotalUnrefined, holders |-> h,
                  passed |-> audit.passed, buying |-> audit.buying]
    BY <1>0, <2>2
  <2>4. audit' \in AuditRecord
    BY <1>0, <2>1, <2>3, AuditForm
  <2> QED BY <1>1, <1>4, <2>4 DEF ListMiners
<1>5. CASE ListMinerExtendeds
  <2> DEFINE h == {m \in audit.holders : extended[m] = None}
  <2>1. h \in SUBSET Miners
    BY <1>0
  <2>2. audit' = [audit EXCEPT !.step = "judge", !.holders = h]
    BY <1>5 DEF ListMinerExtendeds
  <2> HIDE DEF h
  <2>3. audit' = [step |-> "judge", attempt |-> audit.attempt, expected |-> audit.expected,
                  sum |-> audit.sum, holders |-> h, passed |-> audit.passed,
                  buying |-> audit.buying]
    BY <1>0, <2>2
  <2>4. audit' \in AuditRecord
    BY <1>0, <2>1, <2>3, AuditForm
  <2> QED BY <1>1, <1>5, <2>4 DEF ListMinerExtendeds
<1>6. CASE AuditUnclaimed
  <2> DEFINE ok == audit.sum = audit.expected /\ audit.holders = {}
             p == audit.passed \/ ok
             b == audit.buying /\ ok
  <2>1. p \in BOOLEAN /\ b \in BOOLEAN
    OBVIOUS
  <2>2. audit' = [audit EXCEPT !.step = "idle", !.holders = {}, !.passed = p, !.buying = b]
    BY <1>6 DEF AuditUnclaimed
  <2> HIDE DEF p, b
  <2>3. audit' = [step |-> "idle", attempt |-> audit.attempt, expected |-> audit.expected,
                  sum |-> audit.sum, holders |-> {}, passed |-> p, buying |-> b]
    BY <1>0, <2>2
  <2>4. audit' \in AuditRecord
    BY <1>0, <2>1, <2>3, AuditForm
  <2> QED BY <1>1, <1>6, <2>4 DEF AuditUnclaimed
<1>7. CASE RereadTreasury
  <2>1. \E step \in {"idle", "send"} : RebaseStep(step)
    BY <1>7 DEF RereadTreasury
  <2> QED BY <1>2, <2>1
<1>8. CASE RebaseMismatch
  BY <1>2, <1>8 DEF RebaseMismatch
<1>9. CASE RebaseTotalUnclaimed
  <2>1. audit' = [audit EXCEPT !.step = "idle"]
    BY <1>9 DEF RebaseTotalUnclaimed
  <2>2. audit' = [step |-> "idle", attempt |-> audit.attempt, expected |-> audit.expected,
                  sum |-> audit.sum, holders |-> audit.holders, passed |-> audit.passed,
                  buying |-> audit.buying]
    BY <1>0, <2>1
  <2>3. audit' \in AuditRecord
    BY <1>0, <2>2, AuditForm
  <2>4. treasury' = [treasury EXCEPT !.total_unclaimed = audit.sum]
    BY <1>9 DEF RebaseTotalUnclaimed
  <2>5. treasury' \in TreasuryRecord
    BY <1>0, <2>4, StateTypes DEF TreasuryRecord
  <2> QED BY <1>9, <2>3, <2>5 DEF RebaseTotalUnclaimed, TypeOK, gold
<1> QED BY <1>3, <1>4, <1>5, <1>6, <1>7, <1>8, <1>9

LEMMA NextTypes == ASSUME TypeOK, [Next]_vars PROVE TypeOK'
<1>1. CASE UNCHANGED vars
  BY <1>1 DEF vars, TypeOK
<1>2. CASE Next
  BY <1>2, ConstantTypes, TickTypes, ResetTypes, AutomateTypes, DeployTypes,
     DeployWithMinerExtendedTypes, CreateMinerExtendedTypes, CheckpointTypes,
     CheckpointWithMinerExtendedTypes, CheckpointForfeitTypes, ClaimGodlTypes,
     InjectUnrefinedRewardsTypes, ExecuteOtcTradeTypes, ClaimGoldTypes, ClaimReferralTypes,
     InjectGodlMotherlodeTypes, PreBuyGoldTypes, BuyGoldTypes, DepositGoldTypes, AuditTypes
     DEF Next
<1> QED BY <1>1, <1>2

\* Every account holds values of its type: no unsigned field of Miner, Treasury,
\* GoldVault or MinerExtended is ever driven below zero, whatever the interleaving
\* of claims, checkpoints and rebases.
THEOREM RefiningTypes == Spec => []TypeOK
<1>1. TypeOK /\ [Next]_vars => TypeOK'
  BY NextTypes
<1> QED BY <1>1, InitTypes, PTL DEF Spec
-----------------------------------------------------------------------------
(* The kinds of steps *)

\* GODL in the treasury's account that no round and no motherlode claims.
Free == treasury.tokens - treasury.motherlode - prizes

\* The terms that the rewards of all miners depend on stay.
Calm ==
    /\ treasury'.total_unclaimed = treasury.total_unclaimed
    /\ treasury'.total_refined = treasury.total_refined
    /\ treasury'.miner_rewards_factor = treasury.miner_rewards_factor

\* No account changes.
Rests == miner' = miner /\ Calm /\ Free' = Free

\* Account m is opened, or starts or ends a play.
Keeps(m) ==
    /\ \E v \in MinerRecord :
         /\ miner' = [miner EXCEPT ![m] = v]
         /\ v.rewards_godl = Opened(m).rewards_godl
         /\ v.refined_godl = Opened(m).refined_godl
         /\ v.rewards_factor = Opened(m).rewards_factor
         /\ v.lifetime_rewards_godl = Opened(m).lifetime_rewards_godl
    /\ Calm /\ Free' = Free

\* Account m is settled and gets weight, which is paid for.
Credits(m, amount) ==
    /\ \E v \in MinerRecord :
         /\ miner' = [miner EXCEPT ![m] = v]
         /\ v.rewards_godl = Unrefined(m) + amount
         /\ v.refined_godl = update_rewards(Opened(m)).refined_godl
         /\ v.rewards_factor = treasury.miner_rewards_factor
         /\ v.lifetime_rewards_godl
              = update_rewards(Opened(m)).lifetime_rewards_godl + amount
    /\ treasury'.total_unclaimed = treasury.total_unclaimed + amount
    /\ treasury'.total_refined = treasury.total_refined
    /\ treasury'.miner_rewards_factor = treasury.miner_rewards_factor
    /\ Free' = Free + amount

\* Account m takes all it has, but for the fee.
Claims(m) ==
    LET st == update_rewards(miner[m])
    IN  /\ miner[m] # None /\ Claimable(st)
        /\ \E v \in MinerRecord :
             /\ miner' = [miner EXCEPT ![m] = v]
             /\ v.rewards_godl = 0 /\ v.refined_godl = 0
             /\ v.rewards_factor = treasury.miner_rewards_factor
             /\ v.lifetime_rewards_godl = st.lifetime_rewards_godl - ClaimFee(st)
        /\ treasury'.total_unclaimed = Left(st)
        /\ treasury'.total_refined
             = treasury.total_refined - st.refined_godl + ClaimFee(st)
        /\ treasury'.miner_rewards_factor =
             IF Left(st) > 0 THEN treasury.miner_rewards_factor + PerUnit(ClaimFee(st), Left(st))
             ELSE treasury.miner_rewards_factor
        /\ Free' = Free - Payout(st)

\* The admin overwrites the total.
Rebases ==
    /\ miner' = miner /\ treasury'.total_unclaimed = audit.sum
    /\ treasury'.total_refined = treasury.total_refined
    /\ treasury'.miner_rewards_factor = treasury.miner_rewards_factor
    /\ Free' = Free

\* Nothing of these kinds is touched.
LEMMA UntouchedRests ==
  ASSUME miner' = miner, treasury' = treasury, prizes' = prizes PROVE Rests
BY DEF Rests, Calm, Free

LEMMA ResetKind == ASSUME TypeOK, NEW hit \in BOOLEAN, Reset(hit) PROVE Rests
<1> DEFINE won == IF hit THEN treasury.motherlode - treasury.motherlode \div FeeDivisor ELSE 0
           left == treasury.motherlode - won + MOTHERLODE_MINT
           tokens == treasury.tokens + GODL_PER_ROUND + MOTHERLODE_MINT
<1>1. /\ prizes' = prizes + GODL_PER_ROUND + won /\ miner' = miner
      /\ treasury' = [treasury EXCEPT !.motherlode = left, !.tokens = tokens]
  BY DEF Reset
<1>2. won \in Int
  <2>1. treasury.motherlode \div FeeDivisor \in Nat
    BY TreasuryTypes, ConstantTypes
  <2> QED BY <2>1, TreasuryTypes
<1> HIDE DEF left, tokens, won
<1>3. /\ treasury' = [total_unclaimed |-> treasury.total_unclaimed,
                     total_refined |-> treasury.total_refined,
                     miner_rewards_factor |-> treasury.miner_rewards_factor,
                     motherlode |-> left, tokens |-> tokens]
  BY <1>1, StateTypes DEF TreasuryRecord
<1>4. treasury.tokens \in Nat /\ treasury.motherlode \in Nat /\ prizes \in Nat
      /\ GODL_PER_ROUND \in Nat /\ MOTHERLODE_MINT \in Nat
  BY TreasuryTypes, StateTypes, ConstantTypes
<1>5. tokens - left - (prizes + GODL_PER_ROUND + won)
        = treasury.tokens - treasury.motherlode - prizes
  BY <1>2, <1>4 DEF left, tokens
<1> QED BY <1>1, <1>3, <1>5 DEF Rests, Calm, Free

\* Opening an account and a play without rewards.
LEMMA AutomateKind == ASSUME TypeOK, NEW m \in Miners, Automate(m) PROVE Keeps(m)
<1>1. NewMiner \in MinerRecord /\ Opened(m) = NewMiner
  BY DEF NewMiner, MinerRecord, Opened, Automate
<1>2. miner' = [miner EXCEPT ![m] = NewMiner] /\ treasury' = treasury /\ prizes' = prizes
  BY DEF Automate, godl
<1> QED BY <1>1, <1>2 DEF Keeps, Calm, Free

LEMMA DeployKind ==
  ASSUME TypeOK, NEW m \in Miners, Deploy(m) \/ DeployWithMinerExtended(m) PROVE Keeps(m)
<1> DEFINE v == [Opened(m) EXCEPT !.playing = TRUE]
<1>1. miner' = [miner EXCEPT ![m] = v] /\ treasury' = treasury /\ prizes' = prizes
  BY DEF Deploy, DeployWithMinerExtended, godl
<1>2. /\ v \in MinerRecord /\ v.rewards_godl = Opened(m).rewards_godl
      /\ v.refined_godl = Opened(m).refined_godl
      /\ v.rewards_factor = Opened(m).rewards_factor
      /\ v.lifetime_rewards_godl = Opened(m).lifetime_rewards_godl
  BY WeightTypes, PlayingType
<1> HIDE DEF v
<1> QED BY <1>1, <1>2 DEF Keeps, Calm, Free

LEMMA CheckpointForfeitKind ==
  ASSUME TypeOK, NEW m \in Miners, CheckpointForfeit(m) PROVE Keeps(m)
<1> DEFINE v == [miner[m] EXCEPT !.playing = FALSE]
<1>1. miner' = [miner EXCEPT ![m] = v] /\ treasury' = treasury /\ prizes' = prizes
  BY StateTypes DEF CheckpointForfeit, godl
<1>2. miner[m] = Opened(m) /\ miner[m] \in MinerRecord
  BY WeightTypes DEF CheckpointForfeit
<1>3. /\ v \in MinerRecord /\ v.rewards_godl = Opened(m).rewards_godl
      /\ v.refined_godl = Opened(m).refined_godl
      /\ v.rewards_factor = Opened(m).rewards_factor
      /\ v.lifetime_rewards_godl = Opened(m).lifetime_rewards_godl
  BY <1>2, PlayingType
<1> HIDE DEF v
<1> QED BY <1>1, <1>3 DEF Keeps, Calm, Free

LEMMA CheckpointKind ==
  ASSUME TypeOK, NEW m \in Miners, NEW amount \in Nat,
         Checkpoint(m, amount) \/ CheckpointWithMinerExtended(m, amount)
  PROVE  Credits(m, amount)
<1> DEFINE t == treasury.total_unclaimed + amount
<1>1. Settle(m, amount) /\ treasury' = [treasury EXCEPT !.total_unclaimed = t]
  BY DEF Checkpoint, CheckpointWithMinerExtended
<1>2. PICK v \in MinerRecord :
           /\ miner' = [miner EXCEPT ![m] = v]
           /\ v.rewards_godl = Unrefined(m) + amount
           /\ v.refined_godl = update_rewards(Opened(m)).refined_godl
           /\ v.rewards_factor = treasury.miner_rewards_factor
           /\ v.lifetime_rewards_godl
                = update_rewards(Opened(m)).lifetime_rewards_godl + amount
           /\ prizes' = prizes - amount
  BY <1>1, SettledType
<1> HIDE DEF t
<1>3. treasury' = [total_unclaimed |-> t, total_refined |-> treasury.total_refined,
                   miner_rewards_factor |-> treasury.miner_rewards_factor,
                   motherlode |-> treasury.motherlode, tokens |-> treasury.tokens]
  BY <1>1, StateTypes DEF TreasuryRecord
<1>4. treasury.tokens \in Nat /\ treasury.motherlode \in Nat /\ prizes \in Nat
  BY TreasuryTypes, StateTypes
<1>5. Free' = Free + amount
  BY <1>2, <1>3, <1>4 DEF Free
<1> QED BY <1>2, <1>3, <1>5 DEF Credits, t

LEMMA InjectUnrefinedRewardsKind ==
  ASSUME TypeOK, NEW m \in Miners, NEW amount \in Nat, InjectUnrefinedRewards(m, amount)
  PROVE  Credits(m, amount)
<1> DEFINE u == update_rewards(Opened(m))
           v == Credited(u, amount)
           t == treasury.total_unclaimed + amount
           k == treasury.tokens + amount
<1>1. miner[m] = Opened(m) /\ Opened(m) \in MinerRecord
  BY WeightTypes DEF InjectUnrefinedRewards
<1>2. /\ miner' = [miner EXCEPT ![m] = v]
      /\ treasury' = [treasury EXCEPT !.total_unclaimed = t, !.tokens = k] /\ prizes' = prizes
  BY <1>1, StateTypes DEF InjectUnrefinedRewards
<1>3. /\ u \in MinerRecord /\ u.rewards_godl = Unrefined(m)
      /\ u.rewards_factor = treasury.miner_rewards_factor
  BY <1>1, WeightTypes, UpdatedType
<1> HIDE DEF u
<1>4. /\ v \in MinerRecord /\ v.rewards_godl = u.rewards_godl + amount
      /\ v.lifetime_rewards_godl = u.lifetime_rewards_godl + amount
      /\ v.refined_godl = u.refined_godl /\ v.rewards_factor = u.rewards_factor
  BY <1>3, CreditedType
<1> HIDE DEF v, t, k
<1>5. treasury' = [total_unclaimed |-> t, total_refined |-> treasury.total_refined,
                   miner_rewards_factor |-> treasury.miner_rewards_factor,
                   motherlode |-> treasury.motherlode, tokens |-> k]
  BY <1>2, StateTypes DEF TreasuryRecord
<1>6. treasury.tokens \in Nat /\ treasury.motherlode \in Nat /\ prizes \in Nat
  BY TreasuryTypes, StateTypes
<1>7. Free' = Free + amount
  BY <1>2, <1>5, <1>6 DEF Free, k
<1> QED BY <1>2, <1>3, <1>4, <1>5, <1>7 DEF Credits, t, u

\* A trade without bonus only opens an account.
LEMMA ExecuteOtcTradeKind ==
  ASSUME TypeOK, NEW m \in Miners, NEW bonus \in Nat, ExecuteOtcTrade(m, bonus)
  PROVE  IF bonus = 0 THEN Keeps(m) ELSE Credits(m, bonus)
<1> DEFINE u == update_rewards(Opened(m))
           v == Credited(u, bonus)
           t == treasury.total_unclaimed + bonus
           k == treasury.tokens + bonus
<1>1. Opened(m) \in MinerRecord
  BY WeightTypes
<1>2. /\ miner' = [miner EXCEPT ![m] = IF bonus = 0 THEN Opened(m) ELSE v]
      /\ treasury' = [treasury EXCEPT !.total_unclaimed = t, !.tokens = k] /\ prizes' = prizes
  BY DEF ExecuteOtcTrade
<1>3. /\ u \in MinerRecord /\ u.rewards_godl = Unrefined(m)
      /\ u.rewards_factor = treasury.miner_rewards_factor
  BY <1>1, WeightTypes, UpdatedType
<1> HIDE DEF u
<1>4. /\ v \in MinerRecord /\ v.rewards_godl = u.rewards_godl + bonus
      /\ v.lifetime_rewards_godl = u.lifetime_rewards_godl + bonus
      /\ v.refined_godl = u.refined_godl /\ v.rewards_factor = u.rewards_factor
  BY <1>3, CreditedType
<1> HIDE DEF v, t, k
<1>5. treasury' = [total_unclaimed |-> t, total_refined |-> treasury.total_refined,
                   miner_rewards_factor |-> treasury.miner_rewards_factor,
                   motherlode |-> treasury.motherlode, tokens |-> k]
  BY <1>2, StateTypes DEF TreasuryRecord
<1>6. /\ treasury.tokens \in Nat /\ treasury.motherlode \in Nat /\ prizes \in Nat
      /\ treasury.total_unclaimed \in Nat
  BY TreasuryTypes, StateTypes
<1>7. Free' = Free + bonus
  BY <1>2, <1>5, <1>6 DEF Free, k
<1>8. CASE bonus = 0
  <2>1. miner' = [miner EXCEPT ![m] = Opened(m)] /\ t = treasury.total_unclaimed
        /\ Free' = Free
    BY <1>2, <1>6, <1>7, <1>8 DEF t, Free
  <2>2. Keeps(m)
    BY <1>1, <1>5, <2>1 DEF Keeps, Calm
  <2> QED BY <1>8, <2>2
<1>9. CASE bonus # 0
  <2>1. miner' = [miner EXCEPT ![m] = v]
    BY <1>2, <1>9
  <2>2. Credits(m, bonus)
    BY <1>3, <1>4, <1>5, <1>7, <2>1 DEF Credits, t, u
  <2> QED BY <1>9, <2>2
<1> QED BY <1>8, <1>9

LEMMA ClaimGodlKind == ASSUME TypeOK, NEW m \in Miners, ClaimGodl(m) PROVE Claims(m)
<1> DEFINE st == update_rewards(miner[m])
<1>1. /\ miner[m] # None /\ prizes' = prizes
  BY DEF ClaimGodl
<1>2. Payout(st) \in Nat
  BY ClaimShape, FeeTypes
<1>3. treasury.tokens \in Nat /\ treasury.motherlode \in Nat /\ prizes \in Nat
  BY TreasuryTypes, StateTypes
<1>4. /\ treasury'.motherlode = treasury.motherlode
      /\ treasury'.tokens = treasury.tokens - Payout(st)
  BY ClaimShape
<1>5. Free' = Free - Payout(st)
  <2> HIDE DEF st
  <2> QED BY <1>1, <1>2, <1>3, <1>4 DEF Free
<1>6. /\ Claimable(st)
      /\ \E v \in MinerRecord :
             /\ miner' = [miner EXCEPT ![m] = v]
             /\ v.rewards_godl = 0 /\ v.refined_godl = 0
             /\ v.rewards_factor = treasury.miner_rewards_factor
             /\ v.lifetime_rewards_godl = st.lifetime_rewards_godl - ClaimFee(st)
      /\ treasury'.total_unclaimed = Left(st)
      /\ treasury'.total_refined
             = treasury.total_refined - st.refined_godl + ClaimFee(st)
      /\ treasury'.miner_rewards_factor =
             IF Left(st) > 0 THEN treasury.miner_rewards_factor + PerUnit(ClaimFee(st), Left(st))
             ELSE treasury.miner_rewards_factor
  BY ClaimShape
<1> QED BY <1>1, <1>5, <1>6 DEF Claims

LEMMA InjectGodlMotherlodeKind ==
  ASSUME TypeOK, NEW amount \in Nat, InjectGodlMotherlode(amount) PROVE Rests
<1> DEFINE l == treasury.motherlode + amount
           k == treasury.tokens + amount
<1>1. treasury' = [treasury EXCEPT !.motherlode = l, !.tokens = k] /\ prizes' = prizes
      /\ miner' = miner
  BY DEF InjectGodlMotherlode
<1> HIDE DEF l, k
<1>2. treasury' = [total_unclaimed |-> treasury.total_unclaimed,
                   total_refined |-> treasury.total_refined,
                   miner_rewards_factor |-> treasury.miner_rewards_factor,
                   motherlode |-> l, tokens |-> k]
  BY <1>1, StateTypes DEF TreasuryRecord
<1>3. treasury.tokens \in Nat /\ treasury.motherlode \in Nat /\ prizes \in Nat
  BY TreasuryTypes, StateTypes
<1>4. k - l - prizes = treasury.tokens - treasury.motherlode - prizes
  BY <1>3 DEF k, l
<1> QED BY <1>1, <1>2, <1>4 DEF Rests, Calm, Free

LEMMA RebaseKind == ASSUME TypeOK, RebaseTotalUnclaimed PROVE Rebases
<1>1. treasury' = [treasury EXCEPT !.total_unclaimed = audit.sum] /\ prizes' = prizes
      /\ miner' = miner
  BY DEF RebaseTotalUnclaimed
<1>2. treasury' = [total_unclaimed |-> audit.sum,
                   total_refined |-> treasury.total_refined,
                   miner_rewards_factor |-> treasury.miner_rewards_factor,
                   motherlode |-> treasury.motherlode, tokens |-> treasury.tokens]
  BY <1>1, StateTypes DEF TreasuryRecord
<1> QED BY <1>1, <1>2 DEF Rebases, Free

\* Every step is of one of the kinds.
LEMMA StepKinds ==
  ASSUME TypeOK, [Next]_vars
  PROVE  \/ Rests
         \/ \E m \in Miners : Keeps(m)
         \/ \E m \in Miners, amount \in Nat : Credits(m, amount)
         \/ \E m \in Miners : Claims(m)
         \/ RebaseTotalUnclaimed /\ Rebases
<1> DEFINE Goal == \/ Rests
                   \/ \E m \in Miners : Keeps(m)
                   \/ \E m \in Miners, amount \in Nat : Credits(m, amount)
                   \/ \E m \in Miners : Claims(m)
                   \/ RebaseTotalUnclaimed /\ Rebases
<1>1. CASE UNCHANGED vars
  BY <1>1, UntouchedRests DEF vars
<1>2. CASE Tick \/ ClaimReferral \/ ReadTreasury \/ ListMiners \/ ListMinerExtendeds
           \/ AuditUnclaimed \/ RereadTreasury \/ RebaseMismatch
  <2>1. miner' = miner /\ treasury' = treasury /\ prizes' = prizes
    BY <1>2 DEF Tick, ClaimReferral, ReadTreasury, ListMiners, ListMinerExtendeds,
       AuditUnclaimed, RereadTreasury, RebaseMismatch, RebaseStep, godl
  <2> QED BY <2>1, UntouchedRests
<1>3. CASE \/ \E amount \in SolAmounts : PreBuyGold(amount)
           \/ \E xaut \in XautAmounts : BuyGold(xaut) \/ DepositGold(xaut)
           \/ \E m \in Miners : CreateMinerExtended(m) \/ ClaimGold(m)
  <2>1. miner' = miner /\ treasury' = treasury /\ prizes' = prizes
    BY <1>3 DEF PreBuyGold, BuyGold, DepositGold, CreateMinerExtended, ClaimGold, godl
  <2> QED BY <2>1, UntouchedRests
<1>4. CASE \E hit \in BOOLEAN : Reset(hit)
  BY <1>4, ResetKind
<1>5. CASE \E amount \in MotherlodeAmounts : InjectGodlMotherlode(amount)
  BY <1>5, InjectGodlMotherlodeKind, ConstantTypes
<1>6. ASSUME NEW m \in Miners,
             \/ Automate(m) \/ Deploy(m) \/ DeployWithMinerExtended(m)
             \/ CheckpointForfeit(m)
      PROVE  Goal
  BY <1>6, AutomateKind, DeployKind, CheckpointForfeitKind
<1>7. ASSUME NEW m \in Miners, NEW amount \in Nat,
             \/ Checkpoint(m, amount) \/ CheckpointWithMinerExtended(m, amount)
             \/ InjectUnrefinedRewards(m, amount) \/ ExecuteOtcTrade(m, amount)
      PROVE  Goal
  BY <1>7, CheckpointKind, InjectUnrefinedRewardsKind, ExecuteOtcTradeKind
<1>8. CASE RebaseTotalUnclaimed
  BY <1>8, RebaseKind
<1>9. ASSUME NEW m \in Miners, ClaimGodl(m) PROVE Goal
  BY <1>9, ClaimGodlKind
<1> HIDE DEF Goal
<1>10. Goal
  <2>1. CASE Next
    BY <1>2, <1>3, <1>4, <1>5, <1>6, <1>7, <1>8, <1>9, <2>1, ConstantTypes DEF Next, Goal
  <2> QED BY <1>1, <2>1 DEF Goal
<1> QED BY <1>10 DEF Goal
-----------------------------------------------------------------------------
(* The sum of the weights *)

\* One account changes, and the sum by the difference of its weights.
LEMMA WeightUpdate ==
  ASSUME TypeOK, NEW m \in Miners, NEW v \in MinerRecord, miner' = [miner EXCEPT ![m] = v]
  PROVE  /\ TotalUnrefined' = TotalUnrefined + v.rewards_godl - Unrefined(m)
         /\ Unrefined(m)' = v.rewards_godl
         /\ \A g \in Miners \ {m} : Unrefined(g)' = Unrefined(g)
<1> DEFINE f == [g \in Miners |-> Unrefined(g)]
           h == [g \in Miners |-> Unrefined(g)']
<1>1. NumMiners \in Nat /\ m \in 1 .. NumMiners /\ Miners = 1 .. NumMiners
  BY ConstantTypes
<1>2. v # None /\ v.rewards_godl \in Nat /\ miner \in [Miners -> MinerAccount]
  BY ConstantTypes, StateTypes DEF MinerRecord
<1>3. Unrefined(m)' = v.rewards_godl /\ \A g \in Miners \ {m} : Unrefined(g)' = Unrefined(g)
  BY <1>2 DEF Unrefined
<1>4. \A g \in Miners : Unrefined(g) \in Nat
  BY WeightTypes
<1>5. /\ \A i \in 1 .. NumMiners : f[i] \in Nat /\ h[i] \in Nat
      /\ \A i \in (1 .. NumMiners) \ {m} : h[i] = f[i]
      /\ f[m] = Unrefined(m) /\ h[m] = v.rewards_godl
  BY <1>1, <1>2, <1>3, <1>4
<1>6. TotalUnrefined = Sum(f, NumMiners) /\ TotalUnrefined' = Sum(h, NumMiners)
  BY DEF TotalUnrefined
<1> HIDE DEF f, h
<1>7. Sum(h, NumMiners) = Sum(f, NumMiners) + h[m] - f[m]
  BY <1>1, <1>5, SumUpdate
<1> QED BY <1>3, <1>5, <1>6, <1>7

\* A weight is part of the sum.
LEMMA WeightWithin ==
  ASSUME TypeOK, NEW m \in Miners PROVE Unrefined(m) <= TotalUnrefined
<1> DEFINE f == [g \in Miners |-> Unrefined(g)]
           h == [g \in Miners |-> IF g = m THEN 0 ELSE Unrefined(g)]
<1>1. NumMiners \in Nat /\ m \in 1 .. NumMiners /\ Miners = 1 .. NumMiners
  BY ConstantTypes
<1>2. \A g \in Miners : Unrefined(g) \in Nat
  BY WeightTypes
<1>3. /\ \A i \in 1 .. NumMiners : f[i] \in Nat /\ h[i] \in Nat
      /\ \A i \in (1 .. NumMiners) \ {m} : h[i] = f[i]
      /\ f[m] = Unrefined(m) /\ h[m] = 0
  BY <1>1, <1>2
<1>4. TotalUnrefined = Sum(f, NumMiners)
  BY DEF TotalUnrefined
<1> HIDE DEF f, h
<1>5. Sum(h, NumMiners) = Sum(f, NumMiners) + h[m] - f[m]
  BY <1>1, <1>3, SumUpdate
<1>6. Sum(h, NumMiners) \in Nat /\ Sum(f, NumMiners) \in Nat
  BY <1>1, <1>3, SumNat
<1> QED BY <1>2, <1>3, <1>4, <1>5, <1>6

\* The sum does not change when no account does.
LEMMA WeightSame ==
  ASSUME miner' = miner
  PROVE  TotalUnrefined' = TotalUnrefined /\ \A m \in Miners : Unrefined(m)' = Unrefined(m)
BY DEF TotalUnrefined, Unrefined

\* What a claim does to the weights.
LEMMA ClaimWeights ==
  ASSUME TypeOK, NEW m \in Miners, Claims(m)
  PROVE  LET st == update_rewards(miner[m]) IN
         /\ st \in MinerRecord /\ st.rewards_godl = Unrefined(m)
         /\ st = update_rewards(Opened(m))
         /\ TotalUnrefined' = TotalUnrefined - Unrefined(m)
         /\ treasury'.total_unclaimed = treasury.total_unclaimed - Unrefined(m)
         /\ Unrefined(m)' = 0
         /\ \A g \in Miners \ {m} : Unrefined(g)' = Unrefined(g)
<1> DEFINE st == update_rewards(miner[m])
<1>1. miner[m] \in MinerRecord /\ miner[m] = Opened(m) /\ miner[m].rewards_godl = Unrefined(m)
  BY WeightTypes DEF Claims
<1>2. st \in MinerRecord /\ st.rewards_godl = Unrefined(m)
  BY <1>1, UpdatedType
<1>3. PICK v \in MinerRecord : miner' = [miner EXCEPT ![m] = v] /\ v.rewards_godl = 0
  BY DEF Claims
<1>4. /\ TotalUnrefined' = TotalUnrefined + 0 - Unrefined(m)
      /\ Unrefined(m)' = 0
      /\ \A g \in Miners \ {m} : Unrefined(g)' = Unrefined(g)
  BY <1>3, WeightUpdate
<1>5. treasury'.total_unclaimed = treasury.total_unclaimed - st.rewards_godl
  BY DEF Claims, Left
<1>6. TotalUnrefined \in Nat /\ Unrefined(m) \in Nat
  BY WeightTypes
<1> QED BY <1>1, <1>2, <1>4, <1>5, <1>6

\* Only the rebase moves the total apart from the sum.
LEMMA DriftStep ==
  ASSUME TypeOK, [Next]_vars PROVE Drift' = Drift \/ (RebaseTotalUnclaimed /\ Rebases)
<1>0. TotalUnrefined \in Nat /\ treasury.total_unclaimed \in Nat
      /\ \A m \in Miners : Unrefined(m) \in Nat
  BY WeightTypes, TreasuryTypes
<1>1. ASSUME Rests PROVE Drift' = Drift
  <2>1. TotalUnrefined' = TotalUnrefined
    BY <1>1, WeightSame DEF Rests
  <2> QED BY <1>1, <2>1 DEF Drift, Rests, Calm
<1>2. ASSUME NEW m \in Miners, Keeps(m) PROVE Drift' = Drift
  <2>1. PICK v \in MinerRecord :
          miner' = [miner EXCEPT ![m] = v] /\ v.rewards_godl = Opened(m).rewards_godl
    BY <1>2 DEF Keeps
  <2>2. TotalUnrefined' = TotalUnrefined + Unrefined(m) - Unrefined(m)
    BY <2>1, WeightUpdate, WeightTypes
  <2> QED BY <1>0, <1>2, <2>2 DEF Drift, Keeps, Calm
<1>3. ASSUME NEW m \in Miners, NEW amount \in Nat, Credits(m, amount) PROVE Drift' = Drift
  <2>1. PICK v \in MinerRecord :
          miner' = [miner EXCEPT ![m] = v] /\ v.rewards_godl = Unrefined(m) + amount
    BY <1>3 DEF Credits
  <2>2. TotalUnrefined' = TotalUnrefined + (Unrefined(m) + amount) - Unrefined(m)
    BY <2>1, WeightUpdate
  <2> QED BY <1>0, <1>3, <2>2 DEF Drift, Credits
<1>4. ASSUME NEW m \in Miners, Claims(m) PROVE Drift' = Drift
  <2>1. /\ TotalUnrefined' = TotalUnrefined - Unrefined(m)
        /\ treasury'.total_unclaimed = treasury.total_unclaimed - Unrefined(m)
    BY <1>4, ClaimWeights
  <2> QED BY <1>0, <2>1 DEF Drift
<1> HIDE DEF Drift
<1> QED BY <1>1, <1>2, <1>3, <1>4, StepKinds

\* No instruction moves total_unclaimed apart from the sum of rewards_godl over
\* all miners; only the admin's rebase_total_unclaimed does.
THEOREM UnclaimedAlwaysAddsUp == Spec => UnclaimedAddsUp
<1>1. TypeOK /\ [Next]_vars => [Drift' = Drift \/ RebaseTotalUnclaimed]_vars
  BY DriftStep
<1> QED BY <1>1, RefiningTypes, PTL DEF Spec, UnclaimedAddsUp
-----------------------------------------------------------------------------
(* What is promised in GODL is there *)

\* To the unit: the rewards of all miners, and no more, are free.
Backed == Free = TotalUnrefined + treasury.total_refined

\* What the referrer may claim is in its account.
ReferrerBacked == referrer.tokens = referrer.rewards_godl

LEMMA BackedStep ==
  ASSUME TypeOK, Backed, [Next]_vars PROVE Backed'
<1>0. /\ TotalUnrefined \in Nat /\ treasury.total_refined \in Nat
      /\ \A m \in Miners : Unrefined(m) \in Nat
  BY WeightTypes, TreasuryTypes
<1>1. CASE Rests
  BY <1>1, WeightSame DEF Backed, Rests, Calm
<1>2. ASSUME NEW m \in Miners, Keeps(m) PROVE Backed'
  <2>1. PICK v \in MinerRecord :
          miner' = [miner EXCEPT ![m] = v] /\ v.rewards_godl = Opened(m).rewards_godl
    BY <1>2 DEF Keeps
  <2>2. TotalUnrefined' = TotalUnrefined + Unrefined(m) - Unrefined(m)
    BY <2>1, WeightUpdate, WeightTypes
  <2> QED BY <1>0, <1>2, <2>2 DEF Backed, Keeps, Calm
<1>3. ASSUME NEW m \in Miners, NEW amount \in Nat, Credits(m, amount) PROVE Backed'
  <2>1. PICK v \in MinerRecord :
          miner' = [miner EXCEPT ![m] = v] /\ v.rewards_godl = Unrefined(m) + amount
    BY <1>3 DEF Credits
  <2>2. TotalUnrefined' = TotalUnrefined + (Unrefined(m) + amount) - Unrefined(m)
    BY <2>1, WeightUpdate
  <2> QED BY <1>0, <1>3, <2>2 DEF Backed, Credits
<1>4. ASSUME NEW m \in Miners, Claims(m) PROVE Backed'
  <2> DEFINE st == update_rewards(miner[m])
  <2>1. /\ st \in MinerRecord /\ st.rewards_godl = Unrefined(m)
        /\ TotalUnrefined' = TotalUnrefined - Unrefined(m)
    BY <1>4, ClaimWeights
  <2>2. /\ treasury'.total_refined = treasury.total_refined - st.refined_godl + ClaimFee(st)
        /\ Free' = Free - Payout(st)
    BY <1>4 DEF Claims
  <2> HIDE DEF st
  <2>3. /\ ClaimFee(st) \in Nat /\ Payout(st) = st.refined_godl + st.rewards_godl - ClaimFee(st)
    BY <2>1, FeeTypes
  <2>4. st.refined_godl \in Nat
    BY <2>1 DEF MinerRecord
  <2> QED BY <1>0, <2>1, <2>2, <2>3, <2>4 DEF Backed
<1>5. CASE RebaseTotalUnclaimed /\ Rebases
  BY <1>5, WeightSame DEF Backed, Rebases
<1> QED BY <1>1, <1>2, <1>3, <1>4, <1>5, StepKinds

LEMMA ReferrerStep ==
  ASSUME TypeOK, ReferrerBacked, [Next]_vars PROVE ReferrerBacked'
<1>1. CASE UNCHANGED referrer
  BY <1>1 DEF ReferrerBacked
<1>2. ASSUME NEW m \in Miners, ClaimGodl(m) PROVE ReferrerBacked'
  <2>1. \E cut : referrer' = [rewards_godl |-> referrer.rewards_godl + cut,
                              tokens |-> referrer.tokens + cut]
    BY <1>2 DEF ClaimGodl
  <2> QED BY <2>1 DEF ReferrerBacked
<1>3. CASE ClaimReferral
  <2>1. referrer.tokens \in Nat
    BY StateTypes
  <2>2. referrer' = [rewards_godl |-> 0, tokens |-> referrer.tokens - referrer.rewards_godl]
    BY <1>3 DEF ClaimReferral
  <2> QED BY <2>1, <2>2 DEF ReferrerBacked
<1>4. ASSUME Next, ~ (\E m \in Miners : ClaimGodl(m)), ~ ClaimReferral
      PROVE  UNCHANGED referrer
  BY <1>4 DEF Next, Tick, Reset, Automate, Deploy, DeployWithMinerExtended,
     CreateMinerExtended, Checkpoint, CheckpointWithMinerExtended, CheckpointForfeit,
     InjectUnrefinedRewards, ExecuteOtcTrade, ClaimGold, InjectGodlMotherlode, PreBuyGold,
     BuyGold, DepositGold, ReadTreasury, ListMiners, ListMinerExtendeds, AuditUnclaimed,
     RereadTreasury, RebaseMismatch, RebaseTotalUnclaimed, RebaseStep, godl
<1>5. CASE UNCHANGED vars
  BY <1>1, <1>5 DEF vars
<1> QED BY <1>1, <1>2, <1>3, <1>4, <1>5

LEMMA InitBacked == Init => Backed /\ ReferrerBacked
<1> SUFFICES ASSUME Init PROVE Backed /\ ReferrerBacked
  OBVIOUS
<1>1. TotalUnrefined \in Nat /\ GenesisPrizes \in Nat
  BY InitTypes, WeightTypes, ConstantTypes
<1>2. /\ treasury.tokens = TotalUnrefined + GenesisPrizes /\ treasury.motherlode = 0
      /\ treasury.total_refined = 0 /\ prizes = GenesisPrizes
      /\ referrer.tokens = referrer.rewards_godl
  BY DEF Init
<1> QED BY <1>1, <1>2 DEF Backed, Free, ReferrerBacked

\* The treasury's token account holds the rewards of all miners, refined or not,
\* the motherlode and what finished rounds owe, at all times and whatever the
\* admin writes over the total; the referrer's holds what it may claim.
THEOREM GodlIsBacked == Spec => []GodlBacked
<1> DEFINE Inv == TypeOK /\ Backed /\ ReferrerBacked
<1>1. Init => Inv
  BY InitTypes, InitBacked
<1>2. Inv /\ [Next]_vars => Inv'
  BY NextTypes, BackedStep, ReferrerStep
<1>3. Inv => GodlBacked
  <2> SUFFICES ASSUME Inv PROVE GodlBacked
    OBVIOUS
  <2>1. /\ treasury.tokens \in Nat /\ treasury.motherlode \in Nat /\ prizes \in Nat
        /\ treasury.total_refined \in Nat /\ TotalUnrefined \in Nat
        /\ referrer.rewards_godl \in Nat
    BY TreasuryTypes, StateTypes, WeightTypes
  <2> QED BY <2>1 DEF GodlBacked, Backed, Free, ReferrerBacked
<1> QED BY <1>1, <1>2, <1>3, PTL DEF Spec
-----------------------------------------------------------------------------
(* Refined GODL: what a miner has settled, times the unit of the factor,    *)
(* plus its weight times what it has not seen of the factor, is its debt,   *)
(* before any truncation.  Settling never increases a debt, a settled miner *)
(* can be reweighed without changing it, a claim cancels its own, and the   *)
(* fee it leaves adds to all others no more than it adds to total_refined,  *)
(* as long as the total is not below the sum of the weights.                *)

Factor == treasury.miner_rewards_factor

DebtOf(v, f) ==
    IF v = None THEN 0
    ELSE v.refined_godl * FRACTION + Monus(f, v.rewards_factor) * v.rewards_godl

Debts(accounts, f) == Sum([m \in Miners |-> DebtOf(accounts[m], f)], NumMiners)

\* total_refined covers all debts.
Covered == Debts(miner, Factor) <= treasury.total_refined * FRACTION

\* A miner has earned in its life at least what it has not claimed.
Lifetimes ==
    \A m \in Miners : miner[m] # None => miner[m].rewards_godl <= miner[m].lifetime_rewards_godl

\* At the start no fee has been shared yet.
GenesisUnshared ==
    \A m \in Miners : Genesis[m] # None =>
      /\ Genesis[m].refined_godl = 0 /\ Genesis[m].rewards_factor = 0
      /\ Genesis[m].rewards_godl <= Genesis[m].lifetime_rewards_godl

RefinedInv == TypeOK /\ Drift >= 0 /\ Backed /\ Lifetimes /\ Covered

\* A debt is a natural number.
LEMMA DebtNat ==
  ASSUME NEW v \in MinerAccount, NEW f \in Nat PROVE DebtOf(v, f) \in Nat
<1>1. CASE v = None
  BY <1>1 DEF DebtOf
<1>2. CASE v # None
  <2> DEFINE r == v.refined_godl
             d == Monus(f, v.rewards_factor)
             w == v.rewards_godl
  <2>1. v \in MinerRecord
    BY <1>2 DEF MinerAccount
  <2>2. r \in Nat /\ w \in Nat /\ d \in Nat
    BY <2>1, MonusNat DEF MinerRecord
  <2> HIDE DEF r, d, w
  <2>3. r * FRACTION \in Nat /\ d * w \in Nat
    BY <2>2, ConstantTypes
  <2>4. r * FRACTION + d * w \in Nat
    BY <2>3
  <2> QED BY <1>2, <2>4 DEF DebtOf, r, d, w
<1> QED BY <1>1, <1>2

LEMMA DebtsNat ==
  ASSUME NEW a \in [Miners -> MinerAccount], NEW f \in Nat PROVE Debts(a, f) \in Nat
<1> DEFINE d == [m \in Miners |-> DebtOf(a[m], f)]
<1>1. \A i \in 1 .. NumMiners : d[i] \in Nat
  BY DebtNat, ConstantTypes
<1> HIDE DEF d
<1>2. Sum(d, NumMiners) \in Nat
  BY <1>1, ConstantTypes, SumNat
<1> QED BY <1>2 DEF Debts, d

\* One account changes, and the sum by the difference of its debts.
LEMMA DebtUpdate ==
  ASSUME NEW a \in [Miners -> MinerAccount], NEW f \in Nat, NEW m \in Miners,
         NEW v \in MinerAccount
  PROVE  Debts([a EXCEPT ![m] = v], f) = Debts(a, f) + DebtOf(v, f) - DebtOf(a[m], f)
<1> DEFINE b == [a EXCEPT ![m] = v]
           d == [g \in Miners |-> DebtOf(a[g], f)]
           e == [g \in Miners |-> DebtOf(b[g], f)]
<1>1. NumMiners \in Nat /\ m \in 1 .. NumMiners
  BY ConstantTypes
<1>2. \A i \in 1 .. NumMiners : d[i] \in Nat /\ e[i] \in Nat
  BY DebtNat, ConstantTypes
<1>3. \A i \in (1 .. NumMiners) \ {m} : e[i] = d[i]
  BY ConstantTypes
<1>4. e[m] = DebtOf(v, f) /\ d[m] = DebtOf(a[m], f)
  OBVIOUS
<1> HIDE DEF d, e
<1>5. Sum(e, NumMiners) = Sum(d, NumMiners) + e[m] - d[m]
  BY <1>1, <1>2, <1>3, SumUpdate
<1> QED BY <1>4, <1>5 DEF Debts, d, e

\* An empty account counts as a new one.
LEMMA OpenedDebt ==
  ASSUME TypeOK, NEW m \in Miners PROVE DebtOf(miner[m], Factor) = DebtOf(Opened(m), Factor)
<1>1. CASE miner[m] # None
  BY <1>1 DEF Opened
<1>2. CASE miner[m] = None
  <2> DEFINE d == Monus(Factor, 0)
  <2>1. d \in Nat
    BY TreasuryTypes, MonusNat DEF Factor
  <2>2. NewMiner # None /\ NewMiner.refined_godl = 0 /\ NewMiner.rewards_godl = 0
        /\ NewMiner.rewards_factor = 0
    BY WeightTypes, ConstantTypes, <1>2 DEF NewMiner, Opened
  <2>3. DebtOf(NewMiner, Factor) = 0 * FRACTION + d * 0
    BY <2>2 DEF DebtOf
  <2> HIDE DEF d
  <2>4. 0 * FRACTION = 0 /\ d * 0 = 0
    BY <2>1, ConstantTypes
  <2> QED BY <1>2, <2>3, <2>4 DEF Opened, DebtOf
<1> QED BY <1>1, <1>2

\* The refined GODL of a settled miner is within its debt.
LEMMA SettledDebt ==
  ASSUME TypeOK, NEW st \in MinerRecord
  PROVE  /\ update_rewards(st).refined_godl \in Nat
         /\ update_rewards(st).refined_godl * FRACTION \in Nat
         /\ update_rewards(st).refined_godl * FRACTION <= DebtOf(st, Factor)
<1> DEFINE w == st.rewards_godl
           r == st.refined_godl
           d == Monus(Factor, st.rewards_factor)
           p == d * w
           e == p \div FRACTION
<1>1. w \in Nat /\ r \in Nat /\ d \in Nat /\ st # None
  BY TreasuryTypes, MonusNat, ConstantTypes DEF MinerRecord, Factor
<1>2. p \in Nat
  <2> HIDE DEF d, w
  <2> QED BY <1>1
<1>3. e \in Nat /\ e * FRACTION <= p
  <2> HIDE DEF p
  <2> QED BY <1>2, ConstantTypes, DivBounds
<1>4. update_rewards(st).refined_godl = r + e
  BY UpdatedType DEF Accrued, Factor
<1>5. DebtOf(st, Factor) = r * FRACTION + p
  BY <1>1 DEF DebtOf
<1> HIDE DEF w, r, d, p, e
<1>6. (r + e) * FRACTION = r * FRACTION + e * FRACTION /\ r * FRACTION \in Nat
      /\ e * FRACTION \in Nat /\ r + e \in Nat
  BY <1>1, <1>3, ConstantTypes
<1>7. (r + e) * FRACTION \in Nat /\ (r + e) * FRACTION <= r * FRACTION + p
  BY <1>2, <1>3, <1>6
<1> QED BY <1>4, <1>5, <1>6, <1>7

\* The debt of a settled miner is its refined GODL, whatever its weight.
LEMMA FreshDebt ==
  ASSUME TypeOK, NEW v \in MinerRecord, v.rewards_factor = Factor
  PROVE  DebtOf(v, Factor) = v.refined_godl * FRACTION
<1> DEFINE w == v.rewards_godl
           r == v.refined_godl * FRACTION
<1>1. w \in Nat /\ v # None /\ Monus(Factor, Factor) = 0 /\ v.refined_godl \in Nat
  BY TreasuryTypes, ConstantTypes DEF Monus, MinerRecord, Factor
<1>2. r \in Nat
  BY <1>1, ConstantTypes
<1>3. DebtOf(v, Factor) = r + 0 * w
  BY <1>1 DEF DebtOf
<1> HIDE DEF w, r
<1>4. r + 0 * w = r
  BY <1>1, <1>2
<1> QED BY <1>3, <1>4 DEF r

\* A miner's refined GODL is within its debt, an empty account has none.
LEMMA RefinedWithin ==
  ASSUME TypeOK, NEW m \in Miners
  PROVE  /\ Refined(m) \in Nat /\ Refined(m) * FRACTION <= DebtOf(miner[m], Factor)
         /\ Refined(m) = update_rewards(Opened(m)).refined_godl
<1>1. CASE miner[m] # None
  BY <1>1, WeightTypes, SettledDebt DEF Refined
<1>2. CASE miner[m] = None
  <2> DEFINE d == Monus(Factor, 0)
  <2>1. d \in Nat
    BY TreasuryTypes, MonusNat DEF Factor
  <2>2. NewMiner \in MinerRecord /\ NewMiner.rewards_godl = 0 /\ NewMiner.rewards_factor = 0
        /\ NewMiner.refined_godl = 0 /\ Opened(m) = NewMiner
    BY <1>2 DEF NewMiner, MinerRecord, Opened
  <2>3. update_rewards(NewMiner).refined_godl = 0 + (d * 0) \div FRACTION
    BY <2>2, UpdatedType DEF Accrued, Factor
  <2> HIDE DEF d
  <2>4. d * 0 = 0 /\ 0 \div FRACTION = 0 /\ 0 * FRACTION = 0
    BY <2>1, ConstantTypes
  <2>5. update_rewards(NewMiner).refined_godl = 0
    BY <2>3, <2>4
  <2> QED BY <1>2, <2>2, <2>4, <2>5 DEF Refined, DebtOf
<1> QED BY <1>1, <1>2

\* All refined GODL is within total_refined.
LEMMA RefinedCovered ==
  ASSUME TypeOK, Covered
  PROVE  /\ TotalRefined \in Nat /\ TotalRefined <= treasury.total_refined
         /\ \A m \in Miners : Refined(m) <= treasury.total_refined
<1> DEFINE r == [m \in Miners |-> Refined(m)]
           d == [m \in Miners |-> DebtOf(miner[m], Factor)]
           s == Sum(r, NumMiners)
<1>1. /\ NumMiners \in Nat /\ Miners = 1 .. NumMiners /\ Factor \in Nat /\ FRACTION \in Nat \ {0}
      /\ treasury.total_refined \in Nat
  BY ConstantTypes, TreasuryTypes DEF Factor
<1>2. \A i \in 1 .. NumMiners : r[i] \in Nat /\ d[i] \in Nat
  BY <1>1, RefinedWithin, DebtNat, StateTypes
<1>3. \A i \in 1 .. NumMiners : r[i] * FRACTION <= d[i]
  BY <1>1, RefinedWithin
<1>4. Sum(d, NumMiners) <= treasury.total_refined * FRACTION
  BY DEF Covered, Debts
<1>5. \A m \in Miners : r[m] = Refined(m)
  OBVIOUS
<1> HIDE DEF r, d, s
<1>6. s * FRACTION <= Sum(d, NumMiners)
  BY <1>1, <1>2, <1>3, SumTimes DEF s
<1>7. s \in Nat /\ Sum(d, NumMiners) \in Nat
  BY <1>1, <1>2, SumNat DEF s
<1>8. s * FRACTION <= treasury.total_refined * FRACTION
  <2>1. s * FRACTION \in Nat /\ treasury.total_refined * FRACTION \in Nat
    BY <1>1, <1>7
  <2> QED BY <1>4, <1>6, <1>7, <2>1
<1>9. s <= treasury.total_refined
  BY <1>1, <1>7, <1>8, ProductReflects
<1>10. ASSUME NEW m \in Miners PROVE r[m] <= s
  <2> DEFINE h == [g \in Miners |-> IF g = m THEN 0 ELSE r[g]]
  <2>1. \A i \in 1 .. NumMiners : h[i] \in Nat
    BY <1>1, <1>2
  <2>2. (\A i \in (1 .. NumMiners) \ {m} : h[i] = r[i]) /\ h[m] = 0 /\ m \in 1 .. NumMiners
    BY <1>1
  <2> HIDE DEF h
  <2>3. Sum(h, NumMiners) = Sum(r, NumMiners) + h[m] - r[m]
    BY <1>1, <1>2, <2>1, <2>2, SumUpdate
  <2>4. Sum(h, NumMiners) \in Nat
    BY <1>1, <2>1, SumNat
  <2> QED BY <1>1, <1>2, <1>7, <2>2, <2>3, <2>4 DEF s
<1>11. TotalRefined = s
  BY DEF TotalRefined, r, s
<1>12. ASSUME NEW m \in Miners PROVE Refined(m) <= treasury.total_refined
  <2>1. r[m] \in Nat /\ r[m] <= s /\ r[m] = Refined(m)
    BY <1>1, <1>2, <1>5, <1>10
  <2> QED BY <1>1, <1>7, <1>9, <2>1
<1> QED BY <1>7, <1>9, <1>11, <1>12
-----------------------------------------------------------------------------
(* Debts stay covered *)

\* The invariant after a step, in terms of the accounts.
LEMMA CoveredNext ==
  ASSUME Debts(miner', treasury'.miner_rewards_factor)
           <= treasury'.total_refined * FRACTION
  PROVE  Covered'
BY DEF Covered, Debts, DebtOf, Factor, Monus

\* Nobody's rewards change.
LEMMA RestsCovered == ASSUME Covered, Rests PROVE Covered'
BY CoveredNext DEF Rests, Calm, Covered, Factor

\* One account changes, and its debt does not grow.
LEMMA OneCovered ==
  ASSUME TypeOK, Covered, NEW m \in Miners, NEW v \in MinerRecord,
         miner' = [miner EXCEPT ![m] = v],
         treasury'.total_refined = treasury.total_refined,
         treasury'.miner_rewards_factor = treasury.miner_rewards_factor,
         DebtOf(v, Factor) <= DebtOf(miner[m], Factor)
  PROVE  Covered'
<1> DEFINE a == Debts(miner, Factor)
           c == DebtOf(v, Factor)
           d == DebtOf(miner[m], Factor)
           t == treasury.total_refined * FRACTION
<1>1. /\ Factor \in Nat /\ miner \in [Miners -> MinerAccount] /\ v \in MinerAccount
      /\ miner[m] \in MinerAccount
  BY TreasuryTypes, StateTypes DEF Factor, MinerAccount
<1>2. Debts(miner', Factor) = a + c - d
  BY <1>1, DebtUpdate
<1>3. a \in Nat /\ c \in Nat /\ d \in Nat /\ t \in Nat
  <2>1. a \in Nat /\ c \in Nat /\ d \in Nat
    BY <1>1, DebtsNat, DebtNat
  <2>2. treasury.total_refined \in Nat /\ FRACTION \in Nat
    BY TreasuryTypes, ConstantTypes
  <2>3. t \in Nat
    BY <2>2
  <2> QED BY <2>1, <2>3
<1>4. a <= t /\ c <= d
  BY DEF Covered
<1> HIDE DEF a, c, d
<1>5. Debts(miner', Factor) <= t
  <2> HIDE DEF t
  <2> QED BY <1>2, <1>3, <1>4
<1> QED BY <1>5, CoveredNext DEF Factor

LEMMA KeepsCovered ==
  ASSUME TypeOK, Covered, NEW m \in Miners, Keeps(m) PROVE Covered'
<1>1. PICK v \in MinerRecord :
         /\ miner' = [miner EXCEPT ![m] = v]
         /\ v.rewards_godl = Opened(m).rewards_godl
         /\ v.refined_godl = Opened(m).refined_godl
         /\ v.rewards_factor = Opened(m).rewards_factor
  BY DEF Keeps
<1>2. v # None /\ Opened(m) # None /\ Opened(m) \in MinerRecord
  BY WeightTypes, ConstantTypes
<1>3. DebtOf(v, Factor) = DebtOf(miner[m], Factor)
  BY <1>1, <1>2, OpenedDebt DEF DebtOf
<1>4. DebtOf(v, Factor) \in Nat
  BY DebtNat, TreasuryTypes DEF MinerAccount, Factor
<1>5. DebtOf(v, Factor) <= DebtOf(miner[m], Factor)
  BY <1>3, <1>4
<1> QED BY <1>1, <1>5, OneCovered DEF Keeps, Calm

LEMMA CreditsCovered ==
  ASSUME TypeOK, Covered, NEW m \in Miners, NEW amount \in Nat, Credits(m, amount)
  PROVE  Covered'
<1>1. PICK v \in MinerRecord :
         /\ miner' = [miner EXCEPT ![m] = v]
         /\ v.refined_godl = update_rewards(Opened(m)).refined_godl
         /\ v.rewards_factor = treasury.miner_rewards_factor
  BY DEF Credits
<1>2. DebtOf(v, Factor) = v.refined_godl * FRACTION
  BY <1>1, FreshDebt DEF Factor
<1>3. v.refined_godl * FRACTION <= DebtOf(Opened(m), Factor)
  BY <1>1, WeightTypes, SettledDebt
<1>4. DebtOf(v, Factor) <= DebtOf(miner[m], Factor)
  BY <1>2, <1>3, OpenedDebt
<1> QED BY <1>1, <1>4, OneCovered DEF Credits

\* What a weight has not seen of the factor grows at most with the factor.
LEMMA UnseenGrowth ==
  ASSUME NEW f \in Nat, NEW p \in Nat, NEW seen \in Nat
  PROVE  Monus(f + p, seen) \in Nat /\ Monus(f, seen) \in Nat
         /\ Monus(f + p, seen) <= Monus(f, seen) + p
BY DEF Monus

\* A debt grows by the growth of the factor times the weight, at most.
LEMMA DebtGrowth ==
  ASSUME NEW v \in MinerRecord, NEW f \in Nat, NEW p \in Nat
  PROVE  DebtOf(v, f + p) <= DebtOf(v, f) + p * v.rewards_godl
<1> DEFINE w == v.rewards_godl
           r == v.refined_godl * FRACTION
           c == Monus(f + p, v.rewards_factor)
           d == Monus(f, v.rewards_factor)
<1>1. w \in Nat /\ v.rewards_factor \in Nat /\ v # None /\ v.refined_godl \in Nat
  BY ConstantTypes DEF MinerRecord
<1>2. r \in Nat
  BY <1>1, ConstantTypes
<1>3. c \in Nat /\ d \in Nat /\ c <= d + p
  BY <1>1, UnseenGrowth
<1>4. DebtOf(v, f + p) = r + c * w /\ DebtOf(v, f) = r + d * w
  BY <1>1 DEF DebtOf
<1> HIDE DEF w, r, c, d
<1>5. w * c <= w * (d + p)
  <2>1. d + p \in Nat
    BY <1>3
  <2> QED BY <1>1, <1>3, <2>1, ProductMonotone
<1>6. w * c = c * w /\ w * (d + p) = d * w + p * w /\ c * w \in Nat /\ d * w \in Nat
      /\ p * w \in Nat
  BY <1>1, <1>3
<1>7. r + c * w <= r + d * w + p * w
  BY <1>2, <1>5, <1>6
<1> QED BY <1>4, <1>7 DEF w

\* All debts grow by the growth of the factor times the sum of the weights.
LEMMA DebtsGrowth ==
  ASSUME NEW a \in [Miners -> MinerAccount], NEW f \in Nat, NEW p \in Nat, NEW w,
         \A m \in Miners : w[m] = IF a[m] = None THEN 0 ELSE a[m].rewards_godl
  PROVE  Debts(a, f + p) <= Debts(a, f) + p * Sum(w, NumMiners)
<1> DEFINE d == [m \in Miners |-> DebtOf(a[m], f)]
           e == [m \in Miners |-> DebtOf(a[m], f + p)]
<1>1. NumMiners \in Nat /\ Miners = 1 .. NumMiners /\ f + p \in Nat
  BY ConstantTypes
<1>2. ASSUME NEW i \in 1 .. NumMiners
      PROVE  d[i] \in Nat /\ e[i] \in Nat /\ w[i] \in Nat /\ e[i] <= d[i] + p * w[i]
  <2>1. i \in Miners /\ a[i] \in MinerAccount
    BY <1>1, <1>2
  <2>2. d[i] \in Nat /\ e[i] \in Nat
    BY <1>1, <2>1, DebtNat
  <2>3. CASE a[i] = None
    <3>1. d[i] = 0 /\ e[i] = 0 /\ w[i] = 0
      BY <2>1, <2>3 DEF DebtOf
    <3>2. p * 0 = 0
      OBVIOUS
    <3> QED BY <3>1, <3>2
  <2>4. CASE a[i] # None
    <3>1. a[i] \in MinerRecord /\ w[i] = a[i].rewards_godl /\ w[i] \in Nat
      BY <2>1, <2>4 DEF MinerAccount, MinerRecord
    <3>2. DebtOf(a[i], f + p) <= DebtOf(a[i], f) + p * a[i].rewards_godl
      BY <3>1, DebtGrowth
    <3> QED BY <2>1, <2>2, <3>1, <3>2
  <2> QED BY <2>3, <2>4
<1> HIDE DEF d, e
<1>3. Sum(e, NumMiners) <= Sum(d, NumMiners) + p * Sum(w, NumMiners)
  BY <1>1, <1>2, SumScaled
<1> QED BY <1>3 DEF Debts, d, e

\* The fee a claim leaves goes to debts of others and to total_refined alike.
LEMMA ClaimsCovered ==
  ASSUME TypeOK, Covered, Drift >= 0, NEW m \in Miners, Claims(m) PROVE Covered'
<1> DEFINE st == update_rewards(miner[m])
           fee == ClaimFee(st)
           left == Left(st)
           p == IF left > 0 THEN PerUnit(fee, left) ELSE 0
           x == st.refined_godl
           tr == treasury.total_refined
<1>1. PICK v \in MinerRecord :
         /\ miner' = [miner EXCEPT ![m] = v]
         /\ v.rewards_godl = 0 /\ v.refined_godl = 0
         /\ v.rewards_factor = treasury.miner_rewards_factor
  BY DEF Claims
<1>2. /\ st \in MinerRecord /\ st.rewards_godl = Unrefined(m) /\ x = Refined(m)
      /\ st.refined_godl \in Nat
      /\ TotalUnrefined' = TotalUnrefined - Unrefined(m)
  <2>1. miner[m] # None
    BY DEF Claims
  <2> QED BY <2>1, ClaimWeights DEF Refined, MinerRecord
<1>3. fee \in Nat
  BY <1>2, FeeTypes
<1>4. left \in Nat /\ TotalUnrefined' <= left /\ TotalUnrefined' \in Nat
  <2>1. TotalUnrefined \in Nat /\ Unrefined(m) \in Nat /\ treasury.total_unclaimed \in Nat
        /\ Unrefined(m) <= TotalUnrefined
    BY WeightTypes, TreasuryTypes, WeightWithin
  <2>2. left = treasury.total_unclaimed - Unrefined(m)
    BY <1>2 DEF Left
  <2> HIDE DEF left
  <2> QED BY <1>2, <2>1, <2>2 DEF Drift
<1>5. p \in Nat /\ p * left <= fee * FRACTION
  <2>1. CASE left > 0
    <3>1. left \in Nat \ {0}
      BY <1>4, <2>1
    <3> QED BY <1>3, <2>1, <3>1, PerUnitNat
  <2>2. CASE ~ (left > 0)
    <3>1. p = 0 /\ left = 0
      BY <1>4, <2>2
    <3>2. 0 * 0 = 0 /\ fee * FRACTION \in Nat
      BY <1>3, ConstantTypes
    <3> QED BY <3>1, <3>2
  <2> QED BY <2>1, <2>2
<1>6. /\ treasury'.miner_rewards_factor = Factor + p
      /\ treasury'.total_refined = tr - x + fee /\ tr >= x
  <2>1. /\ treasury'.miner_rewards_factor =
             IF left > 0 THEN treasury.miner_rewards_factor + PerUnit(fee, left)
             ELSE treasury.miner_rewards_factor
        /\ treasury'.total_refined = tr - x + fee /\ Claimable(st)
    BY DEF Claims
  <2>2. Factor \in Nat /\ Factor = treasury.miner_rewards_factor
    BY TreasuryTypes DEF Factor
  <2> HIDE DEF left
  <2> QED BY <2>1, <2>2 DEF Claimable
<1>7. /\ Factor \in Nat /\ miner \in [Miners -> MinerAccount] /\ v \in MinerAccount
      /\ miner[m] \in MinerAccount /\ tr \in Nat /\ x \in Nat
  BY <1>2, TreasuryTypes, StateTypes DEF Factor, MinerAccount
<1>8. miner' \in [Miners -> MinerAccount]
  BY <1>1, <1>7
<1>9. Debts(miner', Factor + p) <= Debts(miner', Factor) + p * TotalUnrefined'
  <2> DEFINE w == [g \in Miners |-> Unrefined(g)']
  <2>1. \A g \in Miners : w[g] = IF miner'[g] = None THEN 0 ELSE miner'[g].rewards_godl
    BY DEF Unrefined
  <2>2. TotalUnrefined' = Sum(w, NumMiners)
    BY DEF TotalUnrefined
  <2> HIDE DEF w, p
  <2> QED BY <1>5, <1>7, <1>8, <2>1, <2>2, DebtsGrowth
<1>10. Debts(miner', Factor) = Debts(miner, Factor) + DebtOf(v, Factor) - DebtOf(miner[m], Factor)
  BY <1>1, <1>7, DebtUpdate
<1>11. DebtOf(v, Factor) = 0
  <2>1. DebtOf(v, Factor) = v.refined_godl * FRACTION
    BY <1>1, FreshDebt DEF Factor
  <2>2. 0 * FRACTION = 0
    BY ConstantTypes
  <2> QED BY <1>1, <2>1, <2>2
<1>12. x * FRACTION <= DebtOf(miner[m], Factor)
  BY <1>2, RefinedWithin
<1> DEFINE a == Debts(miner, Factor)
           b == Debts(miner', Factor)
           c == Debts(miner', Factor + p)
           d == DebtOf(miner[m], Factor)
           tu == TotalUnrefined'
<1>13. a \in Nat /\ b \in Nat /\ c \in Nat /\ d \in Nat
  <2> HIDE DEF p
  <2>1. Factor + p \in Nat
    BY <1>5, <1>7
  <2> QED BY <1>7, <1>8, <2>1, DebtsNat, DebtNat
<1>14. a <= tr * FRACTION
  BY DEF Covered
<1> HIDE DEF a, b, c, d, tu, tr, x, p, fee, left, st
<1>15. p * tu \in Nat /\ p * tu <= p * left
  BY <1>4, <1>5, ProductMonotone DEF tu
<1>16. c <= b + p * tu
  BY <1>9 DEF b, c, tu
<1>17. b = a - d
  BY <1>10, <1>11, <1>13 DEF a, b, d
<1>18. (tr - x + fee) * FRACTION = tr * FRACTION - x * FRACTION + fee * FRACTION
       /\ tr * FRACTION \in Nat /\ x * FRACTION \in Nat /\ fee * FRACTION \in Nat
       /\ p * left \in Nat
  BY <1>3, <1>4, <1>5, <1>7, ConstantTypes
<1>19. c <= tr * FRACTION - x * FRACTION + fee * FRACTION
  BY <1>5, <1>12, <1>13, <1>14, <1>15, <1>16, <1>17, <1>18 DEF d
<1> QED BY <1>6, <1>18, <1>19, CoveredNext DEF c
-----------------------------------------------------------------------------
(* A claim never fails *)

\* A miner whose account is settled has earned no less than before.
LEMMA LifetimesStep ==
  ASSUME TypeOK, Lifetimes, [Next]_vars PROVE Lifetimes'
<1>1. ASSUME NEW m \in Miners, NEW v \in MinerRecord, miner' = [miner EXCEPT ![m] = v],
             v.rewards_godl <= v.lifetime_rewards_godl
      PROVE  Lifetimes'
  BY <1>1, StateTypes DEF Lifetimes
<1>2. ASSUME NEW m \in Miners
      PROVE  Opened(m).rewards_godl <= Opened(m).lifetime_rewards_godl
  BY DEF Lifetimes, Opened, NewMiner
<1>3. CASE miner' = miner
  BY <1>3 DEF Lifetimes
<1>4. ASSUME NEW m \in Miners, Keeps(m) PROVE Lifetimes'
  BY <1>1, <1>2, <1>4 DEF Keeps
<1>5. ASSUME NEW m \in Miners, NEW amount \in Nat, Credits(m, amount) PROVE Lifetimes'
  <2> DEFINE u == update_rewards(Opened(m))
  <2>1. PICK v \in MinerRecord :
         /\ miner' = [miner EXCEPT ![m] = v]
         /\ v.rewards_godl = Unrefined(m) + amount
         /\ v.lifetime_rewards_godl = u.lifetime_rewards_godl + amount
    BY <1>5 DEF Credits
  <2> DEFINE o == Opened(m)
             e == Accrued(o.rewards_godl, o.rewards_factor)
  <2>2. /\ o \in MinerRecord /\ o.rewards_godl = Unrefined(m)
        /\ o.rewards_godl \in Nat /\ o.lifetime_rewards_godl \in Nat
        /\ o.rewards_factor \in Nat
    BY WeightTypes DEF MinerRecord
  <2>3. u.lifetime_rewards_godl = o.lifetime_rewards_godl + e /\ e \in Nat
    BY <2>2, UpdatedType, AccruedNat
  <2>4. o.rewards_godl <= o.lifetime_rewards_godl
    BY <1>2
  <2> HIDE DEF u, o, e
  <2>5. Unrefined(m) + amount <= u.lifetime_rewards_godl + amount
    BY <2>2, <2>3, <2>4
  <2> QED BY <1>1, <2>1, <2>5
<1>6. ASSUME NEW m \in Miners, Claims(m) PROVE Lifetimes'
  <2>1. PICK v \in MinerRecord : miner' = [miner EXCEPT ![m] = v] /\ v.rewards_godl = 0
    BY <1>6 DEF Claims
  <2>2. v.rewards_godl <= v.lifetime_rewards_godl
    BY <2>1 DEF MinerRecord
  <2> QED BY <1>1, <2>1, <2>2
<1> QED BY <1>3, <1>4, <1>5, <1>6, StepKinds DEF Rests, Rebases

\* A rebase that writes the true sum leaves no miner's reward uncovered.
LEMMA RefinedStep ==
  ASSUME RefinedInv, [Next]_vars, RebaseTotalUnclaimed => Drift' = 0
  PROVE  RefinedInv'
<1>1. TypeOK /\ Drift >= 0 /\ Backed /\ Lifetimes /\ Covered
  BY DEF RefinedInv
<1>2. TypeOK' /\ Backed' /\ Lifetimes'
  BY <1>1, NextTypes, BackedStep, LifetimesStep
<1>3. Drift' >= 0
  <2> HIDE DEF Drift
  <2>1. Drift' = Drift \/ Drift' = 0
    BY <1>1, DriftStep
  <2> QED BY <1>1, <2>1
<1>4. Covered'
  <2>1. ASSUME Rebases PROVE Covered'
    BY <1>1, <2>1, CoveredNext DEF Rebases, Covered, Factor
  <2> QED BY <1>1, <2>1, StepKinds, RestsCovered, KeepsCovered, CreditsCovered, ClaimsCovered
<1> QED BY <1>2, <1>3, <1>4 DEF RefinedInv

LEMMA RefinedInit == ASSUME GenesisUnshared, Init PROVE RefinedInv
<1>1. TypeOK /\ Backed
  BY InitTypes, InitBacked
<1>2. Drift >= 0
  <2>1. treasury.total_unclaimed = TotalUnrefined + GenesisDrift
    BY DEF Init
  <2>2. TotalUnrefined \in Nat /\ GenesisDrift \in Nat
    BY <1>1, WeightTypes, ConstantTypes
  <2> QED BY <2>1, <2>2 DEF Drift
<1>3. Lifetimes
  BY DEF Init, GenesisUnshared, Lifetimes
<1>4. Covered
  <2> DEFINE d == [m \in Miners |-> DebtOf(miner[m], Factor)]
  <2>1. ASSUME NEW m \in Miners PROVE DebtOf(miner[m], Factor) = 0
    <3>1. CASE miner[m] = None
      BY <3>1 DEF DebtOf
    <3>2. CASE miner[m] # None
      <4> DEFINE w == miner[m].rewards_godl
                 s == miner[m].rewards_factor
      <4>1. w \in Nat /\ s \in Nat /\ miner[m].refined_godl = 0 /\ Factor = 0
        BY <1>1, <3>2, WeightTypes DEF Init, GenesisUnshared, Factor, MinerRecord
      <4>2. Monus(0, s) = 0
        BY <4>1 DEF Monus
      <4>3. DebtOf(miner[m], Factor) = 0 * FRACTION + 0 * w
        BY <3>2, <4>1, <4>2 DEF DebtOf
      <4> HIDE DEF w
      <4>4. 0 * FRACTION = 0 /\ 0 * w = 0
        BY <4>1, ConstantTypes
      <4> QED BY <4>3, <4>4
    <3> QED BY <3>1, <3>2
  <2>2. \A i \in 1 .. NumMiners : d[i] = 0
    BY <2>1, ConstantTypes
  <2> HIDE DEF d
  <2>3. Sum(d, NumMiners) = 0
    BY <2>2, ConstantTypes, SumOfZeros
  <2>4. treasury.total_refined = 0 /\ 0 * FRACTION = 0
    BY ConstantTypes DEF Init
  <2> QED BY <2>3, <2>4 DEF Covered, Debts, d
<1> QED BY <1>1, <1>2, <1>3, <1>4 DEF RefinedInv

LEMMA ClaimIsOpenHolds == ASSUME RefinedInv PROVE ClaimIsOpen
<1> SUFFICES ASSUME NEW m \in Miners, miner[m] # None PROVE Claimable(update_rewards(miner[m]))
  BY DEF ClaimIsOpen
<1> DEFINE st == update_rewards(miner[m])
<1>1. TypeOK /\ Drift >= 0 /\ Backed /\ Lifetimes /\ Covered
  BY DEF RefinedInv
<1>2. miner[m] \in MinerRecord /\ miner[m].rewards_godl = Unrefined(m)
  BY <1>1, WeightTypes
<1>3. /\ st \in MinerRecord /\ st.rewards_godl = Unrefined(m) /\ st.refined_godl = Refined(m)
      /\ st.refined_godl \in Nat /\ st.rewards_godl \in Nat
      /\ st.lifetime_rewards_godl \in Nat
  BY <1>1, <1>2, UpdatedType DEF Refined, MinerRecord
<1>4. st.rewards_godl <= st.lifetime_rewards_godl
  <2> DEFINE o == miner[m]
             e == Accrued(o.rewards_godl, o.rewards_factor)
  <2>1. o.rewards_godl \in Nat /\ o.lifetime_rewards_godl \in Nat /\ o.rewards_factor \in Nat
    BY <1>2 DEF MinerRecord
  <2>2. st.lifetime_rewards_godl = o.lifetime_rewards_godl + e /\ e \in Nat
        /\ st.rewards_godl = o.rewards_godl
    BY <1>1, <1>2, <2>1, UpdatedType, AccruedNat
  <2>3. o.rewards_godl <= o.lifetime_rewards_godl
    BY <1>1 DEF Lifetimes
  <2> HIDE DEF st, o, e
  <2> QED BY <2>1, <2>2, <2>3
<1> HIDE DEF st
<1>5. /\ ClaimFee(st) \in Nat /\ ClaimFee(st) <= st.rewards_godl
      /\ Payout(st) = st.refined_godl + st.rewards_godl - ClaimFee(st)
  BY <1>1, <1>3, FeeTypes
<1>6. st.refined_godl <= treasury.total_refined
  BY <1>1, <1>3, RefinedCovered
<1>7. /\ treasury.total_unclaimed \in Nat /\ treasury.total_refined \in Nat
      /\ treasury.tokens \in Nat /\ treasury.motherlode \in Nat /\ prizes \in Nat
      /\ TotalUnrefined \in Nat /\ st.rewards_godl <= TotalUnrefined
  BY <1>1, <1>3, TreasuryTypes, StateTypes, WeightTypes, WeightWithin
<1>8. treasury.total_unclaimed >= TotalUnrefined
  BY <1>1, <1>7 DEF Drift
<1>9. treasury.tokens - treasury.motherlode - prizes = TotalUnrefined + treasury.total_refined
  BY <1>1 DEF Backed, Free
<1>10. treasury.total_unclaimed >= st.rewards_godl
  BY <1>3, <1>7, <1>8
<1>11. st.lifetime_rewards_godl >= ClaimFee(st)
  BY <1>3, <1>4, <1>5
<1>12. treasury.tokens >= Payout(st)
  BY <1>3, <1>5, <1>6, <1>7, <1>9
<1>13. treasury.total_refined >= st.refined_godl
  BY <1>3, <1>6, <1>7
<1>14. Claimable(st)
  BY <1>10, <1>11, <1>12, <1>13 DEF Claimable
<1> QED BY <1>14 DEF st

\* A claim never fails on one of its checked subtractions or on the treasury's
\* balance (Miner::claim_godl), although truncated shares are settled at
\* different times by claims, checkpoints, injections and trades: from any
\* accounts with which no fee was shared yet, and in every behaviour in which a
\* rebase writes the true sum (RebaseClearsDrift; in particular without any).
THEOREM ClaimsStayOpen ==
  ASSUME GenesisUnshared PROVE Spec /\ RebaseClearsDrift => []ClaimIsOpen
<1>1. Init => RefinedInv
  BY RefinedInit
<1>2. RefinedInv /\ [Next]_vars /\ [RebaseTotalUnclaimed => Drift' = 0]_vars => RefinedInv'
  <2> SUFFICES ASSUME RefinedInv, [Next]_vars, [RebaseTotalUnclaimed => Drift' = 0]_vars
               PROVE  RefinedInv'
    OBVIOUS
  <2>1. CASE UNCHANGED vars
    <3>1. ASSUME RebaseTotalUnclaimed PROVE FALSE
      BY <2>1, <3>1 DEF RebaseTotalUnclaimed, vars, RefinedInv, TypeOK, AuditRecord
    <3> QED BY <3>1, RefinedStep
  <2>2. CASE RebaseTotalUnclaimed => Drift' = 0
    BY <2>2, RefinedStep
  <2> QED BY <2>1, <2>2
<1>3. RefinedInv => ClaimIsOpen
  BY ClaimIsOpenHolds
<1> QED BY <1>1, <1>2, <1>3, PTL DEF Spec, RebaseClearsDrift
-----------------------------------------------------------------------------
(* The pool of refined GODL                                                *)

\* What an account may claim when the factor is f.
RefinedOf(v, f) ==
    IF v = None THEN 0
    ELSE v.refined_godl + (Monus(f, v.rewards_factor) * v.rewards_godl) \div FRACTION

\* No account has seen more of the factor than there is.
SeenWithin == \A m \in Miners : miner[m] # None => miner[m].rewards_factor <= Factor

\* The bound on GODL that comes in.
TokensBounded == treasury.tokens + paid <= MaxTokens

\* The accounts of the start are within the bound.
GenesisFits ==
    Sum([m \in Miners |-> IF Genesis[m] = None THEN 0 ELSE Genesis[m].rewards_godl], NumMiners)
      + GenesisPrizes <= MaxTokens

\* What truncation may cost in a share: a unit, and what a truncated factor
\* costs the largest weight there can be.
LossCovers == MaxShareLoss \in Nat \ {0} /\ MaxTokens <= (MaxShareLoss - 1) * FRACTION

PoolInv == RefinedInv /\ SeenWithin /\ TokensBounded

LEMMA RefinedForm ==
  ASSUME TypeOK, NEW m \in Miners PROVE Refined(m) = RefinedOf(miner[m], Factor)
BY WeightTypes, UpdatedType DEF Refined, RefinedOf, Accrued, Factor

\* The same after a step.
LEMMA RefinedFormNext ==
  ASSUME TypeOK', NEW m \in Miners
  PROVE  Refined(m)' = RefinedOf(miner'[m], treasury'.miner_rewards_factor)
<1>1. miner'[m] # None => miner'[m] \in MinerRecord
  BY DEF TypeOK
<1> QED BY <1>1 DEF Refined, RefinedOf, update_rewards, Accrued, Factor, MinerRecord

LEMMA SeenStep == ASSUME TypeOK, SeenWithin, [Next]_vars PROVE SeenWithin'
<1>0. Factor \in Nat /\ Factor' = treasury'.miner_rewards_factor
      /\ miner \in [Miners -> MinerAccount]
      /\ \A m \in Miners : Opened(m).rewards_factor <= Factor
  BY TreasuryTypes, StateTypes DEF Factor, SeenWithin, Opened, NewMiner
<1>1. ASSUME miner' = miner, Factor' = Factor PROVE SeenWithin'
  BY <1>1 DEF SeenWithin
<1>2. ASSUME NEW m \in Miners, NEW v \in MinerRecord, miner' = [miner EXCEPT ![m] = v],
             v.rewards_factor <= Factor, Factor' = Factor
      PROVE  SeenWithin'
  BY <1>0, <1>2 DEF SeenWithin
<1>3. ASSUME NEW m \in Miners, Keeps(m) PROVE SeenWithin'
  <2>1. PICK v \in MinerRecord :
          miner' = [miner EXCEPT ![m] = v] /\ v.rewards_factor = Opened(m).rewards_factor
    BY <1>3 DEF Keeps
  <2>2. Factor' = Factor
    BY <1>3 DEF Keeps, Calm, Factor
  <2>3. v.rewards_factor <= Factor
    BY <1>0, <2>1
  <2> QED BY <1>2, <2>1, <2>2, <2>3
<1>4. ASSUME NEW m \in Miners, NEW amount \in Nat, Credits(m, amount) PROVE SeenWithin'
  <2>1. PICK v \in MinerRecord : miner' = [miner EXCEPT ![m] = v] /\ v.rewards_factor = Factor
    BY <1>4 DEF Credits, Factor
  <2>2. Factor' = Factor /\ Factor <= Factor
    BY <1>0, <1>4 DEF Credits, Factor
  <2> HIDE DEF Factor
  <2> QED BY <1>2, <2>1, <2>2
<1>5. ASSUME NEW m \in Miners, Claims(m) PROVE SeenWithin'
  <2> DEFINE st == update_rewards(miner[m])
  <2>1. PICK v \in MinerRecord :
          miner' = [miner EXCEPT ![m] = v] /\ v.rewards_factor = Factor
    BY <1>5 DEF Claims, Factor
  <2>2. Factor' \in Nat /\ Factor' >= Factor
    <3>1. st \in MinerRecord /\ ClaimFee(st) \in Nat
      BY <1>5, ClaimWeights, FeeTypes
    <3>2. Left(st) \in Nat
      <4>1. treasury.total_unclaimed >= st.rewards_godl
        BY <1>5 DEF Claims, Claimable
      <4>2. treasury.total_unclaimed \in Nat /\ st.rewards_godl \in Nat
        BY <3>1, TreasuryTypes DEF MinerRecord
      <4> HIDE DEF st
      <4> QED BY <4>1, <4>2 DEF Left
    <3>3. Left(st) > 0 => PerUnit(ClaimFee(st), Left(st)) \in Nat
      BY <3>1, <3>2, PerUnitNat
    <3>4. Factor' = IF Left(st) > 0 THEN Factor + PerUnit(ClaimFee(st), Left(st)) ELSE Factor
      BY <1>5 DEF Claims, Factor
    <3> HIDE DEF st
    <3> QED BY <1>0, <3>3, <3>4
  <2>3. ASSUME NEW g \in Miners, miner'[g] # None PROVE miner'[g].rewards_factor <= Factor'
    <3>1. CASE g = m
      BY <1>0, <2>1, <2>2, <3>1
    <3>2. CASE g # m
      <4>1. miner'[g] = miner[g] /\ miner[g].rewards_factor <= Factor
        BY <1>0, <2>1, <2>3, <3>2 DEF SeenWithin
      <4>2. miner[g].rewards_factor \in Nat
        BY <1>0, <2>3, <4>1 DEF MinerAccount, MinerRecord
      <4> QED BY <1>0, <2>2, <4>1, <4>2
    <3> QED BY <3>1, <3>2
  <2> QED BY <2>3 DEF SeenWithin
<1>6. (Rests \/ Rebases) => miner' = miner /\ Factor' = Factor
  BY DEF Rests, Rebases, Calm, Factor
<1> QED BY <1>1, <1>3, <1>4, <1>5, <1>6, StepKinds

LEMMA TokensStep == ASSUME TypeOK, TokensBounded, [Next]_vars PROVE TokensBounded'
<1>0. treasury.tokens \in Nat /\ paid \in Nat /\ MaxTokens \in Nat
      /\ GODL_PER_ROUND \in Nat /\ MOTHERLODE_MINT \in Nat
  BY TreasuryTypes, StateTypes, ConstantTypes
<1>1. ASSUME NEW amount \in Nat, Room(amount), treasury'.tokens = treasury.tokens + amount,
             paid' = paid
      PROVE  TokensBounded'
  BY <1>0, <1>1 DEF TokensBounded, Room
<1>2. ASSUME treasury'.tokens = treasury.tokens, paid' = paid PROVE TokensBounded'
  BY <1>2 DEF TokensBounded
<1>3. ASSUME NEW hit \in BOOLEAN, Reset(hit) PROVE TokensBounded'
  <2> DEFINE amount == GODL_PER_ROUND + MOTHERLODE_MINT
  <2>1. Room(amount) /\ paid' = paid /\ amount \in Nat
    BY <1>0, <1>3 DEF Reset
  <2>2. treasury'.tokens = treasury.tokens + GODL_PER_ROUND + MOTHERLODE_MINT
    BY <1>3, StateTypes DEF Reset, TreasuryRecord
  <2>3. treasury'.tokens = treasury.tokens + amount
    BY <1>0, <2>2
  <2> QED BY <1>1, <2>1, <2>3
<1>4. ASSUME NEW m \in Miners, NEW amount \in Nat,
             Checkpoint(m, amount) \/ CheckpointWithMinerExtended(m, amount)
      PROVE  TokensBounded'
  <2>1. treasury'.tokens = treasury.tokens /\ paid' = paid
    BY <1>4, StateTypes DEF Checkpoint, CheckpointWithMinerExtended, TreasuryRecord
  <2> QED BY <1>2, <2>1
<1>5. ASSUME NEW m \in Miners, NEW amount \in Nat,
             InjectUnrefinedRewards(m, amount) \/ ExecuteOtcTrade(m, amount)
      PROVE  TokensBounded'
  <2>1. treasury'.tokens = treasury.tokens + amount /\ paid' = paid /\ Room(amount)
    BY <1>5, StateTypes DEF InjectUnrefinedRewards, ExecuteOtcTrade, TreasuryRecord
  <2> QED BY <1>1, <2>1
<1>6. ASSUME NEW amount \in Nat, InjectGodlMotherlode(amount) PROVE TokensBounded'
  <2>1. treasury'.tokens = treasury.tokens + amount /\ paid' = paid /\ Room(amount)
    BY <1>6, StateTypes DEF InjectGodlMotherlode, TreasuryRecord
  <2> QED BY <1>1, <2>1
<1>7. ASSUME NEW m \in Miners, ClaimGodl(m) PROVE TokensBounded'
  <2> DEFINE p == Payout(update_rewards(miner[m]))
  <2>1. /\ treasury'.tokens = treasury.tokens - p /\ p \in Nat
    BY <1>7, ClaimShape, FeeTypes
  <2>2. paid' = paid + p
    BY <1>7 DEF ClaimGodl
  <2> HIDE DEF p
  <2> QED BY <1>0, <2>1, <2>2 DEF TokensBounded
<1>8. CASE RebaseTotalUnclaimed
  <2>1. treasury'.tokens = treasury.tokens /\ paid' = paid
    BY <1>8, StateTypes DEF RebaseTotalUnclaimed, TreasuryRecord
  <2> QED BY <1>2, <2>1
<1>9. CASE UNCHANGED <<treasury, paid>>
  BY <1>2, <1>9
<1>10. ASSUME NEW m \in Miners,
              \/ Automate(m) \/ Deploy(m) \/ DeployWithMinerExtended(m)
              \/ CreateMinerExtended(m) \/ CheckpointForfeit(m) \/ ClaimGold(m)
       PROVE  TokensBounded'
  <2>1. UNCHANGED <<treasury, paid>>
    BY <1>10 DEF Automate, Deploy, DeployWithMinerExtended, CreateMinerExtended,
       CheckpointForfeit, ClaimGold, godl
  <2> QED BY <1>9, <2>1
<1>11. ASSUME \/ Tick \/ ClaimReferral \/ ReadTreasury \/ ListMiners \/ ListMinerExtendeds
              \/ AuditUnclaimed \/ RereadTreasury \/ RebaseMismatch
              \/ \E amount \in SolAmounts : PreBuyGold(amount)
              \/ \E xaut \in XautAmounts : BuyGold(xaut) \/ DepositGold(xaut)
      PROVE  TokensBounded'
  <2>0. SUFFICES UNCHANGED <<treasury, paid>>
    BY <1>9
  <2>1. CASE \/ Tick \/ ClaimReferral \/ ReadTreasury \/ ListMiners \/ ListMinerExtendeds
             \/ AuditUnclaimed \/ RereadTreasury \/ RebaseMismatch
    BY <2>1 DEF Tick, ClaimReferral, ReadTreasury, ListMiners, ListMinerExtendeds,
       AuditUnclaimed, RereadTreasury, RebaseMismatch, RebaseStep, godl
  <2>2. ASSUME NEW amount, PreBuyGold(amount) \/ BuyGold(amount) \/ DepositGold(amount)
        PROVE  UNCHANGED <<treasury, paid>>
    BY <2>2 DEF PreBuyGold, BuyGold, DepositGold, godl
  <2> QED BY <1>11, <2>1, <2>2
<1>12. /\ RewardAmounts \subseteq Nat /\ InjectAmounts \subseteq Nat
       /\ MotherlodeAmounts \subseteq Nat /\ BonusAmounts \subseteq Nat
  BY ConstantTypes
<1>13. CASE Next
  BY <1>3, <1>4, <1>5, <1>6, <1>7, <1>8, <1>10, <1>11, <1>12, <1>13 DEF Next
<1> QED BY <1>9, <1>13 DEF vars

\* How a share reads in an account that the factor passes by.
LEMMA RefinedShare ==
  ASSUME LossCovers, NEW v \in MinerRecord, NEW f \in Nat, v.rewards_factor <= f,
         v.rewards_godl <= MaxTokens, NEW fee \in Nat, NEW left \in Nat \ {0}
  PROVE  LET part == RefinedOf(v, f + PerUnit(fee, left)) - RefinedOf(v, f)
             w == v.rewards_godl
         IN  /\ part >= 0 /\ part * left < fee * w + left
             /\ (part + MaxShareLoss) * left >= fee * w
<1> DEFINE w == v.rewards_godl
           r == v.refined_godl
           s == v.rewards_factor
           p == (fee * FRACTION) \div left
           x == (r + (Monus(f + p, s) * w) \div FRACTION) - (r + (Monus(f, s) * w) \div FRACTION)
           bound == (MaxShareLoss - 1) * FRACTION
<1>1. /\ w \in Nat /\ r \in Nat /\ s \in Nat /\ s <= f /\ v # None
      /\ FRACTION \in Nat \ {0} /\ MaxShareLoss \in Nat \ {0} /\ MaxTokens \in Nat
      /\ w <= MaxTokens /\ MaxTokens <= bound
  BY ConstantTypes DEF MinerRecord, LossCovers
<1>2. w <= bound
  <2>1. bound \in Nat
    BY <1>1
  <2> HIDE DEF bound, w
  <2> QED BY <1>1, <2>1
<1>3. RefinedOf(v, f + PerUnit(fee, left)) - RefinedOf(v, f) = x
  BY <1>1 DEF RefinedOf, PerUnit
<1> HIDE DEF w, r, s
<1>4. x >= 0 /\ x * left < fee * w + left /\ (x + MaxShareLoss) * left >= fee * w
  BY <1>1, <1>2, FactorShare
<1> HIDE DEF x
<1> QED BY <1>3, <1>4 DEF w

\* Sums in the pool are the sums here.
LEMMA PoolSum == \A f, n : RefinedPool!Sum(f, n) = Sum(f, n)
BY DEF RefinedPool!Sum, RefinedPool!PartialSums, Sum, PartialSums

LEMMA PoolSolvent ==
  ASSUME TypeOK, Covered PROVE RefinedPool!Solvent
<1>1. TotalRefined <= treasury.total_refined
  BY RefinedCovered
<1> QED BY <1>1, PoolSum DEF RefinedPool!Solvent, TotalRefined

LEMMA PoolSolventNext ==
  ASSUME TypeOK', Covered' PROVE RefinedPool!Solvent'
<1>1. (TotalRefined <= treasury.total_refined)'
  BY RefinedCovered, PTL
<1> QED BY <1>1, PoolSum DEF RefinedPool!Solvent, TotalRefined

\* Where nothing changes for the pool.
LEMMA PoolStutters ==
  ASSUME \A m \in Miners : Unrefined(m)' = Unrefined(m),
         \A m \in Miners : Refined(m)' = Refined(m), Calm
  PROVE  UNCHANGED RefinedPool!vars
BY DEF RefinedPool!vars, Calm

LEMMA RestsPool ==
  ASSUME TypeOK, Rests PROVE UNCHANGED RefinedPool!vars
<1>1. \A m \in Miners : Unrefined(m)' = Unrefined(m)
  BY DEF Rests, Unrefined
<1>2. \A m \in Miners : Refined(m)' = Refined(m)
  BY DEF Rests, Calm, Refined, update_rewards, Accrued
<1> QED BY <1>1, <1>2, PoolStutters DEF Rests

\* What an account may claim depends on its rewards only.
LEMMA SameRefined ==
  ASSUME NEW v \in MinerRecord, NEW u \in MinerRecord, NEW f,
         v.rewards_godl = u.rewards_godl, v.refined_godl = u.refined_godl,
         v.rewards_factor = u.rewards_factor
  PROVE  RefinedOf(v, f) = RefinedOf(u, f)
BY ConstantTypes DEF RefinedOf

\* The other accounts may claim the same while the factor stays.
LEMMA OthersRefined ==
  ASSUME TypeOK, TypeOK', NEW m \in Miners, NEW v, miner' = [miner EXCEPT ![m] = v],
         treasury'.miner_rewards_factor = treasury.miner_rewards_factor
  PROVE  /\ \A g \in Miners \ {m} : Refined(g)' = Refined(g)
         /\ Refined(m)' = RefinedOf(v, Factor)
<1>1. \A g \in Miners : Refined(g)' = RefinedOf(miner'[g], Factor)
  BY RefinedFormNext DEF Factor
<1>2. \A g \in Miners : Refined(g) = RefinedOf(miner[g], Factor)
  BY RefinedForm
<1>3. miner'[m] = v /\ \A g \in Miners \ {m} : miner'[g] = miner[g]
  BY StateTypes
<1> QED BY <1>1, <1>2, <1>3

LEMMA KeepsPool ==
  ASSUME TypeOK, TypeOK', NEW m \in Miners, Keeps(m) PROVE UNCHANGED RefinedPool!vars
<1>1. PICK v \in MinerRecord :
         /\ miner' = [miner EXCEPT ![m] = v]
         /\ v.rewards_godl = Opened(m).rewards_godl
         /\ v.refined_godl = Opened(m).refined_godl
         /\ v.rewards_factor = Opened(m).rewards_factor
  BY DEF Keeps
<1>2. \A g \in Miners : Unrefined(g)' = Unrefined(g)
  BY <1>1, WeightUpdate, WeightTypes
<1>3. /\ \A g \in Miners \ {m} : Refined(g)' = Refined(g)
      /\ Refined(m)' = RefinedOf(v, Factor)
  BY <1>1, OthersRefined DEF Keeps, Calm
<1>4. Opened(m) \in MinerRecord /\ Refined(m) = update_rewards(Opened(m)).refined_godl
  BY WeightTypes, RefinedWithin
<1>5. update_rewards(Opened(m)).refined_godl = RefinedOf(Opened(m), Factor)
  BY <1>4, UpdatedType, ConstantTypes DEF RefinedOf, Accrued, Factor
<1>6. RefinedOf(v, Factor) = RefinedOf(Opened(m), Factor)
  BY <1>1, <1>4, SameRefined
<1>7. \A g \in Miners : Refined(g)' = Refined(g)
  BY <1>3, <1>4, <1>5, <1>6
<1> QED BY <1>2, <1>7, PoolStutters DEF Keeps

\* What a settled account may claim is what it has settled.
LEMMA FreshRefined ==
  ASSUME TypeOK, NEW v \in MinerRecord, v.rewards_factor = Factor
  PROVE  RefinedOf(v, Factor) = v.refined_godl
<1> DEFINE w == v.rewards_godl
<1>1. w \in Nat /\ v # None /\ v.refined_godl \in Nat /\ Monus(Factor, Factor) = 0
  BY TreasuryTypes, ConstantTypes DEF MinerRecord, Monus, Factor
<1>2. RefinedOf(v, Factor) = v.refined_godl + (0 * w) \div FRACTION
  BY <1>1 DEF RefinedOf
<1> HIDE DEF w
<1>3. 0 * w = 0 /\ 0 \div FRACTION = 0
  BY <1>1, ConstantTypes
<1> QED BY <1>1, <1>2, <1>3

LEMMA CreditsPool ==
  ASSUME TypeOK, TypeOK', RefinedPool!Solvent', NEW m \in Miners, NEW amount \in Nat,
         Credits(m, amount)
  PROVE  RefinedPool!Next
<1>1. PICK v \in MinerRecord :
         /\ miner' = [miner EXCEPT ![m] = v]
         /\ v.rewards_godl = Unrefined(m) + amount
         /\ v.refined_godl = update_rewards(Opened(m)).refined_godl
         /\ v.rewards_factor = Factor
  BY DEF Credits, Factor
<1>2. /\ Unrefined(m)' = Unrefined(m) + amount
      /\ \A g \in Miners \ {m} : Unrefined(g)' = Unrefined(g)
  BY <1>1, WeightUpdate
<1>3. /\ \A g \in Miners \ {m} : Refined(g)' = Refined(g)
      /\ Refined(m)' = RefinedOf(v, Factor)
  BY <1>1, OthersRefined DEF Credits
<1>4. Refined(m)' = Refined(m) /\ Refined(m) \in Nat
  BY <1>1, <1>3, FreshRefined, RefinedWithin
<1>5. /\ treasury'.total_refined = treasury.total_refined
      /\ treasury'.total_unclaimed = treasury.total_unclaimed + amount
      /\ treasury.total_refined \in Nat /\ treasury.total_unclaimed \in Nat
      /\ Unrefined(m) \in Nat /\ m \in 1 .. NumMiners /\ Miners = 1 .. NumMiners
  BY TreasuryTypes, WeightTypes, ConstantTypes DEF Credits
<1>6. RefinedPool!Deal(m, m)
  <2>1. RefinedPool!OthersKeep({m, m})
    BY <1>2, <1>3, <1>5 DEF RefinedPool!OthersKeep, RefinedPool!Holders
  <2>2. \A d : RefinedPool!OfPair(d, m, m) = d[m] + 0
    BY DEF RefinedPool!OfPair
  <2>3. /\ RefinedPool!OfPair([g \in Miners |-> Refined(g)], m, m) = Refined(m) + 0
        /\ RefinedPool!OfPair([g \in Miners |-> Unrefined(g)], m, m) = Unrefined(m) + 0
    BY <2>2
  <2>4. RefinedPool!OfPair([g \in Miners |-> Refined(g)]', m, m) = Refined(m)' + 0
    BY <2>2
  <2>5. RefinedPool!OfPair([g \in Miners |-> Unrefined(g)]', m, m) = Unrefined(m)' + 0
    BY <2>2
  <2>7. /\ Refined(m) + 0 = Refined(m) /\ Unrefined(m) + 0 = Unrefined(m)
        /\ Refined(m)' + 0 = Refined(m) /\ Unrefined(m)' + 0 = Unrefined(m) + amount
    BY <1>2, <1>4, <1>5
  <2>6. /\ treasury.total_refined - treasury'.total_refined = 0
        /\ treasury'.total_unclaimed - treasury.total_unclaimed
             = (Unrefined(m) + amount) - Unrefined(m)
        /\ Refined(m) <= Refined(m) /\ Refined(m) - Refined(m) = 0
    BY <1>4, <1>5
  <2> QED BY <2>1, <2>3, <2>4, <2>5, <2>6, <2>7 DEF RefinedPool!Deal
<1> QED BY <1>5, <1>6 DEF RefinedPool!Next, RefinedPool!Holders

\* No weight is larger than what may come in.
LEMMA WeightsFit ==
  ASSUME TypeOK, Backed, TokensBounded
  PROVE  \A m \in Miners : Unrefined(m) \in Nat /\ Unrefined(m) <= MaxTokens
<1>1. /\ treasury.tokens \in Nat /\ treasury.motherlode \in Nat /\ prizes \in Nat
      /\ paid \in Nat /\ TotalUnrefined \in Nat /\ MaxTokens \in Nat
      /\ treasury.total_refined \in Nat
  BY TreasuryTypes, StateTypes, WeightTypes, ConstantTypes
<1>2. /\ treasury.tokens - treasury.motherlode - prizes = TotalUnrefined + treasury.total_refined
      /\ treasury.tokens + paid <= MaxTokens
  BY DEF Backed, Free, TokensBounded
<1>3. TotalUnrefined <= MaxTokens
  BY <1>1, <1>2
<1>4. \A m \in Miners : Unrefined(m) \in Nat /\ Unrefined(m) <= TotalUnrefined
  BY WeightTypes, WeightWithin
<1> QED BY <1>1, <1>3, <1>4

LEMMA ClaimsPool ==
  ASSUME LossCovers, PoolInv, TypeOK', RefinedPool!Solvent', NEW m \in Miners, Claims(m)
  PROVE  RefinedPool!Next
<1> DEFINE st == update_rewards(miner[m])
           fee == ClaimFee(st)
           left == Left(st)
           f == treasury'.miner_rewards_factor
<1>0. TypeOK /\ Drift >= 0 /\ Backed /\ SeenWithin /\ TokensBounded
  BY DEF PoolInv, RefinedInv
<1>1. PICK v \in MinerRecord :
         /\ miner' = [miner EXCEPT ![m] = v]
         /\ v.rewards_godl = 0 /\ v.refined_godl = 0
         /\ v.rewards_factor = Factor
  BY DEF Claims, Factor
<1>2. /\ st \in MinerRecord /\ st.rewards_godl = Unrefined(m)
      /\ treasury'.total_unclaimed = treasury.total_unclaimed - Unrefined(m)
      /\ Unrefined(m)' = 0
      /\ \A g \in Miners \ {m} : Unrefined(g)' = Unrefined(g)
      /\ treasury'.total_unclaimed = left
      /\ treasury'.total_refined = treasury.total_refined - st.refined_godl + fee
      /\ f = IF left > 0 THEN Factor + PerUnit(fee, left) ELSE Factor
      /\ Claimable(st)
  BY <1>0, ClaimWeights DEF Claims, Factor
<1>3. /\ st.refined_godl = Refined(m) /\ Refined(m) \in Nat /\ fee \in Nat
      /\ (treasury.total_unclaimed <= st.rewards_godl => fee = 0)
  <2>1. miner[m] # None
    BY DEF Claims
  <2> QED BY <1>0, <1>2, <2>1, RefinedWithin, FeeTypes DEF Refined
<1>4. /\ treasury.total_refined \in Nat /\ treasury.total_unclaimed \in Nat
      /\ Factor \in Nat /\ m \in 1 .. NumMiners /\ Miners = 1 .. NumMiners
      /\ \A g \in Miners : Unrefined(g) \in Nat
  BY <1>0, TreasuryTypes, WeightTypes, ConstantTypes DEF Factor
<1> HIDE DEF st, fee
<1>5. left \in Nat
  BY <1>2, <1>4 DEF Claimable, Left
<1> HIDE DEF left, f
<1>6. f \in Nat /\ Factor <= f
  <2>1. left > 0 => PerUnit(fee, left) \in Nat
    BY <1>3, <1>5, PerUnitNat
  <2> QED BY <1>2, <1>4, <2>1
<1>7. Refined(m)' = 0
  <2>1. Refined(m)' = RefinedOf(miner'[m], f) /\ miner'[m] = v
    BY <1>0, <1>1, RefinedFormNext, StateTypes DEF f
  <2>2. Monus(f, v.rewards_factor) \in Nat /\ v # None
    BY <1>1, <1>4, <1>6, MonusNat, ConstantTypes
  <2> DEFINE d == Monus(f, v.rewards_factor)
  <2>3. RefinedOf(v, f) = 0 + (d * 0) \div FRACTION
    BY <1>1, <2>2 DEF RefinedOf
  <2> HIDE DEF d
  <2>4. d * 0 = 0 /\ 0 \div FRACTION = 0
    BY <2>2, ConstantTypes DEF d
  <2> QED BY <2>1, <2>3, <2>4
<1>8. ASSUME NEW g \in Miners \ {m}
      PROVE  /\ Refined(g)' - Refined(g) >= 0
             /\ left > 0 =>
                  /\ (Refined(g)' - Refined(g)) * left < fee * Unrefined(g) + left
                  /\ (Refined(g)' - Refined(g) + MaxShareLoss) * left >= fee * Unrefined(g)
  <2>1. Refined(g)' = RefinedOf(miner[g], f) /\ Refined(g) = RefinedOf(miner[g], Factor)
        /\ Refined(g) \in Nat
    BY <1>0, <1>1, RefinedFormNext, RefinedForm, RefinedWithin, StateTypes DEF f
  <2>2. Unrefined(g) \in Nat /\ Unrefined(g) <= MaxTokens
    BY <1>0, WeightsFit
  <2>3. CASE left > 0
    <3>1. f = Factor + PerUnit(fee, left) /\ left \in Nat \ {0}
      BY <1>2, <1>5, <2>3
    <3>2. CASE miner[g] = None
      <4>1. Refined(g)' = 0 /\ Refined(g) = 0 /\ Unrefined(g) = 0
        BY <2>1, <3>2 DEF RefinedOf, Unrefined
      <4>2. fee * 0 = 0 /\ 0 * left = 0 /\ MaxShareLoss * left \in Nat
        BY <1>3, <1>5 DEF LossCovers
      <4>3. 0 - 0 = 0 /\ 0 + MaxShareLoss = MaxShareLoss
        BY DEF LossCovers
      <4> QED BY <1>5, <2>3, <4>1, <4>2, <4>3
    <3>3. CASE miner[g] # None
      <4>1. miner[g] \in MinerRecord /\ miner[g].rewards_factor <= Factor
            /\ miner[g].rewards_godl = Unrefined(g)
        BY <1>0, <3>3, WeightTypes DEF SeenWithin
      <4> DEFINE p == RefinedOf(miner[g], Factor + PerUnit(fee, left))
                      - RefinedOf(miner[g], Factor)
      <4>2. p >= 0 /\ p * left < fee * Unrefined(g) + left
            /\ (p + MaxShareLoss) * left >= fee * Unrefined(g)
        BY <1>3, <1>4, <2>2, <3>1, <4>1, RefinedShare
      <4>3. p = Refined(g)' - Refined(g)
        BY <2>1, <3>1
      <4> HIDE DEF p
      <4> QED BY <4>2, <4>3
    <3> QED BY <3>2, <3>3
  <2>4. CASE ~ (left > 0)
    <3>1. Refined(g)' = Refined(g)
      BY <1>2, <2>1, <2>4
    <3> QED BY <2>1, <2>4, <3>1
  <2> QED BY <2>3, <2>4
<1>9. RefinedPool!Leave(m)
  <2> DEFINE amount == treasury'.total_refined - (treasury.total_refined - Refined(m))
  <2>1. amount = fee
    BY <1>2, <1>3, <1>4
  <2>2. treasury'.total_refined >= treasury.total_refined - Refined(m)
    BY <1>2, <1>3, <1>4
  <2>3. \A g \in Miners \ {m} : RefinedPool!Receives(g, amount, treasury'.total_unclaimed)
    BY <1>2, <1>8, <2>1 DEF RefinedPool!Receives
  <2>4. RefinedPool!SharedBy(RefinedPool!Holders \ {m}, amount, treasury'.total_unclaimed)
    BY <1>4, <2>3 DEF RefinedPool!SharedBy, RefinedPool!Holders
  <2>5. \A g \in RefinedPool!Holders \ {m} : Unrefined(g)' = Unrefined(g)
    BY <1>2, <1>4 DEF RefinedPool!Holders
  <2> HIDE DEF amount
  <2> QED BY <1>2, <1>4, <1>7, <2>2, <2>4, <2>5 DEF RefinedPool!Leave, RefinedPool!Holders, amount
<1> QED BY <1>4, <1>9 DEF RefinedPool!Next, RefinedPool!Holders

LEMMA PoolStep ==
  ASSUME LossCovers, PoolInv, [Next]_vars, ~RebaseTotalUnclaimed
  PROVE  PoolInv' /\ [RefinedPool!Next]_(RefinedPool!vars)
<1>1. TypeOK /\ RefinedInv /\ SeenWithin /\ TokensBounded
  BY DEF PoolInv, RefinedInv
<1>2. TypeOK' /\ Covered' /\ PoolInv'
  <2>1. RefinedInv'
    BY <1>1, RefinedStep
  <2>2. SeenWithin' /\ TokensBounded'
    BY <1>1, SeenStep, TokensStep
  <2> QED BY <2>1, <2>2 DEF PoolInv, RefinedInv
<1>3. RefinedPool!Solvent'
  BY <1>2, PoolSolventNext
<1>4. CASE Rests \/ \E m \in Miners : Keeps(m)
  BY <1>1, <1>2, <1>4, RestsPool, KeepsPool
<1>5. CASE \/ \E m \in Miners, amount \in Nat : Credits(m, amount)
           \/ \E m \in Miners : Claims(m)
  BY <1>1, <1>2, <1>3, <1>5, CreditsPool, ClaimsPool
<1> QED BY <1>1, <1>2, <1>4, <1>5, StepKinds

\* The drift and the GODL of the start.
LEMMA InitBounds ==
  ASSUME GenesisFits, Init PROVE Drift >= 0 /\ TokensBounded
<1>1. TotalUnrefined \in Nat /\ GenesisPrizes \in Nat /\ GenesisDrift \in Nat
  BY InitTypes, WeightTypes, ConstantTypes
<1>2. /\ treasury.total_unclaimed = TotalUnrefined + GenesisDrift
      /\ treasury.tokens = TotalUnrefined + GenesisPrizes /\ paid = 0
  BY DEF Init
<1>3. Drift >= 0
  BY <1>1, <1>2 DEF Drift
<1>4. TotalUnrefined + GenesisPrizes <= MaxTokens
  <2>1. TotalUnrefined =
          Sum([m \in Miners |-> IF Genesis[m] = None THEN 0 ELSE Genesis[m].rewards_godl],
              NumMiners)
    BY DEF Init, TotalUnrefined, Unrefined
  <2> QED BY <2>1 DEF GenesisFits
<1> HIDE DEF TotalUnrefined
<1> QED BY <1>1, <1>2, <1>3, <1>4, ConstantTypes DEF TokensBounded

LEMMA PoolInit ==
  ASSUME GenesisUnshared, GenesisFits, Init PROVE PoolInv /\ RefinedPool!Init
<1>1. RefinedInv /\ TypeOK
  BY RefinedInit DEF RefinedInv
<1>2. SeenWithin
  BY DEF Init, GenesisUnshared, SeenWithin, Factor
<1>3. TokensBounded
  BY InitBounds
<1>4. ASSUME NEW m \in Miners PROVE Refined(m) = 0
  <2>1. CASE miner[m] = None
    BY <2>1 DEF Refined
  <2>2. CASE miner[m] # None
    <3>1. miner[m] \in MinerRecord /\ miner[m].rewards_factor = Factor
          /\ miner[m].refined_godl = 0
      BY <1>1, <2>2, WeightTypes DEF Init, GenesisUnshared, Factor
    <3> QED BY <1>1, <3>1, RefinedForm, FreshRefined
  <2> QED BY <2>1, <2>2
<1>5. RefinedPool!Init
  <2>1. treasury.total_refined = 0
    BY DEF Init
  <2> QED BY <1>4, <2>1, ConstantTypes DEF RefinedPool!Init, RefinedPool!Holders
<1> QED BY <1>1, <1>2, <1>3, <1>5 DEF PoolInv

\* Lazy settlement of refined GODL implements the pool, for any number of miners
\* and any amounts, as long as no rebase writes the total: every fee is shared at
\* once by the weights of that moment (to MaxShareLoss units, which must cover
\* what a truncated factor costs the largest weight), no handler gives a miner a
\* share for weight it did not have then or takes one away, and total_refined
\* covers all shares at all times.
THEOREM RefinedPoolImplemented ==
  ASSUME GenesisUnshared, GenesisFits, LossCovers
  PROVE  Spec /\ [][~RebaseTotalUnclaimed]_vars => ImplementsRefinedPool
<1>1. Init => PoolInv /\ RefinedPool!Init
  BY PoolInit
<1>2. PoolInv /\ [Next]_vars /\ [~RebaseTotalUnclaimed]_vars
        => PoolInv' /\ [RefinedPool!Next]_(RefinedPool!vars)
  <2> SUFFICES ASSUME PoolInv, [Next]_vars, [~RebaseTotalUnclaimed]_vars
               PROVE  PoolInv' /\ [RefinedPool!Next]_(RefinedPool!vars)
    OBVIOUS
  <2>1. ~RebaseTotalUnclaimed
    BY DEF RebaseTotalUnclaimed, vars, PoolInv, RefinedInv, TypeOK, AuditRecord
  <2> QED BY <2>1, PoolStep
<1> QED BY <1>1, <1>2, PTL DEF Spec, ImplementsRefinedPool, RefinedPool!Spec
-----------------------------------------------------------------------------
(* Gold misses nobody.  Once the legacy instructions have expired, the      *)
(* holders without an extended account can only become fewer, and the audit *)
(* has them all on its list from the moment it lists the Miner accounts.    *)

Missing == {m \in Miners : Unrefined(m) > 0 /\ extended[m] = None}

Expired == now >= LEGACY_INSTRUCTION_EXPIRY_TS

AuditKnows ==
    /\ audit.step # "idle" \/ audit.passed => Expired
    /\ audit.step \in {"extendeds", "judge"} => Missing \subseteq audit.holders
    /\ audit.passed => Missing = {}

\* What a handler may write to an account without losing a holder.
LEMMA MissingAt ==
  ASSUME TypeOK, NEW m \in Miners, NEW v \in MinerRecord, NEW e,
         miner' = [miner EXCEPT ![m] = v], extended' = [extended EXCEPT ![m] = e],
         v.rewards_godl > 0 /\ e = None => m \in Missing
  PROVE  Missing' \subseteq Missing
<1>1. ASSUME NEW g \in Miners \ {m}, g \in Missing' PROVE g \in Missing
  BY <1>1, StateTypes DEF Missing, Unrefined
<1>2. ASSUME m \in Missing' PROVE m \in Missing
  <2>1. miner'[m] = v /\ extended'[m] = e
    BY StateTypes
  <2>2. v # None
    BY ConstantTypes
  <2>3. Unrefined(m)' = v.rewards_godl
    BY <2>1, <2>2 DEF Unrefined
  <2> QED BY <1>2, <2>1, <2>3 DEF Missing
<1>3. Missing' \subseteq Miners
  BY DEF Missing
<1> QED BY <1>1, <1>2, <1>3

LEMMA CheckpointMisses ==
  ASSUME TypeOK, NEW m \in Miners, NEW amount \in Nat, CheckpointWithMinerExtended(m, amount)
  PROVE  Missing' \subseteq Missing
<1> DEFINE e == Sync(Loaded(m, FALSE), Unrefined(m))
<1>1. Settle(m, amount) /\ extended' = [extended EXCEPT ![m] = e]
  BY DEF CheckpointWithMinerExtended
<1>2. PICK v \in MinerRecord :
         miner' = [miner EXCEPT ![m] = v] /\ v.rewards_godl = Unrefined(m) + amount
  BY <1>1, SettledType
<1>3. CASE extended[m] = None
  <2>1. Unrefined(m) = 0 /\ amount = 0
    BY <1>3 DEF CheckpointWithMinerExtended, MissingAllowed
  <2>2. ~(v.rewards_godl > 0)
    BY <1>2, <2>1
  <2> HIDE DEF e
  <2> QED BY <1>1, <1>2, <2>2, MissingAt
<1>4. CASE extended[m] # None
  <2>1. Loaded(m, FALSE) \in ExtendedRecord
    BY <1>4, StateTypes, LoadedType DEF ExtendedAccount
  <2>2. Loaded(m, FALSE) # None
    BY <2>1, ConstantTypes
  <2>3. e = Synced(Loaded(m, FALSE), Unrefined(m))
    BY <2>2 DEF Sync
  <2>4. e \in ExtendedRecord
    BY <2>1, <2>3, WeightTypes, SyncedType
  <2> HIDE DEF e
  <2>5. e # None
    BY <2>4, ConstantTypes
  <2> QED BY <1>1, <1>2, <2>5, MissingAt
<1> QED BY <1>3, <1>4

\* Whoever is credited by the bury authority or the desk has the account.
LEMMA CreditMisses ==
  ASSUME TypeOK, NEW m \in Miners, NEW amount \in Nat,
         InjectUnrefinedRewards(m, amount) \/ ExecuteOtcTrade(m, amount)
  PROVE  Missing' \subseteq Missing
<1> DEFINE v == Credited(update_rewards(Opened(m)), amount)
           e == Synced(Loaded(m, TRUE), Unrefined(m))
<1>1. v \in MinerRecord /\ e \in ExtendedRecord /\ e # None
  BY CreditTypes, ConstantTypes
<1>2. \/ miner' = [miner EXCEPT ![m] = v] /\ extended' = [extended EXCEPT ![m] = e]
      \/ miner' = [miner EXCEPT ![m] = Opened(m)] /\ extended' = extended
  <2>1. CASE InjectUnrefinedRewards(m, amount)
    <3>1. miner[m] = Opened(m)
      BY <2>1, WeightTypes DEF InjectUnrefinedRewards
    <3> QED BY <2>1, <3>1, StateTypes DEF InjectUnrefinedRewards
  <2>2. CASE ExecuteOtcTrade(m, amount)
    BY <2>2 DEF ExecuteOtcTrade
  <2> QED BY <2>1, <2>2
<1> HIDE DEF v, e
<1>3. CASE miner' = [miner EXCEPT ![m] = v] /\ extended' = [extended EXCEPT ![m] = e]
  BY <1>1, <1>3, MissingAt
<1>4. CASE miner' = [miner EXCEPT ![m] = Opened(m)] /\ extended' = extended
  <2>1. extended' = [extended EXCEPT ![m] = extended[m]]
    BY <1>4, StateTypes
  <2>2. Opened(m) \in MinerRecord /\ Opened(m).rewards_godl = Unrefined(m)
    BY WeightTypes
  <2>3. Opened(m).rewards_godl > 0 /\ extended[m] = None => m \in Missing
    BY <2>2 DEF Missing
  <2> QED BY <1>4, <2>1, <2>2, <2>3, MissingAt
<1> QED BY <1>2, <1>3, <1>4

LEMMA MissingShrinks ==
  ASSUME TypeOK, [Next]_vars, Expired PROVE Missing' \subseteq Missing
<1>0. /\ NewMiner \in MinerRecord /\ NewMiner.rewards_godl = 0
      /\ now \in Nat /\ LEGACY_INSTRUCTION_EXPIRY_TS \in Nat
  BY StateTypes, ConstantTypes DEF NewMiner, MinerRecord
<1>1. ASSUME UNCHANGED <<miner, extended>> PROVE Missing' \subseteq Missing
  BY <1>1 DEF Missing, Unrefined
<1>2. ASSUME NEW m \in Miners, NEW v \in MinerRecord, miner' = [miner EXCEPT ![m] = v],
             v.rewards_godl = Unrefined(m) \/ v.rewards_godl = 0, extended' = extended
      PROVE  Missing' \subseteq Missing
  <2>1. extended' = [extended EXCEPT ![m] = extended[m]]
    BY <1>2, StateTypes
  <2>2. v.rewards_godl > 0 /\ extended[m] = None => m \in Missing
    BY <1>2 DEF Missing
  <2> QED BY <1>2, <2>1, <2>2, MissingAt
<1>3. ASSUME NEW m \in Miners, Automate(m) \/ CheckpointForfeit(m)
      PROVE  Missing' \subseteq Missing
  <2>1. CASE Automate(m)
    BY <1>0, <1>2, <2>1 DEF Automate
  <2>2. CASE CheckpointForfeit(m)
    <3>1. /\ miner' = [miner EXCEPT ![m] = [miner[m] EXCEPT !.playing = FALSE]]
          /\ extended' = extended
      BY <2>2, StateTypes DEF CheckpointForfeit
    <3>2. miner[m] \in MinerRecord /\ miner[m].rewards_godl = Unrefined(m)
      BY <2>2, WeightTypes DEF CheckpointForfeit
    <3>3. /\ [miner[m] EXCEPT !.playing = FALSE] \in MinerRecord
          /\ [miner[m] EXCEPT !.playing = FALSE].rewards_godl = Unrefined(m)
      BY <3>2, PlayingType
    <3> QED BY <1>2, <3>1, <3>3
  <2> QED BY <1>3, <2>1, <2>2
<1>4. ASSUME NEW m \in Miners,
             \/ DeployWithMinerExtended(m) \/ CreateMinerExtended(m) \/ ClaimGold(m)
      PROVE  Missing' \subseteq Missing
  <2>1. PICK e \in ExtendedRecord : extended' = [extended EXCEPT ![m] = e]
    BY <1>4, LoadedType, ClaimGoldShape DEF DeployWithMinerExtended, CreateMinerExtended
  <2>2. e # None
    BY ConstantTypes
  <2>3. \E v \in MinerRecord : miner' = [miner EXCEPT ![m] = v]
    <3>1. CASE DeployWithMinerExtended(m)
      <4>1. [Opened(m) EXCEPT !.playing = TRUE] \in MinerRecord
        BY WeightTypes, PlayingType
      <4> QED BY <3>1, <4>1 DEF DeployWithMinerExtended
    <3>2. CASE CreateMinerExtended(m) \/ ClaimGold(m)
      <4>1. miner[m] \in MinerRecord /\ miner' = miner
        BY <3>2, WeightTypes DEF CreateMinerExtended, ClaimGold
      <4>2. miner' = [miner EXCEPT ![m] = miner[m]]
        BY <4>1, StateTypes
      <4> QED BY <4>1, <4>2
    <3> QED BY <1>4, <3>1, <3>2
  <2> QED BY <2>1, <2>2, <2>3, MissingAt
<1>5. ASSUME NEW m \in Miners, ClaimGodl(m) PROVE Missing' \subseteq Missing
  <2>1. PICK v \in MinerRecord : miner' = [miner EXCEPT ![m] = v] /\ v.rewards_godl = 0
    BY <1>5, ClaimShape
  <2>2. PICK e : extended' = [extended EXCEPT ![m] = e]
    BY <1>5 DEF ClaimGodl
  <2>3. ~(v.rewards_godl > 0)
    BY <2>1
  <2> QED BY <2>1, <2>2, <2>3, MissingAt
<1>6. ASSUME NEW m \in Miners, NEW amount, Deploy(m) \/ Checkpoint(m, amount) PROVE FALSE
  BY <1>0, <1>6 DEF Deploy, Checkpoint, LegacyAlive, Expired
<1>7. CASE UNCHANGED vars
  BY <1>1, <1>7 DEF vars
<1>8. CASE \/ Tick \/ ClaimReferral \/ ReadTreasury \/ ListMiners \/ ListMinerExtendeds
           \/ AuditUnclaimed \/ RereadTreasury \/ RebaseMismatch \/ RebaseTotalUnclaimed
           \/ \E hit \in BOOLEAN : Reset(hit)
           \/ \E amount \in MotherlodeAmounts : InjectGodlMotherlode(amount)
           \/ \E amount \in SolAmounts : PreBuyGold(amount)
           \/ \E xaut \in XautAmounts : BuyGold(xaut) \/ DepositGold(xaut)
  <2>1. UNCHANGED <<miner, extended>>
    BY <1>8 DEF Tick, ClaimReferral, ReadTreasury, ListMiners, ListMinerExtendeds,
       AuditUnclaimed, RereadTreasury, RebaseMismatch, RebaseTotalUnclaimed, RebaseStep,
       Reset, InjectGodlMotherlode, PreBuyGold, BuyGold, DepositGold
  <2> QED BY <1>1, <2>1
<1>9. ASSUME NEW m \in Miners, NEW amount \in Nat,
             \/ CheckpointWithMinerExtended(m, amount) \/ InjectUnrefinedRewards(m, amount)
             \/ ExecuteOtcTrade(m, amount)
      PROVE  Missing' \subseteq Missing
  BY <1>9, CheckpointMisses, CreditMisses
<1>10. /\ RewardAmounts \subseteq Nat /\ InjectAmounts \subseteq Nat
       /\ BonusAmounts \subseteq Nat
  BY ConstantTypes
<1> QED BY <1>3, <1>4, <1>5, <1>6, <1>7, <1>8, <1>9, <1>10 DEF Next

\* The clock only runs forward.
LEMMA ExpiredStays == ASSUME TypeOK, Expired, [Next]_vars PROVE Expired'
<1>1. now' = now \/ now' = now + 1
  BY DEF Next, vars, Tick, Reset, Automate, Deploy, DeployWithMinerExtended,
     CreateMinerExtended, Checkpoint, CheckpointWithMinerExtended, CheckpointForfeit,
     ClaimGodl, InjectUnrefinedRewards, ExecuteOtcTrade, ClaimGold, ClaimReferral,
     InjectGodlMotherlode, PreBuyGold, BuyGold, DepositGold, ReadTreasury, ListMiners,
     ListMinerExtendeds, AuditUnclaimed, RereadTreasury, RebaseMismatch,
     RebaseTotalUnclaimed, RebaseStep
<1>2. now \in Nat /\ LEGACY_INSTRUCTION_EXPIRY_TS \in Nat
  BY StateTypes, ConstantTypes
<1> QED BY <1>1, <1>2 DEF Expired

\* An audit that has read and found the same.
AuditKept ==
    /\ audit'.step = audit.step /\ audit'.expected = audit.expected /\ audit'.sum = audit.sum
    /\ audit'.holders = audit.holders /\ audit'.passed = audit.passed

\* Only the admin's commands touch what the admin has read.
LEMMA AuditUntouched ==
  ASSUME TypeOK, [Next]_vars, ~ReadTreasury, ~ListMiners, ~ListMinerExtendeds, ~AuditUnclaimed,
         ~RereadTreasury, ~RebaseMismatch, ~RebaseTotalUnclaimed
  PROVE  AuditKept
<1>1. CASE \E xaut \in XautAmounts : BuyGold(xaut)
  BY <1>1, AuditFields DEF BuyGold, AuditKept
<1>2. ASSUME ~\E xaut \in XautAmounts : BuyGold(xaut) PROVE UNCHANGED audit
  BY <1>2 DEF Next, vars, Tick, Reset, Automate, Deploy, DeployWithMinerExtended,
     CreateMinerExtended, Checkpoint, CheckpointWithMinerExtended, CheckpointForfeit,
     ClaimGodl, InjectUnrefinedRewards, ExecuteOtcTrade, ClaimGold, ClaimReferral,
     InjectGodlMotherlode, PreBuyGold, DepositGold
<1> QED BY <1>1, <1>2 DEF AuditKept

LEMMA AuditKnowsStep ==
  ASSUME TypeOK, AuditKnows, [Next]_vars, AuditFrom >= LEGACY_INSTRUCTION_EXPIRY_TS
  PROVE  AuditKnows'
<1>0. /\ audit \in AuditRecord /\ now \in Nat /\ now' \in Nat
      /\ LEGACY_INSTRUCTION_EXPIRY_TS \in Nat /\ AuditFrom \in Nat
  BY StateTypes, NextTypes, ConstantTypes DEF TypeOK
<1>1. Expired => Missing' \subseteq Missing /\ Expired'
  BY MissingShrinks, ExpiredStays
<1>2. ASSUME AuditKept PROVE AuditKnows'
  BY <1>1, <1>2 DEF AuditKnows, AuditKept
<1>3. CASE ReadTreasury
  <2>1. Expired
    BY <1>0, <1>3 DEF ReadTreasury, Expired
  <2>2. audit'.step = "miners" /\ audit'.passed = audit.passed
    BY <1>0, <1>3 DEF ReadTreasury, AuditRecord
  <2> QED BY <1>1, <2>1, <2>2 DEF AuditKnows
<1>4. CASE ListMiners
  <2>1. audit.step = "miners"
    BY <1>4 DEF ListMiners
  <2>2. audit'.step = "extendeds" /\ audit'.passed = audit.passed
        /\ audit'.holders = {m \in Miners : Unrefined(m) > 0}
    BY <1>0, <1>4 DEF ListMiners, AuditRecord
  <2>3. Missing \subseteq audit'.holders
    BY <2>2 DEF Missing
  <2> QED BY <1>1, <2>1, <2>2, <2>3 DEF AuditKnows
<1>5. CASE ListMinerExtendeds
  <2>1. audit.step = "extendeds"
    BY <1>5 DEF ListMinerExtendeds
  <2>2. audit'.step = "judge" /\ audit'.passed = audit.passed
        /\ audit'.holders = {m \in audit.holders : extended[m] = None}
    BY <1>0, <1>5 DEF ListMinerExtendeds, AuditRecord
  <2>3. Missing \subseteq audit'.holders
    BY <2>1, <2>2 DEF Missing, AuditKnows
  <2> QED BY <1>1, <2>1, <2>2, <2>3 DEF AuditKnows
<1>6. CASE AuditUnclaimed
  <2>1. audit.step = "judge"
    BY <1>6 DEF AuditUnclaimed
  <2>2. audit'.step = "idle" /\ (audit'.passed => audit.passed \/ audit.holders = {})
    BY <1>0, <1>6 DEF AuditUnclaimed, AuditRecord
  <2>3. Expired /\ Missing \subseteq audit.holders
    BY <2>1 DEF AuditKnows
  <2> QED BY <1>1, <2>2, <2>3 DEF AuditKnows
<1>7. CASE RereadTreasury \/ RebaseMismatch \/ RebaseTotalUnclaimed
  <2>1. audit.step \in {"judge", "send"}
    BY <1>7 DEF RereadTreasury, RebaseMismatch, RebaseTotalUnclaimed
  <2>2. audit'.step \in {"idle", "send"} /\ audit'.passed = audit.passed
    BY <1>0, <1>7 DEF RereadTreasury, RebaseMismatch, RebaseTotalUnclaimed, RebaseStep,
       AuditRecord
  <2> QED BY <1>1, <2>1, <2>2 DEF AuditKnows
<1> QED BY <1>2, <1>3, <1>4, <1>5, <1>6, <1>7, AuditUntouched

\* Gold is only shared after an audit, if the operator keeps to it.
LEMMA GoldAfterAudit ==
  ASSUME TypeOK, AuditKnows, AuditFirst, [Next]_vars, Distributes PROVE Missing = {}
<1>1. ASSUME RolledOut PROVE Missing = {}
  BY <1>1 DEF RolledOut, AuditKnows
<1>2. gold_vault.xaut_rewards_factor \in Nat
  BY VaultTypes
<1>3. ASSUME gold_vault'.xaut_rewards_factor = gold_vault.xaut_rewards_factor PROVE FALSE
  BY <1>2, <1>3 DEF Distributes
<1>4. ASSUME UNCHANGED gold_vault PROVE FALSE
  BY <1>3, <1>4
<1>5. ASSUME NEW amount, PreBuyGold(amount) PROVE FALSE
  <2>1. gold_vault'.xaut_rewards_factor = gold_vault.xaut_rewards_factor
    BY <1>5, StateTypes DEF PreBuyGold, GoldVaultRecord
  <2> QED BY <1>3, <2>1
<1>6. ASSUME NEW m \in Miners, ClaimGold(m) PROVE FALSE
  BY <1>3, <1>6, ClaimGoldShape
<1>7. ASSUME Next, ~RolledOut, \A amount \in SolAmounts : ~PreBuyGold(amount),
             \A m \in Miners : ~ClaimGold(m)
      PROVE  UNCHANGED gold_vault
  BY <1>7 DEF Next, Tick, Reset, Automate, Deploy, DeployWithMinerExtended,
     CreateMinerExtended, Checkpoint, CheckpointWithMinerExtended, CheckpointForfeit,
     ClaimGodl, InjectUnrefinedRewards, ExecuteOtcTrade, ClaimReferral,
     InjectGodlMotherlode, ReadTreasury, ListMiners, ListMinerExtendeds, AuditUnclaimed,
     RereadTreasury, RebaseMismatch, RebaseTotalUnclaimed, RebaseStep, gold
<1>8. CASE UNCHANGED vars
  BY <1>4, <1>8 DEF vars
<1> QED BY <1>1, <1>4, <1>5, <1>6, <1>7, <1>8

\* If the operator brings in gold only after an audit, and starts audits only
\* when the legacy instructions have expired, every distribution of gold finds an
\* extended account for every holder of unrefined GODL, although the audit reads
\* the Miner and the MinerExtended accounts in two calls and the program itself
\* does not ask for an audit.
THEOREM AuditedGoldMissesNobody ==
  ASSUME AuditFirst, AuditFrom >= LEGACY_INSTRUCTION_EXPIRY_TS
  PROVE  Spec => GoldMissesNobody
<1>1. Init => AuditKnows
  BY DEF Init, AuditKnows
<1>2. TypeOK /\ AuditKnows /\ [Next]_vars => AuditKnows'
  BY AuditKnowsStep
<1>3. TypeOK /\ AuditKnows /\ [Next]_vars =>
        [Distributes => \A m \in Miners : Unrefined(m) > 0 => extended[m] # None]_vars
  BY GoldAfterAudit DEF Missing
<1> QED BY <1>1, <1>2, <1>3, RefiningTypes, PTL DEF Spec, GoldMissesNobody
-----------------------------------------------------------------------------
(* The rebase.  Without a claim the total and the sum of the weights only   *)
(* grow, by the same; so a total that reads the same before and after the   *)
(* accounts are listed did not move meanwhile.                              *)

AuditSums ==
    /\ audit.step # "idle" => audit.expected <= treasury.total_unclaimed
    /\ audit.step \in {"extendeds", "judge", "send"} =>
         audit.sum <= TotalUnrefined /\ audit.expected <= audit.sum + Drift

LEMMA TotalGrows ==
  ASSUME TypeOK, [Next]_vars, \A m \in Miners : ~ClaimGodl(m), ~RebaseTotalUnclaimed
  PROVE  treasury'.total_unclaimed >= treasury.total_unclaimed
<1> DEFINE u == treasury.total_unclaimed
<1>0. u \in Nat /\ treasury \in TreasuryRecord
  BY StateTypes, TreasuryTypes
<1>1. ASSUME treasury'.total_unclaimed = u PROVE treasury'.total_unclaimed >= u
  BY <1>0, <1>1
<1>2. ASSUME NEW amount \in Nat, treasury'.total_unclaimed = u + amount
      PROVE  treasury'.total_unclaimed >= u
  BY <1>0, <1>2
<1>3. ASSUME UNCHANGED treasury PROVE treasury'.total_unclaimed >= u
  BY <1>1, <1>3
<1>4. ASSUME NEW hit \in BOOLEAN, Reset(hit) PROVE treasury'.total_unclaimed >= u
  BY <1>0, <1>1, <1>4 DEF Reset, TreasuryRecord
<1>5. ASSUME NEW amount, InjectGodlMotherlode(amount) PROVE treasury'.total_unclaimed >= u
  BY <1>0, <1>1, <1>5 DEF InjectGodlMotherlode, TreasuryRecord
<1>6. ASSUME NEW m \in Miners, NEW amount \in Nat,
             \/ Checkpoint(m, amount) \/ CheckpointWithMinerExtended(m, amount)
             \/ InjectUnrefinedRewards(m, amount) \/ ExecuteOtcTrade(m, amount)
      PROVE  treasury'.total_unclaimed >= u
  <2>1. treasury'.total_unclaimed = u + amount
    BY <1>0, <1>6 DEF Checkpoint, CheckpointWithMinerExtended, InjectUnrefinedRewards,
       ExecuteOtcTrade, TreasuryRecord
  <2> QED BY <1>2, <2>1
<1>7. ASSUME NEW m \in Miners,
             \/ Automate(m) \/ Deploy(m) \/ DeployWithMinerExtended(m)
             \/ CreateMinerExtended(m) \/ CheckpointForfeit(m) \/ ClaimGold(m)
      PROVE  treasury'.total_unclaimed >= u
  <2>1. UNCHANGED treasury
    BY <1>7 DEF Automate, Deploy, DeployWithMinerExtended, CreateMinerExtended,
       CheckpointForfeit, ClaimGold, godl
  <2> QED BY <1>3, <2>1
<1>8. CASE \/ UNCHANGED vars
           \/ Tick \/ ClaimReferral \/ ReadTreasury \/ ListMiners \/ ListMinerExtendeds
           \/ AuditUnclaimed \/ RereadTreasury \/ RebaseMismatch
           \/ \E amount \in SolAmounts : PreBuyGold(amount)
           \/ \E xaut \in XautAmounts : BuyGold(xaut) \/ DepositGold(xaut)
  <2>1. UNCHANGED treasury
    BY <1>8 DEF vars, Tick, ClaimReferral, ReadTreasury, ListMiners, ListMinerExtendeds,
       AuditUnclaimed, RereadTreasury, RebaseMismatch, RebaseStep, PreBuyGold, BuyGold,
       DepositGold, godl
  <2> QED BY <1>3, <2>1
<1>9. RewardAmounts \subseteq Nat /\ InjectAmounts \subseteq Nat /\ BonusAmounts \subseteq Nat
  BY ConstantTypes
<1> HIDE DEF u
<1>10. CASE Next
  BY <1>4, <1>5, <1>6, <1>7, <1>8, <1>9, <1>10 DEF Next, u
<1> QED BY <1>8, <1>10 DEF u

LEMMA TotalsNext ==
  ASSUME TypeOK' PROVE TotalUnrefined' \in Nat /\ treasury'.total_unclaimed \in Nat
<1>1. (TotalUnrefined \in Nat /\ treasury.total_unclaimed \in Nat)'
  BY WeightTypes, TreasuryTypes, PTL
<1> QED BY <1>1

LEMMA AuditSumsStep ==
  ASSUME TypeOK, AuditSums, [Next]_vars,
         audit.step # "idle" => \A m \in Miners : ~ClaimGodl(m)
  PROVE  AuditSums'
<1> DEFINE u == treasury.total_unclaimed
           e == audit.expected
           s == audit.sum
<1>0. /\ u \in Nat /\ u' \in Nat /\ e \in Nat /\ s \in Nat /\ audit \in AuditRecord
      /\ TotalUnrefined \in Nat /\ TotalUnrefined' \in Nat
      /\ Drift = u - TotalUnrefined /\ Drift' = u' - TotalUnrefined'
  <2>1. TypeOK'
    BY NextTypes
  <2>2. TotalUnrefined' \in Nat /\ u' \in Nat
    BY <2>1, TotalsNext
  <2> QED BY <2>2, StateTypes, AuditFields, TreasuryTypes, WeightTypes DEF Drift
<1>1. CASE RebaseTotalUnclaimed \/ RebaseMismatch \/ AuditUnclaimed
  <2>1. audit'.step = "idle"
    BY <1>0, <1>1 DEF RebaseTotalUnclaimed, RebaseMismatch, AuditUnclaimed, RebaseStep,
       AuditRecord
  <2> QED BY <2>1 DEF AuditSums
<1>2. CASE ReadTreasury
  <2>1. audit'.step = "miners" /\ audit'.expected = u /\ treasury' = treasury
    BY <1>0, <1>2 DEF ReadTreasury, AuditRecord, godl
  <2> QED BY <1>0, <2>1 DEF AuditSums
<1>3. ASSUME audit.step # "idle", ~RebaseTotalUnclaimed
      PROVE  u' >= u /\ TotalUnrefined' >= TotalUnrefined /\ Drift' = Drift /\ e <= u
  <2>1. u' >= u
    BY <1>3, TotalGrows
  <2>2. Drift' = Drift
    BY <1>3, DriftStep
  <2>3. e <= u
    BY <1>3 DEF AuditSums
  <2> QED BY <1>0, <2>1, <2>2, <2>3
<1>4. CASE ListMiners
  <2>1. audit.step = "miners" /\ audit'.expected = e /\ audit'.sum = TotalUnrefined
        /\ UNCHANGED <<miner, treasury>>
    BY <1>0, <1>4 DEF ListMiners, AuditRecord, godl
  <2>2. TotalUnrefined' = TotalUnrefined /\ Drift' = Drift /\ u' = u
    BY <2>1 DEF TotalUnrefined, Unrefined, Drift
  <2>3. e <= u
    BY <2>1 DEF AuditSums
  <2>4. TotalUnrefined <= TotalUnrefined' /\ e <= TotalUnrefined + Drift' /\ e <= u'
    BY <1>0, <2>2, <2>3
  <2> HIDE DEF e
  <2> QED BY <2>1, <2>4 DEF AuditSums
<1>5. ASSUME audit'.expected = e, audit'.sum = s, ~RebaseTotalUnclaimed,
             audit'.step # "idle" => audit.step # "idle",
             audit'.step \in {"extendeds", "judge", "send"} =>
               audit.step \in {"extendeds", "judge", "send"}
      PROVE  AuditSums'
  <2>1. ASSUME audit.step # "idle" PROVE e <= u'
    BY <1>0, <1>3, <1>5, <2>1
  <2>2. ASSUME audit.step \in {"extendeds", "judge", "send"}
        PROVE  s <= TotalUnrefined' /\ e <= s + Drift'
    <3>1. s <= TotalUnrefined /\ e <= s + Drift /\ audit.step # "idle"
      BY <2>2 DEF AuditSums
    <3> QED BY <1>0, <1>3, <1>5, <3>1
  <2> QED BY <1>5, <2>1, <2>2 DEF AuditSums
<1>6. CASE ListMinerExtendeds \/ RereadTreasury
  <2>1. audit'.expected = e /\ audit'.sum = s /\ audit.step \in {"extendeds", "judge"}
    BY <1>0, <1>6 DEF ListMinerExtendeds, RereadTreasury, RebaseStep, AuditRecord
  <2>2. ~RebaseTotalUnclaimed
    BY <2>1 DEF RebaseTotalUnclaimed
  <2> QED BY <1>5, <2>1, <2>2
<1>7. CASE AuditKept
  BY <1>1, <1>5, <1>7 DEF AuditKept
<1> QED BY <1>1, <1>2, <1>4, <1>6, <1>7, AuditUntouched

\* A rebase writes the true sum of the weights, or fails because the total has
\* moved since the snapshot (rebase_total_unclaimed.rs:8): for any checkpoints,
\* injections and trades between its reads.  A claim between them could bring
\* the total back to what it was, so none may fall there.
THEOREM QuietRebaseClearsDrift == Spec /\ [][Quiet]_vars => RebaseClearsDrift
<1>1. Init => AuditSums
  BY DEF Init, AuditSums
<1>2. TypeOK /\ AuditSums /\ [Next]_vars /\ [Quiet]_vars => AuditSums'
  <2>1. ASSUME TypeOK, AuditSums, UNCHANGED vars PROVE AuditSums'
    BY <2>1 DEF vars, AuditSums, Drift, TotalUnrefined, Unrefined
  <2> QED BY <2>1, AuditSumsStep DEF Quiet
<1>3. TypeOK /\ AuditSums /\ [Next]_vars => [RebaseTotalUnclaimed => Drift' = 0]_vars
  <2> SUFFICES ASSUME TypeOK, AuditSums, RebaseTotalUnclaimed PROVE Drift' = 0
    OBVIOUS
  <2>1. /\ treasury.total_unclaimed = audit.expected /\ audit.sum <= TotalUnrefined
        /\ audit.expected <= audit.sum + Drift
    BY DEF RebaseTotalUnclaimed, Matches, AuditSums
  <2>2. treasury'.total_unclaimed = audit.sum /\ TotalUnrefined' = TotalUnrefined
    BY StateTypes DEF RebaseTotalUnclaimed, TotalUnrefined, Unrefined, TreasuryRecord
  <2>3. treasury.total_unclaimed \in Nat /\ audit.sum \in Nat /\ TotalUnrefined \in Nat
        /\ Drift = treasury.total_unclaimed - TotalUnrefined
        /\ Drift' = audit.sum - TotalUnrefined
    BY <2>2, TreasuryTypes, AuditFields, WeightTypes DEF Drift
  <2> QED BY <2>1, <2>3
<1> QED BY <1>1, <1>2, <1>3, RefiningTypes, PTL DEF Spec, RebaseClearsDrift
-----------------------------------------------------------------------------
(* The pool of gold.  A member's debt is what it has settled, in units of    *)
(* 1 / Precision, and its units of weight times what it has not seen of the  *)
(* factor.                                                                   *)

GoldFactor == gold_vault.xaut_rewards_factor
GoldFund == gold_vault.xaut - gold_vault.pending_xaut

Precision == FRACTION * FRACTION
Units(w) == PerUnit(w, GOLD_FACTOR_SCALE)

\* What an extended account with weight w may claim when the factor is f.
XautOf(e, w, f) ==
    IF e = None THEN 0
    ELSE e.xaut_rewards + (Monus(f, e.xaut_rewards_factor) * Units(w)) \div Precision

GoldDebt(e, w, f) ==
    IF e = None THEN 0
    ELSE e.xaut_rewards * Precision + Monus(f, e.xaut_rewards_factor) * Units(w)

GoldDebts == Sum([m \in Miners |-> GoldDebt(extended[m], Unrefined(m), GoldFactor)], NumMiners)

GoldCovered == GoldDebts <= GoldFund * Precision

\* No account has seen more of the factor than there is.
XautSeen ==
    \A m \in Miners : extended[m] # None => extended[m].xaut_rewards_factor <= GoldFactor

\* Nothing is shared while an instruction that does not settle it can run.
GoldWaits == ~Expired => GoldFactor = 0

\* At the start no gold has been shared yet.
GenesisGoldless ==
    \A m \in Miners : GenesisExtended[m] # None =>
      GenesisExtended[m].xaut_rewards = 0 /\ GenesisExtended[m].xaut_rewards_factor = 0

\* What truncation may cost in a share of gold: a unit, what a truncated factor
\* costs the largest weight, and what a truncated weight costs in the largest share.
GoldLossCovers ==
    /\ MaxShareLoss \in Nat \ {0}
    /\ MaxTokens + MaxXaut * (GOLD_FACTOR_SCALE * GOLD_FACTOR_SCALE)
         <= (MaxShareLoss - 1) * (FRACTION * GOLD_FACTOR_SCALE)

GoldInv ==
    /\ TypeOK /\ Drift >= 0 /\ Backed /\ TokensBounded
    /\ XautSeen /\ GoldWaits /\ GoldCovered

\* A debt, and the claim within it, are natural numbers.
LEMMA GoldTerms ==
  ASSUME NEW e \in ExtendedAccount, NEW w \in Nat, NEW f \in Nat
  PROVE  /\ XautOf(e, w, f) \in Nat /\ GoldDebt(e, w, f) \in Nat
         /\ XautOf(e, w, f) * Precision <= GoldDebt(e, w, f)
         /\ Units(w) \in Nat /\ Units(w) * GOLD_FACTOR_SCALE <= w * FRACTION
         /\ Precision \in Nat \ {0}
<1>1. Units(w) \in Nat /\ Units(w) * GOLD_FACTOR_SCALE <= w * FRACTION
  BY ConstantTypes, PerUnitNat DEF Units
<1>2. Precision \in Nat \ {0}
  BY ConstantTypes DEF Precision
<1>3. CASE e = None
  <2>1. XautOf(e, w, f) = 0 /\ GoldDebt(e, w, f) = 0
    BY <1>3 DEF XautOf, GoldDebt
  <2>2. 0 * Precision = 0
    BY <1>2
  <2> QED BY <1>1, <1>2, <2>1, <2>2
<1>4. CASE e # None
  <2> DEFINE r == e.xaut_rewards
             d == Monus(f, e.xaut_rewards_factor)
             q == Units(w)
             p == d * q
             x == p \div Precision
  <2>1. r \in Nat /\ d \in Nat /\ q \in Nat
    BY <1>1, <1>4, MonusNat DEF ExtendedAccount, ExtendedRecord
  <2>2. XautOf(e, w, f) = r + x /\ GoldDebt(e, w, f) = r * Precision + p
    BY <1>4 DEF XautOf, GoldDebt
  <2> HIDE DEF r, d, q
  <2>3. p \in Nat
    BY <2>1
  <2> HIDE DEF p
  <2>4. x \in Nat /\ x * Precision <= p
    BY <1>2, <2>3, DivBounds
  <2> HIDE DEF x
  <2>5. /\ (r + x) * Precision = r * Precision + x * Precision
        /\ r * Precision \in Nat /\ x * Precision \in Nat
    BY <1>2, <2>1, <2>4
  <2> QED BY <1>1, <1>2, <2>1, <2>2, <2>3, <2>4, <2>5
<1> QED BY <1>3, <1>4

\* An account that has seen the factor has what it has settled, whatever its weight.
LEMMA GoldFresh ==
  ASSUME NEW e \in ExtendedRecord, NEW w \in Nat, NEW f \in Nat, e.xaut_rewards_factor = f
  PROVE  XautOf(e, w, f) = e.xaut_rewards /\ GoldDebt(e, w, f) = e.xaut_rewards * Precision
<1> DEFINE r == e.xaut_rewards
           q == Units(w)
<1>1. r \in Nat /\ q \in Nat /\ Precision \in Nat \ {0} /\ e # None /\ Monus(f, f) = 0
  <2>1. e \in ExtendedAccount /\ e # None /\ r \in Nat
    BY ConstantTypes DEF ExtendedAccount, ExtendedRecord
  <2>2. q \in Nat /\ Precision \in Nat \ {0}
    BY <2>1, GoldTerms
  <2>3. Monus(f, f) = 0
    BY DEF Monus
  <2> QED BY <2>1, <2>2, <2>3
<1>2. XautOf(e, w, f) = r + (0 * q) \div Precision
      /\ GoldDebt(e, w, f) = r * Precision + 0 * q
  BY <1>1 DEF XautOf, GoldDebt
<1> HIDE DEF r, q
<1>3. 0 * q = 0 /\ 0 \div Precision = 0 /\ r * Precision \in Nat
  BY <1>1
<1>4. XautOf(e, w, f) = r /\ GoldDebt(e, w, f) = r * Precision
  BY <1>1, <1>2, <1>3
<1> QED BY <1>4 DEF r

LEMMA GoldTypes ==
  ASSUME TypeOK
  PROVE  /\ GoldFactor \in Nat /\ GoldFund \in Int
         /\ \A m \in Miners : extended[m] \in ExtendedAccount /\ Unrefined(m) \in Nat
         /\ extended \in [Miners -> ExtendedAccount]
BY VaultTypes, StateTypes, WeightTypes DEF GoldFactor, GoldFund

LEMMA XautForm ==
  ASSUME TypeOK
  PROVE  \A m \in Miners : Xaut(m) = XautOf(extended[m], Unrefined(m), GoldFactor)
<1> SUFFICES ASSUME NEW m \in Miners
             PROVE  Xaut(m) = XautOf(extended[m], Unrefined(m), GoldFactor)
  OBVIOUS
<1>1. CASE extended[m] = None
  BY <1>1 DEF Xaut, XautOf
<1>2. CASE extended[m] # None
  <2>1. extended[m] \in ExtendedRecord /\ Unrefined(m) \in Nat
    BY <1>2, StateTypes, WeightTypes DEF ExtendedAccount
  <2> QED BY <1>2, <2>1, SyncedType DEF Xaut, XautOf, XautAccrued, Units, Precision, GoldFactor
<1> QED BY <1>1, <1>2

\* The same after a step.
LEMMA XautFormNext ==
  ASSUME TypeOK'
  PROVE  /\ \A m \in Miners : Xaut(m)' = XautOf(extended'[m], Unrefined(m)', GoldFactor')
         /\ \A m \in Miners : extended'[m] \in ExtendedAccount /\ Unrefined(m)' \in Nat
         /\ GoldFactor' \in Nat /\ GoldFund' \in Int
<1>1. (\A m \in Miners : Xaut(m) = XautOf(extended[m], Unrefined(m), GoldFactor))'
  BY XautForm, PTL
<1>2. (/\ GoldFactor \in Nat /\ GoldFund \in Int
       /\ \A m \in Miners : extended[m] \in ExtendedAccount /\ Unrefined(m) \in Nat)'
  BY GoldTypes, PTL
<1> QED BY <1>1, <1>2

\* Settling changes neither what is claimed nor, upwards, the debt, and frees
\* both of the weight.
LEMMA SyncedGold ==
  ASSUME TypeOK, NEW e \in ExtendedRecord, NEW w \in Nat, NEW u \in Nat
  PROVE  /\ Synced(e, w) \in ExtendedRecord
         /\ Synced(e, w).xaut_rewards_factor = GoldFactor
         /\ Synced(e, w).xaut_rewards = XautOf(e, w, GoldFactor)
         /\ XautOf(Synced(e, w), u, GoldFactor) = XautOf(e, w, GoldFactor)
         /\ GoldDebt(Synced(e, w), u, GoldFactor) <= GoldDebt(e, w, GoldFactor)
<1> DEFINE s == Synced(e, w)
<1>1. /\ s \in ExtendedRecord /\ s.xaut_rewards_factor = GoldFactor
      /\ s.xaut_rewards = e.xaut_rewards + XautAccrued(w, e.xaut_rewards_factor)
  BY SyncedType DEF GoldFactor
<1>2. s.xaut_rewards = XautOf(e, w, GoldFactor)
  BY <1>1, ConstantTypes DEF XautOf, XautAccrued, Units, Precision, GoldFactor
<1>3. GoldFactor \in Nat
  BY GoldTypes
<1> HIDE DEF s
<1>4. /\ XautOf(s, u, GoldFactor) = s.xaut_rewards
      /\ GoldDebt(s, u, GoldFactor) = s.xaut_rewards * Precision
  BY <1>1, <1>3, GoldFresh
<1>5. XautOf(e, w, GoldFactor) * Precision <= GoldDebt(e, w, GoldFactor)
  BY <1>3, GoldTerms DEF ExtendedAccount
<1> QED BY <1>1, <1>2, <1>4, <1>5 DEF s

\* Opening an extended account gives and takes nothing.
LEMMA LoadedGold ==
  ASSUME TypeOK, NEW m \in Miners, NEW create \in BOOLEAN, NEW w \in Nat
  PROVE  /\ Loaded(m, create) \in ExtendedAccount
         /\ XautOf(Loaded(m, create), w, GoldFactor) = XautOf(extended[m], w, GoldFactor)
         /\ GoldDebt(Loaded(m, create), w, GoldFactor) = GoldDebt(extended[m], w, GoldFactor)
         /\ Loaded(m, create) # extended[m] =>
              Loaded(m, create).xaut_rewards_factor = GoldFactor
<1>1. Loaded(m, create) \in ExtendedAccount
  BY LoadedType
<1>2. CASE extended[m] = None /\ create
  <2>1. Loaded(m, create) = NewExtended /\ NewExtended \in ExtendedRecord
        /\ NewExtended.xaut_rewards_factor = GoldFactor /\ NewExtended.xaut_rewards = 0
    BY <1>2, LoadedType DEF Loaded, NewExtended, GoldFactor
  <2>2. XautOf(NewExtended, w, GoldFactor) = 0
        /\ GoldDebt(NewExtended, w, GoldFactor) = 0 * Precision
    BY <2>1, GoldTypes, GoldFresh
  <2>3. XautOf(extended[m], w, GoldFactor) = 0 /\ GoldDebt(extended[m], w, GoldFactor) = 0
    BY <1>2 DEF XautOf, GoldDebt
  <2>4. 0 * Precision = 0
    BY ConstantTypes DEF Precision
  <2> QED BY <1>1, <2>1, <2>2, <2>3, <2>4
<1>3. CASE ~(extended[m] = None /\ create)
  <2>1. Loaded(m, create) = extended[m]
    BY <1>3 DEF Loaded
  <2> QED BY <1>1, <2>1
<1> QED BY <1>2, <1>3
-----------------------------------------------------------------------------
(* Kinds of steps, for the gold                                             *)

\* The weights and what they are shared by.
WeightsRest ==
    /\ \A m \in Miners : Unrefined(m)' = Unrefined(m)
    /\ treasury'.total_unclaimed = treasury.total_unclaimed

\* Nothing changes but the WSOL, and gold that waits.
GoldRests ==
    WeightsRest /\ extended' = extended /\ GoldFactor' = GoldFactor /\ GoldFund' = GoldFund

\* Miner m opens an account, settles, is paid or changes its weight.
GoldDeals(m, amount) ==
    /\ \A g \in Miners \ {m} : extended'[g] = extended[g] /\ Unrefined(g)' = Unrefined(g)
    /\ treasury'.total_unclaimed - treasury.total_unclaimed = Unrefined(m)' - Unrefined(m)
    /\ extended[m] # None => extended'[m] # None
    /\ extended'[m] # None => extended'[m].xaut_rewards_factor <= GoldFactor
    /\ XautOf(extended'[m], Unrefined(m)', GoldFactor) + amount
         = XautOf(extended[m], Unrefined(m), GoldFactor)
    /\ GoldDebt(extended'[m], Unrefined(m)', GoldFactor) + amount * Precision
         <= GoldDebt(extended[m], Unrefined(m), GoldFactor)
    /\ GoldFactor' = GoldFactor /\ GoldFund' = GoldFund - amount

\* Gold is shared by the weights.
GoldShares(amount) ==
    /\ WeightsRest /\ extended' = extended /\ Expired
    /\ amount <= MaxXaut /\ treasury.total_unclaimed > 0
    /\ GoldFactor' = GoldFactor + PerUnit(amount * GOLD_FACTOR_SCALE, treasury.total_unclaimed)
    /\ GoldFund' = GoldFund + amount

\* The other weights stay, and the total moves with the weight of m.
LEMMA WeightMoves ==
  ASSUME TypeOK, NEW m \in Miners,
         Keeps(m) \/ (\E amount \in Nat : Credits(m, amount)) \/ Claims(m)
  PROVE  /\ \A g \in Miners \ {m} : Unrefined(g)' = Unrefined(g)
         /\ treasury'.total_unclaimed - treasury.total_unclaimed = Unrefined(m)' - Unrefined(m)
         /\ Unrefined(m) \in Nat /\ Unrefined(m)' \in Nat
<1>0. Unrefined(m) \in Nat /\ treasury.total_unclaimed \in Nat
  BY WeightTypes, TreasuryTypes
<1>1. CASE Keeps(m)
  <2>1. PICK v \in MinerRecord :
          miner' = [miner EXCEPT ![m] = v] /\ v.rewards_godl = Opened(m).rewards_godl
    BY <1>1 DEF Keeps
  <2>2. /\ Unrefined(m)' = Unrefined(m) /\ \A g \in Miners \ {m} : Unrefined(g)' = Unrefined(g)
    BY <2>1, WeightUpdate, WeightTypes
  <2> QED BY <1>0, <1>1, <2>2 DEF Keeps, Calm
<1>2. ASSUME NEW amount \in Nat, Credits(m, amount)
      PROVE  /\ \A g \in Miners \ {m} : Unrefined(g)' = Unrefined(g)
             /\ treasury'.total_unclaimed - treasury.total_unclaimed
                  = Unrefined(m)' - Unrefined(m)
             /\ Unrefined(m)' \in Nat
  <2>1. PICK v \in MinerRecord :
          miner' = [miner EXCEPT ![m] = v] /\ v.rewards_godl = Unrefined(m) + amount
    BY <1>2 DEF Credits
  <2>2. /\ Unrefined(m)' = Unrefined(m) + amount
        /\ \A g \in Miners \ {m} : Unrefined(g)' = Unrefined(g)
    BY <2>1, WeightUpdate
  <2> QED BY <1>0, <1>2, <2>2 DEF Credits
<1>3. CASE Claims(m)
  BY <1>0, <1>3, ClaimWeights
<1> QED BY <1>0, <1>1, <1>2, <1>3

\* Where m's extended account is left alone, loaded or settled.
LEMMA GoldDealsFree ==
  ASSUME TypeOK, XautSeen, NEW m \in Miners, NEW e \in ExtendedAccount,
         Keeps(m) \/ (\E amount \in Nat : Credits(m, amount)) \/ Claims(m),
         extended' = [extended EXCEPT ![m] = e], gold_vault' = gold_vault,
         extended[m] # None => e # None,
         e # None => e.xaut_rewards_factor <= GoldFactor,
         XautOf(e, Unrefined(m)', GoldFactor) = XautOf(extended[m], Unrefined(m), GoldFactor),
         GoldDebt(e, Unrefined(m)', GoldFactor)
           <= GoldDebt(extended[m], Unrefined(m), GoldFactor)
  PROVE  GoldDeals(m, 0)
<1> DEFINE x == XautOf(e, Unrefined(m)', GoldFactor)
           d == GoldDebt(e, Unrefined(m)', GoldFactor)
<1>1. /\ extended'[m] = e /\ \A g \in Miners \ {m} : extended'[g] = extended[g]
      /\ GoldFactor \in Nat /\ GoldFund \in Int
      /\ GoldFactor' = GoldFactor /\ GoldFund' = GoldFund
  BY GoldTypes DEF GoldFactor, GoldFund
<1>2. x \in Nat /\ d \in Nat /\ Precision \in Nat \ {0}
  BY <1>1, GoldTerms, WeightMoves
<1> HIDE DEF x, d
<1>3. x + 0 = x /\ 0 * Precision = 0 /\ d + 0 = d /\ GoldFund - 0 = GoldFund
  BY <1>1, <1>2
<1> QED BY <1>1, <1>3, WeightMoves DEF GoldDeals, x, d

LEMMA GoldDealsAlone ==
  ASSUME TypeOK, XautSeen, NEW m \in Miners, Keeps(m), gold_vault' = gold_vault,
         \/ extended' = extended \/ extended' = [extended EXCEPT ![m] = Loaded(m, TRUE)]
  PROVE  GoldDeals(m, 0)
<1>1. Unrefined(m)' = Unrefined(m) /\ Unrefined(m) \in Nat
  <2>1. treasury'.total_unclaimed = treasury.total_unclaimed
    BY DEF Keeps, Calm
  <2> QED BY <2>1, WeightMoves, TreasuryTypes
<1>2. extended[m] \in ExtendedAccount /\ GoldFactor \in Nat
  BY GoldTypes
<1>3. /\ XautOf(extended[m], Unrefined(m), GoldFactor) \in Nat
      /\ GoldDebt(extended[m], Unrefined(m), GoldFactor) \in Nat
  BY <1>1, <1>2, GoldTerms
<1>4. CASE extended' = extended
  <2>1. extended' = [extended EXCEPT ![m] = extended[m]]
    BY <1>4, GoldTypes
  <2>2. extended[m] # None => extended[m].xaut_rewards_factor <= GoldFactor
    BY DEF XautSeen
  <2>3. /\ XautOf(extended[m], Unrefined(m)', GoldFactor)
             = XautOf(extended[m], Unrefined(m), GoldFactor)
        /\ GoldDebt(extended[m], Unrefined(m)', GoldFactor)
             <= GoldDebt(extended[m], Unrefined(m), GoldFactor)
    BY <1>1, <1>3
  <2> QED BY <1>2, <2>1, <2>2, <2>3, GoldDealsFree
<1>5. CASE extended' = [extended EXCEPT ![m] = Loaded(m, TRUE)]
  <2> DEFINE e == Loaded(m, TRUE)
  <2>1. /\ e \in ExtendedAccount
        /\ XautOf(e, Unrefined(m), GoldFactor) = XautOf(extended[m], Unrefined(m), GoldFactor)
        /\ GoldDebt(e, Unrefined(m), GoldFactor)
             = GoldDebt(extended[m], Unrefined(m), GoldFactor)
        /\ e # extended[m] => e.xaut_rewards_factor = GoldFactor
        /\ e # None
    BY <1>1, LoadedGold, LoadedType, ConstantTypes
  <2> HIDE DEF e
  <2>2. e.xaut_rewards_factor <= GoldFactor
    <3>1. CASE e = extended[m]
      BY <2>1, <3>1 DEF XautSeen
    <3>2. CASE e # extended[m]
      BY <1>2, <2>1, <3>2
    <3> QED BY <3>1, <3>2
  <2>3. /\ XautOf(e, Unrefined(m)', GoldFactor)
             = XautOf(extended[m], Unrefined(m), GoldFactor)
        /\ GoldDebt(e, Unrefined(m)', GoldFactor)
             <= GoldDebt(extended[m], Unrefined(m), GoldFactor)
    BY <1>1, <1>3, <2>1
  <2>4. extended' = [extended EXCEPT ![m] = e]
    BY <1>5 DEF e
  <2> QED BY <2>1, <2>2, <2>3, <2>4, GoldDealsFree
<1> QED BY <1>4, <1>5

LEMMA GoldDealsSettled ==
  ASSUME TypeOK, XautSeen, NEW m \in Miners, NEW create \in BOOLEAN,
         Keeps(m) \/ (\E amount \in Nat : Credits(m, amount)) \/ Claims(m),
         gold_vault' = gold_vault,
         extended' = [extended EXCEPT ![m] = Sync(Loaded(m, create), Unrefined(m))]
  PROVE  GoldDeals(m, 0)
<1> DEFINE ext == Loaded(m, create)
           e == Sync(ext, Unrefined(m))
           old == GoldDebt(extended[m], Unrefined(m), GoldFactor)
           claim == XautOf(extended[m], Unrefined(m), GoldFactor)
<1>1. /\ Unrefined(m) \in Nat /\ Unrefined(m)' \in Nat /\ GoldFactor \in Nat
      /\ extended[m] \in ExtendedAccount
  BY WeightMoves, GoldTypes
<1>2. /\ ext \in ExtendedAccount /\ XautOf(ext, Unrefined(m), GoldFactor) = claim
      /\ GoldDebt(ext, Unrefined(m), GoldFactor) = old
      /\ extended[m] # None => ext # None
  BY <1>1, LoadedGold, LoadedType
<1> HIDE DEF ext, old, claim
<1>3. CASE ext = None
  <2>1. e = None /\ extended[m] = None
    BY <1>2, <1>3 DEF Sync
  <2> HIDE DEF e
  <2>2. /\ XautOf(e, Unrefined(m)', GoldFactor) = 0 /\ claim = 0
        /\ GoldDebt(e, Unrefined(m)', GoldFactor) = 0 /\ old = 0
    BY <2>1 DEF XautOf, GoldDebt, claim, old
  <2>3. 0 <= 0 /\ e \in ExtendedAccount
    BY <2>1 DEF ExtendedAccount
  <2> QED BY <2>1, <2>2, <2>3, GoldDealsFree DEF e, ext, claim, old
<1>4. CASE ext # None
  <2>1. ext \in ExtendedRecord /\ e = Synced(ext, Unrefined(m))
    BY <1>2, <1>4 DEF ExtendedAccount, Sync
  <2>2. /\ e \in ExtendedRecord /\ e.xaut_rewards_factor = GoldFactor
        /\ XautOf(e, Unrefined(m)', GoldFactor) = claim
        /\ GoldDebt(e, Unrefined(m)', GoldFactor) <= old
    BY <1>1, <1>2, <2>1, SyncedGold
  <2> HIDE DEF e
  <2>3. e \in ExtendedAccount /\ e # None /\ e.xaut_rewards_factor <= GoldFactor
    BY <1>1, <2>2, ConstantTypes DEF ExtendedAccount
  <2> QED BY <2>2, <2>3, GoldDealsFree DEF e, ext, claim, old
<1> QED BY <1>3, <1>4

\* Handlers that keep the weights.
LEMMA GoldDealsKeeping ==
  ASSUME TypeOK, XautSeen, NEW m \in Miners,
         \/ Automate(m) \/ Deploy(m) \/ DeployWithMinerExtended(m) \/ CreateMinerExtended(m)
         \/ CheckpointForfeit(m) \/ ExecuteOtcTrade(m, 0)
  PROVE  GoldDeals(m, 0)
<1>1. Keeps(m)
  <2>1. CASE CreateMinerExtended(m)
    <3>1. miner[m] \in MinerRecord /\ miner[m] = Opened(m) /\ miner' = miner
          /\ treasury' = treasury /\ prizes' = prizes
      BY <2>1, WeightTypes DEF CreateMinerExtended, godl
    <3>2. miner' = [miner EXCEPT ![m] = miner[m]]
      BY <3>1, StateTypes
    <3> QED BY <3>1, <3>2 DEF Keeps, Calm, Free
  <2>2. CASE ExecuteOtcTrade(m, 0)
    BY <2>2, ExecuteOtcTradeKind
  <2>3. CASE Automate(m) \/ Deploy(m) \/ DeployWithMinerExtended(m) \/ CheckpointForfeit(m)
    BY <2>3, AutomateKind, DeployKind, CheckpointForfeitKind
  <2> QED BY <2>1, <2>2, <2>3
<1>2. /\ gold_vault' = gold_vault
      /\ extended' = extended \/ extended' = [extended EXCEPT ![m] = Loaded(m, TRUE)]
  BY DEF Automate, Deploy, DeployWithMinerExtended, CreateMinerExtended, CheckpointForfeit,
     ExecuteOtcTrade, gold
<1> QED BY <1>1, <1>2, GoldDealsAlone

\* Handlers that settle and change the weight of m.
LEMMA GoldDealsSettling ==
  ASSUME TypeOK, XautSeen, NEW m \in Miners, NEW amount \in Nat,
         \/ CheckpointWithMinerExtended(m, amount)
         \/ InjectUnrefinedRewards(m, amount)
         \/ (ExecuteOtcTrade(m, amount) /\ amount # 0)
         \/ ClaimGodl(m)
  PROVE  GoldDeals(m, 0)
<1>1. Credits(m, amount) \/ Claims(m)
  BY CheckpointKind, InjectUnrefinedRewardsKind, ExecuteOtcTradeKind, ClaimGodlKind
<1>2. Sync(Loaded(m, TRUE), Unrefined(m)) = Synced(Loaded(m, TRUE), Unrefined(m))
  <2>1. Loaded(m, TRUE) # None
    BY LoadedType, ConstantTypes
  <2> QED BY <2>1 DEF Sync
<1>3. \E create \in BOOLEAN :
        extended' = [extended EXCEPT ![m] = Sync(Loaded(m, create), Unrefined(m))]
  <2>1. CASE CheckpointWithMinerExtended(m, amount)
    <3>1. extended' = [extended EXCEPT ![m] = Sync(Loaded(m, FALSE), Unrefined(m))]
      BY <2>1 DEF CheckpointWithMinerExtended
    <3> QED BY <3>1
  <2>2. CASE InjectUnrefinedRewards(m, amount) \/ (ExecuteOtcTrade(m, amount) /\ amount # 0)
    <3>1. extended' = [extended EXCEPT ![m] = Sync(Loaded(m, TRUE), Unrefined(m))]
      BY <1>2, <2>2 DEF InjectUnrefinedRewards, ExecuteOtcTrade
    <3> QED BY <3>1
  <2>3. CASE ClaimGodl(m)
    <3> DEFINE c == Unrefined(m) > 0
    <3>1. c \in BOOLEAN
      OBVIOUS
    <3>2. extended' = [extended EXCEPT ![m] = Sync(Loaded(m, c), Unrefined(m))]
      BY <2>3 DEF ClaimGodl
    <3> QED BY <3>1, <3>2
  <2> QED BY <2>1, <2>2, <2>3
<1>4. gold_vault' = gold_vault
  BY DEF CheckpointWithMinerExtended, InjectUnrefinedRewards, ExecuteOtcTrade, ClaimGodl, gold
<1> QED BY <1>1, <1>3, <1>4, GoldDealsSettled

\* The legacy checkpoint does not settle, but runs only while nothing was shared.
LEMMA GoldDealsLegacy ==
  ASSUME TypeOK, XautSeen, GoldWaits, NEW m \in Miners, NEW amount \in Nat,
         Checkpoint(m, amount)
  PROVE  GoldDeals(m, 0)
<1> DEFINE e == extended[m]
<1>1. Credits(m, amount) /\ extended' = extended /\ gold_vault' = gold_vault
  BY CheckpointKind DEF Checkpoint, gold
<1>2. GoldFactor = 0
  <2>1. now < LEGACY_INSTRUCTION_EXPIRY_TS
    BY DEF Checkpoint, LegacyAlive
  <2>2. now \in Nat /\ LEGACY_INSTRUCTION_EXPIRY_TS \in Nat
    BY ConstantTypes, AmountsAssumption DEF TypeOK
  <2>3. ~Expired
    BY <2>1, <2>2 DEF Expired
  <2> QED BY <2>3 DEF GoldWaits
<1>3. extended' = [extended EXCEPT ![m] = e]
  BY <1>1, GoldTypes
<1>4. Unrefined(m) \in Nat /\ Unrefined(m)' \in Nat /\ e \in ExtendedAccount
  BY <1>1, WeightMoves, GoldTypes
<1>5. e # None => e.xaut_rewards_factor <= GoldFactor
  BY DEF XautSeen
<1>6. /\ XautOf(e, Unrefined(m)', GoldFactor) = XautOf(e, Unrefined(m), GoldFactor)
      /\ GoldDebt(e, Unrefined(m)', GoldFactor) <= GoldDebt(e, Unrefined(m), GoldFactor)
  <2>1. CASE e = None
    BY <2>1 DEF XautOf, GoldDebt
  <2>2. CASE e # None
    <3>1. e \in ExtendedRecord /\ e.xaut_rewards_factor \in Nat /\ e.xaut_rewards \in Nat
      BY <1>4, <2>2 DEF ExtendedAccount, ExtendedRecord
    <3>2. e.xaut_rewards_factor = 0
      BY <1>2, <1>5, <2>2, <3>1
    <3>3. e.xaut_rewards * Precision \in Nat
      BY <3>1, ConstantTypes DEF Precision
    <3> QED BY <1>2, <1>4, <3>1, <3>2, <3>3, GoldFresh
  <2> QED BY <2>1, <2>2
<1> HIDE DEF e
<1> QED BY <1>1, <1>3, <1>4, <1>5, <1>6, GoldDealsFree DEF e

\* Whoever claims its gold is paid what it is owed.
LEMMA GoldDealsPaid ==
  ASSUME TypeOK, XautSeen, NEW m \in Miners, ClaimGold(m)
  PROVE  GoldDeals(m, Xaut(m)) /\ Xaut(m) \in Nat
<1> DEFINE ext == Loaded(m, TRUE)
           s == Synced(ext, Unrefined(m))
           old == GoldDebt(extended[m], Unrefined(m), GoldFactor)
           x == Xaut(m)
<1>1. /\ Unrefined(m) \in Nat /\ GoldFactor \in Nat /\ GoldFund \in Int
      /\ extended[m] \in ExtendedAccount
      /\ x = XautOf(extended[m], Unrefined(m), GoldFactor)
  BY GoldTypes, XautForm
<1>2. /\ ext \in ExtendedRecord /\ XautOf(ext, Unrefined(m), GoldFactor) = x
      /\ GoldDebt(ext, Unrefined(m), GoldFactor) = old
  BY <1>1, LoadedGold, LoadedType
<1> HIDE DEF ext, x, old
<1>3. s.xaut_rewards = x /\ x \in Nat
  BY <1>1, <1>2, SyncedGold, SyncedType DEF ExtendedRecord
<1>4. x * Precision <= old /\ x * Precision \in Nat
  <2>1. ext \in ExtendedAccount
    BY <1>2 DEF ExtendedAccount
  <2>2. /\ XautOf(ext, Unrefined(m), GoldFactor) * Precision
             <= GoldDebt(ext, Unrefined(m), GoldFactor)
        /\ Precision \in Nat
    BY <1>1, <2>1, GoldTerms
  <2>3. x * Precision \in Nat
    BY <1>3, <2>2
  <2> QED BY <1>2, <2>2, <2>3
<1> HIDE DEF s
<1>5. PICK e \in ExtendedRecord :
         /\ extended' = [extended EXCEPT ![m] = e]
         /\ e.xaut_rewards = 0 /\ e.xaut_rewards_factor = GoldFactor
  BY ClaimGoldShape DEF GoldFactor
<1>6. /\ gold_vault'.xaut_rewards_factor = gold_vault.xaut_rewards_factor
      /\ gold_vault'.pending_xaut = gold_vault.pending_xaut
      /\ gold_vault'.xaut = gold_vault.xaut - s.xaut_rewards
  BY ClaimGoldShape DEF s, ext
<1>7. GoldFactor' = GoldFactor /\ GoldFund' = GoldFund - x
  BY <1>3, <1>6, VaultTypes DEF GoldFactor, GoldFund
<1>8. WeightsRest
  BY DEF WeightsRest, ClaimGold, Unrefined, godl
<1>9. treasury'.total_unclaimed - treasury.total_unclaimed = Unrefined(m)' - Unrefined(m)
  BY <1>1, <1>8, TreasuryTypes DEF WeightsRest
<1>10. extended'[m] = e /\ e # None /\ \A g \in Miners \ {m} : extended'[g] = extended[g]
  BY <1>5, GoldTypes, ConstantTypes
<1>11. XautOf(e, Unrefined(m)', GoldFactor) = 0
       /\ GoldDebt(e, Unrefined(m)', GoldFactor) = 0 * Precision
  BY <1>1, <1>5, <1>8, GoldFresh DEF WeightsRest
<1>12. 0 * Precision = 0 /\ 0 + x = x /\ 0 + x * Precision = x * Precision
       /\ GoldFactor <= GoldFactor
  BY <1>1, <1>3, <1>4, ConstantTypes DEF Precision
<1> QED BY <1>1, <1>3, <1>4, <1>5, <1>7, <1>8, <1>9, <1>10, <1>11, <1>12
        DEF GoldDeals, WeightsRest, x, old

\* A deposit or a swap shares its gold and what was waiting, or adds to that.
LEMMA GoldIn ==
  ASSUME TypeOK, NEW xaut \in Nat, BuyGold(xaut) \/ DepositGold(xaut)
  PROVE  GoldRests \/ \E amount \in Nat : GoldShares(amount)
<1> DEFINE amount == gold_vault.pending_xaut + xaut
           u == treasury.total_unclaimed
           share == PerUnit(amount * GOLD_FACTOR_SCALE, u)
<1>1. /\ WeightsRest /\ extended' = extended
  BY DEF BuyGold, DepositGold, WeightsRest, Unrefined, godl
<1>2. Expired
  <2>1. now \in Nat /\ LEGACY_INSTRUCTION_EXPIRY_TS \in Nat
    BY ConstantTypes, StateTypes
  <2>2. ~(now < LEGACY_INSTRUCTION_EXPIRY_TS)
    BY DEF BuyGold, DepositGold, DistributionLocked
  <2> QED BY <2>1, <2>2 DEF Expired
<1>3. /\ amount \in Nat /\ u \in Nat /\ gold_vault.pending_xaut \in Nat
      /\ gold_vault.xaut \in Nat
  BY VaultTypes, TreasuryTypes
<1>4. amount <= MaxXaut
  <2>1. gold_vault.total_xaut_distributed + gold_vault.pending_xaut + xaut <= MaxXaut
    BY DEF BuyGold, DepositGold, XautRoom
  <2> QED BY <2>1, VaultTypes, ConstantTypes
<1>5. /\ gold_vault'.xaut = Distributed(xaut).xaut
      /\ gold_vault'.pending_xaut = Distributed(xaut).pending_xaut
      /\ gold_vault'.xaut_rewards_factor = Distributed(xaut).xaut_rewards_factor
  <2> DEFINE d == Distributed(xaut)
  <2>1. d \in GoldVaultRecord
    BY DistributedShape
  <2>2. gold_vault' = d \/ gold_vault' = [d EXCEPT !.wsol = 0]
    BY DEF BuyGold, DepositGold
  <2> HIDE DEF d
  <2>3. gold_vault'.xaut = d.xaut /\ gold_vault'.pending_xaut = d.pending_xaut
        /\ gold_vault'.xaut_rewards_factor = d.xaut_rewards_factor
    BY <2>1, <2>2 DEF GoldVaultRecord
  <2> QED BY <2>3 DEF d
<1>6. /\ Distributed(xaut).xaut = gold_vault.xaut + xaut
      /\ u > 0 => /\ Distributed(xaut).xaut_rewards_factor = GoldFactor + share
                  /\ Distributed(xaut).pending_xaut = 0
      /\ u = 0 => /\ Distributed(xaut).xaut_rewards_factor = GoldFactor
                  /\ Distributed(xaut).pending_xaut = amount
  BY DistributedShape DEF GoldFactor
<1> HIDE DEF share, u
<1>7. CASE u > 0
  <2>0. /\ gold_vault'.xaut_rewards_factor = GoldFactor + share
        /\ gold_vault'.xaut = gold_vault.xaut + xaut /\ gold_vault'.pending_xaut = 0
    BY <1>5, <1>6, <1>7
  <2>1. GoldFactor' = GoldFactor + share /\ GoldFund' = gold_vault.xaut + xaut - 0
    <3>1. GoldFund' = gold_vault'.xaut - gold_vault'.pending_xaut
          /\ GoldFactor' = gold_vault'.xaut_rewards_factor
      BY DEF GoldFund, GoldFactor
    <3> QED BY <1>3, <2>0, <3>1
  <2>2. GoldFund' = GoldFund + amount
    BY <1>3, <2>1 DEF GoldFund
  <2> QED BY <1>1, <1>2, <1>3, <1>4, <1>7, <2>1, <2>2 DEF GoldShares, share, u
<1>8. CASE u = 0
  <2>0. /\ gold_vault'.xaut_rewards_factor = GoldFactor
        /\ gold_vault'.xaut = gold_vault.xaut + xaut /\ gold_vault'.pending_xaut = amount
    BY <1>5, <1>6, <1>8
  <2>1. GoldFactor' = GoldFactor /\ GoldFund' = gold_vault.xaut + xaut - amount
    <3>1. GoldFund' = gold_vault'.xaut - gold_vault'.pending_xaut
          /\ GoldFactor' = gold_vault'.xaut_rewards_factor
      BY DEF GoldFund, GoldFactor
    <3> QED BY <1>3, <2>0, <3>1
  <2>2. GoldFund' = GoldFund
    BY <1>3, <2>1 DEF GoldFund
  <2> QED BY <1>1, <2>1, <2>2 DEF GoldRests
<1> QED BY <1>3, <1>7, <1>8

\* Handlers that concern neither weights nor gold.
LEMMA GoldResting ==
  ASSUME TypeOK,
         \/ UNCHANGED vars
         \/ Tick
         \/ \E hit \in BOOLEAN : Reset(hit)
         \/ ClaimReferral
         \/ \E amount \in MotherlodeAmounts : InjectGodlMotherlode(amount)
         \/ \E amount \in SolAmounts : PreBuyGold(amount)
         \/ ReadTreasury \/ ListMiners \/ ListMinerExtendeds \/ AuditUnclaimed
         \/ RereadTreasury \/ RebaseMismatch
  PROVE  GoldRests
<1>1. miner' = miner /\ extended' = extended
  BY DEF vars, Tick, Reset, ClaimReferral, InjectGodlMotherlode, PreBuyGold, ReadTreasury,
     ListMiners, ListMinerExtendeds, AuditUnclaimed, RereadTreasury, RebaseMismatch, RebaseStep
<1>2. treasury'.total_unclaimed = treasury.total_unclaimed
  <2>1. treasury \in TreasuryRecord
    BY StateTypes
  <2> QED BY <2>1 DEF TreasuryRecord, vars, Tick, Reset, ClaimReferral, InjectGodlMotherlode,
        PreBuyGold, ReadTreasury, ListMiners, ListMinerExtendeds, AuditUnclaimed,
        RereadTreasury, RebaseMismatch, RebaseStep, godl
<1>3. /\ gold_vault'.xaut = gold_vault.xaut
      /\ gold_vault'.pending_xaut = gold_vault.pending_xaut
      /\ gold_vault'.xaut_rewards_factor = gold_vault.xaut_rewards_factor
  <2>1. gold_vault \in GoldVaultRecord
    BY StateTypes
  <2>2. CASE \E amount \in SolAmounts : PreBuyGold(amount)
    BY <2>1, <2>2 DEF PreBuyGold, GoldVaultRecord
  <2>3. CASE gold_vault' = gold_vault
    BY <2>3
  <2> QED BY <2>2, <2>3 DEF vars, Tick, Reset, ClaimReferral, InjectGodlMotherlode,
        ReadTreasury, ListMiners, ListMinerExtendeds, AuditUnclaimed, RereadTreasury,
        RebaseMismatch, RebaseStep, gold
<1> QED BY <1>1, <1>2, <1>3 DEF GoldRests, WeightsRest, Unrefined, GoldFactor, GoldFund

\* Every step but the rebase is of one of the three kinds.
LEMMA GoldKinds ==
  ASSUME TypeOK, XautSeen, GoldWaits, [Next]_vars, ~RebaseTotalUnclaimed
  PROVE  \/ GoldRests
         \/ \E m \in Miners, amount \in Nat : GoldDeals(m, amount)
         \/ \E amount \in Nat : GoldShares(amount)
<1> DEFINE Kind == \/ GoldRests
                   \/ \E m \in Miners, amount \in Nat : GoldDeals(m, amount)
                   \/ \E amount \in Nat : GoldShares(amount)
<1>0. 0 \in Nat
  OBVIOUS
<1>1. ASSUME NEW m \in Miners, GoldDeals(m, 0) PROVE Kind
  BY <1>0, <1>1
<1>2. ASSUME NEW m \in Miners,
             \/ Automate(m) \/ Deploy(m) \/ DeployWithMinerExtended(m)
             \/ CreateMinerExtended(m) \/ CheckpointForfeit(m)
      PROVE  Kind
  BY <1>1, <1>2, GoldDealsKeeping
<1>3. ASSUME NEW m \in Miners, NEW amount \in Nat, Checkpoint(m, amount) PROVE Kind
  BY <1>1, <1>3, GoldDealsLegacy
<1>4. ASSUME NEW m \in Miners, NEW amount \in Nat,
             \/ CheckpointWithMinerExtended(m, amount)
             \/ InjectUnrefinedRewards(m, amount)
      PROVE  Kind
  BY <1>1, <1>4, GoldDealsSettling
<1>5. ASSUME NEW m \in Miners, NEW amount \in Nat, ExecuteOtcTrade(m, amount) PROVE Kind
  <2>1. CASE amount = 0
    <3>1. ExecuteOtcTrade(m, 0)
      BY <1>5, <2>1
    <3> QED BY <1>1, <3>1, GoldDealsKeeping
  <2>2. CASE amount # 0
    BY <1>1, <1>5, <2>2, GoldDealsSettling
  <2> QED BY <2>1, <2>2
<1>6. ASSUME NEW m \in Miners, ClaimGodl(m) PROVE Kind
  BY <1>0, <1>1, <1>6, GoldDealsSettling
<1>7. ASSUME NEW m \in Miners, ClaimGold(m) PROVE Kind
  BY <1>7, GoldDealsPaid
<1>8. ASSUME NEW xaut \in XautAmounts, BuyGold(xaut) \/ DepositGold(xaut) PROVE Kind
  BY <1>8, GoldIn, ConstantTypes
<1>9. ASSUME \/ UNCHANGED vars
             \/ Tick
             \/ \E hit \in BOOLEAN : Reset(hit)
             \/ ClaimReferral
             \/ \E amount \in MotherlodeAmounts : InjectGodlMotherlode(amount)
             \/ \E amount \in SolAmounts : PreBuyGold(amount)
             \/ ReadTreasury \/ ListMiners \/ ListMinerExtendeds \/ AuditUnclaimed
             \/ RereadTreasury \/ RebaseMismatch
      PROVE  Kind
  BY <1>9, GoldResting
<1>10. RewardAmounts \subseteq Nat /\ InjectAmounts \subseteq Nat /\ BonusAmounts \subseteq Nat
  BY ConstantTypes
<1> HIDE DEF Kind
<1>11. ASSUME Next PROVE Kind
  BY <1>2, <1>3, <1>4, <1>5, <1>6, <1>7, <1>8, <1>9, <1>10, <1>11 DEF Next
<1>12. ASSUME UNCHANGED vars PROVE Kind
  BY <1>9, <1>12
<1>13. Kind
  BY <1>11, <1>12
<1> QED BY <1>13 DEF Kind
-----------------------------------------------------------------------------
\* What an extended account with weight w gets of a distribution: its part, up to
\* rounding up and MaxShareLoss units down.
LEMMA XautShare ==
  ASSUME GoldLossCovers, NEW e \in ExtendedRecord, NEW f \in Nat,
         e.xaut_rewards_factor <= f, NEW w \in Nat, w <= MaxTokens,
         NEW amount \in Nat, amount <= MaxXaut, NEW T \in Nat \ {0}
  PROVE  LET part == XautOf(e, w, f + PerUnit(amount * GOLD_FACTOR_SCALE, T)) - XautOf(e, w, f)
         IN  /\ part >= 0 /\ part * T < amount * w + T
             /\ (part + MaxShareLoss) * T >= amount * w
<1> DEFINE F == FRACTION
           S == GOLD_FACTOR_SCALE
           L == MaxShareLoss
           D == Precision
           r == e.xaut_rewards
           s == e.xaut_rewards_factor
           q == Units(w)
           p == PerUnit(amount * S, T)
           a == Monus(f, s) * q
           b == p * q
           earn == amount * w
           x == (a + b) \div D - a \div D
           N == (amount * S) * F
           M == w * F
           k == p * T
           j == q * S
<1>1. /\ r \in Nat /\ s \in Nat /\ s <= f /\ e # None /\ w <= MaxTokens /\ amount <= MaxXaut
      /\ F \in Nat \ {0} /\ S \in Nat \ {0} /\ L \in Nat \ {0} /\ D = F * F
      /\ D \in Nat \ {0} /\ MaxTokens \in Nat /\ MaxXaut \in Nat
      /\ MaxTokens + MaxXaut * (S * S) <= (L - 1) * (F * S)
  BY ConstantTypes DEF ExtendedRecord, GoldLossCovers, Precision
<1>2. N \in Nat /\ M \in Nat /\ earn \in Nat
  <2> HIDE DEF F, S
  <2>1. amount * S \in Nat
    BY <1>1
  <2> DEFINE y == amount * S
  <2> HIDE DEF y
  <2>2. y \in Nat => y * F \in Nat
    BY <1>1
  <2> QED BY <1>1, <2>1, <2>2 DEF y
<1>3. p \in Nat /\ k <= N /\ N < k + T
  <2> HIDE DEF N
  <2>1. N \div T \in Nat /\ (N \div T) * T <= N /\ N < (N \div T) * T + T
    BY <1>2, DivRest
  <2>2. p = N \div T
    BY DEF PerUnit, N
  <2> QED BY <2>1, <2>2
<1>4. q \in Nat /\ j <= M /\ M < j + S
  <2> HIDE DEF M, S
  <2>1. M \div S \in Nat /\ (M \div S) * S <= M /\ M < (M \div S) * S + S
    BY <1>1, <1>2, DivRest
  <2>2. q = M \div S
    BY DEF PerUnit, Units, M, S
  <2> QED BY <2>1, <2>2
<1> HIDE DEF p, q
<1>5. Monus(f + p, s) = Monus(f, s) + p /\ Monus(f, s) \in Nat
  BY <1>1, <1>3 DEF Monus
<1> HIDE DEF F, S, L, D, r, s
<1>6. a \in Nat /\ b \in Nat /\ k \in Nat /\ j \in Nat
  BY <1>1, <1>3, <1>4, <1>5
<1>7. Monus(f + p, s) * q = a + b
  <2> DEFINE d == Monus(f, s)
  <2>1. (d + p) * q = d * q + p * q
    <3>1. d \in Nat
      BY <1>5
    <3> HIDE DEF d
    <3> QED BY <1>3, <1>4, <3>1
  <2> QED BY <1>5, <2>1
<1>8. XautOf(e, w, f + p) - XautOf(e, w, f) = x
  <2>1. XautOf(e, w, f + p) = r + (a + b) \div D
    BY <1>1, <1>7 DEF XautOf, r, s, D, q
  <2>2. XautOf(e, w, f) = r + a \div D
    BY <1>1 DEF XautOf, r, s, D, q
  <2> DEFINE y == (a + b) \div D
             z == a \div D
  <2>3. y \in Nat /\ z \in Nat
    <3>1. a + b \in Nat
      BY <1>6
    <3> HIDE DEF a, b
    <3> QED BY <1>1, <1>6, <3>1, DivBounds
  <2> HIDE DEF y, z
  <2>4. (r + y) - (r + z) = y - z
    BY <1>1, <2>3
  <2> QED BY <2>1, <2>2, <2>4 DEF y, z
<1>9. N * M = (earn * D) * S /\ k * j = (b * T) * S
  <2>1. ((amount * S) * F) * (w * F) = ((amount * w) * (F * F)) * S
    BY <1>1
  <2>2. (p * T) * (q * S) = ((p * q) * T) * S
    BY <1>1, <1>3, <1>4
  <2> QED BY <1>1, <2>1, <2>2
<1>10. earn * D \in Nat /\ b * T \in Nat
  <2> HIDE DEF earn, b
  <2> QED BY <1>1, <1>2, <1>6
<1>11. b * T <= earn * D
  <2> HIDE DEF N, M, k, j
  <2>1. k * j <= k * M
    BY <1>2, <1>4, <1>6, ProductMonotone
  <2>2. M * k <= M * N
    BY <1>2, <1>3, <1>6, ProductMonotone
  <2>3. M * k = k * M /\ M * N = N * M /\ k * j \in Nat /\ k * M \in Nat /\ N * M \in Nat
    BY <1>2, <1>6
  <2>4. k * j <= N * M
    <3> DEFINE y1 == k * j
               y2 == k * M
               y3 == N * M
    <3>1. y1 <= y2 /\ y2 <= y3 /\ y1 \in Nat /\ y2 \in Nat /\ y3 \in Nat
      BY <2>1, <2>2, <2>3
    <3> HIDE DEF y1, y2, y3
    <3>2. y1 <= y3
      BY <3>1
    <3> QED BY <3>2 DEF y1, y3
  <2>5. (b * T) * S <= (earn * D) * S
    BY <1>9, <2>4
  <2> DEFINE u == b * T
             v == earn * D
  <2> HIDE DEF u, v
  <2>6. u \in Nat /\ v \in Nat /\ u * S <= v * S
    BY <1>10, <2>5 DEF u, v
  <2>7. u <= v
    BY <1>1, <2>6, ProductReflects
  <2> QED BY <2>7 DEF u, v
<1>12. N * M <= k * j + (N * S + T * M)
  <2> HIDE DEF N, M, k, j
  <2>1. M * N <= M * (k + T) /\ k * M <= k * (j + S) /\ S * k <= S * N
    <3>1. k + T \in Nat /\ j + S \in Nat /\ N <= k + T /\ M <= j + S
      BY <1>1, <1>2, <1>3, <1>4, <1>6
    <3> QED BY <1>1, <1>2, <1>3, <1>6, <3>1, ProductMonotone
  <2>2. /\ M * N = N * M /\ M * (k + T) = k * M + T * M /\ k * (j + S) = k * j + S * k
        /\ S * N = N * S
    BY <1>1, <1>2, <1>6
  <2>3. /\ k * M \in Nat /\ T * M \in Nat /\ k * j \in Nat /\ S * k \in Nat
        /\ N * M \in Nat /\ N * S \in Nat
    BY <1>1, <1>2, <1>6
  <2> DEFINE y1 == N * M
             y2 == k * M
             y3 == T * M
             y4 == k * j
             y5 == S * k
             y6 == N * S
  <2>4. /\ y1 <= y2 + y3 /\ y2 <= y4 + y5 /\ y5 <= y6
        /\ y1 \in Nat /\ y2 \in Nat /\ y3 \in Nat /\ y4 \in Nat /\ y5 \in Nat /\ y6 \in Nat
    BY <2>1, <2>2, <2>3
  <2> HIDE DEF y1, y2, y3, y4, y5, y6
  <2>5. y1 <= y4 + (y6 + y3)
    BY <2>4
  <2> QED BY <2>5 DEF y1, y3, y4, y6
<1>13. N * S + T * M <= (((L - 1) * T) * D) * S
  <2> DEFINE z == amount * (S * S)
             Z == MaxXaut * (S * S)
             K == (L - 1) * (F * S)
             G == T * F
  <2>1. S * S \in Nat /\ F * S \in Nat /\ L - 1 \in Nat /\ G \in Nat
    BY <1>1
  <2>2. z \in Nat /\ Z \in Nat /\ K \in Nat
    <3> DEFINE SS == S * S
               FS == F * S
    <3>1. SS \in Nat /\ FS \in Nat
      BY <2>1
    <3> HIDE DEF SS, FS
    <3>2. amount * SS \in Nat /\ MaxXaut * SS \in Nat /\ (L - 1) * FS \in Nat
      BY <1>1, <2>1, <3>1
    <3> QED BY <3>2 DEF SS, FS
  <2>3. z <= Z
    <3> DEFINE SS == S * S
    <3>1. SS \in Nat
      BY <2>1
    <3> HIDE DEF SS
    <3>2. SS * amount <= SS * MaxXaut
      BY <1>1, <3>1, ProductMonotone
    <3>3. SS * amount = amount * SS /\ SS * MaxXaut = MaxXaut * SS
      BY <1>1, <3>1
    <3> QED BY <3>2, <3>3 DEF SS
  <2>4. w + z <= K /\ w + z \in Nat
    <3> HIDE DEF z, K
    <3>1. MaxTokens + Z <= K
      BY <1>1 DEF K
    <3> HIDE DEF Z
    <3> QED BY <1>1, <2>2, <2>3, <3>1
  <2>5. N * S = F * z /\ T * M = G * w /\ G * K = (((L - 1) * T) * D) * S
    <3>1. ((amount * S) * F) * S = F * (amount * (S * S)) /\ T * (w * F) = (T * F) * w
      BY <1>1
    <3> DEFINE l == L - 1
    <3> HIDE DEF l
    <3>2. l \in Nat
      BY <2>1 DEF l
    <3>3. (T * F) * (l * (F * S)) = ((l * T) * (F * F)) * S
      BY <1>1, <3>2
    <3> QED BY <1>1, <3>1, <3>3 DEF l
  <2> HIDE DEF z, Z, K
  <2>6. F * z <= G * z
    <3>1. F <= G
      <4>1. F * 1 <= F * T /\ F * 1 = F /\ F * T = T * F
        BY <1>1, ProductMonotone
      <4> QED BY <4>1
    <3> HIDE DEF G
    <3>2. z * F <= z * G
      BY <1>1, <2>1, <2>2, <3>1, ProductMonotone
    <3>3. z * F = F * z /\ z * G = G * z
      BY <1>1, <2>1, <2>2
    <3> QED BY <3>2, <3>3
  <2> HIDE DEF G
  <2>7. G * (w + z) <= G * K /\ G * (w + z) = G * w + G * z
    BY <2>1, <2>2, <2>4, ProductMonotone
  <2>8. F * z \in Nat /\ G * z \in Nat /\ G * w \in Nat /\ G * K \in Nat
    BY <1>1, <2>1, <2>2
  <2> DEFINE y1 == F * z
             y2 == G * z
             y3 == G * w
             y4 == G * K
  <2>9. y1 <= y2 /\ y3 + y2 <= y4 /\ y1 \in Nat /\ y2 \in Nat /\ y3 \in Nat /\ y4 \in Nat
    BY <2>6, <2>7, <2>8
  <2>10. N * S + T * M = y1 + y3 /\ y4 = (((L - 1) * T) * D) * S
    BY <2>5
  <2> HIDE DEF y1, y2, y3, y4
  <2>11. y1 + y3 <= y4
    BY <2>9
  <2> QED BY <2>10, <2>11
<1>14. earn * D <= b * T + ((L - 1) * T) * D
  <2> DEFINE u == b * T
             v == earn * D
             y == ((L - 1) * T) * D
             g == N * S + T * M
             h == N * M
             i == k * j
  <2>1. u \in Nat /\ v \in Nat /\ y \in Nat
    <3> DEFINE l == L - 1
    <3> HIDE DEF l
    <3>1. l \in Nat
      BY <1>1 DEF l
    <3>2. l * T \in Nat
      BY <3>1
    <3> DEFINE lt == l * T
    <3> HIDE DEF lt
    <3>3. lt * D \in Nat
      BY <1>1, <3>2 DEF lt
    <3> QED BY <1>10, <3>3 DEF lt, l
  <2>2. g \in Int /\ h = v * S /\ i = u * S /\ h <= i + g /\ g <= y * S
    <3>1. g \in Int
      <4> HIDE DEF N, M
      <4> QED BY <1>1, <1>2
    <3> QED BY <1>9, <1>12, <1>13, <3>1
  <2> HIDE DEF u, v, y, g, h, i
  <2>3. u * S \in Nat /\ v * S \in Nat /\ y * S \in Nat /\ (u + y) * S = u * S + y * S
    BY <1>1, <2>1
  <2>4. v * S <= (u + y) * S
    <3> DEFINE us == u * S
               ys == y * S
               vs == v * S
    <3>1. us \in Nat /\ ys \in Nat /\ vs \in Nat /\ vs <= us + g /\ g <= ys
      BY <2>2, <2>3
    <3> HIDE DEF us, ys, vs
    <3>2. vs <= us + ys
      BY <2>2, <3>1
    <3> QED BY <2>3, <3>2 DEF us, ys, vs
  <2>5. v <= u + y
    BY <1>1, <2>1, <2>4, ProductReflects
  <2> QED BY <2>5 DEF u, v, y
<1> HIDE DEF a, b, earn
<1>15. x \in Nat /\ x * T < earn + T /\ (x + L) * T >= earn
  BY <1>1, <1>2, <1>6, <1>11, <1>14, ShareBounds
<1> HIDE DEF x
<1>16. x >= 0
  BY <1>15
<1> QED BY <1>8, <1>15, <1>16 DEF p, S, L, earn
-----------------------------------------------------------------------------
(* The gold pool's invariant                                                *)

\* The function that the debts are the sum of.
DebtOfAll == [m \in Miners |-> GoldDebt(extended[m], Unrefined(m), GoldFactor)]

LEMMA GoldDebtTypes ==
  ASSUME TypeOK
  PROVE  /\ NumMiners \in Nat /\ Miners = 1 .. NumMiners /\ GoldDebts = Sum(DebtOfAll, NumMiners)
         /\ \A m \in Miners : DebtOfAll[m] \in Nat
                /\ DebtOfAll[m] = GoldDebt(extended[m], Unrefined(m), GoldFactor)
         /\ GoldDebts \in Nat
<1>1. NumMiners \in Nat /\ Miners = 1 .. NumMiners
  BY ConstantTypes
<1>2. GoldDebts = Sum(DebtOfAll, NumMiners)
  BY DEF GoldDebts, DebtOfAll
<1>3. \A m \in Miners : DebtOfAll[m] \in Nat
         /\ DebtOfAll[m] = GoldDebt(extended[m], Unrefined(m), GoldFactor)
  <2> SUFFICES ASSUME NEW m \in Miners
               PROVE  /\ DebtOfAll[m] \in Nat
                      /\ DebtOfAll[m] = GoldDebt(extended[m], Unrefined(m), GoldFactor)
    OBVIOUS
  <2>1. extended[m] \in ExtendedAccount /\ Unrefined(m) \in Nat /\ GoldFactor \in Nat
    BY GoldTypes
  <2>2. GoldDebt(extended[m], Unrefined(m), GoldFactor) \in Nat
    BY <2>1, GoldTerms
  <2> QED BY <2>2 DEF DebtOfAll
<1> QED BY <1>1, <1>2, <1>3, SumNat

LEMMA GoldDebtNext ==
  ASSUME TypeOK'
  PROVE  /\ GoldDebts' = Sum(DebtOfAll', NumMiners)
         /\ \A m \in Miners : DebtOfAll'[m] \in Nat
                /\ DebtOfAll'[m] = GoldDebt(extended'[m], Unrefined(m)', GoldFactor')
         /\ GoldDebts' \in Nat
<1>1. (/\ NumMiners \in Nat /\ Miners = 1 .. NumMiners /\ GoldDebts = Sum(DebtOfAll, NumMiners)
       /\ \A m \in Miners : DebtOfAll[m] \in Nat
                /\ DebtOfAll[m] = GoldDebt(extended[m], Unrefined(m), GoldFactor)
       /\ GoldDebts \in Nat)'
  BY GoldDebtTypes, PTL
<1> QED BY <1>1

LEMMA GoldRestsCovered ==
  ASSUME TypeOK, TypeOK', GoldCovered, GoldRests PROVE GoldCovered'
<1>1. \A m \in Miners : DebtOfAll'[m] = DebtOfAll[m]
  BY GoldDebtTypes, GoldDebtNext DEF GoldRests, WeightsRest
<1>2. DebtOfAll' = DebtOfAll
  BY <1>1 DEF DebtOfAll
<1>3. GoldDebts' = GoldDebts /\ GoldFund' = GoldFund
  BY <1>2, GoldDebtTypes, GoldDebtNext DEF GoldRests
<1> HIDE DEF GoldDebts, GoldFund
<1>4. GoldDebts' <= GoldFund' * Precision
  BY <1>3 DEF GoldCovered
<1> QED BY <1>4 DEF GoldCovered

LEMMA GoldDealsCovered ==
  ASSUME TypeOK, TypeOK', GoldCovered, NEW m \in Miners, NEW amount \in Nat,
         GoldDeals(m, amount)
  PROVE  GoldCovered'
<1>1. /\ \A g \in Miners : DebtOfAll[g] \in Nat /\ DebtOfAll'[g] \in Nat
      /\ \A g \in Miners \ {m} : DebtOfAll'[g] = DebtOfAll[g]
  BY GoldDebtTypes, GoldDebtNext DEF GoldDeals
<1>2. DebtOfAll'[m] + amount * Precision <= DebtOfAll[m]
  BY GoldDebtTypes, GoldDebtNext DEF GoldDeals
<1> DEFINE f == DebtOfAll
           h == DebtOfAll'
<1>3. GoldDebts' = Sum(h, NumMiners) /\ GoldDebts = Sum(f, NumMiners)
      /\ m \in 1 .. NumMiners /\ Miners = 1 .. NumMiners /\ NumMiners \in Nat
  BY GoldDebtTypes, GoldDebtNext
<1>4. /\ \A i \in 1 .. NumMiners : f[i] \in Nat /\ h[i] \in Nat
      /\ \A i \in (1 .. NumMiners) \ {m} : h[i] = f[i]
      /\ h[m] + amount * Precision <= f[m]
  BY <1>1, <1>2, <1>3
<1> HIDE DEF f, h
<1>5. Sum(h, NumMiners) = Sum(f, NumMiners) + h[m] - f[m]
  BY <1>3, <1>4, SumUpdate
<1>6. GoldDebts \in Nat /\ GoldFund \in Int /\ Precision \in Nat
  BY GoldDebtTypes, GoldTypes, ConstantTypes DEF Precision
<1> DEFINE c == amount * Precision
           k == GoldFund * Precision
<1>7. c \in Nat /\ k \in Int /\ (GoldFund - amount) * Precision = k - c
  <2> HIDE DEF GoldFund, Precision
  <2> QED BY <1>6
<1>8. GoldDebts' = GoldDebts + h[m] - f[m] /\ GoldDebts <= k /\ h[m] + c <= f[m]
      /\ h[m] \in Nat /\ f[m] \in Nat
  BY <1>3, <1>4, <1>5 DEF GoldCovered
<1>9. GoldFund' * Precision = k - c
  BY <1>7 DEF GoldDeals
<1> HIDE DEF c, k
<1>10. GoldDebts' <= k - c
  BY <1>6, <1>7, <1>8
<1> QED BY <1>9, <1>10 DEF GoldCovered

\* A factor that grows by p adds p per unit of weight to a debt.
LEMMA GoldDebtGrows ==
  ASSUME NEW e \in ExtendedAccount, NEW w \in Nat, NEW f \in Nat, NEW p \in Nat,
         e # None => e.xaut_rewards_factor <= f
  PROVE  GoldDebt(e, w, f + p) <= GoldDebt(e, w, f) + p * Units(w)
<1> DEFINE q == Units(w)
<1>1. q \in Nat /\ Precision \in Nat /\ GoldDebt(e, w, f) \in Nat
  BY GoldTerms
<1>2. CASE e = None
  <2>1. GoldDebt(e, w, f + p) = 0 /\ GoldDebt(e, w, f) = 0
    BY <1>2 DEF GoldDebt
  <2> HIDE DEF q
  <2>2. p * q \in Nat
    BY <1>1
  <2> QED BY <2>1, <2>2 DEF q
<1>3. CASE e # None
  <2> DEFINE s == e.xaut_rewards_factor
             d == Monus(f, s)
             r == e.xaut_rewards * Precision
  <2>1. s \in Nat /\ s <= f /\ e.xaut_rewards \in Nat
    BY <1>3 DEF ExtendedAccount, ExtendedRecord
  <2>2. Monus(f + p, s) = d + p /\ d \in Nat
    BY <2>1 DEF Monus
  <2>3. r \in Nat
    BY <1>1, <2>1
  <2>4. GoldDebt(e, w, f + p) = r + (d + p) * q /\ GoldDebt(e, w, f) = r + d * q
    BY <1>3, <2>2 DEF GoldDebt
  <2> HIDE DEF q, s, d, r
  <2>5. (d + p) * q = d * q + p * q /\ d * q \in Nat /\ p * q \in Nat
    BY <1>1, <2>2
  <2>6. r + (d * q + p * q) = (r + d * q) + p * q
        /\ r + (d * q + p * q) <= r + (d * q + p * q)
    <3> DEFINE y1 == d * q
               y2 == p * q
    <3>1. y1 \in Nat /\ y2 \in Nat
      BY <2>5
    <3> HIDE DEF y1, y2
    <3>2. r + (y1 + y2) = (r + y1) + y2 /\ r + (y1 + y2) <= r + (y1 + y2)
      BY <2>3, <3>1
    <3> QED BY <3>2 DEF y1, y2
  <2>7. GoldDebt(e, w, f + p) <= GoldDebt(e, w, f) + p * q
    BY <2>4, <2>5, <2>6
  <2> QED BY <2>7 DEF q
<1> QED BY <1>2, <1>3

\* The units of all weights, p of which are shared, are within the amount.
LEMMA UnitsWithin ==
  ASSUME TypeOK, Drift >= 0, NEW amount \in Nat, treasury.total_unclaimed > 0
  PROVE  LET p == PerUnit(amount * GOLD_FACTOR_SCALE, treasury.total_unclaimed)
             q == [m \in Miners |-> Units(Unrefined(m))]
         IN  /\ p \in Nat /\ \A m \in Miners : q[m] \in Nat
             /\ Sum(q, NumMiners) \in Nat
             /\ p * Sum(q, NumMiners) <= amount * Precision
<1> DEFINE F == FRACTION
           S == GOLD_FACTOR_SCALE
           T == treasury.total_unclaimed
           p == PerUnit(amount * S, T)
           q == [m \in Miners |-> Units(Unrefined(m))]
           w == [m \in Miners |-> Unrefined(m)]
           z == [m \in Miners |-> 0]
           v == [m \in Miners |-> Unrefined(m) * F]
           n == NumMiners
<1>1. /\ F \in Nat \ {0} /\ S \in Nat \ {0} /\ T \in Nat \ {0} /\ n \in Nat
      /\ Miners = 1 .. n /\ \A m \in Miners : Unrefined(m) \in Nat
      /\ Precision = F * F
  BY ConstantTypes, TreasuryTypes, WeightTypes DEF Precision
<1>2. p \in Nat /\ p * T <= (amount * S) * F
  <2> HIDE DEF S, T
  <2>1. amount * S \in Nat
    BY <1>1
  <2> QED BY <1>1, <2>1, PerUnitNat DEF F
<1>3. \A m \in Miners : /\ q[m] \in Nat /\ w[m] \in Nat /\ z[m] = 0 /\ v[m] \in Nat
                        /\ q[m] * S <= v[m] /\ v[m] <= z[m] + F * w[m]
  <2> SUFFICES ASSUME NEW m \in Miners
               PROVE  /\ q[m] \in Nat /\ w[m] \in Nat /\ z[m] = 0 /\ v[m] \in Nat
                      /\ q[m] * S <= v[m] /\ v[m] <= z[m] + F * w[m]
    OBVIOUS
  <2> DEFINE u == Unrefined(m)
  <2>1. u \in Nat /\ q[m] = Units(u) /\ w[m] = u /\ z[m] = 0 /\ v[m] = u * F
    BY <1>1
  <2>2. Units(u) \in Nat /\ Units(u) * S <= u * F
    BY <2>1, ConstantTypes, PerUnitNat DEF Units
  <2> HIDE DEF q, w, z, v, u, F, S
  <2>3. u * F \in Nat /\ u * F <= 0 + F * u
    BY <1>1, <2>1
  <2> QED BY <2>1, <2>2, <2>3
<1>4. Sum(w, n) <= T /\ Sum(w, n) \in Nat
  <2>1. Sum(w, n) = TotalUnrefined
    BY DEF TotalUnrefined
  <2>2. TotalUnrefined \in Nat /\ T - TotalUnrefined >= 0
    BY WeightTypes DEF Drift
  <2> QED BY <1>1, <2>1, <2>2
<1> HIDE DEF F, S, T, p, q, w, z, v, n
<1>5. Sum(q, n) \in Nat /\ Sum(q, n) * S <= Sum(v, n)
  <2>1. \A i \in 1 .. n : q[i] \in Nat /\ v[i] \in Nat /\ q[i] * S <= v[i]
    BY <1>1, <1>3
  <2>2. S \in Nat
    BY <1>1
  <2>3. Sum(q, n) * S <= Sum(v, n)
    BY <1>1, <2>1, <2>2, SumTimes
  <2> QED BY <1>1, <2>1, <2>3, SumNat
<1>6. Sum(v, n) <= F * T
  <2>1. \A i \in 1 .. n : z[i] = 0 /\ z[i] \in Nat /\ v[i] \in Nat /\ w[i] \in Nat
                          /\ v[i] <= z[i] + F * w[i]
    BY <1>1, <1>3
  <2>2. Sum(z, n) = 0
    BY <1>1, <2>1, SumOfZeros
  <2>3. Sum(v, n) <= Sum(z, n) + F * Sum(w, n)
    <3>1. F \in Nat
      BY <1>1
    <3> QED BY <1>1, <2>1, <3>1, SumScaled
  <2>4. F * Sum(w, n) <= F * T /\ F * Sum(w, n) \in Nat /\ F * T \in Nat
    BY <1>1, <1>4, ProductMonotone
  <2>5. Sum(v, n) \in Nat
    BY <1>1, <2>1, SumNat
  <2> QED BY <2>2, <2>3, <2>4, <2>5
<1>7. p * Sum(q, n) <= amount * (F * F)
  <2> DEFINE Q == Sum(q, n)
             A == p * Q
             B == amount * (F * F)
  <2>1. Q \in Nat /\ Q * S <= F * T
    <3>1. Sum(v, n) \in Nat
      BY <1>1, <1>3, SumNat
    <3> DEFINE y1 == Q * S
               y2 == F * T
    <3>2. y1 \in Nat /\ y2 \in Nat
      BY <1>1, <1>5
    <3>3. y1 <= Sum(v, n) /\ Sum(v, n) <= y2
      BY <1>5, <1>6
    <3> HIDE DEF y1, y2
    <3>4. y1 <= y2
      BY <3>1, <3>2, <3>3
    <3> QED BY <1>5, <3>4 DEF y1, y2
  <2> HIDE DEF Q
  <2>2. p * (Q * S) <= p * (F * T) /\ F * (p * T) <= F * ((amount * S) * F)
    <3>1. Q * S \in Nat /\ F * T \in Nat /\ p * T \in Nat /\ (amount * S) * F \in Nat
      <4> DEFINE y == amount * S
      <4>1. y \in Nat
        BY <1>1
      <4> HIDE DEF y
      <4>2. Q * S \in Nat /\ F * T \in Nat /\ p * T \in Nat /\ y * F \in Nat
        BY <1>1, <1>2, <2>1, <4>1
      <4> QED BY <4>2 DEF y
    <3> QED BY <1>1, <1>2, <2>1, <3>1, ProductMonotone
  <2>3. p * (Q * S) = A * S /\ p * (F * T) = F * (p * T)
        /\ F * ((amount * S) * F) = B * S
    BY <1>1, <1>2, <2>1
  <2>4. A \in Nat /\ B \in Nat
    <3> DEFINE y == F * F
    <3>1. y \in Nat
      BY <1>1
    <3> HIDE DEF y
    <3>2. p * Q \in Nat /\ amount * y \in Nat
      BY <1>2, <2>1, <3>1
    <3> QED BY <3>2 DEF y
  <2>5. A * S <= B * S
    <3> DEFINE y == F * (p * T)
    <3>1. y \in Nat
      <4> DEFINE t == p * T
      <4>1. t \in Nat
        BY <1>1, <1>2
      <4> HIDE DEF t
      <4>2. F * t \in Nat
        BY <1>1, <4>1
      <4> QED BY <4>2 DEF t
    <3>2. A * S <= y /\ y <= B * S
      BY <2>2, <2>3
    <3> HIDE DEF y, A, B
    <3>3. A * S \in Nat /\ B * S \in Nat
      BY <1>1, <2>4
    <3> QED BY <3>1, <3>2, <3>3
  <2> HIDE DEF A, B
  <2>6. A <= B
    BY <1>1, <2>4, <2>5, ProductReflects
  <2> QED BY <2>6 DEF A, B, Q
<1> QED BY <1>1, <1>2, <1>3, <1>5, <1>7 DEF F, S, T, p, q, n

LEMMA GoldSharesCovered ==
  ASSUME TypeOK, TypeOK', Drift >= 0, XautSeen, GoldCovered, NEW amount \in Nat,
         GoldShares(amount)
  PROVE  GoldCovered'
<1> DEFINE p == PerUnit(amount * GOLD_FACTOR_SCALE, treasury.total_unclaimed)
           q == [m \in Miners |-> Units(Unrefined(m))]
           f == DebtOfAll
           h == DebtOfAll'
           n == NumMiners
<1>1. /\ p \in Nat /\ (\A m \in Miners : q[m] \in Nat) /\ Sum(q, n) \in Nat
      /\ p * Sum(q, n) <= amount * Precision
  <2>1. treasury.total_unclaimed > 0
    BY DEF GoldShares
  <2> QED BY <2>1, UnitsWithin
<1>2. /\ n \in Nat /\ Miners = 1 .. n /\ GoldDebts = Sum(f, n) /\ GoldDebts' = Sum(h, n)
      /\ GoldDebts \in Nat /\ GoldDebts' \in Nat
      /\ \A m \in Miners : f[m] \in Nat /\ h[m] \in Nat
  BY GoldDebtTypes, GoldDebtNext
<1>3. \A m \in Miners : h[m] <= f[m] + p * q[m]
  <2> SUFFICES ASSUME NEW m \in Miners PROVE h[m] <= f[m] + p * q[m]
    OBVIOUS
  <2>1. /\ extended[m] \in ExtendedAccount /\ Unrefined(m) \in Nat /\ GoldFactor \in Nat
        /\ extended[m] # None => extended[m].xaut_rewards_factor <= GoldFactor
    BY GoldTypes DEF XautSeen
  <2>2. /\ f[m] = GoldDebt(extended[m], Unrefined(m), GoldFactor)
        /\ h[m] = GoldDebt(extended[m], Unrefined(m), GoldFactor + p)
        /\ q[m] = Units(Unrefined(m))
    BY GoldDebtTypes, GoldDebtNext DEF GoldShares, WeightsRest
  <2> HIDE DEF p, q, f, h
  <2>3. GoldDebt(extended[m], Unrefined(m), GoldFactor + p)
          <= GoldDebt(extended[m], Unrefined(m), GoldFactor) + p * Units(Unrefined(m))
    BY <1>1, <2>1, GoldDebtGrows
  <2> QED BY <2>2, <2>3
<1> HIDE DEF p, q, f, h, n
<1>4. Sum(h, n) <= Sum(f, n) + p * Sum(q, n)
  <2>1. /\ \A i \in 1 .. n : f[i] \in Nat /\ h[i] \in Nat /\ q[i] \in Nat
        /\ \A i \in 1 .. n : h[i] <= f[i] + p * q[i]
    BY <1>1, <1>2, <1>3
  <2> QED BY <1>1, <1>2, <2>1, SumScaled
<1>5. GoldFund \in Int /\ Precision \in Nat /\ GoldFund' = GoldFund + amount
  BY GoldTypes, ConstantTypes DEF Precision, GoldShares
<1> DEFINE c == amount * Precision
           k == GoldFund * Precision
           x == p * Sum(q, n)
<1>6. c \in Nat /\ k \in Int /\ x \in Nat /\ GoldFund' * Precision = k + c
  <2> HIDE DEF GoldFund, Precision
  <2>1. (GoldFund + amount) * Precision = k + c
    BY <1>5
  <2> QED BY <1>1, <1>5, <2>1
<1>7. GoldDebts <= k /\ x <= c /\ GoldDebts' <= GoldDebts + x
  BY <1>1, <1>2, <1>4 DEF GoldCovered
<1> HIDE DEF c, k, x
<1>8. GoldDebts' <= k + c
  BY <1>2, <1>6, <1>7
<1> QED BY <1>6, <1>8 DEF GoldCovered

LEMMA GoldSeenStep ==
  ASSUME TypeOK, Drift >= 0, XautSeen, GoldWaits, [Next]_vars, ~RebaseTotalUnclaimed
  PROVE  XautSeen' /\ GoldWaits'
<1>0. GoldFactor \in Nat /\ \A m \in Miners : extended[m] \in ExtendedAccount
  BY GoldTypes
<1>1. CASE GoldRests
  <2>1. XautSeen'
    BY <1>1 DEF GoldRests, XautSeen
  <2>2. GoldWaits'
    BY <1>1, ExpiredStays DEF GoldRests, GoldWaits
  <2> QED BY <2>1, <2>2
<1>2. ASSUME NEW m \in Miners, NEW amount \in Nat, GoldDeals(m, amount)
      PROVE  XautSeen' /\ GoldWaits'
  <2>1. XautSeen'
    BY <1>2 DEF GoldDeals, XautSeen
  <2>2. GoldWaits'
    BY <1>2, ExpiredStays DEF GoldDeals, GoldWaits
  <2> QED BY <2>1, <2>2
<1>3. ASSUME NEW amount \in Nat, GoldShares(amount) PROVE XautSeen' /\ GoldWaits'
  <2> DEFINE p == PerUnit(amount * GOLD_FACTOR_SCALE, treasury.total_unclaimed)
  <2>1. extended' = extended /\ GoldFactor' = GoldFactor + p /\ Expired
        /\ treasury.total_unclaimed > 0
    BY <1>3 DEF GoldShares
  <2>2. p \in Nat
    BY <2>1, UnitsWithin
  <2> HIDE DEF p
  <2>3. ASSUME NEW m \in Miners, extended[m] # None
        PROVE  extended[m].xaut_rewards_factor <= GoldFactor + p
    <3>1. extended[m].xaut_rewards_factor \in Nat
          /\ extended[m].xaut_rewards_factor <= GoldFactor
      BY <1>0, <2>3 DEF XautSeen, ExtendedAccount, ExtendedRecord
    <3> QED BY <1>0, <2>2, <3>1
  <2>4. XautSeen'
    BY <2>1, <2>3 DEF XautSeen
  <2>5. GoldWaits'
    BY <2>1, ExpiredStays DEF GoldWaits
  <2> QED BY <2>4, <2>5
<1> QED BY <1>1, <1>2, <1>3, GoldKinds

LEMMA GoldInvStep ==
  ASSUME GoldInv, [Next]_vars, ~RebaseTotalUnclaimed PROVE GoldInv'
<1>1. TypeOK /\ Drift >= 0 /\ Backed /\ TokensBounded /\ XautSeen /\ GoldWaits /\ GoldCovered
  BY DEF GoldInv
<1>2. TypeOK' /\ Backed' /\ TokensBounded' /\ XautSeen' /\ GoldWaits'
  BY <1>1, NextTypes, BackedStep, TokensStep, GoldSeenStep
<1>3. Drift' >= 0
  <2> HIDE DEF Drift
  <2>1. Drift' = Drift
    BY <1>1, DriftStep
  <2> QED BY <1>1, <2>1
<1>4. GoldCovered'
  <2>1. CASE GoldRests
    BY <1>1, <1>2, <2>1, GoldRestsCovered
  <2>2. ASSUME NEW m \in Miners, NEW amount \in Nat, GoldDeals(m, amount) PROVE GoldCovered'
    BY <1>1, <1>2, <2>2, GoldDealsCovered
  <2>3. ASSUME NEW amount \in Nat, GoldShares(amount) PROVE GoldCovered'
    BY <1>1, <1>2, <2>3, GoldSharesCovered
  <2> QED BY <1>1, <2>1, <2>2, <2>3, GoldKinds
<1> QED BY <1>2, <1>3, <1>4 DEF GoldInv
-----------------------------------------------------------------------------
(* Every step is one of the gold pool                                       *)

LEMMA GoldPoolSum == \A f, n : GoldPool!Sum(f, n) = Sum(f, n)
BY DEF GoldPool!Sum, GoldPool!PartialSums, Sum, PartialSums

\* The claims are within the debts, and so within the fund.
LEMMA XautWithinFund ==
  ASSUME TypeOK, GoldCovered PROVE TotalXaut <= GoldFund
<1> DEFINE f == [m \in Miners |-> Xaut(m)]
           t == Sum(f, NumMiners)
<1>1. /\ NumMiners \in Nat /\ Miners = 1 .. NumMiners /\ Precision \in Nat \ {0}
      /\ GoldFund \in Int /\ GoldDebts \in Nat /\ GoldDebts = Sum(DebtOfAll, NumMiners)
  BY GoldDebtTypes, GoldTypes, ConstantTypes DEF Precision
<1>2. ASSUME NEW m \in Miners
      PROVE  f[m] \in Nat /\ DebtOfAll[m] \in Nat /\ f[m] * Precision <= DebtOfAll[m]
  <2>1. /\ f[m] = XautOf(extended[m], Unrefined(m), GoldFactor)
        /\ DebtOfAll[m] = GoldDebt(extended[m], Unrefined(m), GoldFactor)
    BY XautForm, GoldDebtTypes
  <2>2. extended[m] \in ExtendedAccount /\ Unrefined(m) \in Nat /\ GoldFactor \in Nat
    BY GoldTypes
  <2> HIDE DEF f
  <2> QED BY <2>1, <2>2, GoldTerms
<1> HIDE DEF f
<1>3. \A i \in 1 .. NumMiners :
        f[i] \in Nat /\ DebtOfAll[i] \in Nat /\ f[i] * Precision <= DebtOfAll[i]
  BY <1>1, <1>2
<1>4. t \in Nat /\ t * Precision <= GoldDebts
  <2>1. Precision \in Nat
    BY <1>1
  <2> QED BY <1>1, <1>3, <2>1, SumNat, SumTimes
<1> HIDE DEF t
<1>5. t * Precision <= GoldFund * Precision /\ 0 <= GoldFund * Precision
  <2> DEFINE y == t * Precision
             z == GoldFund * Precision
  <2>1. y \in Nat /\ z \in Int
    <3> HIDE DEF GoldFund, Precision
    <3> QED BY <1>1, <1>4
  <2>2. y <= GoldDebts /\ GoldDebts <= z
    BY <1>4 DEF GoldCovered
  <2> HIDE DEF y, z
  <2>3. y <= z /\ 0 <= z
    BY <1>1, <2>1, <2>2
  <2> QED BY <2>3 DEF y, z
<1>6. GoldFund \in Nat
  <2> HIDE DEF GoldFund, Precision
  <2>1. CASE GoldFund < 0
    <3>1. GoldFund * Precision < 0 /\ GoldFund * Precision \in Int
      BY <1>1, <2>1, NegativeProduct
    <3> QED BY <1>5, <3>1
  <2> QED BY <1>1, <2>1
<1>7. t <= GoldFund
  BY <1>1, <1>4, <1>5, <1>6, ProductReflects
<1>8. TotalXaut = t
  BY DEF TotalXaut, t, f
<1> QED BY <1>7, <1>8

LEMMA GoldSolventNext ==
  ASSUME TypeOK', GoldCovered' PROVE GoldPool!Solvent'
<1>1. (TotalXaut <= GoldFund)'
  BY XautWithinFund, PTL
<1> QED BY <1>1, GoldPoolSum DEF GoldPool!Solvent, TotalXaut, GoldFund

LEMMA GoldRestsPool ==
  ASSUME TypeOK, TypeOK', GoldRests PROVE UNCHANGED GoldPool!vars
<1>1. \A m \in Miners : Xaut(m)' = Xaut(m)
  BY XautForm, XautFormNext DEF GoldRests, WeightsRest
<1>2. gold_vault'.xaut - gold_vault'.pending_xaut = gold_vault.xaut - gold_vault.pending_xaut
  BY DEF GoldRests, GoldFund
<1> QED BY <1>1, <1>2 DEF GoldPool!vars, GoldRests, WeightsRest

LEMMA GoldDealsPool ==
  ASSUME TypeOK, TypeOK', GoldPool!Solvent', NEW m \in Miners, NEW amount \in Nat,
         GoldDeals(m, amount)
  PROVE  GoldPool!Next
<1>1. /\ \A g \in Miners \ {m} : Unrefined(g)' = Unrefined(g) /\ extended'[g] = extended[g]
      /\ extended[m] # None => extended'[m] # None
      /\ treasury'.total_unclaimed - treasury.total_unclaimed = Unrefined(m)' - Unrefined(m)
      /\ GoldFactor' = GoldFactor /\ GoldFund' = GoldFund - amount
  BY DEF GoldDeals
<1>2. \A g \in Miners \ {m} : Xaut(g)' = Xaut(g)
  BY <1>1, XautForm, XautFormNext
<1>3. Xaut(m)' + amount = Xaut(m)
  BY XautForm, XautFormNext DEF GoldDeals
<1>4. Xaut(m) \in Nat /\ Xaut(m)' \in Nat
  <2>1. Xaut(m) \in Nat
    BY XautForm, GoldTypes, GoldTerms
  <2>2. Xaut(m)' \in Nat
    BY XautFormNext, GoldTerms
  <2> QED BY <2>1, <2>2
<1>5. /\ Unrefined(m) \in Nat /\ Unrefined(m)' \in Nat /\ GoldFund \in Int
      /\ m \in 1 .. NumMiners /\ Miners = 1 .. NumMiners
  BY GoldTypes, XautFormNext, ConstantTypes
<1>6. GoldPool!Deal(m, m)
  <2>1. GoldPool!OthersKeep({m, m})
    BY <1>1, <1>2, <1>5 DEF GoldPool!OthersKeep, GoldPool!Holders
  <2>2. \A d : GoldPool!OfPair(d, m, m) = d[m] + 0
    BY DEF GoldPool!OfPair
  <2>3. /\ GoldPool!OfPair([g \in Miners |-> Xaut(g)], m, m) = Xaut(m) + 0
        /\ GoldPool!OfPair([g \in Miners |-> Unrefined(g)], m, m) = Unrefined(m) + 0
    BY <2>2
  <2>4. GoldPool!OfPair([g \in Miners |-> Xaut(g)]', m, m) = Xaut(m)' + 0
    BY <2>2
  <2>5. GoldPool!OfPair([g \in Miners |-> Unrefined(g)]', m, m) = Unrefined(m)' + 0
    BY <2>2
  <2>6. /\ Xaut(m) + 0 = Xaut(m) /\ Unrefined(m) + 0 = Unrefined(m)
        /\ Xaut(m)' + 0 = Xaut(m)' /\ Unrefined(m)' + 0 = Unrefined(m)'
    BY <1>4, <1>5
  <2>7. Xaut(m)' <= Xaut(m) /\ GoldFund - GoldFund' = Xaut(m) - Xaut(m)'
    BY <1>1, <1>3, <1>4, <1>5
  <2>8. (gold_vault.xaut - gold_vault.pending_xaut)
          - (gold_vault'.xaut - gold_vault'.pending_xaut) = Xaut(m) - Xaut(m)'
    BY <2>7 DEF GoldFund
  <2> QED BY <1>1, <2>1, <2>3, <2>4, <2>5, <2>6, <2>7, <2>8 DEF GoldPool!Deal
<1> QED BY <1>5, <1>6 DEF GoldPool!Next, GoldPool!Holders

LEMMA GoldSharesPool ==
  ASSUME GoldLossCovers, GoldInv, TypeOK', GoldPool!Solvent', NEW amount \in Nat,
         GoldShares(amount)
  PROVE  GoldPool!Next
<1> DEFINE T == treasury.total_unclaimed
           p == PerUnit(amount * GOLD_FACTOR_SCALE, T)
<1>0. TypeOK /\ Drift >= 0 /\ Backed /\ TokensBounded /\ XautSeen
  BY DEF GoldInv
<1>1. /\ \A g \in Miners : Unrefined(g)' = Unrefined(g)
      /\ extended' = extended /\ treasury'.total_unclaimed = T
      /\ GoldFactor' = GoldFactor + p /\ GoldFund' = GoldFund + amount
      /\ amount <= MaxXaut /\ T > 0
  BY DEF GoldShares, WeightsRest
<1>2. T \in Nat \ {0} /\ GoldFund \in Int /\ GoldFactor \in Nat /\ Miners = 1 .. NumMiners
  BY <1>0, <1>1, TreasuryTypes, GoldTypes, ConstantTypes
<1>3. ASSUME NEW g \in Miners
      PROVE  IF extended[g] # None
             THEN /\ Xaut(g)' - Xaut(g) >= 0
                  /\ (Xaut(g)' - Xaut(g)) * T < amount * Unrefined(g) + T
                  /\ (Xaut(g)' - Xaut(g) + MaxShareLoss) * T >= amount * Unrefined(g)
             ELSE Xaut(g)' = Xaut(g)
  <2>1. /\ Xaut(g) = XautOf(extended[g], Unrefined(g), GoldFactor)
        /\ Xaut(g)' = XautOf(extended[g], Unrefined(g), GoldFactor + p)
    BY <1>0, <1>1, XautForm, XautFormNext
  <2>2. CASE extended[g] = None
    BY <2>1, <2>2 DEF XautOf
  <2>3. CASE extended[g] # None
    <3>1. extended[g] \in ExtendedRecord /\ extended[g].xaut_rewards_factor <= GoldFactor
      BY <1>0, <2>3, GoldTypes DEF ExtendedAccount, XautSeen
    <3>2. Unrefined(g) \in Nat /\ Unrefined(g) <= MaxTokens
      BY <1>0, WeightsFit
    <3> DEFINE w == Unrefined(g)
               part == XautOf(extended[g], w, GoldFactor + p) - XautOf(extended[g], w, GoldFactor)
    <3>3. part >= 0 /\ part * T < amount * w + T /\ (part + MaxShareLoss) * T >= amount * w
      <4> HIDE DEF T, w
      <4>1. w \in Nat /\ w <= MaxTokens /\ amount <= MaxXaut
        BY <1>1, <3>2 DEF w
      <4> QED BY <1>2, <3>1, <4>1, XautShare
    <3>4. part = Xaut(g)' - Xaut(g)
      BY <2>1
    <3> HIDE DEF part
    <3> QED BY <2>3, <3>3, <3>4
  <2> QED BY <2>2, <2>3
<1> HIDE DEF p
<1>4. GoldPool!Distribute
  <2> DEFINE fund == gold_vault.xaut - gold_vault.pending_xaut
             old == {m \in Miners : extended[m] # None}
  <2>1. fund' >= fund /\ fund' - fund = amount
    <3>1. GoldFund' >= GoldFund /\ GoldFund' - GoldFund = amount
      BY <1>1, <1>2
    <3> QED BY <3>1 DEF GoldFund
  <2>2. \A g \in old : GoldPool!Receives(g, amount, T)
    BY <1>2, <1>3 DEF GoldPool!Receives
  <2>3. GoldPool!SharedBy(GoldPool!Holders, amount, T)
    BY <1>2, <1>3, <2>2 DEF GoldPool!SharedBy, GoldPool!Holders
  <2>4. UNCHANGED <<old, [m \in Miners |-> Unrefined(m)], T>>
    BY <1>1
  <2> HIDE DEF T
  <2> QED BY <2>1, <2>3, <2>4 DEF GoldPool!Distribute, T
<1> QED BY <1>4 DEF GoldPool!Next

LEMMA GoldPoolStep ==
  ASSUME GoldLossCovers, GoldInv, [Next]_vars, ~RebaseTotalUnclaimed
  PROVE  GoldInv' /\ [GoldPool!Next]_(GoldPool!vars)
<1>1. GoldInv'
  BY GoldInvStep
<1>2. TypeOK /\ TypeOK' /\ GoldPool!Solvent' /\ XautSeen /\ GoldWaits
  BY <1>1, GoldSolventNext DEF GoldInv
<1>3. CASE GoldRests
  BY <1>1, <1>2, <1>3, GoldRestsPool
<1>4. ASSUME NEW m \in Miners, NEW amount \in Nat, GoldDeals(m, amount) PROVE GoldPool!Next
  BY <1>2, <1>4, GoldDealsPool
<1>5. ASSUME NEW amount \in Nat, GoldShares(amount) PROVE GoldPool!Next
  BY <1>2, <1>5, GoldSharesPool
<1> QED BY <1>1, <1>2, <1>3, <1>4, <1>5, GoldKinds

LEMMA GoldInit ==
  ASSUME GenesisGoldless, GenesisFits, Init PROVE GoldInv /\ GoldPool!Init
<1>1. TypeOK /\ Backed
  BY InitTypes, InitBacked
<1>2. Drift >= 0 /\ TokensBounded
  BY InitBounds
<1>3. /\ GoldFactor = 0 /\ GoldFund = 0 /\ extended = GenesisExtended
      /\ gold_vault.xaut - gold_vault.pending_xaut = 0
  BY DEF Init, GoldFactor, GoldFund
<1>4. XautSeen /\ GoldWaits
  BY <1>3 DEF GenesisGoldless, XautSeen, GoldWaits
<1>5. ASSUME NEW m \in Miners PROVE Xaut(m) = 0 /\ DebtOfAll[m] = 0
  <2>1. Unrefined(m) \in Nat /\ extended[m] \in ExtendedAccount /\ 0 * Precision = 0
    BY <1>1, GoldTypes, ConstantTypes DEF Precision
  <2>2. /\ Xaut(m) = XautOf(extended[m], Unrefined(m), GoldFactor)
        /\ DebtOfAll[m] = GoldDebt(extended[m], Unrefined(m), GoldFactor)
    BY <1>1, XautForm, GoldDebtTypes
  <2>3. CASE extended[m] = None
    BY <2>2, <2>3 DEF XautOf, GoldDebt
  <2>4. CASE extended[m] # None
    <3>1. /\ extended[m] \in ExtendedRecord /\ extended[m].xaut_rewards = 0
          /\ extended[m].xaut_rewards_factor = GoldFactor /\ GoldFactor \in Nat
      BY <1>3, <2>1, <2>4 DEF GenesisGoldless, ExtendedAccount
    <3> QED BY <2>1, <2>2, <3>1, GoldFresh
  <2> QED BY <2>3, <2>4
<1>6. GoldCovered
  <2>1. GoldDebts = 0
    BY <1>1, <1>5, GoldDebtTypes, SumOfZeros
  <2>2. 0 * Precision = 0
    BY ConstantTypes DEF Precision
  <2> QED BY <1>3, <2>1, <2>2 DEF GoldCovered
<1>7. GoldPool!Init
  BY <1>3, <1>5, ConstantTypes DEF GoldPool!Init, GoldPool!Holders
<1> QED BY <1>1, <1>2, <1>4, <1>6, <1>7 DEF GoldInv

\* Gold, for any number of miners and any amounts, as long as no rebase writes the
\* total: every distribution reaches all extended accounts at once by the weights of
\* that moment (to MaxShareLoss units), the checkpoints that do not settle change
\* nobody's claim, because they cannot run any more when gold is first shared, new
\* accounts get nothing of what was shared before, and the vault's token account
\* covers all claims beside the gold that still waits.
THEOREM GoldPoolImplemented ==
  ASSUME GenesisGoldless, GenesisFits, GoldLossCovers
  PROVE  Spec /\ [][~RebaseTotalUnclaimed]_vars => ImplementsGoldPool
<1>1. Init => GoldInv /\ GoldPool!Init
  BY GoldInit
<1>2. GoldInv /\ [Next]_vars /\ [~RebaseTotalUnclaimed]_vars
        => GoldInv' /\ [GoldPool!Next]_(GoldPool!vars)
  <2> SUFFICES ASSUME GoldInv, [Next]_vars, [~RebaseTotalUnclaimed]_vars
               PROVE  GoldInv' /\ [GoldPool!Next]_(GoldPool!vars)
    OBVIOUS
  <2>1. ~RebaseTotalUnclaimed
    BY DEF RebaseTotalUnclaimed, vars, GoldInv, TypeOK, AuditRecord
  <2> QED BY <2>1, GoldPoolStep
<1> QED BY <1>1, <1>2, PTL DEF Spec, ImplementsGoldPool, GoldPool!Spec
=============================================================================
