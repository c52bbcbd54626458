------------------------------ MODULE YieldProofs ------------------------------
(***************************************************************************)
(* The yield of stakes is never distributed twice and always there to be   *)
(* paid, for any number of stakes and authorities; the second half adds    *)
(* the desk.  The argument: what an account has settled, times the unit    *)
(* of the factor, plus its weight times what it has not seen of the factor *)
(* is its debt, before any truncation.  Settling never increases a debt, a *)
(* settled account can be reweighed without changing it, a payment lowers  *)
(* it by as much, and a distribution adds to all debts no more than it     *)
(* adds to `owed` as long as the total is not below the sum of weights.    *)
(***************************************************************************)
EXTENDS OtcProperties, StakingProofs

Factor == treasury.stake_rewards_factor

DebtOf(v, f) ==
    IF v = None THEN 0
    ELSE v.rewards * FRACTION + Monus(f, v.rewards_factor) * weighted_units(v)

DebtOfV1(v, f) ==
    IF v = None THEN 0
    ELSE v.rewards * FRACTION + Monus(f, v.rewards_factor) * v.balance

\* What an account settles to, truncated.
PendingOf(v, f) ==
    IF v = None THEN 0
    ELSE v.rewards + (Monus(f, v.rewards_factor) * weighted_units(v)) \div FRACTION

PendingOfV1(v, f) ==
    IF v = None THEN 0
    ELSE v.rewards + (Monus(f, v.rewards_factor) * v.balance) \div FRACTION

Debts(accounts, f) == Sum([s \in Stakes |-> DebtOf(accounts[s], f)], NumStakes)
DebtsV1(accounts, f) == Sum([a \in Authorities |-> DebtOfV1(accounts[a], f)], NumAuthorities)

\* All debts are covered by what was shared and not yet paid.
Covered == Debts(stake, Factor) + DebtsV1(stake_v1, Factor) <= owed * FRACTION
-----------------------------------------------------------------------------
(* Debts *)

\* The factor is a natural number, before and after.
LEMMA FactorNat == TypeOK => Factor \in Nat
BY DEF TypeOK, TreasuryRecord, Factor

\* A debt is a natural number.
LEMMA DebtNat ==
  ASSUME NEW f \in Nat
  PROVE  /\ \A v \in Account : DebtOf(v, f) \in Nat
         /\ \A v \in AccountV1 : DebtOfV1(v, f) \in Nat
<1>1. \A st \in StakeRecord : DebtOf(st, f) \in Nat
  <2> SUFFICES ASSUME NEW st \in StakeRecord PROVE DebtOf(st, f) \in Nat
    OBVIOUS
  <2> DEFINE r == st.rewards
             m == Monus(f, st.rewards_factor)
             w == weighted_units(st)
  <2>1. r \in Nat /\ m \in Nat /\ w \in Nat
    BY WeightNat DEF StakeRecord, Monus
  <2> HIDE DEF r, m, w
  <2>2. r * FRACTION + m * w \in Nat
    <3>1. r * FRACTION \in Nat /\ m * w \in Nat
      BY <2>1, ScaleTypes
    <3> QED BY <3>1
  <2> QED BY <2>2 DEF DebtOf, r, m, w
<1>2. \A st \in StakeV1Record : DebtOfV1(st, f) \in Nat
  <2> SUFFICES ASSUME NEW st \in StakeV1Record PROVE DebtOfV1(st, f) \in Nat
    OBVIOUS
  <2> DEFINE r == st.rewards
             m == Monus(f, st.rewards_factor)
             w == st.balance
  <2>1. r \in Nat /\ m \in Nat /\ w \in Nat
    BY DEF StakeV1Record, Monus
  <2> HIDE DEF r, m, w
  <2>2. r * FRACTION + m * w \in Nat
    <3>1. r * FRACTION \in Nat /\ m * w \in Nat
      BY <2>1, ScaleTypes
    <3> QED BY <3>1
  <2> QED BY <2>2 DEF DebtOfV1, r, m, w
<1>3. DebtOf(None, f) = 0 /\ DebtOfV1(None, f) = 0
  BY DEF DebtOf, DebtOfV1
<1> QED BY <1>1, <1>2, <1>3 DEF Account, AccountV1

\* The sums of debts are natural numbers.
LEMMA DebtsNat ==
  ASSUME NEW f \in Nat
  PROVE  /\ \A accounts \in [Stakes -> Account] : Debts(accounts, f) \in Nat
         /\ \A accounts \in [Authorities -> AccountV1] : DebtsV1(accounts, f) \in Nat
<1>0. NumStakes \in Nat /\ NumAuthorities \in Nat
  BY PartiesAssumption
<1>1. ASSUME NEW accounts \in [Stakes -> Account] PROVE Debts(accounts, f) \in Nat
  <2> DEFINE d == [s \in Stakes |-> DebtOf(accounts[s], f)]
  <2>1. \A i \in 1 .. NumStakes : d[i] \in Nat
    BY DebtNat DEF Stakes
  <2> HIDE DEF d
  <2>2. Sum(d, NumStakes) \in Nat
    BY <1>0, <2>1, SumNat
  <2> QED BY <2>2 DEF Debts, d
<1>2. ASSUME NEW accounts \in [Authorities -> AccountV1] PROVE DebtsV1(accounts, f) \in Nat
  <2> DEFINE d == [s \in Authorities |-> DebtOfV1(accounts[s], f)]
  <2>1. \A i \in 1 .. NumAuthorities : d[i] \in Nat
    BY DebtNat DEF Authorities
  <2> HIDE DEF d
  <2>2. Sum(d, NumAuthorities) \in Nat
    BY <1>0, <2>1, SumNat
  <2> QED BY <2>2 DEF DebtsV1, d
<1> QED BY <1>1, <1>2

\* One account changes, and the sum by the difference of its debts.
LEMMA DebtUpdate ==
  ASSUME NEW fct \in Nat, NEW f \in [Stakes -> Account], NEW s \in Stakes, NEW v \in Account
  PROVE  Debts([f EXCEPT ![s] = v], fct) = Debts(f, fct) + DebtOf(v, fct) - DebtOf(f[s], fct)
<1> DEFINE g == [f EXCEPT ![s] = v]
           df == [t \in Stakes |-> DebtOf(f[t], fct)]
           dg == [t \in Stakes |-> DebtOf(g[t], fct)]
<1>1. NumStakes \in Nat /\ s \in 1 .. NumStakes
  BY PartiesAssumption DEF Stakes
<1>2. \A i \in 1 .. NumStakes : df[i] \in Nat /\ dg[i] \in Nat
  BY DebtNat DEF Stakes
<1>3. \A i \in (1 .. NumStakes) \ {s} : dg[i] = df[i]
  BY DEF Stakes
<1>4. dg[s] = DebtOf(v, fct) /\ df[s] = DebtOf(f[s], fct)
  OBVIOUS
<1> HIDE DEF df, dg
<1>5. Sum(dg, NumStakes) = Sum(df, NumStakes) + dg[s] - df[s]
  BY <1>1, <1>2, <1>3, SumUpdate
<1> QED BY <1>4, <1>5 DEF Debts, df, dg

\* The same for the accounts of version 1.
LEMMA DebtUpdateV1 ==
  ASSUME NEW fct \in Nat, NEW f \in [Authorities -> AccountV1], NEW s \in Authorities,
         NEW v \in AccountV1
  PROVE  DebtsV1([f EXCEPT ![s] = v], fct)
            = DebtsV1(f, fct) + DebtOfV1(v, fct) - DebtOfV1(f[s], fct)
<1> DEFINE g == [f EXCEPT ![s] = v]
           df == [t \in Authorities |-> DebtOfV1(f[t], fct)]
           dg == [t \in Authorities |-> DebtOfV1(g[t], fct)]
<1>1. NumAuthorities \in Nat /\ s \in 1 .. NumAuthorities
  BY PartiesAssumption DEF Authorities
<1>2. \A i \in 1 .. NumAuthorities : df[i] \in Nat /\ dg[i] \in Nat
  BY DebtNat DEF Authorities
<1>3. \A i \in (1 .. NumAuthorities) \ {s} : dg[i] = df[i]
  BY DEF Authorities
<1>4. dg[s] = DebtOfV1(v, fct) /\ df[s] = DebtOfV1(f[s], fct)
  OBVIOUS
<1> HIDE DEF df, dg
<1>5. Sum(dg, NumAuthorities) = Sum(df, NumAuthorities) + dg[s] - df[s]
  BY <1>1, <1>2, <1>3, SumUpdate
<1> QED BY <1>4, <1>5 DEF DebtsV1, df, dg
-----------------------------------------------------------------------------
(* Settling *)

\* The truncated part of an account's rewards is within its debt.
LEMMA EarnedWithin ==
  ASSUME TypeOK, NEW r \in Nat, NEW w \in Nat, NEW seen \in Nat
  PROVE  /\ r + Earned(w, seen) \in Nat
         /\ (r + Earned(w, seen)) * FRACTION <= r * FRACTION + Monus(Factor, seen) * w
<1> DEFINE m == Monus(Factor, seen)
           p == m * w
           e == p \div FRACTION
<1>1. m \in Nat
  BY FactorNat DEF Monus
<1>2. p \in Nat
  <2> HIDE DEF m
  <2> QED BY <1>1
<1>3. e \in Nat /\ e * FRACTION <= p
  <2> HIDE DEF p
  <2> QED BY <1>2, ScaleTypes, DivBounds
<1>4. Earned(w, seen) = e
  BY DEF Earned, Factor
<1> HIDE DEF m, p, e
<1>5. (r + e) * FRACTION = r * FRACTION + e * FRACTION /\ r * FRACTION \in Nat
      /\ e * FRACTION \in Nat
  BY <1>3, ScaleTypes
<1>6. (r + e) * FRACTION <= r * FRACTION + p
  BY <1>2, <1>3, <1>5
<1> QED BY <1>3, <1>4, <1>6 DEF p, m

\* The debt of a settled account is what it has settled.
LEMMA FreshDebt ==
  ASSUME TypeOK, NEW st \in StakeRecord, st.rewards_factor = Factor
  PROVE  /\ DebtOf(st, Factor) = st.rewards * FRACTION
         /\ PendingOf(st, Factor) = st.rewards
<1> DEFINE w == weighted_units(st)
           r == st.rewards * FRACTION
<1>1. w \in Nat /\ st # None /\ Monus(Factor, Factor) = 0
  BY WeightNat, GenesisAssumption, FactorNat DEF Monus
<1>2. r \in Nat /\ st.rewards \in Nat
  <2>1. st.rewards \in Nat BY DEF StakeRecord
  <2> QED BY <2>1, ScaleTypes
<1>3. DebtOf(st, Factor) = r + 0 * w /\ PendingOf(st, Factor) = st.rewards + (0 * w) \div FRACTION
  BY <1>1 DEF DebtOf, PendingOf
<1> HIDE DEF w
<1>4. 0 * w = 0 /\ 0 \div FRACTION = 0
  BY <1>1, ScaleTypes
<1> QED BY <1>2, <1>3, <1>4

\* Settling does not increase the debt.
LEMMA SettledDebt ==
  ASSUME TypeOK, NEW st \in StakeRecord
  PROVE  /\ update_rewards(st) \in StakeRecord
         /\ update_rewards(st).rewards_factor = Factor
         /\ update_rewards(st).rewards \in Nat
         /\ update_rewards(st).rewards = PendingOf(st, Factor)
         /\ update_rewards(st).rewards * FRACTION <= DebtOf(st, Factor)
<1> DEFINE w == weighted_units(st)
           r == st.rewards + Earned(w, st.rewards_factor)
<1>1. /\ w \in Nat /\ st.rewards \in Nat /\ st.rewards_factor \in Nat /\ st # None
  BY WeightNat, GenesisAssumption DEF StakeRecord
<1>2. /\ r \in Nat
      /\ r * FRACTION <= st.rewards * FRACTION + Monus(Factor, st.rewards_factor) * w
  <2> HIDE DEF w
  <2> QED BY <1>1, EarnedWithin
<1>3. update_rewards(st).rewards = r /\ update_rewards(st).rewards_factor = Factor
  BY DEF update_rewards, StakeRecord, Factor
<1>4. /\ DebtOf(st, Factor) = st.rewards * FRACTION + Monus(Factor, st.rewards_factor) * w
      /\ PendingOf(st, Factor) = r
  BY <1>1 DEF DebtOf, PendingOf, Earned, Factor
<1> HIDE DEF r, w
<1> QED BY <1>2, <1>3, <1>4, SettledType

\* Neither does the migration, nor migrating and settling.
LEMMA TouchedDebt ==
  ASSUME TypeOK, NEW s \in Stakes, stake[s] # None
  PROVE  /\ Touched(s) \in StakeRecord
         /\ update_rewards(Touched(s)).rewards = PendingOf(stake[s], Factor)
         /\ update_rewards(Touched(s)).rewards * FRACTION <= DebtOf(stake[s], Factor)
<1> DEFINE st == stake[s]
           u == update_rewards(st)
           t == [u EXCEPT !.weight_version = 1]
<1>1. st \in StakeRecord /\ Touched(s) \in StakeRecord
  BY TouchedType
<1>2. /\ DebtOf(Touched(s), Factor) <= DebtOf(st, Factor)
      /\ PendingOf(Touched(s), Factor) = PendingOf(st, Factor)
  <2>1. CASE st.weight_version # 0
    <3>1. Touched(s) = st
      BY <2>1 DEF Touched, migrate_weight
    <3>2. DebtOf(st, Factor) \in Nat
      BY <1>1, DebtNat, FactorNat DEF Account
    <3> QED BY <3>1, <3>2
  <2>2. CASE st.weight_version = 0
    <3>1. Touched(s) = t
      BY <2>2 DEF Touched, migrate_weight
    <3>2. /\ u \in StakeRecord /\ u.rewards_factor = Factor
          /\ u.rewards * FRACTION <= DebtOf(st, Factor)
          /\ u.rewards = PendingOf(st, Factor)
      BY <1>1, SettledDebt
    <3> HIDE DEF u
    <3>3. t \in StakeRecord /\ t.rewards_factor = Factor /\ t.rewards = u.rewards
      BY <3>2 DEF StakeRecord
    <3> HIDE DEF t
    <3>4. DebtOf(t, Factor) = u.rewards * FRACTION /\ PendingOf(t, Factor) = u.rewards
      BY <3>3, FreshDebt
    <3> QED BY <3>1, <3>2, <3>4
  <2> QED BY <2>1, <2>2
<1>3. /\ update_rewards(Touched(s)).rewards \in Nat
      /\ update_rewards(Touched(s)).rewards = PendingOf(Touched(s), Factor)
      /\ update_rewards(Touched(s)).rewards * FRACTION <= DebtOf(Touched(s), Factor)
  BY <1>1, SettledDebt
<1>4. DebtOf(st, Factor) \in Nat /\ DebtOf(Touched(s), Factor) \in Nat
  BY <1>1, DebtNat, FactorNat DEF Account
<1>5. update_rewards(Touched(s)).rewards * FRACTION \in Nat
  BY <1>3, ScaleTypes
<1> QED BY <1>1, <1>2, <1>3, <1>4, <1>5
-----------------------------------------------------------------------------
(* Steps *)

\* The invariant after a step, in terms of the accounts.
LEMMA CoveredNext ==
  ASSUME Debts(stake', Factor') + DebtsV1(stake_v1', Factor') <= owed' * FRACTION
  PROVE  Covered'
BY DEF Covered, Debts, DebtsV1, DebtOf, DebtOfV1, Factor, Monus, weighted_units, BaseUnits,
       effective_multiplier

\* What a step does not touch of the debts.
Still == stake' = stake /\ stake_v1' = stake_v1 /\ Factor' = Factor /\ owed' = owed

\* Nothing of the debts changes.
LEMMA StillStep == ASSUME Covered, Still PROVE Covered'
BY CoveredNext DEF Covered, Still

\* A payment, in the units of the debts.
LEMMA PaidUnits ==
  ASSUME TypeOK, NEW out \in Nat
  PROVE  /\ (owed - out) * FRACTION = owed * FRACTION - out * FRACTION
         /\ owed * FRACTION \in Int /\ out * FRACTION \in Nat
<1>1. owed \in Int
  BY Rest
<1> QED BY <1>1, ScaleTypes

\* One account changes, `out` is paid to it, and its debt falls by as much.
LEMMA DebtStep ==
  ASSUME TypeOK, Covered, NEW s \in Stakes, NEW v \in Account, NEW out \in Nat,
         stake' = [stake EXCEPT ![s] = v], stake_v1' = stake_v1, Factor' = Factor,
         owed' = owed - out,
         DebtOf(v, Factor) + out * FRACTION <= DebtOf(stake[s], Factor)
  PROVE  Covered'
<1>1. /\ Factor \in Nat /\ stake \in [Stakes -> Account] /\ stake[s] \in Account
      /\ stake_v1 \in [Authorities -> AccountV1]
  BY FactorNat, Rest
<1> DEFINE a == Debts(stake, Factor)
           b == DebtsV1(stake_v1, Factor)
           c == DebtOf(v, Factor)
           d == DebtOf(stake[s], Factor)
           o == out * FRACTION
           w == owed * FRACTION
<1>2. Debts(stake', Factor) = a + c - d
  BY <1>1, DebtUpdate
<1>3. a \in Nat /\ b \in Nat /\ c \in Nat /\ d \in Nat /\ o \in Nat /\ w \in Int
  BY <1>1, DebtNat, DebtsNat, PaidUnits
<1>4. a + b <= w /\ c + o <= d
  BY DEF Covered
<1>5. owed' * FRACTION = w - o
  BY PaidUnits
<1> HIDE DEF a, b, c, d, o, w
<1>6. a + c - d + b <= w - o
  BY <1>3, <1>4
<1> QED BY <1>2, <1>5, <1>6, CoveredNext DEF b

\* The same for an account of version 1.
LEMMA DebtStepV1 ==
  ASSUME TypeOK, Covered, NEW s \in Authorities, NEW v \in AccountV1, NEW out \in Nat,
         stake_v1' = [stake_v1 EXCEPT ![s] = v], stake' = stake, Factor' = Factor,
         owed' = owed - out,
         DebtOfV1(v, Factor) + out * FRACTION <= DebtOfV1(stake_v1[s], Factor)
  PROVE  Covered'
<1>1. /\ Factor \in Nat /\ stake \in [Stakes -> Account] /\ stake_v1[s] \in AccountV1
      /\ stake_v1 \in [Authorities -> AccountV1]
  BY FactorNat, Rest
<1> DEFINE a == Debts(stake, Factor)
           b == DebtsV1(stake_v1, Factor)
           c == DebtOfV1(v, Factor)
           d == DebtOfV1(stake_v1[s], Factor)
           o == out * FRACTION
           w == owed * FRACTION
<1>2. DebtsV1(stake_v1', Factor) = b + c - d
  BY <1>1, DebtUpdateV1
<1>3. a \in Nat /\ b \in Nat /\ c \in Nat /\ d \in Nat /\ o \in Nat /\ w \in Int
  BY <1>1, DebtNat, DebtsNat, PaidUnits
<1>4. a + b <= w /\ c + o <= d
  BY DEF Covered
<1>5. owed' * FRACTION = w - o
  BY PaidUnits
<1> HIDE DEF a, b, c, d, o, w
<1>6. a + (b + c - d) <= w - o
  BY <1>3, <1>4
<1> QED BY <1>2, <1>5, <1>6, CoveredNext DEF a

\* What an account settles to is within its debt.
LEMMA PendingWithin ==
  ASSUME TypeOK, NEW v \in Account
  PROVE  PendingOf(v, Factor) \in Nat /\ PendingOf(v, Factor) * FRACTION <= DebtOf(v, Factor)
<1>1. CASE v = None
  <2>1. 0 * FRACTION = 0
    BY ScaleTypes
  <2> QED BY <1>1, <2>1 DEF PendingOf, DebtOf
<1>2. CASE v # None
  <2>1. v \in StakeRecord
    BY <1>2 DEF Account
  <2> DEFINE r == update_rewards(v).rewards
  <2>2. r \in Nat /\ r = PendingOf(v, Factor) /\ r * FRACTION <= DebtOf(v, Factor)
    BY <2>1, SettledDebt
  <2> HIDE DEF r
  <2> QED BY <2>2
<1> QED BY <1>1, <1>2

\* Stake s becomes v and is paid `out`: together what it could settle, no more
\* and no less.
SettlesTo(s, v, out) ==
    /\ v \in Account /\ out \in Nat
    /\ stake' = [stake EXCEPT ![s] = v] /\ stake_v1' = stake_v1
    /\ Factor' = Factor /\ owed' = owed - out
    /\ PendingOf(v, Factor) + out = PendingOf(stake[s], Factor)
    /\ DebtOf(v, Factor) + out * FRACTION <= DebtOf(stake[s], Factor)
    /\ v # None => \/ v.rewards_factor = Factor
                   \/ stake[s] # None /\ v.rewards_factor = stake[s].rewards_factor

Settles(s) == \E v, out : SettlesTo(s, v, out)

LEMMA SettlesDebt ==
  ASSUME TypeOK, Covered, NEW s \in Stakes, Settles(s) PROVE Covered'
<1>1. PICK v, out : SettlesTo(s, v, out)
  BY DEF Settles
<1> QED BY <1>1, DebtStep DEF SettlesTo

\* An account has settled, and part of that is paid.
LEMMA SettledStep ==
  ASSUME TypeOK, NEW s \in Stakes, NEW v \in StakeRecord, NEW out \in Nat,
         stake' = [stake EXCEPT ![s] = v], stake_v1' = stake_v1, Factor' = Factor,
         owed' = owed - out, v.rewards_factor = Factor,
         v.rewards + out = PendingOf(stake[s], Factor)
  PROVE  Settles(s)
<1>1. v.rewards \in Nat /\ v \in Account /\ stake[s] \in Account
  BY Rest DEF StakeRecord, Account
<1>2. (v.rewards + out) * FRACTION = v.rewards * FRACTION + out * FRACTION
  BY <1>1, ScaleTypes
<1>3. DebtOf(v, Factor) = v.rewards * FRACTION /\ PendingOf(v, Factor) = v.rewards
  BY FreshDebt
<1>4. DebtOf(v, Factor) + out * FRACTION <= DebtOf(stake[s], Factor)
  BY <1>1, <1>2, <1>3, PendingWithin
<1>5. SettlesTo(s, v, out)
  BY <1>1, <1>3, <1>4 DEF SettlesTo
<1> QED BY <1>5 DEF Settles

\* Without a payment.
LEMMA UnpaidStep ==
  ASSUME TypeOK, NEW s \in Stakes, NEW v \in StakeRecord,
         stake' = [stake EXCEPT ![s] = v], stake_v1' = stake_v1, Factor' = Factor,
         owed' = owed, v.rewards_factor = Factor,
         v.rewards = PendingOf(stake[s], Factor)
  PROVE  Settles(s)
<1>1. v.rewards \in Nat /\ owed \in Int
  BY Rest DEF StakeRecord
<1>2. v.rewards + 0 = v.rewards /\ owed' = owed - 0 /\ 0 \in Nat
  BY <1>1
<1> QED BY <1>2, SettledStep

\* A handler stores a settled stake and pays nothing.
LEMMA StoreDebt ==
  ASSUME TypeOK, NEW s \in Stakes, NEW new \in StakeRecord, NEW tokens \in Int,
         NEW total, Store(s, new, tokens, total), stake_v1' = stake_v1, owed' = owed,
         new.rewards_factor = Factor, new.rewards = PendingOf(stake[s], Factor)
  PROVE  Settles(s)
<1> DEFINE v == [new EXCEPT !.tokens = tokens]
<1>1. stake' = [stake EXCEPT ![s] = v] /\ tokens \in Nat
  BY DEF Store
<1>2. v \in StakeRecord /\ v.rewards_factor = Factor /\ v.rewards = new.rewards
  BY <1>1 DEF StakeRecord
<1>3. Factor' = Factor
  BY Rest DEF Store, Factor, TreasuryRecord
<1> HIDE DEF v
<1> QED BY <1>1, <1>2, <1>3, UnpaidStep

\* A handler writes nothing that yield depends on.
LEMMA AsideStep ==
  ASSUME TypeOK, NEW s \in Stakes, NEW v \in StakeRecord, stake[s] \in StakeRecord,
         stake' = [stake EXCEPT ![s] = v], stake_v1' = stake_v1, Factor' = Factor,
         owed' = owed, v.rewards = stake[s].rewards,
         v.rewards_factor = stake[s].rewards_factor, v.balance = stake[s].balance,
         v.multiplier = stake[s].multiplier, v.weight_version = stake[s].weight_version,
         v.is_nft_staked = stake[s].is_nft_staked
  PROVE  Settles(s)
<1>1. weighted_units(v) = weighted_units(stake[s])
  BY SameWeight
<1>2. v # None /\ stake[s] # None /\ v \in Account /\ owed \in Int
  BY GenesisAssumption, Rest DEF Account
<1>3. DebtOf(v, Factor) = DebtOf(stake[s], Factor)
      /\ PendingOf(v, Factor) = PendingOf(stake[s], Factor)
  BY <1>1, <1>2 DEF DebtOf, PendingOf
<1>4. DebtOf(v, Factor) \in Nat /\ PendingOf(v, Factor) \in Nat /\ 0 * FRACTION = 0
  BY <1>2, DebtNat, FactorNat, PendingWithin, ScaleTypes
<1>5. SettlesTo(s, v, 0)
  BY <1>2, <1>3, <1>4 DEF SettlesTo
<1> QED BY <1>5 DEF Settles
-----------------------------------------------------------------------------
(* One lemma per instruction *)

LEMMA DonateSettles ==
  ASSUME TypeOK, NEW s \in Stakes, NEW amount \in Donations, Donate(s, amount)
  PROVE  Settles(s)
<1>1. stake[s] \in StakeRecord /\ stake[s] # None /\ amount \in Nat
  BY TouchedType, AmountTypes DEF Donate, Canonical
<1> DEFINE t == stake[s].tokens + amount
           v == [stake[s] EXCEPT !.tokens = t]
<1>2. t \in Nat
  BY <1>1 DEF StakeRecord
<1>3. stake' = [stake EXCEPT ![s] = v]
  BY Rest DEF Donate
<1> HIDE DEF t
<1>4. /\ v \in StakeRecord /\ v.rewards = stake[s].rewards
      /\ v.rewards_factor = stake[s].rewards_factor
      /\ v.balance = stake[s].balance /\ v.multiplier = stake[s].multiplier
      /\ v.weight_version = stake[s].weight_version
      /\ v.is_nft_staked = stake[s].is_nft_staked
  BY <1>1, <1>2 DEF StakeRecord
<1> HIDE DEF v
<1>5. Factor' = Factor /\ owed' = owed /\ stake_v1' = stake_v1
  BY Rest DEF Donate, Factor
<1> QED BY <1>1, <1>3, <1>4, <1>5, AsideStep

LEMMA SetStakeExecutorV2Settles ==
  ASSUME TypeOK, NEW s \in Stakes, NEW executor \in Executors,
         SetStakeExecutorV2(s, executor)
  PROVE  Settles(s)
<1>1. stake[s] \in StakeRecord /\ stake[s] # None
  BY TouchedType DEF SetStakeExecutorV2
<1> DEFINE v == [stake[s] EXCEPT !.executor = executor]
<1>3. stake' = [stake EXCEPT ![s] = v]
  BY Rest DEF SetStakeExecutorV2
<1>4. /\ v \in StakeRecord /\ v.rewards = stake[s].rewards
      /\ v.rewards_factor = stake[s].rewards_factor
      /\ v.balance = stake[s].balance /\ v.multiplier = stake[s].multiplier
      /\ v.weight_version = stake[s].weight_version
      /\ v.is_nft_staked = stake[s].is_nft_staked
  BY <1>1 DEF StakeRecord
<1> HIDE DEF v
<1>5. Factor' = Factor /\ owed' = owed /\ stake_v1' = stake_v1
  BY Rest DEF SetStakeExecutorV2, Factor
<1> QED BY <1>1, <1>3, <1>4, <1>5, AsideStep

\* A new stake has seen the factor and has no rewards.
LEMMA FreshStake ==
  ASSUME TypeOK, NEW lock \in Nat, NEW executor \in Executors, NEW amount \in Nat
  PROVE  /\ NewStake(lock, executor) \in StakeRecord
         /\ weighted_units(NewStake(lock, executor)) = 0
         /\ Deposited(NewStake(lock, executor), amount) \in StakeRecord
         /\ Deposited(NewStake(lock, executor), amount).rewards_factor = Factor
         /\ Deposited(NewStake(lock, executor), amount).rewards = 0
<1> DEFINE fresh == NewStake(lock, executor)
           u == update_rewards(fresh)
           b == u.balance + amount
<1>1. /\ fresh \in StakeRecord /\ fresh.balance = 0 /\ fresh.rewards = 0
      /\ fresh.rewards_factor = Factor
  BY MultiplierNat, Rest, TreasuryTypes DEF NewStake, StakeRecord, Factor
<1>2. weighted_units(fresh) = 0
  BY <1>1, EmptyWeight
<1> HIDE DEF fresh
<1>3. /\ u \in StakeRecord /\ u.rewards_factor = Factor /\ u.rewards \in Nat
      /\ u.rewards = PendingOf(fresh, Factor)
  BY <1>1, SettledDebt
<1>5. u.rewards = 0
  BY <1>1, <1>3, FreshDebt
<1>6. Deposited(fresh, amount) = [u EXCEPT !.balance = b]
  BY DEF Deposited
<1>7. b \in Nat
  BY <1>3 DEF StakeRecord
<1> HIDE DEF u, b
<1> QED BY <1>1, <1>2, <1>3, <1>5, <1>6, <1>7 DEF StakeRecord, fresh

LEMMA DepositV2Settles ==
  ASSUME TypeOK, NEW s \in Stakes, NEW amount \in DepositAmounts, NEW lock \in Locks,
         NEW executor \in Executors, DepositV2(s, amount, lock, executor)
  PROVE  Settles(s)
<1> DEFINE fresh == NewStake(lock, executor)
           new == Deposited(fresh, amount)
           total == Reweighed(treasury.total_staked, fresh, new)
<1>1. amount \in Nat /\ lock \in Nat /\ amount \in Int
  BY AmountTypes
<1>2. new \in StakeRecord /\ new.rewards_factor = Factor /\ new.rewards = 0
  BY <1>1, FreshStake
<1>3. Store(s, new, amount, total) /\ stake[s] = None /\ stake_v1' = stake_v1 /\ owed' = owed
  BY DEF DepositV2
<1>4. PendingOf(stake[s], Factor) = 0
  BY <1>3 DEF PendingOf
<1> HIDE DEF new, total
<1> QED BY <1>1, <1>2, <1>3, <1>4, StoreDebt

\* Deposits and withdrawals leave the settled rewards alone.
LEMMA DepositedRewards ==
  ASSUME TypeOK, NEW st \in StakeRecord, NEW amount \in Nat
  PROVE  /\ Deposited(st, amount).rewards = update_rewards(st).rewards
         /\ Deposited(st, amount).rewards_factor = Factor
<1> DEFINE u == update_rewards(st)
           b == u.balance + amount
<1>1. u \in StakeRecord /\ u.rewards_factor = Factor
  BY SettledDebt
<1>2. Deposited(st, amount) = [u EXCEPT !.balance = b]
  BY DEF Deposited
<1> HIDE DEF u, b
<1> QED BY <1>1, <1>2 DEF StakeRecord, u

LEMMA WithdrawnRewards ==
  ASSUME TypeOK, NEW st \in StakeRecord, NEW amount \in Nat
  PROVE  /\ Withdrawn(st, amount).rewards = update_rewards(st).rewards
         /\ Withdrawn(st, amount).rewards_factor = Factor
<1> DEFINE u == update_rewards(st)
           b == u.balance - amount
<1>1. u \in StakeRecord /\ u.rewards_factor = Factor
  BY SettledDebt
<1>2. Withdrawn(st, amount) = [u EXCEPT !.balance = b]
  BY DEF Withdrawn
<1> HIDE DEF u, b
<1> QED BY <1>1, <1>2 DEF StakeRecord, u

LEMMA TopUpStakeV2Settles ==
  ASSUME TypeOK, NEW s \in Stakes, NEW amount \in DepositAmounts,
         TopUpStakeV2(s, amount)
  PROVE  Settles(s)
<1> DEFINE new == Deposited(Touched(s), amount)
           restarted == [new EXCEPT !.created_at = now]
           tokens == new.tokens + amount
           total == Reweighed(treasury.total_staked, stake[s], new)
<1>1. amount \in Nat /\ stake[s] # None
  BY AmountTypes DEF TopUpStakeV2, Canonical
<1>2. /\ Store(s, restarted, tokens, total)
      /\ stake_v1' = stake_v1 /\ owed' = owed
  BY DEF TopUpStakeV2
<1>3. /\ new \in StakeRecord /\ new.rewards_factor = Factor
      /\ new.rewards = PendingOf(stake[s], Factor)
  BY <1>1, TouchedDebt, DepositedType, DepositedRewards
<1> HIDE DEF new
<1>4. /\ restarted \in StakeRecord /\ restarted.rewards_factor = Factor
      /\ restarted.rewards = new.rewards
  BY <1>3, Rest DEF StakeRecord
<1>5. tokens \in Int
  BY <1>1, <1>3 DEF StakeRecord
<1> HIDE DEF restarted, tokens, total
<1> QED BY <1>2, <1>3, <1>4, <1>5, StoreDebt

LEMMA WithdrawV2Settles ==
  ASSUME TypeOK, NEW s \in Stakes, NEW amount \in WithdrawAmounts,
         WithdrawV2(s, amount)
  PROVE  Settles(s)
<1> DEFINE out == AtMost(stake[s].balance, amount)
           new == Withdrawn(Touched(s), out)
           tokens == new.tokens - out
           total == Reweighed(treasury.total_staked, stake[s], new)
<1>1. stake[s] # None /\ stake[s] \in StakeRecord /\ Touched(s).balance = stake[s].balance
  BY TouchedType DEF WithdrawV2, Canonical, SameTerms
<1>2. /\ Store(s, new, tokens, total)
      /\ stake_v1' = stake_v1 /\ owed' = owed
  BY DEF WithdrawV2
<1>3. out \in Nat /\ out <= Touched(s).balance
  BY <1>1, AmountTypes DEF AtMost, StakeRecord
<1> HIDE DEF out
<1>4. /\ new \in StakeRecord /\ new.rewards_factor = Factor
      /\ new.rewards = PendingOf(stake[s], Factor)
  BY <1>1, <1>3, TouchedDebt, WithdrawnType, WithdrawnRewards
<1> HIDE DEF new
<1>5. tokens \in Int
  BY <1>3, <1>4 DEF StakeRecord
<1> HIDE DEF tokens, total
<1> QED BY <1>2, <1>4, <1>5, StoreDebt

LEMMA ClaimYieldV2Settles ==
  ASSUME TypeOK, NEW s \in Stakes, NEW amount \in ClaimAmounts,
         ClaimYieldV2(s, amount)
  PROVE  Settles(s)
<1> DEFINE settled == update_rewards(stake[s])
           out == Claimable(settled, amount)
           rewards == settled.rewards - out
           v == Claimed(settled, out)
<1>1. stake[s] \in StakeRecord
  BY TouchedType DEF ClaimYieldV2, Canonical
<1>2. /\ settled \in StakeRecord /\ settled.rewards_factor = Factor /\ settled.rewards \in Nat
      /\ settled.rewards = PendingOf(stake[s], Factor)
  BY <1>1, SettledDebt
<1>3. /\ owed' = owed - out - 0 /\ treasury' = [treasury EXCEPT !.tokens = @ - out]
      /\ stake' = [stake EXCEPT ![s] = v] /\ stake_v1' = stake_v1
  BY DEF ClaimYieldV2, PayYield
<1> HIDE DEF settled
<1>4. out \in Nat /\ out <= settled.rewards
  BY <1>2, AmountTypes, ClaimableBound
<1> HIDE DEF out
<1>5. rewards \in Nat /\ rewards + out = settled.rewards
  BY <1>2, <1>4
<1>6. v = [settled EXCEPT !.rewards = rewards]
  BY DEF Claimed
<1> HIDE DEF rewards
<1>7. v \in StakeRecord /\ v.rewards_factor = Factor /\ v.rewards = rewards
  BY <1>2, <1>5, <1>6 DEF StakeRecord
<1> HIDE DEF v
<1>8. Factor' = Factor /\ owed' = owed - out
  BY <1>3, <1>4, Rest DEF Factor, TreasuryRecord
<1> QED BY <1>2, <1>3, <1>4, <1>5, <1>7, <1>8, SettledStep

LEMMA CompoundYieldV2Settles ==
  ASSUME TypeOK, NEW s \in Stakes, NEW signer, CompoundYieldV2(signer, s)
  PROVE  Settles(s)
<1> DEFINE settled == update_rewards(Touched(s))
           out == settled.rewards
           amount == out - Burnt(out)
           zero == out - out
           claimed == Claimed(settled, out)
           new == Deposited(claimed, amount)
           total == Reweighed(treasury.total_staked, stake[s], new)
           tokens == new.tokens + amount
           v == [new EXCEPT !.tokens = tokens]
<1>1. stake[s] # None /\ Touched(s) \in StakeRecord
  BY TouchedType DEF CompoundYieldV2, Canonical
<1>2. /\ settled \in StakeRecord /\ settled.rewards_factor = Factor /\ out \in Nat
      /\ out = PendingOf(stake[s], Factor)
  BY <1>1, SettledDebt, TouchedDebt
<1>3. /\ owed' = owed - amount - Burnt(out)
      /\ stake' = [stake EXCEPT ![s] = [new EXCEPT !.tokens = @ + amount]]
      /\ stake_v1' = stake_v1
      /\ treasury' = [treasury EXCEPT !.total_staked = total, !.tokens = @ - out]
  BY DEF CompoundYieldV2, PayYield
<1>4. stake' = [stake EXCEPT ![s] = v]
  BY <1>3
<1>5. claimed = [settled EXCEPT !.rewards = zero]
  BY DEF Claimed
<1> HIDE DEF settled
<1>6. zero = 0
  BY <1>2
<1> HIDE DEF zero
<1>7. claimed \in StakeRecord /\ claimed.rewards = 0 /\ claimed.rewards_factor = Factor
  BY <1>2, <1>5, <1>6 DEF StakeRecord
<1> HIDE DEF claimed
<1>8. amount \in Nat /\ Burnt(out) \in Nat /\ amount + Burnt(out) = out
  <2> HIDE DEF out
  <2> QED BY <1>2, BurntBound
<1>9. new \in StakeRecord /\ new.rewards_factor = Factor /\ new.rewards = 0
  <2> HIDE DEF amount
  <2>2. update_rewards(claimed).rewards = 0
    BY <1>7, FreshDebt, SettledDebt
  <2> QED BY <1>7, <1>8, <2>2, DepositedType, DepositedRewards
<1> HIDE DEF new, out, amount
<1>10. tokens \in Nat
  BY <1>8, <1>9 DEF StakeRecord
<1> HIDE DEF tokens
<1>11. v \in StakeRecord /\ v.rewards_factor = Factor /\ v.rewards = 0
  BY <1>9, <1>10 DEF StakeRecord
<1> HIDE DEF v
<1>12. Factor' = Factor /\ owed' = owed - out /\ out \in Nat
  BY <1>2, <1>3, <1>8, Rest DEF Factor, TreasuryRecord
<1>13. v.rewards + out = PendingOf(stake[s], Factor)
  BY <1>2, <1>11, <1>12
<1> QED BY <1>3, <1>4, <1>11, <1>12, <1>13, SettledStep

LEMMA CloseStakeV2Settles ==
  ASSUME TypeOK, NEW s \in Stakes, CloseStakeV2(s)
  PROVE  Settles(s)
<1> DEFINE out == update_rewards(stake[s]).rewards
<1>1. stake[s] \in StakeRecord
  BY TouchedType DEF CloseStakeV2, Canonical
<1>2. out \in Nat /\ out = PendingOf(stake[s], Factor)
  BY <1>1, SettledDebt
<1>3. /\ owed' = owed - out - 0 /\ treasury' = [treasury EXCEPT !.tokens = @ - out]
      /\ stake' = [stake EXCEPT ![s] = None] /\ stake_v1' = stake_v1
  BY DEF CloseStakeV2, PayYield
<1> HIDE DEF out
<1>4. Factor' = Factor /\ owed' = owed - out
  BY <1>2, <1>3, Rest DEF Factor, TreasuryRecord
<1>5. DebtOf(None, Factor) + out * FRACTION <= DebtOf(stake[s], Factor) /\ None \in Account
  <2>1. out * FRACTION \in Nat /\ stake[s] \in Account
    BY <1>2, Rest, ScaleTypes
  <2> QED BY <1>2, <2>1, PendingWithin DEF DebtOf, Account
<1>6. PendingOf(None, Factor) + out = PendingOf(stake[s], Factor)
  BY <1>2 DEF PendingOf
<1>7. SettlesTo(s, None, out)
  BY <1>2, <1>3, <1>4, <1>5, <1>6 DEF SettlesTo
<1> QED BY <1>7 DEF Settles

LEMMA StakeNftSettles ==
  ASSUME TypeOK, NEW s \in Stakes, StakeNft(s) PROVE Settles(s)
<1> DEFINE u == update_rewards(Touched(s))
           new == stake_nft(Touched(s))
           total == Reweighed(treasury.total_staked, stake[s], new)
<1>1. /\ u \in StakeRecord /\ u.rewards_factor = Factor
      /\ u.rewards = PendingOf(stake[s], Factor)
  BY TouchedDebt, SettledDebt DEF StakeNft, Canonical
<1>2. /\ Store(s, new, new.tokens, total) /\ stake_v1' = stake_v1 /\ owed' = owed
  BY DEF StakeNft
<1>3. new = [u EXCEPT !.is_nft_staked = TRUE]
  BY DEF stake_nft
<1> HIDE DEF u, new, total
<1>4. /\ new \in StakeRecord /\ new.rewards_factor = Factor /\ new.rewards = u.rewards
      /\ new.tokens \in Int
  <2>1. new \in StakeRecord
    BY <1>1, <1>3 DEF StakeRecord
  <2>2. new.rewards_factor = u.rewards_factor /\ new.rewards = u.rewards
    BY <1>1, <1>3 DEF StakeRecord
  <2>3. new.tokens \in Nat
    BY <2>1 DEF StakeRecord
  <2> QED BY <1>1, <2>1, <2>2, <2>3
<1>5. new.rewards = PendingOf(stake[s], Factor)
  BY <1>1, <1>4
<1> QED BY <1>2, <1>4, <1>5, StoreDebt

LEMMA UnstakeNftSettles ==
  ASSUME TypeOK, NEW s \in Stakes, UnstakeNft(s) PROVE Settles(s)
<1> DEFINE u == update_rewards(Touched(s))
           new == unstake_nft(Touched(s))
           total == Reweighed(treasury.total_staked, stake[s], new)
<1>1. /\ u \in StakeRecord /\ u.rewards_factor = Factor
      /\ u.rewards = PendingOf(stake[s], Factor)
  BY TouchedDebt, SettledDebt DEF UnstakeNft, Canonical
<1>2. /\ Store(s, new, new.tokens, total) /\ stake_v1' = stake_v1 /\ owed' = owed
  BY DEF UnstakeNft
<1>3. new = [u EXCEPT !.is_nft_staked = FALSE]
  BY DEF unstake_nft
<1> HIDE DEF u, new, total
<1>4. /\ new \in StakeRecord /\ new.rewards_factor = Factor /\ new.rewards = u.rewards
      /\ new.tokens \in Int
  <2>1. new \in StakeRecord
    BY <1>1, <1>3 DEF StakeRecord
  <2>2. new.rewards_factor = u.rewards_factor /\ new.rewards = u.rewards
    BY <1>1, <1>3 DEF StakeRecord
  <2>3. new.tokens \in Nat
    BY <2>1 DEF StakeRecord
  <2> QED BY <1>1, <2>1, <2>2, <2>3
<1>5. new.rewards = PendingOf(stake[s], Factor)
  BY <1>1, <1>4
<1> QED BY <1>2, <1>4, <1>5, StoreDebt

LEMMA ReconcileStakeV2Settles ==
  ASSUME TypeOK, NEW s \in Stakes, ReconcileStakeV2(s) PROVE Settles(s)
<1> DEFINE gap == Unbacked(stake[s])
           new == Withdrawn(stake[s], gap)
           total == Reweighed(treasury.total_staked, stake[s], new)
<1>1. stake[s] \in StakeRecord
  BY TouchedType DEF ReconcileStakeV2
<1>2. gap \in Nat /\ gap <= stake[s].balance
  BY <1>1 DEF Unbacked, Monus, StakeRecord
<1>3. Store(s, new, new.tokens, total) /\ stake_v1' = stake_v1 /\ owed' = owed
  BY DEF ReconcileStakeV2
<1> HIDE DEF gap
<1>4. /\ new \in StakeRecord /\ new.rewards_factor = Factor
      /\ new.rewards = PendingOf(stake[s], Factor)
  BY <1>1, <1>2, SettledDebt, WithdrawnType, WithdrawnRewards
<1>5. new.tokens \in Int
  BY <1>4 DEF StakeRecord
<1> HIDE DEF new, total
<1> QED BY <1>3, <1>4, <1>5, StoreDebt

LEMMA MigrateStakeWeightSettles ==
  ASSUME TypeOK, NEW s \in Stakes, MigrateStakeWeight(s) PROVE Settles(s)
<1> DEFINE u == update_rewards(stake[s])
           new == Touched(s)
           tokens == stake[s].tokens
<1>1. stake[s] \in StakeRecord /\ new = [u EXCEPT !.weight_version = 1]
  BY TouchedType DEF MigrateStakeWeight, Touched, migrate_weight
<1>2. /\ u \in StakeRecord /\ u.rewards_factor = Factor
      /\ u.rewards = PendingOf(stake[s], Factor)
  BY <1>1, SettledDebt
<1>3. Store(s, new, tokens, TouchedTotal(s)) /\ stake_v1' = stake_v1 /\ owed' = owed
  BY DEF MigrateStakeWeight
<1>4. tokens \in Int
  BY <1>1 DEF StakeRecord
<1> HIDE DEF u, new, tokens
<1>5. new \in StakeRecord /\ new.rewards_factor = Factor /\ new.rewards = u.rewards
  BY <1>1, <1>2 DEF StakeRecord
<1> QED BY <1>2, <1>3, <1>4, <1>5, StoreDebt

LEMMA ClosePhantomStakeV2Debt ==
  ASSUME TypeOK, Covered, NEW s \in Stakes, ClosePhantomStakeV2(s)
  PROVE  Covered'
<1>1. /\ stake' = [stake EXCEPT ![s] = None] /\ stake_v1' = stake_v1
      /\ Factor' = Factor /\ owed' = owed - 0
  BY Rest DEF ClosePhantomStakeV2, Factor
<1>2. DebtOf(None, Factor) + 0 * FRACTION <= DebtOf(stake[s], Factor) /\ None \in Account
  <2>1. DebtOf(stake[s], Factor) \in Nat /\ 0 * FRACTION = 0
    BY Rest, DebtNat, FactorNat, ScaleTypes
  <2> QED BY <2>1 DEF DebtOf, Account
<1> QED BY <1>1, <1>2, DebtStep

\* The merged stake keeps the rewards that both have settled.
LEMMA FoldedRewards ==
  ASSUME TypeOK, NEW a \in StakeRecord, NEW b \in StakeRecord
  PROVE  /\ Folded(a, b).rewards = a.rewards + b.rewards
         /\ Folded(a, b).rewards_factor = a.rewards_factor
BY DEF Folded, StakeRecord

\* Two stakes are folded into one, with all that both could settle.
Folds(target, source) ==
    /\ target # source
    /\ \E merged \in StakeRecord :
         /\ stake' = [stake EXCEPT ![target] = merged, ![source] = None]
         /\ merged.rewards_factor = Factor
         /\ merged.rewards = PendingOf(stake[target], Factor) + PendingOf(stake[source], Factor)
    /\ stake_v1' = stake_v1 /\ owed' = owed /\ Factor' = Factor

LEMMA MergeStakeV2Folds ==
  ASSUME TypeOK, NEW target \in Stakes, NEW source \in Stakes, MergeStakeV2(target, source)
  PROVE  Folds(target, source)
<1> DEFINE x == update_rewards(Touched(target))
           y == update_rewards(Touched(source))
           merged == Folded(x, y)
<1>1. /\ target # source /\ stake[target] # None /\ stake[source] # None
      /\ stake' = [stake EXCEPT ![target] = merged, ![source] = None]
      /\ stake_v1' = stake_v1 /\ owed' = owed
  BY DEF MergeStakeV2, Canonical
<1>2. Factor' = Factor
  BY Rest DEF MergeStakeV2, Factor, TreasuryRecord
<1>3. /\ x \in StakeRecord /\ y \in StakeRecord /\ x.rewards_factor = Factor
      /\ x.rewards = PendingOf(stake[target], Factor)
      /\ y.rewards = PendingOf(stake[source], Factor)
  BY <1>1, TouchedDebt, SettledDebt
<1> HIDE DEF x, y
<1>4. /\ merged \in StakeRecord /\ merged.rewards_factor = Factor
      /\ merged.rewards = x.rewards + y.rewards
  BY <1>3, FoldedType, FoldedRewards
<1> HIDE DEF merged
<1> QED BY <1>1, <1>2, <1>3, <1>4 DEF Folds

LEMMA FoldsDebt ==
  ASSUME TypeOK, Covered, NEW target \in Stakes, NEW source \in Stakes, Folds(target, source)
  PROVE  Covered'
<1> DEFINE x == PendingOf(stake[target], Factor)
           y == PendingOf(stake[source], Factor)
<1>1. PICK merged \in StakeRecord :
         /\ stake' = [stake EXCEPT ![target] = merged, ![source] = None]
         /\ merged.rewards_factor = Factor
         /\ merged.rewards = x + y
  BY DEF Folds
<1>2. target # source /\ stake_v1' = stake_v1 /\ owed' = owed /\ Factor' = Factor
  BY DEF Folds
<1> DEFINE mid == [stake EXCEPT ![target] = merged]
<1>6. /\ stake \in [Stakes -> Account] /\ merged \in Account /\ None \in Account
      /\ stake[target] \in Account /\ stake[source] \in Account
      /\ stake_v1 \in [Authorities -> AccountV1] /\ Factor \in Nat
  BY Rest, FactorNat DEF Account
<1>3. /\ x \in Nat /\ y \in Nat
      /\ x * FRACTION <= DebtOf(stake[target], Factor)
      /\ y * FRACTION <= DebtOf(stake[source], Factor)
  BY <1>6, PendingWithin
<1> HIDE DEF x, y
<1>5. DebtOf(merged, Factor) = x * FRACTION + y * FRACTION
  <2>1. (x + y) * FRACTION = x * FRACTION + y * FRACTION
    BY <1>3, ScaleTypes
  <2> QED BY <1>1, <2>1, FreshDebt
<1>7. mid \in [Stakes -> Account] /\ mid[source] = stake[source]
  BY <1>2, <1>6
<1>8. stake' = [mid EXCEPT ![source] = None]
  BY <1>1
<1>9. Debts(mid, Factor) = Debts(stake, Factor) + DebtOf(merged, Factor)
                             - DebtOf(stake[target], Factor)
  BY <1>6, DebtUpdate
<1> HIDE DEF mid
<1>10. Debts(stake', Factor) = Debts(mid, Factor) + DebtOf(None, Factor)
                                 - DebtOf(stake[source], Factor)
  <2>1. Debts([mid EXCEPT ![source] = None], Factor)
          = Debts(mid, Factor) + DebtOf(None, Factor) - DebtOf(mid[source], Factor)
    BY <1>6, <1>7, DebtUpdate
  <2> QED BY <1>7, <1>8, <2>1
<1> DEFINE a == Debts(stake, Factor)
           b == DebtsV1(stake_v1, Factor)
           c == DebtOf(stake[target], Factor)
           d == DebtOf(stake[source], Factor)
           m == DebtOf(merged, Factor)
           xr == x * FRACTION
           yr == y * FRACTION
           w == owed * FRACTION
<1>11. /\ a \in Nat /\ b \in Nat /\ c \in Nat /\ d \in Nat /\ m \in Nat
       /\ xr \in Nat /\ yr \in Nat /\ w \in Int /\ DebtOf(None, Factor) = 0
  <2>2. xr \in Nat /\ yr \in Nat
    BY <1>3, ScaleTypes
  <2>3. w \in Int
    BY Rest, ScaleTypes
  <2> QED BY <1>6, <2>2, <2>3, DebtNat, DebtsNat DEF DebtOf
<1>12. a + b <= w /\ xr <= c /\ yr <= d /\ m = xr + yr
  BY <1>3, <1>5 DEF Covered
<1>13. Debts(stake', Factor) = a + m - c - d
  BY <1>9, <1>10, <1>11
<1> HIDE DEF a, b, c, d, m, xr, yr, w
<1>14. a + m - c - d + b <= w
  BY <1>11, <1>12
<1> QED BY <1>2, <1>13, <1>14, CoveredNext DEF b, w

\* The debt of an account of version 1 that has settled.
LEMMA FreshDebtV1 ==
  ASSUME TypeOK, NEW st \in StakeV1Record, st.rewards_factor = Factor
  PROVE  /\ DebtOfV1(st, Factor) = st.rewards * FRACTION
         /\ PendingOfV1(st, Factor) = st.rewards
<1> DEFINE w == st.balance
           r == st.rewards * FRACTION
<1>1. w \in Nat /\ st # None /\ Monus(Factor, Factor) = 0
  BY GenesisAssumption, FactorNat DEF Monus, StakeV1Record
<1>2. r \in Nat /\ st.rewards \in Nat
  <2>1. st.rewards \in Nat BY DEF StakeV1Record
  <2> QED BY <2>1, ScaleTypes
<1>3. /\ DebtOfV1(st, Factor) = r + 0 * w
      /\ PendingOfV1(st, Factor) = st.rewards + (0 * w) \div FRACTION
  BY <1>1 DEF DebtOfV1, PendingOfV1
<1> HIDE DEF w
<1>4. 0 * w = 0 /\ 0 \div FRACTION = 0
  BY <1>1, ScaleTypes
<1> QED BY <1>2, <1>3, <1>4

\* Settling an account of version 1 does not increase its debt.
LEMMA SettledDebtV1 ==
  ASSUME TypeOK, NEW a \in Authorities, stake_v1[a] # None
  PROVE  /\ SettledV1(a) \in StakeV1Record
         /\ SettledV1(a).rewards_factor = Factor
         /\ SettledV1(a).rewards \in Nat
         /\ SettledV1(a).rewards = PendingOfV1(stake_v1[a], Factor)
         /\ SettledV1(a).rewards * FRACTION <= DebtOfV1(stake_v1[a], Factor)
<1> DEFINE st == stake_v1[a]
           w == st.balance
           r == st.rewards + Earned(w, st.rewards_factor)
<1>1. /\ st \in StakeV1Record /\ SettledV1(a) \in StakeV1Record
  BY SettledV1Type
<1>2. w \in Nat /\ st.rewards \in Nat /\ st.rewards_factor \in Nat
  BY <1>1 DEF StakeV1Record
<1>3. /\ r \in Nat
      /\ r * FRACTION <= st.rewards * FRACTION + Monus(Factor, st.rewards_factor) * w
  <2> HIDE DEF w, st
  <2> QED BY <1>2, EarnedWithin
<1>4. SettledV1(a).rewards = r /\ SettledV1(a).rewards_factor = Factor
  BY <1>1 DEF SettledV1, StakeV1Record, Factor
<1>5. /\ DebtOfV1(st, Factor) = st.rewards * FRACTION + Monus(Factor, st.rewards_factor) * w
      /\ PendingOfV1(st, Factor) = r
  BY DEF DebtOfV1, PendingOfV1, Earned, Factor
<1> HIDE DEF r, w
<1> QED BY <1>1, <1>3, <1>4, <1>5

\* An account of version 1 becomes v and is paid `out`.
SettlesToV1(a, v, out) ==
    /\ v \in AccountV1 /\ out \in Nat
    /\ stake_v1' = [stake_v1 EXCEPT ![a] = v] /\ stake' = stake
    /\ Factor' = Factor /\ owed' = owed - out
    /\ PendingOfV1(v, Factor) + out = PendingOfV1(stake_v1[a], Factor)
    /\ DebtOfV1(v, Factor) + out * FRACTION <= DebtOfV1(stake_v1[a], Factor)
    /\ v # None => v.rewards_factor = Factor

SettlesV1(a) == \E v, out : SettlesToV1(a, v, out)

LEMMA SettlesDebtV1 ==
  ASSUME TypeOK, Covered, NEW a \in Authorities, SettlesV1(a) PROVE Covered'
<1>1. PICK v, out : SettlesToV1(a, v, out)
  BY DEF SettlesV1
<1> QED BY <1>1, DebtStepV1 DEF SettlesToV1

LEMMA SettledStepV1 ==
  ASSUME TypeOK, NEW a \in Authorities, NEW v \in StakeV1Record, NEW out \in Nat,
         stake_v1[a] # None,
         stake_v1' = [stake_v1 EXCEPT ![a] = v], stake' = stake, Factor' = Factor,
         owed' = owed - out, v.rewards_factor = Factor,
         v.rewards + out = PendingOfV1(stake_v1[a], Factor)
  PROVE  SettlesV1(a)
<1>1. v.rewards \in Nat /\ v \in AccountV1
  BY DEF StakeV1Record, AccountV1
<1>2. (v.rewards + out) * FRACTION = v.rewards * FRACTION + out * FRACTION
  BY <1>1, ScaleTypes
<1>3. DebtOfV1(v, Factor) = v.rewards * FRACTION /\ PendingOfV1(v, Factor) = v.rewards
  BY FreshDebtV1
<1>4. PendingOfV1(stake_v1[a], Factor) * FRACTION <= DebtOfV1(stake_v1[a], Factor)
  BY SettledDebtV1
<1>5. SettlesToV1(a, v, out)
  BY <1>1, <1>2, <1>3, <1>4 DEF SettlesToV1
<1> QED BY <1>5 DEF SettlesV1

LEMMA WithdrawSettles ==
  ASSUME TypeOK, NEW a \in Authorities, NEW amount \in WithdrawAmounts,
         Withdraw(a, amount)
  PROVE  SettlesV1(a)
<1> DEFINE u == SettledV1(a)
           out == AtMost(stake_v1[a].balance, amount)
           balance == u.balance - out
           tokens == u.tokens - out
           v == [u EXCEPT !.balance = balance, !.tokens = tokens]
<1>1. /\ stake_v1[a] # None /\ stake_v1[a] \in StakeV1Record
      /\ u.balance = stake_v1[a].balance /\ u.tokens = stake_v1[a].tokens
  BY SettledV1Type DEF Withdraw
<1>2. /\ u \in StakeV1Record /\ u.rewards_factor = Factor
      /\ u.rewards \in Nat /\ u.rewards = PendingOfV1(stake_v1[a], Factor)
  BY <1>1, SettledDebtV1
<1>3. out \in Nat /\ out <= stake_v1[a].balance
  BY <1>1, AmountTypes DEF AtMost, StakeV1Record
<1>4. /\ stake_v1[a].tokens >= stake_v1[a].balance
      /\ stake_v1' = [stake_v1 EXCEPT ![a] = v]
      /\ stake' = stake /\ owed' = owed
  BY <1>2 DEF Withdraw, StakeV1Record
<1>5. Factor' = Factor
  BY Rest DEF Withdraw, Factor, TreasuryRecord
<1> HIDE DEF out, u
<1>6. balance \in Nat /\ tokens \in Nat
  BY <1>1, <1>3, <1>4 DEF StakeV1Record
<1> HIDE DEF balance, tokens
<1>7. v \in StakeV1Record /\ v.rewards = u.rewards /\ v.rewards_factor = Factor
  BY <1>2, <1>6 DEF StakeV1Record
<1> HIDE DEF v
<1>8. owed' = owed - 0 /\ 0 \in Nat /\ v.rewards + 0 = PendingOfV1(stake_v1[a], Factor)
  BY <1>2, <1>4, <1>7, Rest
<1> QED BY <1>1, <1>4, <1>5, <1>7, <1>8, SettledStepV1

LEMMA ClaimYieldSettles ==
  ASSUME TypeOK, NEW a \in Authorities, NEW amount \in ClaimAmounts,
         ClaimYield(a, amount)
  PROVE  SettlesV1(a)
<1> DEFINE u == SettledV1(a)
           out == Claimable(u, amount)
           rewards == u.rewards - out
           v == Claimed(u, out)
<1>1. /\ stake_v1[a] # None /\ u \in StakeV1Record /\ u.rewards_factor = Factor
      /\ u.rewards \in Nat /\ u.rewards = PendingOfV1(stake_v1[a], Factor)
  BY SettledDebtV1 DEF ClaimYield
<1>2. /\ owed' = owed - out - 0 /\ treasury' = [treasury EXCEPT !.tokens = @ - out]
      /\ stake_v1' = [stake_v1 EXCEPT ![a] = v] /\ stake' = stake
  BY DEF ClaimYield, PayYield
<1> HIDE DEF u
<1>3. out \in Nat /\ out <= u.rewards
  BY <1>1, AmountTypes, ClaimableBound
<1>4. v = [u EXCEPT !.rewards = rewards]
  BY DEF Claimed
<1> HIDE DEF out
<1>5. rewards \in Nat /\ rewards + out = u.rewards
  BY <1>1, <1>3
<1> HIDE DEF rewards
<1>6. v \in StakeV1Record /\ v.rewards = rewards /\ v.rewards_factor = Factor
  BY <1>1, <1>4, <1>5 DEF StakeV1Record
<1> HIDE DEF v
<1>7. v.rewards + out = PendingOfV1(stake_v1[a], Factor)
  BY <1>1, <1>5, <1>6
<1>8. Factor' = Factor /\ owed' = owed - out
  BY <1>2, <1>3, Rest DEF Factor, TreasuryRecord
<1> QED BY <1>1, <1>2, <1>3, <1>6, <1>7, <1>8, SettledStepV1
-----------------------------------------------------------------------------
(* Distributions *)

\* A debt grows with the factor by no more than the weight's part.
LEMMA GrowthWithin ==
  ASSUME NEW f \in Nat, NEW per \in Nat, NEW seen \in Nat, NEW r \in Nat, NEW w \in Nat
  PROVE  r + Monus(f + per, seen) * w <= r + Monus(f, seen) * w + per * w
<1> DEFINE m == Monus(f + per, seen)
           n == Monus(f, seen)
<1>1. m \in Nat /\ n \in Nat /\ n + per \in Nat /\ m <= n + per
  BY DEF Monus
<1> HIDE DEF m, n
<1>2. w * m <= w * (n + per)
  BY <1>1, ProductMonotone
<1>3. w * m = m * w /\ w * (n + per) = n * w + per * w
      /\ m * w \in Nat /\ n * w \in Nat /\ per * w \in Nat
  BY <1>1
<1> DEFINE mw == m * w
           nw == n * w
           pw == per * w
           wm == w * m
           wn == w * (n + per)
<1> HIDE DEF mw, nw, pw, wm, wn
<1>4. r + mw <= r + nw + pw
  BY <1>2, <1>3 DEF mw, nw, pw, wm, wn
<1> QED BY <1>4 DEF mw, nw, pw, m, n

\* The same of both kinds of accounts.
LEMMA DebtGrowth ==
  ASSUME NEW f \in Nat, NEW per \in Nat
  PROVE  /\ \A v \in Account : DebtOf(v, f + per) <= DebtOf(v, f) + per * WeightOf(v)
         /\ \A v \in AccountV1 : DebtOfV1(v, f + per) <= DebtOfV1(v, f) + per * WeightOfV1(v)
<1>1. per * 0 = 0
  OBVIOUS
<1>2. ASSUME NEW v \in Account PROVE DebtOf(v, f + per) <= DebtOf(v, f) + per * WeightOf(v)
  <2>1. CASE v = None
    BY <1>1, <2>1 DEF DebtOf, WeightOf
  <2>2. CASE v # None
    <3> DEFINE w == weighted_units(v)
               r == v.rewards * FRACTION
    <3>1. v \in StakeRecord /\ v.rewards_factor \in Nat /\ w \in Nat
      BY <2>2, WeightNat DEF Account, StakeRecord
    <3>2. r \in Nat
      <4>1. v.rewards \in Nat BY <3>1 DEF StakeRecord
      <4> QED BY <4>1, ScaleTypes
    <3>3. WeightOf(v) = w
      BY <2>2 DEF WeightOf
    <3>4. /\ DebtOf(v, f + per) = r + Monus(f + per, v.rewards_factor) * w
          /\ DebtOf(v, f) = r + Monus(f, v.rewards_factor) * w
      BY <2>2 DEF DebtOf
    <3> HIDE DEF w, r
    <3> QED BY <3>1, <3>2, <3>3, <3>4, GrowthWithin
  <2> QED BY <2>1, <2>2
<1>3. ASSUME NEW v \in AccountV1
      PROVE  DebtOfV1(v, f + per) <= DebtOfV1(v, f) + per * WeightOfV1(v)
  <2>1. CASE v = None
    BY <1>1, <2>1 DEF DebtOfV1, WeightOfV1
  <2>2. CASE v # None
    <3> DEFINE w == v.balance
               r == v.rewards * FRACTION
    <3>1. v \in StakeV1Record /\ v.rewards_factor \in Nat /\ w \in Nat
      BY <2>2 DEF AccountV1, StakeV1Record
    <3>2. r \in Nat
      <4>1. v.rewards \in Nat BY <3>1 DEF StakeV1Record
      <4> QED BY <4>1, ScaleTypes
    <3>3. WeightOfV1(v) = w
      BY <2>2 DEF WeightOfV1
    <3>4. /\ DebtOfV1(v, f + per) = r + Monus(f + per, v.rewards_factor) * w
          /\ DebtOfV1(v, f) = r + Monus(f, v.rewards_factor) * w
      BY <2>2 DEF DebtOfV1
    <3> HIDE DEF w, r
    <3> QED BY <3>1, <3>2, <3>3, <3>4, GrowthWithin
  <2> QED BY <2>1, <2>2
<1> QED BY <1>2, <1>3

\* All debts grow by no more than the sum of the weights times the growth.
LEMMA DebtsGrowth ==
  ASSUME TypeOK, NEW per \in Nat
  PROVE  /\ Debts(stake, Factor + per) <= Debts(stake, Factor) + per * TotalOf(stake)
         /\ DebtsV1(stake_v1, Factor + per)
              <= DebtsV1(stake_v1, Factor) + per * TotalOfV1(stake_v1)
<1> DEFINE f == Factor
           h == f + per
<1>1. /\ f \in Nat /\ h \in Nat /\ NumStakes \in Nat /\ NumAuthorities \in Nat
      /\ stake \in [Stakes -> Account] /\ stake_v1 \in [Authorities -> AccountV1]
  BY FactorNat, PartiesAssumption, Rest
<1>2. Debts(stake, h) <= Debts(stake, f) + per * TotalOf(stake)
  <2> DEFINE df == [s \in Stakes |-> DebtOf(stake[s], f)]
             dg == [s \in Stakes |-> DebtOf(stake[s], h)]
             w == [s \in Stakes |-> WeightOf(stake[s])]
  <2> HIDE DEF h, f
  <2>1. \A i \in 1 .. NumStakes : df[i] \in Nat /\ dg[i] \in Nat /\ w[i] \in Nat
    BY <1>1, DebtNat, WeightOfNat DEF Stakes
  <2>2. \A i \in 1 .. NumStakes : dg[i] <= df[i] + per * w[i]
    BY <1>1, DebtGrowth DEF Stakes, h
  <2> HIDE DEF df, dg, w
  <2>3. Sum(dg, NumStakes) <= Sum(df, NumStakes) + per * Sum(w, NumStakes)
    BY <1>1, <2>1, <2>2, SumScaled
  <2> QED BY <2>3 DEF Debts, TotalOf, df, dg, w
<1>3. DebtsV1(stake_v1, h) <= DebtsV1(stake_v1, f) + per * TotalOfV1(stake_v1)
  <2> DEFINE df == [s \in Authorities |-> DebtOfV1(stake_v1[s], f)]
             dg == [s \in Authorities |-> DebtOfV1(stake_v1[s], h)]
             w == [s \in Authorities |-> WeightOfV1(stake_v1[s])]
  <2> HIDE DEF h, f
  <2>1. \A i \in 1 .. NumAuthorities : df[i] \in Nat /\ dg[i] \in Nat /\ w[i] \in Nat
    BY <1>1, DebtNat, WeightOfNat DEF Authorities
  <2>2. \A i \in 1 .. NumAuthorities : dg[i] <= df[i] + per * w[i]
    BY <1>1, DebtGrowth DEF Authorities, h
  <2> HIDE DEF df, dg, w
  <2>3. Sum(dg, NumAuthorities) <= Sum(df, NumAuthorities) + per * Sum(w, NumAuthorities)
    BY <1>1, <2>1, <2>2, SumScaled
  <2> QED BY <2>3 DEF DebtsV1, TotalOfV1, df, dg, w
<1> QED BY <1>2, <1>3

\* What the factor gains, on the whole total, is within what was shared.
LEMMA PerUnitWithin ==
  ASSUME TypeOK, NEW shared \in Nat
  PROVE  PerUnit(shared) \in Nat /\ PerUnit(shared) * treasury.total_staked <= shared * FRACTION
<1> DEFINE t == treasury.total_staked
           p == shared * FRACTION
<1>1. t \in Nat /\ p \in Nat
  BY TreasuryTypes, ScaleTypes
<1> HIDE DEF p
<1>2. CASE t = 0
  <2>1. PerUnit(shared) = 0
    BY <1>2 DEF PerUnit
  <2> QED BY <1>1, <1>2, <2>1 DEF p
<1>3. CASE t # 0
  <2>1. PerUnit(shared) = p \div t
    BY <1>3 DEF PerUnit, p
  <2>2. t \in Nat \ {0}
    BY <1>1, <1>3
  <2> HIDE DEF t
  <2>3. p \div t \in Nat /\ (p \div t) * t <= p
    BY <1>1, <2>2, DivBounds
  <2> QED BY <2>1, <2>3 DEF p, t
<1> QED BY <1>2, <1>3

\* An amount is shared by the total.
Shares(shared) ==
    /\ stake' = stake /\ stake_v1' = stake_v1
    /\ Factor' = Factor + PerUnit(shared) /\ owed' = owed + shared
    /\ treasury'.total_staked = treasury.total_staked

\* Debts stay covered while the total is not below the sum of the weights.
LEMMA SharesDebt ==
  ASSUME TypeOK, Covered, Drift >= 0, NEW shared \in Nat, Shares(shared)
  PROVE  Covered'
<1>0. /\ stake' = stake /\ stake_v1' = stake_v1
      /\ Factor' = Factor + PerUnit(shared) /\ owed' = owed + shared
  BY DEF Shares
<1> DEFINE per == PerUnit(shared)
           t == treasury.total_staked
           x == TotalOf(stake)
           y == TotalOfV1(stake_v1)
           a == Debts(stake, Factor)
           b == DebtsV1(stake_v1, Factor)
           c == Debts(stake, Factor + per)
           d == DebtsV1(stake_v1, Factor + per)
           w == owed * FRACTION
           o == shared * FRACTION
<1>1. per \in Nat /\ per * t <= o
  BY PerUnitWithin
<1>2. /\ t \in Nat /\ x \in Nat /\ y \in Nat /\ x + y <= t
  <2>1. x \in Nat /\ y \in Nat
    BY TotalsAre, TotalsNat
  <2>2. Drift = t - (x + y)
    BY TotalsAre DEF Drift
  <2>3. t \in Nat
    BY TreasuryTypes
  <2> HIDE DEF t, x, y
  <2> QED BY <2>1, <2>2, <2>3
<1> HIDE DEF per
<1>3. c <= a + per * x /\ d <= b + per * y
  BY <1>1, DebtsGrowth
<1>4. /\ a \in Nat /\ b \in Nat /\ c \in Nat /\ d \in Nat /\ o \in Nat /\ w \in Int
  <2>1. Factor \in Nat /\ Factor + per \in Nat
    BY <1>1, FactorNat
  <2>2. owed \in Int
    BY Rest
  <2> QED BY <2>1, <2>2, Rest, DebtsNat, ScaleTypes
<1>5. a + b <= w
  BY DEF Covered
<1>6. owed' * FRACTION = w + o
  <2>1. owed \in Int
    BY Rest
  <2> QED BY <1>0, <2>1, ScaleTypes
<1> HIDE DEF t, x, y, a, b, c, d, w, o
<1>7. per * (x + y) <= per * t /\ per * (x + y) = per * x + per * y
      /\ per * x \in Nat /\ per * y \in Nat /\ per * t \in Nat
  BY <1>1, <1>2, ProductMonotone
<1>8. c + d <= w + o
  <2> DEFINE px == per * x
             py == per * y
             pt == per * t
  <2>1. c <= a + px /\ d <= b + py /\ pt <= o /\ px + py <= pt
        /\ px \in Nat /\ py \in Nat /\ pt \in Nat
    BY <1>1, <1>3, <1>7
  <2> HIDE DEF px, py, pt
  <2> QED BY <1>4, <1>5, <2>1
<1> QED BY <1>0, <1>6, <1>8, CoveredNext DEF c, d, per

LEMMA BuryShares ==
  ASSUME TypeOK, NEW total_godl \in BuryAmounts, Bury(total_godl)
  PROVE  \E shared \in Nat : Shares(shared)
<1> DEFINE shared == Shared(total_godl)
           per == PerUnit(shared)
<1>1. shared \in Nat /\ per \in Nat
  BY AmountTypes, SharedTypes
<1>2. /\ treasury' = [treasury EXCEPT !.stake_rewards_factor = @ + per, !.tokens = @ + shared]
      /\ owed' = owed + shared /\ stake' = stake /\ stake_v1' = stake_v1
  BY DEF Bury, Distribute
<1> HIDE DEF shared
<1>3. Factor' = Factor + per /\ treasury'.total_staked = treasury.total_staked
  <2> HIDE DEF per
  <2> QED BY <1>2, Rest DEF Factor, TreasuryRecord
<1> QED BY <1>1, <1>2, <1>3 DEF Shares

LEMMA BuryTokensShares ==
  ASSUME TypeOK, NEW amount \in BuryTokensAmounts, BuryTokens(amount)
  PROVE  \E shared \in Nat : Shares(shared)
<1> DEFINE shared == Shared(amount)
           per == PerUnit(shared)
<1>1. shared \in Nat /\ per \in Nat
  BY AmountTypes, SharedTypes
<1>2. /\ treasury' = [treasury EXCEPT !.stake_rewards_factor = @ + per,
                                      !.tokens = @ - (amount - shared)]
      /\ owed' = owed + shared /\ stake' = stake /\ stake_v1' = stake_v1
  BY DEF BuryTokens, Distribute
<1> HIDE DEF shared
<1>3. Factor' = Factor + per /\ treasury'.total_staked = treasury.total_staked
  <2> HIDE DEF per
  <2> QED BY <1>2, Rest DEF Factor, TreasuryRecord
<1> QED BY <1>1, <1>2, <1>3 DEF Shares

-----------------------------------------------------------------------------
(* What an instruction does to yield *)

\* Every step but the rebase settles an account of either version, folds two,
\* closes an empty phantom, shares an amount, or touches no account, yield or
\* total.
YieldKinds ==
    \/ Still /\ treasury' = treasury
    \/ \E s \in Stakes : Settles(s) \/ ClosePhantomStakeV2(s)
    \/ \E a \in Authorities : SettlesV1(a)
    \/ \E target, source \in Stakes : Folds(target, source)
    \/ \E shared \in Nat : Shares(shared)

LEMMA StepKinds ==
  ASSUME TypeOK, [Next]_vars, ~ RebaseTotalStaked
  PROVE  YieldKinds
<1>1. CASE \/ Tick \/ UNCHANGED vars
           \/ ReadTreasury \/ ListStakes \/ ListLegacyStakes \/ RereadTreasury \/ RebaseMismatch
  <2>1. UNCHANGED <<stake, stake_v1, treasury, owed>>
    BY <1>1 DEF Tick, vars, ReadTreasury, ListStakes, ListLegacyStakes, RereadTreasury,
       RebaseMismatch, AuditStep
  <2> QED BY <2>1 DEF Still, Factor, YieldKinds
<1>2. ASSUME NEW s \in Stakes, NEW amount \in DepositAmounts, NEW lock \in Locks,
             NEW executor \in Executors, DepositV2(s, amount, lock, executor)
      PROVE  Settles(s)
  BY <1>2, DepositV2Settles
<1>3. ASSUME NEW s \in Stakes,
             \/ \E amount \in DepositAmounts : TopUpStakeV2(s, amount)
             \/ \E amount \in WithdrawAmounts : WithdrawV2(s, amount)
             \/ \E amount \in ClaimAmounts : ClaimYieldV2(s, amount)
             \/ \E signer \in Executors \cup Authorities : CompoundYieldV2(signer, s)
             \/ \E amount \in Donations : Donate(s, amount)
             \/ \E executor \in Executors : SetStakeExecutorV2(s, executor)
      PROVE  Settles(s)
  BY <1>3, TopUpStakeV2Settles, WithdrawV2Settles, ClaimYieldV2Settles,
     CompoundYieldV2Settles, DonateSettles, SetStakeExecutorV2Settles
<1>4. ASSUME NEW s \in Stakes,
             \/ CloseStakeV2(s) \/ StakeNft(s) \/ UnstakeNft(s)
             \/ MigrateStakeWeight(s) \/ ReconcileStakeV2(s)
      PROVE  Settles(s)
  BY <1>4, CloseStakeV2Settles, StakeNftSettles, UnstakeNftSettles,
     MigrateStakeWeightSettles, ReconcileStakeV2Settles
<1>5. ASSUME NEW s \in Stakes, NEW source \in Stakes, MergeStakeV2(s, source)
      PROVE  Folds(s, source)
  BY <1>5, MergeStakeV2Folds
<1>6. ASSUME NEW a \in Authorities,
             \/ \E amount \in WithdrawAmounts : Withdraw(a, amount)
             \/ \E amount \in ClaimAmounts : ClaimYield(a, amount)
      PROVE  SettlesV1(a)
  BY <1>6, WithdrawSettles, ClaimYieldSettles
<1>7. ASSUME \/ \E total_godl \in BuryAmounts : Bury(total_godl)
             \/ \E amount \in BuryTokensAmounts : BuryTokens(amount)
      PROVE  \E shared \in Nat : Shares(shared)
  BY <1>7, BuryShares, BuryTokensShares
<1>8. CASE Next
  <2>1. \/ \E s \in Stakes : Settles(s) \/ ClosePhantomStakeV2(s)
        \/ \E a \in Authorities : SettlesV1(a)
        \/ \E target, source \in Stakes : Folds(target, source)
        \/ \E shared \in Nat : Shares(shared)
        \/ Tick \/ ReadTreasury \/ ListStakes \/ ListLegacyStakes \/ RereadTreasury
        \/ RebaseMismatch
    BY <1>2, <1>3, <1>4, <1>5, <1>6, <1>7, <1>8 DEF Next
  <2> QED BY <1>1, <2>1 DEF YieldKinds
<1> QED BY <1>1, <1>8

\* Every step keeps the debts covered, as long as the total is not below the sum
\* of the weights.
LEMMA NextCovered ==
  ASSUME TypeOK, Covered, Drift >= 0, [Next]_vars
  PROVE  Covered'
<1>1. CASE RebaseTotalStaked
  <2>1. Still
    BY <1>1, Rest DEF RebaseTotalStaked, Still, Factor, TreasuryRecord
  <2> QED BY <2>1, StillStep
<1>2. CASE ~ RebaseTotalStaked
  BY <1>2, StepKinds, StillStep, SettlesDebt, ClosePhantomStakeV2Debt, SettlesDebtV1, FoldsDebt,
     SharesDebt DEF YieldKinds
<1> QED BY <1>1, <1>2
-----------------------------------------------------------------------------
(* Cash *)

\* What the treasury holds for other purposes than yield, had bury_tokens not
\* taken from it.
Surplus == treasury.tokens + taken - owed

\* The treasury's tokens and the yield it owes fall by the same amount, or
\* nothing of both changes.
LEMMA CashStep ==
  ASSUME TypeOK, NEW out \in Int,
         treasury'.tokens = treasury.tokens - out, owed' = owed - out, taken' = taken
  PROVE  Surplus' = Surplus
<1>1. treasury.tokens \in Nat /\ taken \in Nat /\ owed \in Int /\ OtherTokens \in Nat
  BY TreasuryTypes, Rest, AmountsAssumption
<1> QED BY <1>1 DEF Surplus

LEMMA CashStays ==
  ASSUME treasury'.tokens = treasury.tokens, owed' = owed, taken' = taken
  PROVE  Surplus' = Surplus
BY DEF Surplus

\* Storing a stake leaves the token account alone.
LEMMA StoreCash ==
  ASSUME TypeOK, NEW s, NEW new, NEW tokens, NEW total, Store(s, new, tokens, total)
  PROVE  treasury'.tokens = treasury.tokens
BY Rest DEF Store, TreasuryRecord

\* The handlers that pay yield.
LEMMA PayingCash ==
  ASSUME TypeOK, NEW s \in Stakes,
         \/ \E amount \in ClaimAmounts : ClaimYieldV2(s, amount)
         \/ \E signer \in Executors \cup Authorities : CompoundYieldV2(signer, s)
         \/ CloseStakeV2(s)
  PROVE  Surplus' = Surplus
<1>1. ASSUME NEW amount \in ClaimAmounts, ClaimYieldV2(s, amount) PROVE Surplus' = Surplus
  <2> DEFINE out == Claimable(update_rewards(stake[s]), amount)
  <2>1. out \in Nat
    BY <1>1, TouchedType, SettledDebt, AmountTypes, ClaimableBound DEF ClaimYieldV2, Canonical
  <2>2. /\ owed' = owed - out - 0 /\ treasury' = [treasury EXCEPT !.tokens = @ - out]
        /\ taken' = taken
    BY <1>1 DEF ClaimYieldV2, PayYield
  <2> HIDE DEF out
  <2>3. treasury'.tokens = treasury.tokens - out /\ owed' = owed - out
    BY <2>1, <2>2, Rest DEF TreasuryRecord
  <2> QED BY <2>1, <2>2, <2>3, CashStep
<1>2. ASSUME NEW signer, CompoundYieldV2(signer, s) PROVE Surplus' = Surplus
  <2> DEFINE settled == update_rewards(Touched(s))
             out == settled.rewards
             amount == out - Burnt(out)
             new == Deposited(Claimed(settled, out), amount)
             total == Reweighed(treasury.total_staked, stake[s], new)
  <2>1. out \in Nat
    BY <1>2, TouchedType, SettledDebt DEF CompoundYieldV2, Canonical
  <2>2. /\ owed' = owed - amount - Burnt(out)
        /\ treasury' = [treasury EXCEPT !.total_staked = total, !.tokens = @ - out]
        /\ taken' = taken
    BY <1>2 DEF CompoundYieldV2, PayYield
  <2> HIDE DEF settled, new, total, out
  <2>3. Burnt(out) \in Nat /\ amount = out - Burnt(out)
    BY <2>1, BurntBound
  <2> HIDE DEF amount
  <2>4. treasury'.tokens = treasury.tokens - out /\ owed' = owed - out
    BY <2>1, <2>2, <2>3, Rest DEF TreasuryRecord
  <2> QED BY <2>1, <2>2, <2>4, CashStep
<1>3. CASE CloseStakeV2(s)
  <2> DEFINE out == update_rewards(stake[s]).rewards
  <2>1. out \in Nat
    BY <1>3, TouchedType, SettledDebt DEF CloseStakeV2, Canonical
  <2>2. /\ owed' = owed - out - 0 /\ treasury' = [treasury EXCEPT !.tokens = @ - out]
        /\ taken' = taken
    BY <1>3 DEF CloseStakeV2, PayYield
  <2> HIDE DEF out
  <2>3. treasury'.tokens = treasury.tokens - out /\ owed' = owed - out
    BY <2>1, <2>2, Rest DEF TreasuryRecord
  <2> QED BY <2>1, <2>2, <2>3, CashStep
<1> QED BY <1>1, <1>2, <1>3

\* The handlers of version 1.
LEMMA V1Cash ==
  ASSUME TypeOK, NEW a \in Authorities,
         \/ \E amount \in WithdrawAmounts : Withdraw(a, amount)
         \/ \E amount \in ClaimAmounts : ClaimYield(a, amount)
  PROVE  Surplus' = Surplus
<1>1. ASSUME NEW amount \in WithdrawAmounts, Withdraw(a, amount) PROVE Surplus' = Surplus
  <2>1. treasury'.tokens = treasury.tokens /\ owed' = owed /\ taken' = taken
    BY <1>1, Rest DEF Withdraw, TreasuryRecord
  <2> QED BY <2>1, CashStays
<1>2. ASSUME NEW amount \in ClaimAmounts, ClaimYield(a, amount) PROVE Surplus' = Surplus
  <2> DEFINE out == Claimable(SettledV1(a), amount)
  <2>1. out \in Nat
    BY <1>2, SettledDebtV1, AmountTypes, ClaimableBound DEF ClaimYield
  <2>2. /\ owed' = owed - out - 0 /\ treasury' = [treasury EXCEPT !.tokens = @ - out]
        /\ taken' = taken
    BY <1>2 DEF ClaimYield, PayYield
  <2> HIDE DEF out
  <2>3. treasury'.tokens = treasury.tokens - out /\ owed' = owed - out
    BY <2>1, <2>2, Rest DEF TreasuryRecord
  <2> QED BY <2>1, <2>2, <2>3, CashStep
<1> QED BY <1>1, <1>2

\* The handlers that bring yield in.
LEMMA BuryCash ==
  ASSUME TypeOK,
         \/ \E total_godl \in BuryAmounts : Bury(total_godl)
         \/ \E amount \in BuryTokensAmounts : BuryTokens(amount)
  PROVE  Surplus' = Surplus
<1>0. treasury.tokens \in Nat /\ taken \in Nat /\ owed \in Int /\ OtherTokens \in Nat
  BY TreasuryTypes, Rest, AmountsAssumption
<1>1. ASSUME NEW total_godl \in BuryAmounts, Bury(total_godl) PROVE Surplus' = Surplus
  <2> DEFINE shared == Shared(total_godl)
             per == PerUnit(shared)
  <2>1. shared \in Nat
    BY AmountTypes, SharedTypes
  <2>2. /\ treasury' = [treasury EXCEPT !.stake_rewards_factor = @ + per, !.tokens = @ + shared]
        /\ owed' = owed + shared /\ taken' = taken
    BY <1>1 DEF Bury, Distribute
  <2> HIDE DEF shared, per
  <2>3. treasury'.tokens = treasury.tokens + shared
    BY <2>2, Rest DEF TreasuryRecord
  <2> QED BY <1>0, <2>1, <2>2, <2>3 DEF Surplus
<1>2. ASSUME NEW amount \in BuryTokensAmounts, BuryTokens(amount) PROVE Surplus' = Surplus
  <2> DEFINE shared == Shared(amount)
             per == PerUnit(shared)
  <2>1. shared \in Nat /\ amount \in Nat
    BY AmountTypes, SharedTypes
  <2>2. /\ treasury' = [treasury EXCEPT !.stake_rewards_factor = @ + per,
                                        !.tokens = @ - (amount - shared)]
        /\ owed' = owed + shared /\ taken' = taken + amount
    BY <1>2 DEF BuryTokens, Distribute
  <2> HIDE DEF shared, per
  <2>3. treasury'.tokens = treasury.tokens - (amount - shared)
    BY <2>2, Rest DEF TreasuryRecord
  <2> QED BY <1>0, <2>1, <2>2, <2>3 DEF Surplus
<1> QED BY <1>1, <1>2

\* No step of staking moves the surplus.
LEMMA NextCash ==
  ASSUME TypeOK, [Next]_vars
  PROVE  Surplus' = Surplus
<1>1. ASSUME UNCHANGED <<treasury, owed, taken>> PROVE Surplus' = Surplus
  BY <1>1, CashStays
<1>2. CASE Tick \/ UNCHANGED vars
  BY <1>1, <1>2 DEF Tick, vars
<1>3. ASSUME NEW s \in Stakes, NEW amount \in DepositAmounts, NEW lock \in Locks,
             NEW executor \in Executors, DepositV2(s, amount, lock, executor)
      PROVE  Surplus' = Surplus
  BY <1>3, StoreCash, CashStays DEF DepositV2
<1>4. ASSUME NEW s \in Stakes,
             \/ \E amount \in DepositAmounts : TopUpStakeV2(s, amount)
             \/ \E amount \in WithdrawAmounts : WithdrawV2(s, amount)
      PROVE  Surplus' = Surplus
  BY <1>4, StoreCash, CashStays DEF TopUpStakeV2, WithdrawV2
<1>5. ASSUME NEW s \in Stakes,
             StakeNft(s) \/ UnstakeNft(s) \/ MigrateStakeWeight(s) \/ ReconcileStakeV2(s)
      PROVE  Surplus' = Surplus
  BY <1>5, StoreCash, CashStays DEF StakeNft, UnstakeNft, MigrateStakeWeight, ReconcileStakeV2
<1>6. ASSUME NEW s \in Stakes, NEW source \in Stakes, MergeStakeV2(s, source) PROVE Surplus' = Surplus
  <2>1. treasury'.tokens = treasury.tokens /\ owed' = owed /\ taken' = taken
    BY <1>6, Rest DEF MergeStakeV2, TreasuryRecord
  <2> QED BY <2>1, CashStays
<1>7. ASSUME NEW s \in Stakes,
             \/ \E amount \in Donations : Donate(s, amount)
             \/ \E executor \in Executors : SetStakeExecutorV2(s, executor)
             \/ ClosePhantomStakeV2(s)
      PROVE  Surplus' = Surplus
  BY <1>1, <1>7 DEF Donate, SetStakeExecutorV2, ClosePhantomStakeV2
<1>8. CASE ReadTreasury \/ ListStakes \/ ListLegacyStakes \/ RereadTreasury \/ RebaseMismatch
  BY <1>1, <1>8 DEF ReadTreasury, ListStakes, ListLegacyStakes, RereadTreasury,
     RebaseMismatch, AuditStep
<1>9. CASE RebaseTotalStaked
  <2>1. treasury'.tokens = treasury.tokens /\ owed' = owed /\ taken' = taken
    BY <1>9, Rest DEF RebaseTotalStaked, TreasuryRecord
  <2> QED BY <2>1, CashStays
<1> QED BY <1>2, <1>3, <1>4, <1>5, <1>6, <1>7, <1>8, <1>9, PayingCash, V1Cash, BuryCash DEF Next
-----------------------------------------------------------------------------
(* The invariant *)

\* No rewards are outstanding when the history begins.
GenesisSettled ==
    /\ \A s \in Stakes : Genesis[s] # None => Genesis[s].rewards = 0
    /\ \A a \in Authorities : GenesisV1[a] # None => GenesisV1[a].rewards = 0

\* The total is never below the sum of the weights, and the debts are covered.
YieldInv ==
    /\ TypeOK
    /\ Drift >= 0
    /\ Covered

\* At the start nothing is owed.
LEMMA YieldInit == ASSUME GenesisSettled PROVE Init => YieldInv /\ Surplus = OtherTokens
<1> SUFFICES ASSUME Init PROVE YieldInv /\ Surplus = OtherTokens
  OBVIOUS
<1>1. TypeOK
  BY TypesInit
<1>2. Drift >= 0
  BY <1>1, TotalsNat, GenesisAssumption DEF Init, Drift
<1>3. /\ Factor = 0 /\ owed = 0 /\ stake = Genesis /\ stake_v1 = GenesisV1 /\ taken = 0
      /\ treasury.tokens = OtherTokens /\ OtherTokens \in Nat
  BY AmountsAssumption DEF Init, Factor
<1>4. \A seen, w \in Nat : 0 * FRACTION + Monus(0, seen) * w = 0
  <2> SUFFICES ASSUME NEW seen \in Nat, NEW w \in Nat
               PROVE  0 * FRACTION + Monus(0, seen) * w = 0
    OBVIOUS
  <2>1. Monus(0, seen) = 0
    BY DEF Monus
  <2>2. 0 * FRACTION = 0 /\ 0 * w = 0
    BY ScaleTypes
  <2> QED BY <2>1, <2>2
<1>5. ASSUME NEW s \in Stakes PROVE DebtOf(stake[s], Factor) = 0
  <2>1. CASE stake[s] = None
    BY <2>1 DEF DebtOf
  <2>2. CASE stake[s] # None
    <3>1. stake[s] \in StakeRecord /\ stake[s].rewards = 0
      BY <1>3, <2>2, GenesisAssumption DEF GenesisSettled
    <3>2. weighted_units(stake[s]) \in Nat /\ stake[s].rewards_factor \in Nat
      BY <3>1, WeightNat DEF StakeRecord
    <3> QED BY <1>3, <1>4, <2>2, <3>1, <3>2 DEF DebtOf
  <2> QED BY <2>1, <2>2
<1>6. ASSUME NEW a \in Authorities PROVE DebtOfV1(stake_v1[a], Factor) = 0
  <2>1. CASE stake_v1[a] = None
    BY <2>1 DEF DebtOfV1
  <2>2. CASE stake_v1[a] # None
    <3>1. stake_v1[a] \in StakeV1Record /\ stake_v1[a].rewards = 0
      BY <1>3, <2>2, GenesisAssumption DEF GenesisSettled
    <3>2. stake_v1[a].balance \in Nat /\ stake_v1[a].rewards_factor \in Nat
      BY <3>1 DEF StakeV1Record
    <3> QED BY <1>3, <1>4, <2>2, <3>1, <3>2 DEF DebtOfV1
  <2> QED BY <2>1, <2>2
<1>7. Debts(stake, Factor) = 0 /\ DebtsV1(stake_v1, Factor) = 0
  <2> DEFINE d == [s \in Stakes |-> DebtOf(stake[s], Factor)]
             e == [a \in Authorities |-> DebtOfV1(stake_v1[a], Factor)]
  <2>1. \A i \in 1 .. NumStakes : d[i] = 0
    BY <1>5 DEF Stakes
  <2>2. \A i \in 1 .. NumAuthorities : e[i] = 0
    BY <1>6 DEF Authorities
  <2>3. NumStakes \in Nat /\ NumAuthorities \in Nat
    BY PartiesAssumption
  <2> HIDE DEF d, e
  <2>4. Sum(d, NumStakes) = 0 /\ Sum(e, NumAuthorities) = 0
    BY <2>1, <2>2, <2>3, SumOfZeros
  <2> QED BY <2>4 DEF Debts, DebtsV1, d, e
<1>8. Covered
  <2>1. 0 * FRACTION = 0
    BY ScaleTypes
  <2> QED BY <1>3, <1>7, <2>1 DEF Covered
<1>9. Surplus = OtherTokens
  BY <1>3 DEF Surplus
<1> QED BY <1>1, <1>2, <1>8, <1>9 DEF YieldInv

\* Every step of staking keeps the invariant and the surplus.
LEMMA YieldNext ==
  ASSUME YieldInv, [Next]_vars, [RebaseTotalStaked => Drift' = 0]_vars
  PROVE  YieldInv' /\ Surplus' = Surplus
<1>1. TypeOK /\ Drift >= 0 /\ Covered
  BY DEF YieldInv
<1>2. TypeOK' /\ Drift' >= 0
  BY <1>1, DriftStays
<1>3. Covered' /\ Surplus' = Surplus
  BY <1>1, NextCovered, NextCash
<1> QED BY <1>2, <1>3 DEF YieldInv

\* What all accounts could settle now is within what is owed: each settles to
\* no more than its debt.
LEMMA PendingCovered == ASSUME YieldInv PROVE TotalPending \in Nat /\ TotalPending <= owed
<1>1. /\ TypeOK /\ NumStakes \in Nat /\ NumAuthorities \in Nat /\ Factor \in Nat
      /\ stake \in [Stakes -> Account] /\ stake_v1 \in [Authorities -> AccountV1]
      /\ owed \in Int
  BY FactorNat, PartiesAssumption, Rest DEF YieldInv
<1> DEFINE p == [s \in Stakes |-> Pending(s)]
           p1 == [a \in Authorities |-> PendingV1(a)]
           d == [s \in Stakes |-> DebtOf(stake[s], Factor)]
           d1 == [a \in Authorities |-> DebtOfV1(stake_v1[a], Factor)]
           z == [s \in Stakes |-> 0]
           z1 == [a \in Authorities |-> 0]
<1>2. ASSUME NEW s \in Stakes
      PROVE  Pending(s) \in Nat /\ Pending(s) * FRACTION <= DebtOf(stake[s], Factor)
  <2>1. CASE stake[s] = None
    <3>1. 0 * FRACTION = 0
      BY ScaleTypes
    <3> QED BY <2>1, <3>1 DEF Pending, DebtOf
  <2>2. CASE stake[s] # None
    <3>1. stake[s] \in StakeRecord
      BY <1>1, <2>2, TouchedType
    <3> QED BY <1>1, <2>2, <3>1, SettledDebt DEF Pending
  <2> QED BY <2>1, <2>2
<1>3. ASSUME NEW a \in Authorities
      PROVE  PendingV1(a) \in Nat /\ PendingV1(a) * FRACTION <= DebtOfV1(stake_v1[a], Factor)
  <2>1. CASE stake_v1[a] = None
    <3>1. 0 * FRACTION = 0
      BY ScaleTypes
    <3> QED BY <2>1, <3>1 DEF PendingV1, DebtOfV1
  <2>2. CASE stake_v1[a] # None
    BY <1>1, <2>2, SettledDebtV1 DEF PendingV1
  <2> QED BY <2>1, <2>2
<1>4. /\ \A i \in 1 .. NumStakes : p[i] \in Nat /\ d[i] \in Nat /\ p[i] * FRACTION <= d[i]
      /\ \A i \in 1 .. NumAuthorities : p1[i] \in Nat /\ d1[i] \in Nat
                                          /\ p1[i] * FRACTION <= d1[i]
  BY <1>1, <1>2, <1>3, DebtNat DEF Stakes, Authorities
<1> DEFINE P == Sum(p, NumStakes)
           P1 == Sum(p1, NumAuthorities)
<1>5. TotalPending = P + P1
  BY DEF TotalPending
<1>6. Covered
  BY DEF YieldInv
<1> HIDE DEF p, p1, d, d1
<1>7. P \in Nat /\ P1 \in Nat
  BY <1>1, <1>4, SumNat
<1>8. P * FRACTION <= Sum(d, NumStakes) /\ P1 * FRACTION <= Sum(d1, NumAuthorities)
  BY <1>1, <1>4, ScaleTypes, SumTimes
<1>9. Sum(d, NumStakes) + Sum(d1, NumAuthorities) <= owed * FRACTION
  BY <1>6 DEF Covered, Debts, DebtsV1, d, d1
<1>10. Sum(d, NumStakes) \in Nat /\ Sum(d1, NumAuthorities) \in Nat
  BY <1>1, <1>4, SumNat
<1> HIDE DEF P, P1
<1>11. (P + P1) * FRACTION <= owed * FRACTION
  <2>1. (P + P1) * FRACTION = P * FRACTION + P1 * FRACTION
        /\ P * FRACTION \in Nat /\ P1 * FRACTION \in Nat /\ owed * FRACTION \in Int
    BY <1>1, <1>7, ScaleTypes
  <2> QED BY <1>8, <1>9, <1>10, <2>1
<1>12. P + P1 <= owed
  <2>1. CASE owed \in Nat
    <3>1. P + P1 \in Nat
      BY <1>7
    <3> QED BY <1>11, <2>1, <3>1, ScaleTypes, ProductReflects
  <2>2. CASE owed < 0
    <3>1. owed * FRACTION < 0
      BY <1>1, <2>2, ScaleTypes, NegativeProduct
    <3>2. P * FRACTION \in Nat /\ P1 * FRACTION \in Nat /\ owed * FRACTION \in Int
      BY <1>1, <1>7, ScaleTypes
    <3> QED BY <1>9, <1>10, <3>1, <3>2
  <2> QED BY <1>1, <2>1, <2>2
<1> QED BY <1>5, <1>7, <1>12

\* The two promises of the yield follow.
LEMMA YieldSound ==
  ASSUME YieldInv, Surplus >= OtherTokens
  PROVE  NeverOverDistributed /\ YieldIsBacked
<1>1. TypeOK /\ TotalPending \in Nat /\ TotalPending <= owed
  BY PendingCovered DEF YieldInv
<1>2. treasury.tokens \in Nat /\ taken \in Nat /\ owed \in Int /\ OtherTokens \in Nat
  BY <1>1, TreasuryTypes, Rest, AmountsAssumption
<1> QED BY <1>1, <1>2 DEF NeverOverDistributed, YieldIsBacked, Surplus

\* In staking without the desk, as long as the admin's rebase writes the true
\* total (a total below the sum of the weights would share more than there is,
\* once per unit of weight too many): what has been paid plus what all stakes could
\* settle never exceeds what bury distributed (update_rewards of stake_v2.rs and
\* stake.rs, migrate_weight), and the treasury's token account holds it.
THEOREM YieldIsNeverOverDistributed ==
  ASSUME GenesisSettled
  PROVE  Spec /\ RebaseClearsDrift => [](NeverOverDistributed /\ YieldIsBacked)
<1> DEFINE Inv == YieldInv /\ Surplus = OtherTokens
<1>1. Init => Inv
  BY YieldInit
<1>2. Inv /\ [Next]_vars /\ [RebaseTotalStaked => Drift' = 0]_vars => Inv'
  <2> SUFFICES ASSUME Inv, [Next]_vars, [RebaseTotalStaked => Drift' = 0]_vars PROVE Inv'
    OBVIOUS
  <2> QED BY YieldNext
<1>3. Inv => NeverOverDistributed /\ YieldIsBacked
  BY YieldSound, AmountsAssumption
<1> QED BY <1>1, <1>2, <1>3, PTL DEF Spec, RebaseClearsDrift
-----------------------------------------------------------------------------
(* Staking implements the pool                                             *)

\* The pool's holders: first the stakes, then the accounts of version 1.
ClaimsOf(S, S1, f) ==
    [h \in 1 .. NumHolders |-> IF h <= NumStakes THEN PendingOf(S[h], f)
                               ELSE PendingOfV1(S1[h - NumStakes], f)]

WeightsOf(S, S1) ==
    [h \in 1 .. NumHolders |-> IF h <= NumStakes THEN WeightOf(S[h])
                               ELSE WeightOfV1(S1[h - NumStakes])]

\* A holder is a stake or an account of version 1.
LEMMA HolderKinds ==
  /\ NumStakes \in Nat /\ NumAuthorities \in Nat /\ NumHolders \in Nat
  /\ \A h \in 1 .. NumHolders :
       IF h <= NumStakes THEN h \in Stakes ELSE h - NumStakes \in Authorities
  /\ \A s \in Stakes : s \in 1 .. NumHolders /\ s <= NumStakes
  /\ \A a \in Authorities :
       /\ NumStakes + a \in 1 .. NumHolders /\ ~ (NumStakes + a <= NumStakes)
       /\ (NumStakes + a) - NumStakes = a
BY PartiesAssumption DEF NumHolders, Stakes, Authorities

\* The claims and weights of the pool in terms of the accounts.
LEMMA PoolForms ==
  TypeOK => /\ Claims = ClaimsOf(stake, stake_v1, Factor)
            /\ Weights = WeightsOf(stake, stake_v1)
<1> SUFFICES ASSUME TypeOK
             PROVE  /\ Claims = ClaimsOf(stake, stake_v1, Factor)
                    /\ Weights = WeightsOf(stake, stake_v1)
  OBVIOUS
<1>1. ASSUME NEW s \in Stakes PROVE Pending(s) = PendingOf(stake[s], Factor)
  <2>1. CASE stake[s] = None
    BY <2>1 DEF Pending, PendingOf
  <2>2. CASE stake[s] # None
    <3>1. stake[s] \in StakeRecord
      BY <2>2, TouchedType
    <3> QED BY <2>2, <3>1, SettledDebt DEF Pending
  <2> QED BY <2>1, <2>2
<1>2. ASSUME NEW a \in Authorities PROVE PendingV1(a) = PendingOfV1(stake_v1[a], Factor)
  <2>1. CASE stake_v1[a] = None
    BY <2>1 DEF PendingV1, PendingOfV1
  <2>2. CASE stake_v1[a] # None
    BY <2>2, SettledDebtV1 DEF PendingV1
  <2> QED BY <2>1, <2>2
<1>3. Claims = ClaimsOf(stake, stake_v1, Factor)
  BY <1>1, <1>2, HolderKinds DEF Claims, ClaimsOf
<1>4. Weights = WeightsOf(stake, stake_v1)
  BY DEF Weights, WeightsOf, UnitsAt, UnitsAtV1, WeightOf, WeightOfV1
<1> QED BY <1>3, <1>4

\* The same after a step.
LEMMA PoolFormsNext ==
  TypeOK' => /\ Claims' = ClaimsOf(stake', stake_v1', Factor')
             /\ Weights' = WeightsOf(stake', stake_v1')
<1>1. (TypeOK => /\ Claims = ClaimsOf(stake, stake_v1, Factor)
                 /\ Weights = WeightsOf(stake, stake_v1))'
  BY PoolForms, PTL
<1>2. ClaimsOf(stake, stake_v1, Factor)' = ClaimsOf(stake', stake_v1', Factor')
  BY DEF ClaimsOf, PendingOf, PendingOfV1, weighted_units, BaseUnits, effective_multiplier
<1>3. WeightsOf(stake, stake_v1)' = WeightsOf(stake', stake_v1')
  BY DEF WeightsOf, WeightOf, WeightOfV1, weighted_units, BaseUnits, effective_multiplier
<1> QED BY <1>1, <1>2, <1>3

\* Claims and weights are natural numbers.
LEMMA PoolTypes ==
  ASSUME TypeOK
  PROVE  \A h \in 1 .. NumHolders : Claims[h] \in Nat /\ Weights[h] \in Nat
<1> SUFFICES ASSUME NEW h \in 1 .. NumHolders PROVE Claims[h] \in Nat /\ Weights[h] \in Nat
  OBVIOUS
<1>1. stake \in [Stakes -> Account] /\ stake_v1 \in [Authorities -> AccountV1]
  BY Rest
<1>2. CASE h <= NumStakes
  <2>1. h \in Stakes /\ stake[h] \in Account
    BY <1>1, <1>2, HolderKinds
  <2>2. Claims[h] = PendingOf(stake[h], Factor) /\ Weights[h] = WeightOf(stake[h])
    BY <1>2, PoolForms DEF ClaimsOf, WeightsOf
  <2> QED BY <2>1, <2>2, PendingWithin, WeightOfNat
<1>3. CASE ~ (h <= NumStakes)
  <2> DEFINE a == h - NumStakes
  <2>1. a \in Authorities /\ stake_v1[a] \in AccountV1
    BY <1>1, <1>3, HolderKinds
  <2>2. Claims[h] = PendingOfV1(stake_v1[a], Factor) /\ Weights[h] = WeightOfV1(stake_v1[a])
    BY <1>3, PoolForms DEF ClaimsOf, WeightsOf
  <2>3. PendingOfV1(stake_v1[a], Factor) \in Nat
    <3>1. CASE stake_v1[a] = None
      BY <3>1 DEF PendingOfV1
    <3>2. CASE stake_v1[a] # None
      BY <2>1, <3>2, SettledDebtV1
    <3> QED BY <3>1, <3>2
  <2> QED BY <2>1, <2>2, <2>3, WeightOfNat
<1> QED BY <1>2, <1>3

\* The same after a step.
LEMMA PoolTypesNext ==
  TypeOK' => (\A h \in 1 .. NumHolders : Claims[h] \in Nat /\ Weights[h] \in Nat)'
<1>1. TypeOK => \A h \in 1 .. NumHolders : Claims[h] \in Nat /\ Weights[h] \in Nat
  BY PoolTypes
<1> QED BY <1>1, PTL

\* No account has seen more of the factor than there is.
SeenWithin ==
    /\ \A s \in Stakes : stake[s] # None => stake[s].rewards_factor <= Factor
    /\ \A a \in Authorities : stake_v1[a] # None => stake_v1[a].rewards_factor <= Factor

LEMMA SeenNext == ASSUME TypeOK, SeenWithin, YieldKinds PROVE SeenWithin'
<1>0. /\ Factor \in Nat /\ Factor <= Factor
      /\ stake \in [Stakes -> Account] /\ stake_v1 \in [Authorities -> AccountV1]
  BY FactorNat, Rest
<1>1. CASE Still
  BY <1>1 DEF Still, SeenWithin
<1>2. ASSUME NEW s \in Stakes, Settles(s) PROVE SeenWithin'
  <2>1. PICK v, out : SettlesTo(s, v, out)
    BY <1>2 DEF Settles
  <2>2. /\ stake' = [stake EXCEPT ![s] = v] /\ stake_v1' = stake_v1 /\ Factor' = Factor
        /\ v # None => \/ v.rewards_factor = Factor
                       \/ stake[s] # None /\ v.rewards_factor = stake[s].rewards_factor
    BY <2>1 DEF SettlesTo
  <2>3. v # None => v.rewards_factor <= Factor
    <3> HIDE DEF Factor
    <3> QED BY <1>0, <2>2 DEF SeenWithin
  <2> QED BY <1>0, <2>2, <2>3 DEF SeenWithin
<1>3. ASSUME NEW s \in Stakes, ClosePhantomStakeV2(s) PROVE SeenWithin'
  <2>1. stake' = [stake EXCEPT ![s] = None] /\ stake_v1' = stake_v1 /\ Factor' = Factor
    BY <1>3 DEF ClosePhantomStakeV2, Factor
  <2> QED BY <1>0, <2>1 DEF SeenWithin
<1>4. ASSUME NEW a \in Authorities, SettlesV1(a) PROVE SeenWithin'
  <2>1. PICK v, out : SettlesToV1(a, v, out)
    BY <1>4 DEF SettlesV1
  <2>2. /\ stake_v1' = [stake_v1 EXCEPT ![a] = v] /\ stake' = stake /\ Factor' = Factor
        /\ v # None => v.rewards_factor = Factor
    BY <2>1 DEF SettlesToV1
  <2> QED BY <1>0, <2>2 DEF SeenWithin
<1>5. ASSUME NEW target \in Stakes, NEW source \in Stakes, Folds(target, source)
      PROVE  SeenWithin'
  <2>1. PICK merged \in StakeRecord :
          /\ stake' = [stake EXCEPT ![target] = merged, ![source] = None]
          /\ merged.rewards_factor = Factor
    BY <1>5 DEF Folds
  <2>2. stake_v1' = stake_v1 /\ Factor' = Factor
    BY <1>5 DEF Folds
  <2> QED BY <1>0, <2>1, <2>2 DEF SeenWithin
<1>6. ASSUME NEW shared \in Nat, Shares(shared) PROVE SeenWithin'
  <2>1. stake' = stake /\ stake_v1' = stake_v1 /\ Factor' = Factor + PerUnit(shared)
        /\ PerUnit(shared) \in Nat
    BY <1>6, PerUnitWithin DEF Shares
  <2>2. \A seen \in Nat : seen <= Factor => seen <= Factor'
    <3> HIDE DEF Factor
    <3> QED BY <1>0, <2>1
  <2>3. /\ \A s \in Stakes : stake[s] # None => stake[s].rewards_factor \in Nat
        /\ \A a \in Authorities : stake_v1[a] # None => stake_v1[a].rewards_factor \in Nat
    BY <1>0 DEF Account, AccountV1, StakeRecord, StakeV1Record
  <2> QED BY <2>1, <2>2, <2>3 DEF SeenWithin
<1> QED BY <1>1, <1>2, <1>3, <1>4, <1>5, <1>6 DEF YieldKinds

\* One holder does business with the pool.
LEMMA DealAlone ==
  ASSUME NEW h \in 1 .. NumHolders,
         \A g \in (1 .. NumHolders) \ {h} : Claims'[g] = Claims[g] /\ Weights'[g] = Weights[g],
         Claims'[h] \in Nat, Claims[h] \in Nat, Weights'[h] \in Nat, Weights[h] \in Nat,
         Claims'[h] <= Claims[h], owed - owed' = Claims[h] - Claims'[h],
         treasury'.total_staked - treasury.total_staked = Weights'[h] - Weights[h]
  PROVE  \E g, k \in YieldPool!Holders : YieldPool!Deal(g, k)
<1>1. h \in YieldPool!Holders /\ {h, h} = {h}
  BY DEF YieldPool!Holders
<1>2. YieldPool!OthersKeep({h})
  BY DEF YieldPool!OthersKeep, YieldPool!Holders
<1>3. \A c : YieldPool!OfPair(c, h, h) = c[h] + 0
  BY DEF YieldPool!OfPair
<1>4. /\ YieldPool!OfPair(Claims, h, h) = Claims[h]
      /\ YieldPool!OfPair(Claims', h, h) = Claims'[h]
      /\ YieldPool!OfPair(Weights, h, h) = Weights[h]
      /\ YieldPool!OfPair(Weights', h, h) = Weights'[h]
  BY <1>3
<1>5. YieldPool!Deal(h, h)
  BY <1>1, <1>2, <1>4 DEF YieldPool!Deal
<1> QED BY <1>1, <1>5

\* The total follows the weights.
LEMMA TotalFollows ==
  ASSUME TypeOK, TypeOK', Drift' = Drift
  PROVE  treasury'.total_staked - treasury.total_staked
           = (TotalOf(stake') - TotalOf(stake)) + (TotalOfV1(stake_v1') - TotalOfV1(stake_v1))
<1>1. /\ Drift = treasury.total_staked - (TotalOf(stake) + TotalOfV1(stake_v1))
      /\ Drift' = treasury'.total_staked - (TotalOf(stake') + TotalOfV1(stake_v1'))
  BY TotalsAre, TotalsAreNext DEF Drift
<1>2. /\ treasury.total_staked \in Nat /\ treasury'.total_staked \in Nat
      /\ TotalOf(stake) \in Nat /\ TotalOfV1(stake_v1) \in Nat
  BY TreasuryTypes, TotalsAre, TotalsNat DEF TypeOK, TreasuryRecord
<1>3. TotalOf(stake') \in Nat /\ TotalOfV1(stake_v1') \in Nat
  BY TotalsAreNext, TotalsNatNext
<1> QED BY <1>1, <1>2, <1>3

LEMMA SettlesDeal ==
  ASSUME TypeOK, TypeOK', Drift' = Drift, NEW s \in Stakes, Settles(s)
  PROVE  \E g, k \in YieldPool!Holders : YieldPool!Deal(g, k)
<1>1. PICK v, out : SettlesTo(s, v, out)
  BY DEF Settles
<1>2. /\ v \in Account /\ out \in Nat /\ owed \in Int
      /\ stake' = [stake EXCEPT ![s] = v] /\ stake_v1' = stake_v1
      /\ Factor' = Factor /\ owed' = owed - out
      /\ PendingOf(v, Factor) + out = PendingOf(stake[s], Factor)
      /\ stake \in [Stakes -> Account] /\ stake_v1 \in [Authorities -> AccountV1]
  BY <1>1, Rest DEF SettlesTo
<1>3. s \in 1 .. NumHolders /\ s <= NumStakes
  BY HolderKinds
<1>4. /\ Claims = ClaimsOf(stake, stake_v1, Factor)
      /\ Weights = WeightsOf(stake, stake_v1)
      /\ Claims' = ClaimsOf(stake', stake_v1', Factor')
      /\ Weights' = WeightsOf(stake', stake_v1')
  BY PoolForms, PoolFormsNext
<1>5. ASSUME NEW g \in (1 .. NumHolders) \ {s}
      PROVE  Claims'[g] = Claims[g] /\ Weights'[g] = Weights[g]
  BY <1>2, <1>4, HolderKinds DEF ClaimsOf, WeightsOf
<1>6. /\ Claims[s] = PendingOf(stake[s], Factor) /\ Claims'[s] = PendingOf(v, Factor)
      /\ Weights[s] = WeightOf(stake[s]) /\ Weights'[s] = WeightOf(v)
  BY <1>2, <1>3, <1>4 DEF ClaimsOf, WeightsOf
<1>7. /\ Claims[s] \in Nat /\ Claims'[s] \in Nat
      /\ Weights[s] \in Nat /\ Weights'[s] \in Nat
  BY <1>2, <1>6, PendingWithin, WeightOfNat
<1>8. Claims'[s] <= Claims[s] /\ owed - owed' = Claims[s] - Claims'[s]
  <2> DEFINE p == PendingOf(v, Factor)
             q == PendingOf(stake[s], Factor)
  <2>1. p \in Nat /\ q \in Nat /\ p + out = q
    BY <1>2, <1>6, <1>7
  <2> HIDE DEF p, q
  <2>2. p <= q /\ owed - (owed - out) = q - p
    BY <1>2, <2>1
  <2> QED BY <1>2, <1>6, <2>2 DEF p, q
<1>9. treasury'.total_staked - treasury.total_staked = Weights'[s] - Weights[s]
  <2>1. TotalOf(stake') = TotalOf(stake) + WeightOf(v) - WeightOf(stake[s])
        /\ TotalOf(stake) \in Nat
    BY <1>2, TotalUpdate
  <2>2. TotalOfV1(stake_v1') = TotalOfV1(stake_v1) /\ TotalOfV1(stake_v1) \in Nat
    BY <1>2, TotalsAre, TotalsNat
  <2>3. treasury'.total_staked - treasury.total_staked
          = (TotalOf(stake') - TotalOf(stake)) + (TotalOfV1(stake_v1') - TotalOfV1(stake_v1))
    BY TotalFollows
  <2> DEFINE x == TotalOf(stake)
             y == TotalOfV1(stake_v1)
             w == WeightOf(v)
             u == WeightOf(stake[s])
  <2>4. x \in Nat /\ y \in Nat /\ w \in Nat /\ u \in Nat
    BY <1>6, <1>7, <2>1, <2>2
  <2>5. treasury'.total_staked - treasury.total_staked = ((x + w - u) - x) + (y - y)
    BY <2>1, <2>2, <2>3
  <2> HIDE DEF x, y, w, u
  <2>6. ((x + w - u) - x) + (y - y) = w - u
    BY <2>4
  <2> QED BY <1>6, <2>5, <2>6 DEF w, u
<1> QED BY <1>3, <1>5, <1>7, <1>8, <1>9, DealAlone

LEMMA SettlesDealV1 ==
  ASSUME TypeOK, TypeOK', Drift' = Drift, NEW a \in Authorities, SettlesV1(a)
  PROVE  \E g, k \in YieldPool!Holders : YieldPool!Deal(g, k)
<1> DEFINE h == NumStakes + a
<1>1. PICK v, out : SettlesToV1(a, v, out)
  BY DEF SettlesV1
<1>2. /\ v \in AccountV1 /\ out \in Nat /\ owed \in Int
      /\ stake_v1' = [stake_v1 EXCEPT ![a] = v] /\ stake' = stake
      /\ Factor' = Factor /\ owed' = owed - out
      /\ PendingOfV1(v, Factor) + out = PendingOfV1(stake_v1[a], Factor)
      /\ stake \in [Stakes -> Account] /\ stake_v1 \in [Authorities -> AccountV1]
  BY <1>1, Rest DEF SettlesToV1
<1>3. h \in 1 .. NumHolders /\ ~ (h <= NumStakes) /\ h - NumStakes = a
  BY HolderKinds
<1>4. /\ Claims = ClaimsOf(stake, stake_v1, Factor)
      /\ Weights = WeightsOf(stake, stake_v1)
      /\ Claims' = ClaimsOf(stake', stake_v1', Factor')
      /\ Weights' = WeightsOf(stake', stake_v1')
  BY PoolForms, PoolFormsNext
<1>5. ASSUME NEW g \in (1 .. NumHolders) \ {h}
      PROVE  Claims'[g] = Claims[g] /\ Weights'[g] = Weights[g]
  <2>1. CASE g <= NumStakes
    BY <1>2, <1>4, <2>1, HolderKinds DEF ClaimsOf, WeightsOf
  <2>2. CASE ~ (g <= NumStakes)
    <3>1. g - NumStakes \in Authorities /\ g - NumStakes # a
      BY <2>2, HolderKinds DEF Authorities
    <3>2. stake_v1'[g - NumStakes] = stake_v1[g - NumStakes]
      BY <1>2, <3>1
    <3> QED BY <1>2, <1>4, <2>2, <3>2 DEF ClaimsOf, WeightsOf
  <2> QED BY <2>1, <2>2
<1>6. /\ Claims[h] = PendingOfV1(stake_v1[a], Factor) /\ Claims'[h] = PendingOfV1(v, Factor)
      /\ Weights[h] = WeightOfV1(stake_v1[a]) /\ Weights'[h] = WeightOfV1(v)
  <2> HIDE DEF h
  <2> QED BY <1>2, <1>3, <1>4 DEF ClaimsOf, WeightsOf
<1>7. /\ Claims[h] \in Nat /\ Claims'[h] \in Nat
      /\ Weights[h] \in Nat /\ Weights'[h] \in Nat
  <2>1. (\A g \in 1 .. NumHolders : Claims[g] \in Nat /\ Weights[g] \in Nat)'
    BY PoolTypesNext
  <2> QED BY <1>3, <2>1, PoolTypes
<1> HIDE DEF h
<1>8. Claims'[h] <= Claims[h] /\ owed - owed' = Claims[h] - Claims'[h]
  <2> DEFINE p == PendingOfV1(v, Factor)
             q == PendingOfV1(stake_v1[a], Factor)
  <2>1. p \in Nat /\ q \in Nat /\ p + out = q
    BY <1>2, <1>6, <1>7
  <2> HIDE DEF p, q
  <2>2. p <= q /\ owed - (owed - out) = q - p
    BY <1>2, <2>1
  <2> QED BY <1>2, <1>6, <2>2 DEF p, q
<1>9. treasury'.total_staked - treasury.total_staked = Weights'[h] - Weights[h]
  <2>1. TotalOfV1(stake_v1') = TotalOfV1(stake_v1) + WeightOfV1(v) - WeightOfV1(stake_v1[a])
        /\ TotalOfV1(stake_v1) \in Nat
    BY <1>2, TotalUpdateV1
  <2>2. TotalOf(stake') = TotalOf(stake) /\ TotalOf(stake) \in Nat
    BY <1>2, TotalsAre, TotalsNat
  <2>3. treasury'.total_staked - treasury.total_staked
          = (TotalOf(stake') - TotalOf(stake)) + (TotalOfV1(stake_v1') - TotalOfV1(stake_v1))
    BY TotalFollows
  <2> DEFINE x == TotalOf(stake)
             y == TotalOfV1(stake_v1)
             w == WeightOfV1(v)
             u == WeightOfV1(stake_v1[a])
  <2>4. x \in Nat /\ y \in Nat /\ w \in Nat /\ u \in Nat
    BY <1>6, <1>7, <2>1, <2>2
  <2>5. treasury'.total_staked - treasury.total_staked = (x - x) + ((y + w - u) - y)
    BY <2>1, <2>2, <2>3
  <2> HIDE DEF x, y, w, u
  <2>6. (x - x) + ((y + w - u) - y) = w - u
    BY <2>4
  <2> QED BY <1>6, <2>5, <2>6 DEF w, u
<1> QED BY <1>3, <1>5, <1>7, <1>8, <1>9, DealAlone

LEMMA FoldsDeal ==
  ASSUME TypeOK, TypeOK', Drift' = Drift, NEW target \in Stakes, NEW source \in Stakes,
         Folds(target, source)
  PROVE  YieldPool!Deal(target, source)
<1> DEFINE x == PendingOf(stake[target], Factor)
           y == PendingOf(stake[source], Factor)
<1>1. PICK merged \in StakeRecord :
         /\ stake' = [stake EXCEPT ![target] = merged, ![source] = None]
         /\ merged.rewards_factor = Factor
         /\ merged.rewards = x + y
  BY DEF Folds
<1>2. /\ target # source /\ stake_v1' = stake_v1 /\ owed' = owed /\ Factor' = Factor
      /\ owed \in Int
      /\ stake \in [Stakes -> Account] /\ stake_v1 \in [Authorities -> AccountV1]
      /\ merged \in Account /\ None \in Account
  BY Rest DEF Folds, Account
<1>3. /\ target \in 1 .. NumHolders /\ target <= NumStakes
      /\ source \in 1 .. NumHolders /\ source <= NumStakes
  BY HolderKinds
<1>4. /\ Claims = ClaimsOf(stake, stake_v1, Factor)
      /\ Weights = WeightsOf(stake, stake_v1)
      /\ Claims' = ClaimsOf(stake', stake_v1', Factor')
      /\ Weights' = WeightsOf(stake', stake_v1')
  BY PoolForms, PoolFormsNext
<1>5. ASSUME NEW g \in (1 .. NumHolders) \ {target, source}
      PROVE  Claims'[g] = Claims[g] /\ Weights'[g] = Weights[g]
  BY <1>1, <1>2, <1>4, HolderKinds DEF ClaimsOf, WeightsOf
<1>6. PendingOf(merged, Factor) = x + y /\ PendingOf(None, Factor) = 0
  BY <1>1, FreshDebt DEF PendingOf
<1>7. /\ Claims[target] = x /\ Claims[source] = y
      /\ Claims'[target] = x + y /\ Claims'[source] = 0
      /\ Weights[target] = WeightOf(stake[target]) /\ Weights[source] = WeightOf(stake[source])
      /\ Weights'[target] = WeightOf(merged) /\ Weights'[source] = 0
  <2>1. stake'[target] = merged /\ stake'[source] = None
    BY <1>1, <1>2
  <2> HIDE DEF x, y
  <2>2. Claims[target] = x /\ Claims[source] = y
    BY <1>3, <1>4 DEF ClaimsOf, x, y
  <2>3. Claims'[target] = x + y /\ Claims'[source] = 0
    BY <1>2, <1>3, <1>4, <1>6, <2>1 DEF ClaimsOf
  <2>4. /\ Weights[target] = WeightOf(stake[target]) /\ Weights[source] = WeightOf(stake[source])
        /\ Weights'[target] = WeightOf(merged) /\ Weights'[source] = 0
    BY <1>3, <1>4, <2>1 DEF WeightsOf, WeightOf
  <2> QED BY <2>2, <2>3, <2>4
<1>8. x \in Nat /\ y \in Nat
  BY <1>2, PendingWithin
<1> HIDE DEF x, y
<1>9. /\ \A c : YieldPool!OfPair(c, target, source) = c[target] + c[source]
  BY <1>2 DEF YieldPool!OfPair
<1>10. treasury'.total_staked - treasury.total_staked
         = (Weights'[target] + Weights'[source]) - (Weights[target] + Weights[source])
  <2> DEFINE mid == [stake EXCEPT ![target] = merged]
             t == TotalOf(stake)
             z == TotalOfV1(stake_v1)
             w == WeightOf(merged)
             u == WeightOf(stake[target])
             v == WeightOf(stake[source])
  <2>1. /\ mid \in [Stakes -> Account] /\ mid[source] = stake[source]
        /\ stake' = [mid EXCEPT ![source] = None]
    BY <1>1, <1>2
  <2>2. TotalOf(mid) = t + w - u /\ t \in Nat
    BY <1>2, TotalUpdate
  <2>3. TotalOf([mid EXCEPT ![source] = None]) = TotalOf(mid) + WeightOf(None) - WeightOf(mid[source])
    BY <1>2, <2>1, TotalUpdate
  <2>4. WeightOf(None) = 0 /\ w \in Nat /\ u \in Nat /\ v \in Nat /\ z \in Nat
    <3>1. z \in Nat
      BY TotalsAre, TotalsNat
    <3> QED BY <1>2, <3>1, WeightOfNat DEF WeightOf
  <2>5. treasury'.total_staked - treasury.total_staked
          = (TotalOf(stake') - t) + (TotalOfV1(stake_v1') - z)
    BY TotalFollows
  <2>6. TotalOf(stake') = ((t + w - u) + 0) - v /\ TotalOfV1(stake_v1') = z
    BY <1>2, <2>1, <2>2, <2>3, <2>4
  <2> HIDE DEF t, z, w, u, v
  <2>7. ((((t + w - u) + 0) - v) - t) + (z - z) = (w + 0) - (u + v)
    BY <2>2, <2>4
  <2> QED BY <1>7, <2>5, <2>6, <2>7 DEF w, u, v
<1>11. owed - owed' = 0 /\ (x + y) - (x + y) = 0 /\ (x + y) + 0 = x + y /\ x + y <= x + y
  BY <1>2, <1>8
<1>12. YieldPool!OthersKeep({target, source})
  BY <1>5 DEF YieldPool!OthersKeep, YieldPool!Holders
<1>13. /\ YieldPool!OfPair(Claims, target, source) = x + y
       /\ YieldPool!OfPair(Claims', target, source) = x + y
       /\ YieldPool!OfPair(Weights, target, source) = Weights[target] + Weights[source]
       /\ YieldPool!OfPair(Weights', target, source) = Weights'[target] + Weights'[source]
  BY <1>7, <1>9, <1>11
<1> QED BY <1>10, <1>11, <1>12, <1>13 DEF YieldPool!Deal

LEMMA PhantomForfeits ==
  ASSUME TypeOK, TypeOK', NEW s \in Stakes, ClosePhantomStakeV2(s)
  PROVE  YieldPool!Forfeit(s)
<1>1. /\ stake' = [stake EXCEPT ![s] = None] /\ stake_v1' = stake_v1
      /\ treasury' = treasury /\ owed' = owed /\ Factor' = Factor
      /\ stake[s] # None /\ stake[s].balance = 0
      /\ stake \in [Stakes -> Account] /\ stake[s] \in StakeRecord
  BY Rest, TouchedType DEF ClosePhantomStakeV2, Factor, SweptBalance
<1>2. s \in 1 .. NumHolders /\ s <= NumStakes
  BY HolderKinds
<1>3. /\ Claims = ClaimsOf(stake, stake_v1, Factor)
      /\ Weights = WeightsOf(stake, stake_v1)
      /\ Claims' = ClaimsOf(stake', stake_v1', Factor')
      /\ Weights' = WeightsOf(stake', stake_v1')
  BY PoolForms, PoolFormsNext
<1>4. ASSUME NEW g \in (1 .. NumHolders) \ {s}
      PROVE  Claims'[g] = Claims[g] /\ Weights'[g] = Weights[g]
  BY <1>1, <1>3, HolderKinds DEF ClaimsOf, WeightsOf
<1>5. WeightOf(stake[s]) = 0
  BY <1>1, EmptyWeight DEF WeightOf
<1>6. Weights[s] = 0 /\ Weights'[s] = 0 /\ Claims'[s] = 0
  BY <1>1, <1>2, <1>3, <1>5 DEF ClaimsOf, WeightsOf, PendingOf, WeightOf
<1>7. Weights' = Weights
  <2>1. \A h \in 1 .. NumHolders : Weights'[h] = Weights[h]
    BY <1>4, <1>6
  <2>2. Weights = [h \in 1 .. NumHolders |-> Weights[h]]
    BY <1>3 DEF WeightsOf
  <2>3. Weights' = [h \in 1 .. NumHolders |-> Weights'[h]]
    BY <1>3 DEF WeightsOf
  <2> QED BY <2>1, <2>2, <2>3
<1>8. YieldPool!OthersKeep({s})
  BY <1>4 DEF YieldPool!OthersKeep, YieldPool!Holders
<1> QED BY <1>1, <1>6, <1>7, <1>8 DEF YieldPool!Forfeit

\* The bound on truncation covers every weight.  A weight is a u64 and FRACTION
\* is 2^48, so that 2^16 + 1 units do.
LossCovers ==
    /\ MaxShareLoss \in Nat \ {0}
    /\ \A h \in 1 .. NumHolders : Weights[h] <= (MaxShareLoss - 1) * FRACTION

\* What a holder gains when an amount is shared.
ShareRead(h, shared) ==
    LET part == Claims'[h] - Claims[h]
    IN  /\ part >= 0
        /\ treasury.total_staked > 0 =>
             /\ part * treasury.total_staked < shared * Weights[h] + treasury.total_staked
             /\ (part + MaxShareLoss) * treasury.total_staked >= shared * Weights[h]

LEMMA HolderShare ==
  ASSUME TypeOK, TypeOK', SeenWithin, LossCovers, NEW shared \in Nat, Shares(shared),
         NEW h \in 1 .. NumHolders
  PROVE  ShareRead(h, shared)
<1> DEFINE T == treasury.total_staked
           L == MaxShareLoss
           p == PerUnit(shared)
           c == Claims[h]
           d == Claims'[h]
           w == Weights[h]
<1>1. /\ stake' = stake /\ stake_v1' = stake_v1 /\ Factor' = Factor + p
      /\ stake \in [Stakes -> Account] /\ stake_v1 \in [Authorities -> AccountV1]
      /\ T \in Nat /\ Factor \in Nat /\ p \in Nat
      /\ L \in Nat \ {0} /\ FRACTION \in Nat \ {0}
      /\ w \in Nat /\ w <= (L - 1) * FRACTION /\ c \in Nat /\ d \in Nat
  <2>1. (\A g \in 1 .. NumHolders : Claims[g] \in Nat /\ Weights[g] \in Nat)'
    BY PoolTypesNext
  <2> QED BY <2>1, Rest, TreasuryTypes, FactorNat, PerUnitWithin, PoolTypes, ScaleTypes
         DEF Shares, LossCovers
<1>2. T > 0 => p = (shared * FRACTION) \div T
  BY <1>1 DEF PerUnit
<1>3. T = 0 => p = 0
  BY DEF PerUnit
<1>4. /\ Claims = ClaimsOf(stake, stake_v1, Factor)
      /\ Weights = WeightsOf(stake, stake_v1)
      /\ Claims' = ClaimsOf(stake', stake_v1', Factor')
  BY PoolForms, PoolFormsNext
\* The account of the holder, if there is one.
<1>5. \/ c = 0 /\ d = 0 /\ w = 0
      \/ \E r, seen \in Nat :
           /\ seen <= Factor
           /\ c = r + (Monus(Factor, seen) * w) \div FRACTION
           /\ d = r + (Monus(Factor + p, seen) * w) \div FRACTION
  <2> HIDE DEF p
  <2>1. CASE h <= NumStakes
    <3>1. h \in Stakes /\ stake[h] \in Account
      BY <1>1, <2>1, HolderKinds
    <3>2. /\ c = PendingOf(stake[h], Factor) /\ d = PendingOf(stake[h], Factor + p)
          /\ w = WeightOf(stake[h])
      BY <1>1, <1>4, <2>1 DEF ClaimsOf, WeightsOf
    <3> HIDE DEF c, d, w
    <3>3. CASE stake[h] = None
      BY <3>2, <3>3 DEF PendingOf, WeightOf
    <3>4. CASE stake[h] # None
      <4>1. stake[h].rewards \in Nat /\ stake[h].rewards_factor \in Nat
            /\ stake[h].rewards_factor <= Factor
        BY <3>1, <3>4 DEF Account, StakeRecord, SeenWithin
      <4>2. /\ c = stake[h].rewards
                     + (Monus(Factor, stake[h].rewards_factor) * w) \div FRACTION
            /\ d = stake[h].rewards
                     + (Monus(Factor + p, stake[h].rewards_factor) * w) \div FRACTION
        BY <3>2, <3>4 DEF PendingOf, WeightOf
      <4> QED BY <4>1, <4>2
    <3> QED BY <3>3, <3>4
  <2>2. CASE ~ (h <= NumStakes)
    <3> DEFINE a == h - NumStakes
    <3>1. a \in Authorities /\ stake_v1[a] \in AccountV1
      BY <1>1, <2>2, HolderKinds
    <3>2. /\ c = PendingOfV1(stake_v1[a], Factor) /\ d = PendingOfV1(stake_v1[a], Factor + p)
          /\ w = WeightOfV1(stake_v1[a])
      BY <1>1, <1>4, <2>2 DEF ClaimsOf, WeightsOf
    <3> HIDE DEF a, c, d, w
    <3>3. CASE stake_v1[a] = None
      BY <3>2, <3>3 DEF PendingOfV1, WeightOfV1
    <3>4. CASE stake_v1[a] # None
      <4>1. stake_v1[a].rewards \in Nat /\ stake_v1[a].rewards_factor \in Nat
            /\ stake_v1[a].rewards_factor <= Factor
        BY <3>1, <3>4 DEF AccountV1, StakeV1Record, SeenWithin
      <4>2. /\ c = stake_v1[a].rewards
                     + (Monus(Factor, stake_v1[a].rewards_factor) * w) \div FRACTION
            /\ d = stake_v1[a].rewards
                     + (Monus(Factor + p, stake_v1[a].rewards_factor) * w) \div FRACTION
        BY <3>2, <3>4 DEF PendingOfV1, WeightOfV1
      <4> QED BY <4>1, <4>2
    <3> QED BY <3>3, <3>4
  <2> QED BY <2>1, <2>2
<1> HIDE DEF T, L, p, c, d, w
<1>6. CASE c = 0 /\ d = 0 /\ w = 0
  <2>1. shared * 0 = 0 /\ 0 * T = 0 /\ L * T \in Nat /\ 0 - 0 = 0 /\ 0 + L = L
    BY <1>1
  <2> QED BY <1>1, <1>6, <2>1 DEF ShareRead, T, L, c, d, w
<1>7. ASSUME NEW r \in Nat, NEW seen \in Nat, seen <= Factor,
             c = r + (Monus(Factor, seen) * w) \div FRACTION,
             d = r + (Monus(Factor + p, seen) * w) \div FRACTION
      PROVE  ShareRead(h, shared)
  <2>1. CASE T > 0
    <3>1. T \in Nat \ {0}
      BY <1>1, <2>1
    <3> DEFINE q == (shared * FRACTION) \div T
               x == (r + (Monus(Factor + q, seen) * w) \div FRACTION)
                      - (r + (Monus(Factor, seen) * w) \div FRACTION)
    <3>2. x >= 0 /\ x * T < shared * w + T /\ (x + L) * T >= shared * w
      <4> HIDE DEF Factor
      <4> QED BY <1>1, <1>7, <3>1, FactorShare
    <3>3. x = d - c
      BY <1>2, <1>7, <2>1
    <3> HIDE DEF x
    <3> QED BY <3>2, <3>3 DEF ShareRead, T, L, c, d, w
  <2>2. CASE ~ (T > 0)
    <3>1. p = 0 /\ Factor + 0 = Factor
      <4> HIDE DEF Factor
      <4> QED BY <1>1, <1>3, <2>2
    <3>2. d = c
      BY <1>7, <3>1
    <3>3. d - c >= 0
      BY <1>1, <3>2
    <3> QED BY <2>2, <3>3 DEF ShareRead, T, c, d
  <2> QED BY <2>1, <2>2
<1> QED BY <1>5, <1>6, <1>7

LEMMA SharesDistribute ==
  ASSUME TypeOK, TypeOK', SeenWithin, LossCovers, NEW shared \in Nat, Shares(shared)
  PROVE  YieldPool!Distribute
<1>1. /\ stake' = stake /\ stake_v1' = stake_v1 /\ owed' = owed + shared /\ owed \in Int
      /\ treasury'.total_staked = treasury.total_staked
  BY Rest DEF Shares
<1>2. owed' >= owed /\ owed' - owed = shared
  BY <1>1
<1>3. Weights' = Weights
  BY <1>1, PoolForms, PoolFormsNext
<1>4. \A h \in 1 .. NumHolders : ShareRead(h, shared)
  BY HolderShare
<1>5. \A h \in 1 .. NumHolders : YieldPool!Receives(h, shared, treasury.total_staked)
  BY <1>4 DEF YieldPool!Receives, ShareRead
<1>6. YieldPool!SharedBy(YieldPool!Holders, owed' - owed, treasury.total_staked)
  BY <1>2, <1>5 DEF YieldPool!SharedBy, YieldPool!Holders
<1> QED BY <1>1, <1>2, <1>3, <1>6 DEF YieldPool!Distribute

\* Sums in the pool are the sums here.
LEMMA PoolSum == \A f, n : YieldPool!Sum(f, n) = Sum(f, n)
BY DEF YieldPool!Sum, YieldPool!PartialSums, Sum, PartialSums

LEMMA PoolSolvent == YieldInv => YieldPool!Solvent
<1> SUFFICES ASSUME YieldInv PROVE YieldPool!Solvent
  OBVIOUS
<1>1. TypeOK /\ TotalPending <= owed
  BY PendingCovered DEF YieldInv
<1> DEFINE p == [s \in Stakes |-> Pending(s)]
           q == [a \in Authorities |-> PendingV1(a)]
<1>2. /\ NumStakes \in Nat /\ NumAuthorities \in Nat /\ NumHolders = NumStakes + NumAuthorities
      /\ Stakes = 1 .. NumStakes /\ Authorities = 1 .. NumAuthorities
  BY HolderKinds DEF NumHolders, Stakes, Authorities
<1>3. \A i \in 1 .. NumStakes : p[i] \in Nat /\ Claims[i] = p[i]
  BY <1>1, <1>2, HolderKinds, PoolTypes DEF Claims
<1>4. \A j \in 1 .. NumAuthorities : q[j] \in Nat /\ Claims[NumStakes + j] = q[j]
  BY <1>1, <1>2, HolderKinds, PoolTypes DEF Claims
<1>5. TotalPending = Sum(p, NumStakes) + Sum(q, NumAuthorities)
  BY DEF TotalPending
<1> HIDE DEF p, q
<1>6. Sum(Claims, NumHolders) = TotalPending
  <2>1. Joined(p, q, Claims, NumStakes, NumAuthorities)
    BY <1>3, <1>4 DEF Joined
  <2>2. Sum(Claims, NumStakes + NumAuthorities) = Sum(p, NumStakes) + Sum(q, NumAuthorities)
    BY <1>2, <2>1, SumJoin
  <2> QED BY <1>2, <1>5, <2>2
<1> QED BY <1>1, <1>6, PoolSum DEF YieldPool!Solvent

LEMMA PoolSolventNext == YieldInv' => YieldPool!Solvent'
<1>1. (YieldInv => YieldPool!Solvent)'
  BY PoolSolvent, PTL
<1> QED BY <1>1

PoolInv == YieldInv /\ SeenWithin

LEMMA PoolNext ==
  ASSUME PoolInv, LossCovers, [Next]_vars, [~ RebaseTotalStaked]_vars
  PROVE  PoolInv' /\ [YieldPool!Next]_(YieldPool!vars)
<1>1. YieldInv /\ SeenWithin /\ TypeOK
  BY DEF PoolInv, YieldInv
<1>0. ~ RebaseTotalStaked
  BY <1>1, RebaseMoves
<1>2. YieldInv' /\ TypeOK' /\ Drift' = Drift
  BY <1>0, <1>1, YieldNext, NextKeeps
<1>3. YieldKinds
  BY <1>0, <1>1, StepKinds
<1>4. PoolInv'
  BY <1>1, <1>2, <1>3, SeenNext DEF PoolInv
<1>5. YieldPool!Solvent'
  BY <1>2, PoolSolventNext
<1>6. \A s \in Stakes : s \in YieldPool!Holders
  BY HolderKinds DEF YieldPool!Holders
<1>7. CASE Still /\ treasury' = treasury
  <2>1. Claims' = Claims /\ Weights' = Weights
    BY <1>1, <1>2, <1>7, PoolForms, PoolFormsNext DEF Still
  <2>2. owed' = owed /\ treasury'.total_staked = treasury.total_staked
    BY <1>7 DEF Still
  <2>3. UNCHANGED YieldPool!vars
    BY <2>1, <2>2 DEF YieldPool!vars
  <2> QED BY <1>4, <2>3
<1>8. ASSUME \/ \E g, k \in YieldPool!Holders : YieldPool!Deal(g, k)
             \/ \E s \in Stakes : YieldPool!Forfeit(s)
             \/ YieldPool!Distribute
      PROVE  YieldPool!Next
  BY <1>5, <1>6, <1>8 DEF YieldPool!Next
<1>9. CASE \/ \E s \in Stakes : Settles(s)
           \/ \E a \in Authorities : SettlesV1(a)
  BY <1>1, <1>2, <1>4, <1>8, <1>9, SettlesDeal, SettlesDealV1
<1>11. ASSUME NEW target \in Stakes, NEW source \in Stakes, Folds(target, source)
       PROVE  YieldPool!Next
  <2>1. YieldPool!Deal(target, source)
    BY <1>1, <1>2, <1>11, FoldsDeal
  <2> QED BY <1>6, <1>8, <2>1
<1>10. CASE \/ \E s \in Stakes : ClosePhantomStakeV2(s)
            \/ \E shared \in Nat : Shares(shared)
  BY <1>1, <1>2, <1>4, <1>8, <1>10, PhantomForfeits, SharesDistribute
<1> QED BY <1>3, <1>4, <1>7, <1>9, <1>10, <1>11 DEF YieldKinds

\* No account has seen any of the factor when the history begins.
GenesisUnseen ==
    /\ \A s \in Stakes : Genesis[s] # None => Genesis[s].rewards_factor = 0
    /\ \A a \in Authorities : GenesisV1[a] # None => GenesisV1[a].rewards_factor = 0

LEMMA PoolInit ==
  ASSUME GenesisSettled, GenesisUnseen, Init PROVE PoolInv /\ YieldPool!Init
<1>1. YieldInv /\ TypeOK
  BY YieldInit DEF YieldInv
<1>2. /\ Factor = 0 /\ owed = 0 /\ stake = Genesis /\ stake_v1 = GenesisV1
      /\ stake \in [Stakes -> Account] /\ stake_v1 \in [Authorities -> AccountV1]
  BY <1>1, Rest DEF Init, Factor
<1>3. SeenWithin
  BY <1>2 DEF GenesisUnseen, SeenWithin
<1>4. ASSUME NEW h \in 1 .. NumHolders PROVE Claims[h] = 0
  <2>1. Claims = ClaimsOf(stake, stake_v1, Factor)
    BY <1>1, PoolForms
  <2>2. CASE h <= NumStakes
    <3>1. Claims[h] = PendingOf(stake[h], Factor) /\ h \in Stakes
      BY <2>1, <2>2, HolderKinds DEF ClaimsOf
    <3>2. CASE stake[h] = None
      BY <3>1, <3>2 DEF PendingOf
    <3>3. CASE stake[h] # None
      <4>1. stake[h] \in StakeRecord /\ stake[h].rewards_factor = Factor /\ stake[h].rewards = 0
        BY <1>2, <3>1, <3>3 DEF Account, GenesisSettled, GenesisUnseen
      <4> QED BY <1>1, <3>1, <4>1, FreshDebt
    <3> QED BY <3>2, <3>3
  <2>3. CASE ~ (h <= NumStakes)
    <3> DEFINE a == h - NumStakes
    <3>1. Claims[h] = PendingOfV1(stake_v1[a], Factor) /\ a \in Authorities
      BY <2>1, <2>3, HolderKinds DEF ClaimsOf
    <3> HIDE DEF a
    <3>2. CASE stake_v1[a] = None
      BY <3>1, <3>2 DEF PendingOfV1
    <3>3. CASE stake_v1[a] # None
      <4>1. stake_v1[a] \in StakeV1Record /\ stake_v1[a].rewards_factor = Factor
            /\ stake_v1[a].rewards = 0
        BY <1>2, <3>1, <3>3 DEF AccountV1, GenesisSettled, GenesisUnseen
      <4> QED BY <1>1, <3>1, <4>1, FreshDebtV1
    <3> QED BY <3>2, <3>3
  <2> QED BY <2>2, <2>3
<1>5. YieldPool!Init
  BY <1>2, <1>4 DEF YieldPool!Init, YieldPool!Holders
<1> QED BY <1>1, <1>3, <1>5 DEF PoolInv

\* Lazy settlement implements the pool, for any number of stakes and accounts of
\* version 1, as long as no rebase writes the total: yield is shared by the weights of the
\* moment it comes in (Distribute), a deposit, withdrawal, claim, compounding,
\* boost, migration or merge moves no claim and no weight but those of its own
\* accounts, total_staked follows the weights, a payment lowers what is owed by
\* as much as the claim, and what is owed covers all claims.
THEOREM YieldPoolImplemented ==
  ASSUME GenesisSettled, GenesisUnseen
  PROVE  Spec /\ [][~ RebaseTotalStaked]_vars /\ []LossCovers => ImplementsPool
<1>1. Init => PoolInv /\ YieldPool!Init
  BY PoolInit
<1>2. PoolInv /\ LossCovers /\ [Next]_vars /\ [~ RebaseTotalStaked]_vars
        => PoolInv' /\ [YieldPool!Next]_(YieldPool!vars)
  BY PoolNext
<1> QED BY <1>1, <1>2, PTL DEF Spec, ImplementsPool, YieldPool!Spec
-----------------------------------------------------------------------------
(* Staking keeps its promises with the OTC desk beside it, and the desk     *)
(* its own: a trade opens a stake as a deposit does, and brings the         *)
(* treasury the bonus on top of what it owes to stakers.                    *)

UserAccount == OtcUserRecord \cup {None}

DeskTypes ==
    /\ otc_treasury \in OtcTreasuryRecord \cup {None}
    /\ otc_user \in [Authorities -> UserAccount]
    /\ chest \in Nat /\ funded \in Nat

\* Before the desk is opened nobody has an account; afterwards its books agree.
DeskBooks ==
    IF otc_treasury = None
    THEN SolIn = 0 /\ GodlOut = 0 /\ GodlBonus = 0 /\ chest = 0 /\ funded = 0
    ELSE /\ otc_treasury.godl_balance <= otc_treasury.tokens
         /\ otc_treasury.sol_balance = otc_treasury.lamports
         /\ SolIn = chest + otc_treasury.sol_balance
         /\ GodlOut + GodlBonus + otc_treasury.godl_balance = funded

DeskInv == DeskTypes /\ DeskBooks
-----------------------------------------------------------------------------
(* The users' accounts *)

\* An empty account counts as one with zeros.
LEMMA UserType == ASSUME DeskTypes, NEW a \in Authorities PROVE User(a) \in OtcUserRecord
BY DEF DeskTypes, User, UserAccount, NewOtcUser, OtcUserRecord

\* What all users paid and got are natural numbers.
LEMMA UserTotalsNat ==
  ASSUME DeskTypes
  PROVE  SolIn \in Nat /\ GodlOut \in Nat /\ GodlBonus \in Nat
<1> DEFINE f == [a \in Authorities |-> User(a).total_sol_in]
           g == [a \in Authorities |-> User(a).total_godl_out]
           h == [a \in Authorities |-> User(a).total_godl_bonus]
<1>1. \A i \in 1 .. NumAuthorities : f[i] \in Nat /\ g[i] \in Nat /\ h[i] \in Nat
  BY UserType DEF Authorities, OtcUserRecord
<1>2. NumAuthorities \in Nat
  BY PartiesAssumption
<1> HIDE DEF f, g, h
<1>3. /\ Sum(f, NumAuthorities) \in Nat /\ Sum(g, NumAuthorities) \in Nat
      /\ Sum(h, NumAuthorities) \in Nat
  BY <1>1, <1>2, SumNat
<1> QED BY <1>3 DEF SolIn, GodlOut, GodlBonus, f, g, h

\* A trade adds what it sells to the totals.
LEMMA TradeTotals ==
  ASSUME DeskTypes, NEW buyer \in Authorities,
         NEW q \in [sol_in : Nat, godl_out : Nat, godl_bonus : Nat,
                    lock_duration : Nat, expiry : Nat],
         otc_user' = [otc_user EXCEPT ![buyer] = Bought(User(buyer), q)]
  PROVE  /\ otc_user' \in [Authorities -> UserAccount]
         /\ SolIn' = SolIn + q.sol_in
         /\ GodlOut' = GodlOut + q.godl_out
         /\ GodlBonus' = GodlBonus + q.godl_bonus
<1> DEFINE u == User(buyer)
           v == Bought(u, q)
           f == [a \in Authorities |-> User(a).total_sol_in]
           g == [a \in Authorities |-> User(a).total_godl_out]
           h == [a \in Authorities |-> User(a).total_godl_bonus]
           f1 == [a \in Authorities |-> User(a)'.total_sol_in]
           g1 == [a \in Authorities |-> User(a)'.total_godl_out]
           h1 == [a \in Authorities |-> User(a)'.total_godl_bonus]
<1>1. u \in OtcUserRecord
  BY UserType
<1>2. /\ v \in OtcUserRecord /\ v # None
      /\ v.total_sol_in = u.total_sol_in + q.sol_in
      /\ v.total_godl_out = u.total_godl_out + q.godl_out
      /\ v.total_godl_bonus = u.total_godl_bonus + q.godl_bonus
  <2>1. v \in OtcUserRecord
    BY <1>1 DEF Bought, OtcUserRecord
  <2> QED BY <2>1, EmptyAssumption DEF Bought
<1> HIDE DEF v
<1>3. otc_user' \in [Authorities -> UserAccount]
  BY <1>2 DEF DeskTypes, UserAccount, v
<1>4. User(buyer)' = v /\ \A a \in Authorities \ {buyer} : User(a)' = User(a)
  BY <1>2 DEF DeskTypes, User, v
<1>5. \A a \in Authorities : User(a)' \in OtcUserRecord /\ User(a) \in OtcUserRecord
  BY <1>2, <1>4, UserType
<1>6. NumAuthorities \in Nat /\ buyer \in 1 .. NumAuthorities
  BY PartiesAssumption DEF Authorities
<1>7. \A i \in 1 .. NumAuthorities :
        /\ f[i] \in Nat /\ g[i] \in Nat /\ h[i] \in Nat
        /\ f1[i] \in Nat /\ g1[i] \in Nat /\ h1[i] \in Nat
  BY <1>5 DEF Authorities, OtcUserRecord
<1>8. \A i \in (1 .. NumAuthorities) \ {buyer} : f1[i] = f[i] /\ g1[i] = g[i] /\ h1[i] = h[i]
  BY <1>4 DEF Authorities
<1>9. /\ f1[buyer] = f[buyer] + q.sol_in /\ g1[buyer] = g[buyer] + q.godl_out
      /\ h1[buyer] = h[buyer] + q.godl_bonus
  BY <1>2, <1>4
<1>10. /\ SolIn' = Sum(f1, NumAuthorities) /\ SolIn = Sum(f, NumAuthorities)
       /\ GodlOut' = Sum(g1, NumAuthorities) /\ GodlOut = Sum(g, NumAuthorities)
       /\ GodlBonus' = Sum(h1, NumAuthorities) /\ GodlBonus = Sum(h, NumAuthorities)
  BY DEF SolIn, GodlOut, GodlBonus, f, g, h, f1, g1, h1
<1> HIDE DEF f, g, h, f1, g1, h1
<1>11. /\ Sum(f1, NumAuthorities) = Sum(f, NumAuthorities) + f1[buyer] - f[buyer]
       /\ Sum(g1, NumAuthorities) = Sum(g, NumAuthorities) + g1[buyer] - g[buyer]
       /\ Sum(h1, NumAuthorities) = Sum(h, NumAuthorities) + h1[buyer] - h[buyer]
  BY <1>6, <1>7, <1>8, SumUpdate
<1>12. SolIn \in Nat /\ GodlOut \in Nat /\ GodlBonus \in Nat
  BY UserTotalsNat
<1>13. q.sol_in \in Nat /\ q.godl_out \in Nat /\ q.godl_bonus \in Nat
  OBVIOUS
<1>14. f[buyer] \in Nat /\ g[buyer] \in Nat /\ h[buyer] \in Nat
  BY <1>6, <1>7
<1> QED BY <1>3, <1>9, <1>10, <1>11, <1>12, <1>13, <1>14

\* Steps that leave the users' accounts alone.
LEMMA SameTotals ==
  ASSUME otc_user' = otc_user
  PROVE  SolIn' = SolIn /\ GodlOut' = GodlOut /\ GodlBonus' = GodlBonus
BY DEF SolIn, GodlOut, GodlBonus, User
-----------------------------------------------------------------------------
(* Staking beside the desk *)

\* What a step of the desk does to staking.
KeepsStaking ==
    /\ TypeOK' /\ Drift' = Drift /\ audit' = audit
    /\ Covered => Covered'
    /\ Surplus = OtherTokens + GodlBonus => Surplus' = OtherTokens + GodlBonus'

\* A trade opens a stake as a deposit does, and the treasury gets the bonus.
LEMMA TradeStep ==
  ASSUME TypeOK, DeskTypes, NEW s \in Stakes, NEW q \in Quotes, ExecuteOtcTrade(s, q)
  PROVE  KeepsStaking
<1> DEFINE buyer == Owner[s]
           fresh == NewStake(q.lock_duration, buyer)
           new == Deposited(fresh, q.godl_out)
           v == [new EXCEPT !.tokens = q.godl_out]
           total == Reweighed(treasury.total_staked, fresh, new)
<1>1. /\ q \in [sol_in : Nat, godl_out : Nat, godl_bonus : Nat,
                lock_duration : Nat, expiry : Nat]
      /\ buyer \in Executors /\ buyer \in Authorities /\ stake[s] = None
  BY DeskAssumption DEF ExecuteOtcTrade
<1>2. /\ stake' = [stake EXCEPT ![s] = v]
      /\ treasury' = [treasury EXCEPT !.total_staked = total, !.tokens = @ + q.godl_bonus]
      /\ now' = now /\ stake_v1' = stake_v1 /\ wallet' = wallet /\ assets' = assets
      /\ audit' = audit /\ owed' = owed /\ taken' = taken
  BY DEF ExecuteOtcTrade, Reweighed
<1>3. otc_user' = [otc_user EXCEPT ![buyer] = Bought(User(buyer), q)]
  BY DEF ExecuteOtcTrade, User
<1>4. /\ fresh \in StakeRecord /\ weighted_units(fresh) = 0 /\ new \in StakeRecord
      /\ new.rewards_factor = Factor /\ new.rewards = 0
  BY <1>1, FreshStake
<1> HIDE DEF fresh
<1>5. /\ q.sol_in \in Nat /\ q.godl_out \in Nat /\ q.godl_bonus \in Nat
      /\ q.lock_duration \in Nat /\ treasury \in TreasuryRecord
  BY <1>1, Rest
<1> HIDE DEF new
<1>6. /\ v \in StakeRecord /\ v.rewards_factor = Factor /\ v.rewards = 0
      /\ v.balance = new.balance /\ v.multiplier = new.multiplier
      /\ v.weight_version = new.weight_version /\ v.is_nft_staked = new.is_nft_staked
  BY <1>4, <1>5 DEF StakeRecord
<1> HIDE DEF v
<1>7. weighted_units(v) = weighted_units(new) /\ weighted_units(new) \in Nat
  BY <1>4, <1>6, SameWeight, WeightNat
<1>8. WeightOf(v) = weighted_units(new) /\ WeightOf(stake[s]) = 0 /\ v \in Account
  BY <1>1, <1>6, <1>7, GenesisAssumption DEF WeightOf, Account
<1>9. /\ total = treasury.total_staked + weighted_units(new)
      /\ total = treasury.total_staked + WeightOf(v) - WeightOf(stake[s]) /\ total \in Nat
  BY <1>4, <1>7, <1>8, TreasuryTypes DEF Reweighed
<1> HIDE DEF total
<1>10. /\ treasury' \in TreasuryRecord /\ treasury'.total_staked = total /\ Factor' = Factor
       /\ treasury'.tokens = treasury.tokens + q.godl_bonus
  <2>1. treasury.tokens + q.godl_bonus \in Nat
    BY <1>5 DEF TreasuryRecord
  <2>2. treasury' = [treasury EXCEPT !.total_staked = total,
                                     !.tokens = treasury.tokens + q.godl_bonus]
    BY <1>2
  <2> QED BY <1>5, <1>9, <2>1, <2>2 DEF TreasuryRecord, Factor
<1>11. stake' \in [Stakes -> Account] /\ Drift' = Drift
  BY <1>2, <1>8, <1>9, <1>10, StakeStep
<1>12. TypeOK'
  BY <1>2, <1>10, <1>11, Rest, Assemble
<1>13. Covered => Covered'
  <2> SUFFICES ASSUME Covered PROVE Covered'
    OBVIOUS
  <2>2. v.rewards = PendingOf(stake[s], Factor)
    BY <1>1, <1>6 DEF PendingOf
  <2>3. /\ v \in StakeRecord /\ v.rewards_factor = Factor /\ Factor' = Factor
        /\ stake' = [stake EXCEPT ![s] = v] /\ stake_v1' = stake_v1 /\ owed' = owed
    BY <1>2, <1>6, <1>10
  <2> QED BY <2>2, <2>3, UnpaidStep, SettlesDebt
<1>14. Surplus = OtherTokens + GodlBonus => Surplus' = OtherTokens + GodlBonus'
  <2>1. GodlBonus' = GodlBonus + q.godl_bonus
    BY <1>1, <1>3, TradeTotals
  <2>2. /\ GodlBonus \in Nat /\ OtherTokens \in Nat
        /\ treasury.tokens \in Nat /\ taken \in Nat /\ owed \in Int
    BY UserTotalsNat, TreasuryTypes, Rest, AmountsAssumption
  <2> QED BY <1>2, <1>5, <1>10, <2>1, <2>2 DEF Surplus
<1> QED BY <1>2, <1>11, <1>12, <1>13, <1>14 DEF KeepsStaking

\* Funding takes GODL out of a wallet; the other steps do not touch staking.
LEMMA DeskStep ==
  ASSUME TypeOK,
         \/ InitializeOtcTreasury \/ WithdrawSolOtc
         \/ \E a \in Authorities, amount \in FundAmounts : FundGodlOtc(a, amount)
  PROVE  KeepsStaking
<1> DEFINE Unmoved ==
             /\ UNCHANGED <<now, stake, stake_v1, treasury, assets, audit, owed, taken, otc_user>>
             /\ wallet' \in [Authorities -> Nat]
<1>1. Unmoved
  <2>1. CASE InitializeOtcTreasury \/ WithdrawSolOtc
    BY <2>1, Rest DEF InitializeOtcTreasury, WithdrawSolOtc, vars
  <2>2. ASSUME NEW a \in Authorities, NEW amount \in FundAmounts, FundGodlOtc(a, amount)
        PROVE  Unmoved
    <3>1. amount \in Nat /\ wallet \in [Authorities -> Nat] /\ wallet[a] >= amount
      BY <2>2, Rest, DeskAssumption DEF FundGodlOtc
    <3>2. wallet[a] - amount \in Nat
      BY <3>1
    <3> QED BY <2>2, <3>1, <3>2 DEF FundGodlOtc
  <2> QED BY <2>1, <2>2
<1>2. TypeOK' /\ Drift' = Drift
  BY <1>1, Rest, IdleStep, Assemble
<1>3. Covered => Covered'
  BY <1>1, StillStep DEF Still, Factor
<1>4. Surplus' = Surplus /\ GodlBonus' = GodlBonus
  BY <1>1, CashStays, SameTotals
<1> QED BY <1>1, <1>2, <1>3, <1>4 DEF KeepsStaking
-----------------------------------------------------------------------------
(* The desk's books *)

\* At the start there is no desk and no user.
LEMMA DeskInit == OtcInit => DeskInv
<1> SUFFICES ASSUME OtcInit PROVE DeskInv
  OBVIOUS
<1>1. /\ otc_treasury = None /\ otc_user = [a \in Authorities |-> None]
      /\ chest = 0 /\ funded = 0
  BY DEF OtcInit
<1>2. DeskTypes
  BY <1>1 DEF DeskTypes, UserAccount
<1>3. SolIn = 0 /\ GodlOut = 0 /\ GodlBonus = 0
  <2> DEFINE f == [a \in Authorities |-> User(a).total_sol_in]
             g == [a \in Authorities |-> User(a).total_godl_out]
             h == [a \in Authorities |-> User(a).total_godl_bonus]
  <2>1. \A i \in 1 .. NumAuthorities : f[i] = 0 /\ g[i] = 0 /\ h[i] = 0
    BY <1>1 DEF User, NewOtcUser, Authorities
  <2>2. NumAuthorities \in Nat
    BY PartiesAssumption
  <2> HIDE DEF f, g, h
  <2>3. Sum(f, NumAuthorities) = 0 /\ Sum(g, NumAuthorities) = 0 /\ Sum(h, NumAuthorities) = 0
    BY <2>1, <2>2, SumOfZeros
  <2> QED BY <2>3 DEF SolIn, GodlOut, GodlBonus, f, g, h
<1> QED BY <1>1, <1>2, <1>3 DEF DeskInv, DeskBooks

\* The users' totals after a step that leaves their accounts alone.
LEMMA IdleBooks ==
  ASSUME DeskInv, UNCHANGED <<otc_treasury, otc_user, chest, funded>> PROVE DeskInv'
BY SameTotals DEF DeskInv, DeskTypes, DeskBooks, UserAccount, OtcTreasuryRecord, OtcUserRecord

LEMMA InitializeBooks == ASSUME DeskInv, InitializeOtcTreasury PROVE DeskInv'
<1>1. /\ otc_treasury = None /\ UNCHANGED <<otc_user, chest, funded>>
      /\ otc_treasury' = [sol_balance |-> 0, godl_balance |-> 0, lamports |-> 0, tokens |-> 0]
  BY DEF InitializeOtcTreasury
<1>2. otc_treasury' \in OtcTreasuryRecord /\ otc_treasury' # None
  BY <1>1, EmptyAssumption DEF OtcTreasuryRecord
<1>3. DeskTypes'
  BY <1>1, <1>2 DEF DeskInv, DeskTypes, UserAccount, OtcTreasuryRecord, OtcUserRecord
<1>4. /\ SolIn' = 0 /\ GodlOut' = 0 /\ GodlBonus' = 0 /\ chest' = 0 /\ funded' = 0
  BY <1>1, SameTotals DEF DeskInv, DeskBooks
<1>5. /\ otc_treasury'.godl_balance = 0 /\ otc_treasury'.tokens = 0
      /\ otc_treasury'.sol_balance = 0 /\ otc_treasury'.lamports = 0
  BY <1>1
<1> QED BY <1>2, <1>3, <1>4, <1>5 DEF DeskInv, DeskBooks

LEMMA FundBooks ==
  ASSUME DeskInv, NEW a \in Authorities, NEW amount \in FundAmounts, FundGodlOtc(a, amount)
  PROVE  DeskInv'
<1> DEFINE t == otc_treasury
           u == otc_treasury'
<1>1. /\ t \in OtcTreasuryRecord /\ t # None /\ amount \in Nat /\ funded \in Nat
      /\ u = [t EXCEPT !.godl_balance = @ + amount, !.tokens = @ + amount]
      /\ UNCHANGED <<otc_user, chest>> /\ funded' = funded + amount
  BY DeskAssumption DEF FundGodlOtc, DeskInv, DeskTypes
<1>2. /\ t.godl_balance \in Nat /\ t.tokens \in Nat
      /\ t.sol_balance \in Nat /\ t.lamports \in Nat
  BY <1>1 DEF OtcTreasuryRecord
<1> HIDE DEF t
<1>3. /\ u.godl_balance = t.godl_balance + amount /\ u.tokens = t.tokens + amount
      /\ u.sol_balance = t.sol_balance /\ u.lamports = t.lamports
      /\ u = [sol_balance |-> u.sol_balance, godl_balance |-> u.godl_balance,
              lamports |-> u.lamports, tokens |-> u.tokens]
  BY <1>1 DEF OtcTreasuryRecord
<1>4. DeskTypes' /\ u # None
  <2>1. u \in OtcTreasuryRecord /\ u # None
    BY <1>1, <1>2, <1>3, EmptyAssumption DEF OtcTreasuryRecord
  <2>2. funded' \in Nat
    BY <1>1
  <2> QED BY <1>1, <2>1, <2>2
      DEF DeskInv, DeskTypes, UserAccount, OtcTreasuryRecord, OtcUserRecord
<1>5. /\ t.godl_balance <= t.tokens /\ t.sol_balance = t.lamports
      /\ SolIn = chest + t.sol_balance
      /\ GodlOut + GodlBonus + t.godl_balance = funded
  BY <1>1 DEF DeskInv, DeskBooks, t
<1>6. /\ SolIn' = SolIn /\ GodlOut' = GodlOut /\ GodlBonus' = GodlBonus
      /\ GodlOut \in Nat /\ GodlBonus \in Nat
  BY <1>1, SameTotals, UserTotalsNat DEF DeskInv
<1>7. /\ u.godl_balance <= u.tokens /\ u.sol_balance = u.lamports
      /\ SolIn' = chest' + u.sol_balance
      /\ GodlOut' + GodlBonus' + u.godl_balance = funded'
  BY <1>1, <1>2, <1>3, <1>5, <1>6
<1> QED BY <1>4, <1>7 DEF DeskInv, DeskBooks

LEMMA TradeBooks ==
  ASSUME DeskInv, NEW s \in Stakes, NEW q \in Quotes, ExecuteOtcTrade(s, q)
  PROVE  DeskInv'
<1> DEFINE t == otc_treasury
           u == otc_treasury'
           buyer == Owner[s]
<1>1. /\ q \in [sol_in : Nat, godl_out : Nat, godl_bonus : Nat,
                lock_duration : Nat, expiry : Nat]
      /\ buyer \in Authorities /\ t \in OtcTreasuryRecord /\ t # None
  BY DeskAssumption DEF ExecuteOtcTrade, DeskInv, DeskTypes
<1>2. /\ otc_user' = [otc_user EXCEPT ![buyer] = Bought(User(buyer), q)]
      /\ UNCHANGED <<chest, funded>>
      /\ t.tokens >= q.godl_out + q.godl_bonus
      /\ t.godl_balance >= q.godl_out + q.godl_bonus
      /\ u = [t EXCEPT
               !.sol_balance = @ + q.sol_in, !.lamports = @ + q.sol_in,
               !.godl_balance = @ - (q.godl_out + q.godl_bonus),
               !.tokens = @ - q.godl_out - q.godl_bonus]
  BY DEF ExecuteOtcTrade, User, Needed
<1>3. /\ t.godl_balance \in Nat /\ t.tokens \in Nat
      /\ t.sol_balance \in Nat /\ t.lamports \in Nat
      /\ q.sol_in \in Nat /\ q.godl_out \in Nat /\ q.godl_bonus \in Nat
  BY <1>1 DEF OtcTreasuryRecord
<1> HIDE DEF t, buyer
<1>4. /\ u.godl_balance = t.godl_balance - (q.godl_out + q.godl_bonus)
      /\ u.tokens = t.tokens - q.godl_out - q.godl_bonus
      /\ u.sol_balance = t.sol_balance + q.sol_in /\ u.lamports = t.lamports + q.sol_in
      /\ u = [sol_balance |-> u.sol_balance, godl_balance |-> u.godl_balance,
              lamports |-> u.lamports, tokens |-> u.tokens]
  BY <1>1, <1>2 DEF OtcTreasuryRecord
<1>5. /\ u.godl_balance \in Nat /\ u.tokens \in Nat
      /\ u.sol_balance \in Nat /\ u.lamports \in Nat
  BY <1>2, <1>3, <1>4
<1>6. u \in OtcTreasuryRecord /\ u # None
  BY <1>4, <1>5, EmptyAssumption DEF OtcTreasuryRecord
<1>7. /\ otc_user' \in [Authorities -> UserAccount]
      /\ SolIn' = SolIn + q.sol_in /\ GodlOut' = GodlOut + q.godl_out
      /\ GodlBonus' = GodlBonus + q.godl_bonus
      /\ SolIn \in Nat /\ GodlOut \in Nat /\ GodlBonus \in Nat
  BY <1>1, <1>2, TradeTotals, UserTotalsNat DEF DeskInv
<1>8. chest \in Nat /\ funded \in Nat
  BY DEF DeskInv, DeskTypes
<1>9. DeskTypes'
  BY <1>2, <1>6, <1>7, <1>8
  DEF DeskTypes, UserAccount, OtcTreasuryRecord, OtcUserRecord
<1>10. /\ t.godl_balance <= t.tokens /\ t.sol_balance = t.lamports
       /\ SolIn = chest + t.sol_balance
       /\ GodlOut + GodlBonus + t.godl_balance = funded
  BY <1>1 DEF DeskInv, DeskBooks, t
<1>11. /\ u.godl_balance <= u.tokens /\ u.sol_balance = u.lamports
       /\ SolIn' = chest' + u.sol_balance
       /\ GodlOut' + GodlBonus' + u.godl_balance = funded'
  BY <1>2, <1>3, <1>4, <1>7, <1>8, <1>10
<1> QED BY <1>6, <1>9, <1>11 DEF DeskInv, DeskBooks

LEMMA WithdrawSolBooks == ASSUME DeskInv, WithdrawSolOtc PROVE DeskInv'
<1> DEFINE t == otc_treasury
           u == otc_treasury'
<1>1. /\ t \in OtcTreasuryRecord /\ t # None /\ t.lamports >= t.sol_balance
      /\ u = [t EXCEPT !.sol_balance = 0, !.lamports = @ - t.sol_balance]
      /\ UNCHANGED <<otc_user, funded>> /\ chest' = chest + t.sol_balance
      /\ chest \in Nat
  BY DEF WithdrawSolOtc, DeskInv, DeskTypes
<1>2. /\ t.godl_balance \in Nat /\ t.tokens \in Nat
      /\ t.sol_balance \in Nat /\ t.lamports \in Nat
  BY <1>1 DEF OtcTreasuryRecord
<1> HIDE DEF t
<1>3. /\ u.godl_balance = t.godl_balance /\ u.tokens = t.tokens
      /\ u.sol_balance = 0 /\ u.lamports = t.lamports - t.sol_balance
      /\ u = [sol_balance |-> u.sol_balance, godl_balance |-> u.godl_balance,
              lamports |-> u.lamports, tokens |-> u.tokens]
  BY <1>1 DEF OtcTreasuryRecord
<1>4. u \in OtcTreasuryRecord /\ u # None
  BY <1>1, <1>2, <1>3, EmptyAssumption DEF OtcTreasuryRecord
<1>5. DeskTypes'
  <2>1. chest' \in Nat
    BY <1>1, <1>2
  <2> QED BY <1>1, <1>4, <2>1
      DEF DeskInv, DeskTypes, UserAccount, OtcTreasuryRecord, OtcUserRecord
<1>6. /\ t.godl_balance <= t.tokens /\ t.sol_balance = t.lamports
      /\ SolIn = chest + t.sol_balance
      /\ GodlOut + GodlBonus + t.godl_balance = funded
  BY <1>1 DEF DeskInv, DeskBooks, t
<1>7. SolIn' = SolIn /\ GodlOut' = GodlOut /\ GodlBonus' = GodlBonus
  BY <1>1, SameTotals
<1>8. /\ u.godl_balance <= u.tokens /\ u.sol_balance = u.lamports
      /\ SolIn' = chest' + u.sol_balance
      /\ GodlOut' + GodlBonus' + u.godl_balance = funded'
  BY <1>1, <1>2, <1>3, <1>6, <1>7
<1> QED BY <1>4, <1>5, <1>8 DEF DeskInv, DeskBooks
-----------------------------------------------------------------------------
(* What the desk leaves true *)

\* Yield is covered, the books agree, and beside what it owes the treasury holds
\* every bonus.
BothInv ==
    /\ YieldInv
    /\ DeskInv
    /\ Surplus = OtherTokens + GodlBonus

\* Every step of either keeps the invariant.
LEMMA BothNext ==
  ASSUME BothInv, [OtcNext]_otc_vars, [RebaseTotalStaked => Drift' = 0]_vars
  PROVE  BothInv'
<1>1. TypeOK /\ DeskTypes /\ DeskInv /\ YieldInv
  BY DEF BothInv, DeskInv, YieldInv
<1>2. ASSUME KeepsStaking, DeskInv' PROVE BothInv'
  <2>1. YieldInv'
    BY <1>2 DEF BothInv, YieldInv, KeepsStaking
  <2>2. Surplus' = OtherTokens + GodlBonus'
    BY <1>2 DEF BothInv, KeepsStaking
  <2> QED BY <1>2, <2>1, <2>2 DEF BothInv
<1>3. ASSUME [Next]_vars, UNCHANGED desk PROVE BothInv'
  <2>1. YieldInv' /\ Surplus' = Surplus
    BY <1>1, <1>3, YieldNext
  <2>2. DeskInv' /\ GodlBonus' = GodlBonus
    BY <1>1, <1>3, IdleBooks, SameTotals DEF desk
  <2> QED BY <2>1, <2>2 DEF BothInv
<1>4. CASE InitializeOtcTreasury \/ WithdrawSolOtc
  BY <1>1, <1>2, <1>4, DeskStep, InitializeBooks, WithdrawSolBooks
<1>5. ASSUME NEW a \in Authorities, NEW amount \in FundAmounts, FundGodlOtc(a, amount)
      PROVE  BothInv'
  BY <1>1, <1>2, <1>5, DeskStep, FundBooks
<1>6. ASSUME NEW s \in Stakes, NEW q \in Quotes, ExecuteOtcTrade(s, q) PROVE BothInv'
  BY <1>1, <1>2, <1>6, TradeStep, TradeBooks
<1>7. CASE UNCHANGED otc_vars
  BY <1>3, <1>7 DEF otc_vars
<1> QED BY <1>3, <1>4, <1>5, <1>6, <1>7 DEF OtcNext

\* The initial states satisfy the invariant.
LEMMA BothInit == ASSUME GenesisSettled PROVE OtcInit => BothInv
<1> SUFFICES ASSUME OtcInit PROVE BothInv
  OBVIOUS
<1>1. YieldInv /\ Surplus = OtherTokens
  BY YieldInit DEF OtcInit
<1>2. DeskInv /\ GodlBonus = 0
  BY DeskInit DEF OtcInit, DeskInv, DeskBooks
<1> QED BY <1>1, <1>2, AmountsAssumption DEF BothInv

\* Staking keeps its promises with the desk beside it: the yield is never
\* distributed twice and always backed (execute_otc_trade.rs opens a stake that
\* has seen the factor, and its bonus goes to the treasury on top).
THEOREM YieldSurvivesTheDesk ==
  ASSUME GenesisSettled
  PROVE  OtcSpec /\ RebaseClearsDrift => [](NeverOverDistributed /\ YieldIsBacked)
<1>1. BothInv => NeverOverDistributed /\ YieldIsBacked
  <2> SUFFICES ASSUME BothInv PROVE NeverOverDistributed /\ YieldIsBacked
    OBVIOUS
  <2>1. GodlBonus \in Nat /\ OtherTokens \in Nat
    BY UserTotalsNat, AmountsAssumption DEF BothInv, DeskInv
  <2>2. YieldInv /\ Surplus >= OtherTokens
    BY <2>1 DEF BothInv
  <2> QED BY <2>2, YieldSound
<1> QED BY <1>1, BothInit, BothNext, PTL DEF OtcSpec, RebaseClearsDrift

\* The desk's account, its vault, the accounts of its users and the treasury
\* agree (otc/*.rs): a quote that the account covers can be filled, collected
\* SOL can be withdrawn, and no bonus is paid with the stakers' yield.
THEOREM DeskAlwaysAddsUp ==
  ASSUME GenesisSettled
  PROVE  OtcSpec /\ RebaseClearsDrift => []DeskAddsUp
<1>1. BothInv => DeskAddsUp
  <2> SUFFICES ASSUME BothInv PROVE DeskAddsUp
    OBVIOUS
  <2>1. TypeOK /\ TotalPending \in Nat /\ TotalPending <= owed
    BY PendingCovered DEF BothInv, YieldInv
  <2>2. /\ treasury.tokens \in Nat /\ taken \in Nat /\ owed \in Int
        /\ GodlBonus \in Nat /\ OtherTokens \in Nat
    BY <2>1, TreasuryTypes, Rest, UserTotalsNat, AmountsAssumption DEF BothInv, DeskInv
  <2>3. treasury.tokens + taken >= OtherTokens + GodlBonus + TotalPending
    BY <2>1, <2>2 DEF BothInv, Surplus
  <2> QED BY <2>3 DEF BothInv, DeskInv, DeskBooks, DeskAddsUp
<1> QED BY <1>1, BothInit, BothNext, PTL DEF OtcSpec, RebaseClearsDrift

\* Trades keep the sum of the weights as deposits do: neither the desk nor any
\* staking instruction but the rebase moves total_staked apart from it.
THEOREM WeightsAddUpBesideTheDesk == OtcSpec => WeightsAddUp
<1> DEFINE Inv == TypeOK /\ DeskInv
           Moves == [Drift' = Drift \/ RebaseTotalStaked]_vars
<1>1. OtcInit => Inv
  BY TypesInit, DeskInit DEF OtcInit
<1>2. Inv /\ [OtcNext]_otc_vars => Inv' /\ Moves
  <2> SUFFICES ASSUME TypeOK, DeskInv, [OtcNext]_otc_vars PROVE Inv' /\ Moves
    OBVIOUS
  <2>1. DeskTypes
    BY DEF DeskInv
  <2>2. ASSUME [Next]_vars, UNCHANGED desk PROVE Inv' /\ Moves
    BY <2>2, NextKeeps, IdleBooks DEF desk
  <2>3. CASE InitializeOtcTreasury \/ WithdrawSolOtc
    BY <2>3, DeskStep, InitializeBooks, WithdrawSolBooks DEF KeepsStaking
  <2>4. ASSUME NEW a \in Authorities, NEW amount \in FundAmounts, FundGodlOtc(a, amount)
        PROVE  Inv' /\ Moves
    BY <2>4, DeskStep, FundBooks DEF KeepsStaking
  <2>5. ASSUME NEW s \in Stakes, NEW q \in Quotes, ExecuteOtcTrade(s, q) PROVE Inv' /\ Moves
    BY <2>1, <2>5, TradeStep, TradeBooks DEF KeepsStaking
  <2>6. CASE UNCHANGED otc_vars
    BY <2>2, <2>6 DEF otc_vars
  <2> QED BY <2>2, <2>3, <2>4, <2>5, <2>6 DEF OtcNext
<1> QED BY <1>1, <1>2, PTL DEF OtcSpec, WeightsAddUp

\* What the treasury owes to stakers it can pay, beside bonuses and whatever it
\* holds for others: a claim or a compounding (claim_yield_v2.rs,
\* compound_yield_v2.rs, close_stake_v2.rs) never fails for want of tokens.
THEOREM YieldIsAlwaysBacked ==
  ASSUME GenesisSettled
  PROVE  OtcSpec /\ RebaseClearsDrift => []YieldIsBacked
BY YieldSurvivesTheDesk, PTL
-----------------------------------------------------------------------------
(* What is bought at the desk stays locked for a month *)

BoughtTypes == bought \in [Authorities -> [0 .. MaxTime -> Nat]]

\* What a bought, by position in the sum, from time t on.
Purchases(a, t) == [i \in 1 .. MaxTime + 1 |-> IF i > t THEN bought[a][i - 1] ELSE 0]

LEMMA PurchasesNat ==
  ASSUME BoughtTypes, NEW a \in Authorities, NEW t \in 0 .. MaxTime
  PROVE  /\ \A i \in 1 .. MaxTime + 1 : Purchases(a, t)[i] \in Nat
         /\ BoughtSince(a, t) = Sum(Purchases(a, t), MaxTime + 1)
         /\ BoughtSince(a, t) \in Nat
<1>1. MaxTime \in Nat /\ MaxTime + 1 \in Nat
  BY AmountsAssumption
<1>2. \A i \in 1 .. MaxTime + 1 : Purchases(a, t)[i] \in Nat
  <2> SUFFICES ASSUME NEW i \in 1 .. MaxTime + 1 PROVE Purchases(a, t)[i] \in Nat
    OBVIOUS
  <2>1. i - 1 \in 0 .. MaxTime
    BY <1>1
  <2>2. bought[a][i - 1] \in Nat
    BY <2>1 DEF BoughtTypes
  <2> QED BY <2>2 DEF Purchases
<1>3. BoughtSince(a, t) = Sum(Purchases(a, t), MaxTime + 1)
  BY DEF BoughtSince, Purchases
<1> QED BY <1>1, <1>2, <1>3, SumNat

Purchased(buyer, n, x) == bought' = [bought EXCEPT ![buyer][n] = @ + x]

\* A purchase counts for its buyer, from its time on.
LEMMA PurchaseCounts ==
  ASSUME BoughtTypes, NEW buyer \in Authorities, NEW n \in 0 .. MaxTime, NEW x \in Nat,
         Purchased(buyer, n, x)
  PROVE  /\ BoughtTypes'
         /\ \A a \in Authorities : \A t \in 0 .. MaxTime :
              BoughtSince(a, t)' = BoughtSince(a, t)
                                     + (IF a = buyer /\ t <= n THEN x ELSE 0)
<1>1. /\ bought[buyer] \in [0 .. MaxTime -> Nat] /\ bought[buyer][n] + x \in Nat
      /\ MaxTime \in Nat /\ n \in Nat
  <2>1. MaxTime \in Nat
    BY AmountsAssumption
  <2>2. bought[buyer] \in [0 .. MaxTime -> Nat]
    BY DEF BoughtTypes
  <2>3. bought[buyer][n] \in Nat
    BY <2>2
  <2> QED BY <2>1, <2>2, <2>3
<1> DEFINE row == [bought[buyer] EXCEPT ![n] = bought[buyer][n] + x]
<1>2. bought' = [bought EXCEPT ![buyer] = row] /\ row \in [0 .. MaxTime -> Nat]
  BY <1>1 DEF Purchased
<1>3. \A j \in 0 .. MaxTime : row[j] = IF j = n THEN bought[buyer][n] + x ELSE bought[buyer][j]
  BY <1>1
<1> HIDE DEF row
<1>4. BoughtTypes' /\ \A a \in Authorities : bought'[a] = IF a = buyer THEN row ELSE bought[a]
  BY <1>2 DEF BoughtTypes
<1>5. ASSUME NEW a \in Authorities, NEW t \in 0 .. MaxTime
      PROVE  BoughtSince(a, t)' = BoughtSince(a, t) + (IF a = buyer /\ t <= n THEN x ELSE 0)
  <2> DEFINE f == Purchases(a, t)
             g == [i \in 1 .. MaxTime + 1 |-> IF i > t THEN bought'[a][i - 1] ELSE 0]
  <2>1. \A i \in 1 .. MaxTime + 1 : f[i] \in Nat
    BY PurchasesNat
  <2>2. BoughtSince(a, t)' = Sum(g, MaxTime + 1)
    BY DEF BoughtSince
  <2>3. BoughtSince(a, t) = Sum(f, MaxTime + 1) /\ BoughtSince(a, t) \in Nat
    BY PurchasesNat
  <2>4. CASE a # buyer
    <3>1. g = f
      BY <1>4, <2>4 DEF Purchases
    <3> HIDE DEF f, g
    <3>2. BoughtSince(a, t)' = BoughtSince(a, t)
      BY <2>2, <2>3, <3>1
    <3> QED BY <2>3, <2>4, <3>2
  <2>5. CASE a = buyer
    <3>1. \A i \in (1 .. MaxTime + 1) \ {n + 1} : g[i] = f[i]
      <4> SUFFICES ASSUME NEW i \in (1 .. MaxTime + 1) \ {n + 1} PROVE g[i] = f[i]
        OBVIOUS
      <4>1. i - 1 \in 0 .. MaxTime /\ i - 1 # n
        BY <1>1
      <4>2. bought'[a][i - 1] = bought[a][i - 1]
        BY <1>3, <1>4, <2>5, <4>1
      <4> QED BY <4>2 DEF Purchases
    <3>2. n + 1 \in 1 .. MaxTime + 1 /\ (n + 1) - 1 = n /\ (n + 1 > t <=> t <= n)
      BY <1>1
    <3>3. g[n + 1] = f[n + 1] + (IF t <= n THEN x ELSE 0)
      <4>1. bought'[a][n] = bought[a][n] + x
        BY <1>3, <1>4, <2>5
      <4>2. CASE t <= n
        BY <3>2, <4>1, <4>2 DEF Purchases
      <4>3. CASE ~ (t <= n)
        BY <3>2, <4>3 DEF Purchases
      <4> QED BY <4>2, <4>3
    <3> HIDE DEF f, g
    <3>4. g[n + 1] \in Nat /\ f[n + 1] \in Nat
      BY <2>1, <3>2, <3>3
    <3>5. \A i \in 1 .. MaxTime + 1 : g[i] \in Nat
      BY <2>1, <3>1, <3>4
    <3>6. MaxTime + 1 \in Nat
      BY <1>1
    <3>7. Sum(g, MaxTime + 1) = Sum(f, MaxTime + 1) + g[n + 1] - f[n + 1]
      BY <2>1, <3>1, <3>2, <3>5, <3>6, SumUpdate
    <3> QED BY <2>2, <2>3, <2>5, <3>3, <3>4, <3>7
  <2> QED BY <2>4, <2>5
<1> QED BY <1>4, <1>5

\* A commitment is a natural number after the step, too.
LEMMA CommittedNext ==
  ASSUME TypeOK', NEW a \in Authorities, NEW t \in Nat
  PROVE  CommittedUntil(a, t)' \in Nat
<1> DEFINE g == [s \in Stakes |-> IF Owner[s] = a /\ s \notin Phantoms
                                  THEN Held(stake'[s], t) ELSE 0]
<1>1. CommittedUntil(a, t)' = Sum(g, NumStakes)
  BY HeldNext
<1>2. \A s \in 1 .. NumStakes : g[s] \in Nat
  <2> SUFFICES ASSUME NEW s \in Stakes PROVE g[s] \in Nat
    BY DEF Stakes
  <2>1. Held(stake'[s], t) \in Nat
    BY HeldNat DEF TypeOK, Account
  <2> QED BY <2>1
<1>3. NumStakes \in Nat
  BY PartiesAssumption
<1> HIDE DEF g
<1> QED BY <1>1, <1>2, <1>3, SumNat

\* A trade adds what it sells to what the buyer holds under lock for the month.
LEMMA TradeLock ==
  ASSUME TypeOK, TypeOK', VaultsBack, Started,
         NEW s \in Stakes, NEW q \in Quotes, ExecuteOtcTrade(s, q)
  PROVE  /\ VaultsBack' /\ Started' /\ Committed
         /\ \A t \in Nat : t <= now + ONE_MONTH =>
              CommittedUntil(Owner[s], t)' = CommittedUntil(Owner[s], t) + q.godl_out
<1> DEFINE buyer == Owner[s]
           fresh == NewStake(q.lock_duration, buyer)
           new == Deposited(fresh, q.godl_out)
           v == [new EXCEPT !.tokens = q.godl_out]
<1>1. /\ q \in [sol_in : Nat, godl_out : Nat, godl_bonus : Nat,
                lock_duration : Nat, expiry : Nat]
      /\ buyer \in Executors /\ buyer \in Authorities
      /\ stake[s] = None /\ s \notin Phantoms /\ now' = now
      /\ q.lock_duration \in ONE_MONTH .. MAX_LOCK_DURATION
      /\ stake' = [stake EXCEPT ![s] = v]
  BY DeskAssumption DEF ExecuteOtcTrade
<1>2. /\ q.godl_out \in Nat /\ q.lock_duration \in Nat /\ now \in Nat
      /\ ONE_MONTH \in Nat /\ q.lock_duration >= ONE_MONTH
  BY <1>1, Rest, DeskAssumption, ScalesAssumption
<1>3. /\ fresh \in StakeRecord /\ fresh.balance = 0 /\ fresh.created_at = now
      /\ fresh.lock_duration = q.lock_duration
  BY <1>1, <1>2, MultiplierNat, Rest, TreasuryTypes DEF NewStake, StakeRecord
<1> HIDE DEF fresh
<1>4. /\ new \in StakeRecord /\ new.balance = fresh.balance + q.godl_out
      /\ new.created_at = now /\ new.lock_duration = q.lock_duration
  BY <1>2, <1>3, DepositedTerms
<1> HIDE DEF new
<1>5. /\ v \in StakeRecord /\ v.tokens = q.godl_out /\ v.balance = q.godl_out
      /\ v.created_at = now /\ v.lock_duration = q.lock_duration
  BY <1>2, <1>3, <1>4 DEF StakeRecord
<1> HIDE DEF v
<1>6. v # None /\ UnlockAt(v) \in Nat /\ UnlockAt(v) >= now + ONE_MONTH
  BY <1>2, <1>5, GenesisAssumption DEF UnlockAt
<1>7. VaultsBack'
  <2>1. Backed(v)
    BY <1>2, <1>5 DEF Backed
  <2> QED BY <1>1, <2>1, BackedStep
<1>8. Started' /\ Committed
  <2>1. \A t \in Nat : Held(v, t) \in Nat /\ Held(stake[s], t) = 0
    BY <1>1, <1>5, HeldNat DEF Account, Held
  <2>2. LockKept(stake[s], v)
    BY <1>2, <1>5, <2>1 DEF LockKept
  <2> QED BY <1>1, <2>2, LockStep
<1>9. ASSUME NEW t \in Nat, t <= now + ONE_MONTH
      PROVE  CommittedUntil(buyer, t)' = CommittedUntil(buyer, t) + q.godl_out
  <2> DEFINE f == HeldBy(buyer, t)
             g == [u \in Stakes |-> IF Owner[u] = buyer /\ u \notin Phantoms
                                    THEN Held(stake'[u], t) ELSE 0]
  <2>1. /\ CommittedUntil(buyer, t) = Sum(f, NumStakes) /\ Sum(f, NumStakes) \in Nat
        /\ \A i \in 1 .. NumStakes : f[i] \in Nat
    BY <1>1, CommittedIs
  <2>2. CommittedUntil(buyer, t)' = Sum(g, NumStakes)
    BY HeldNext
  <2>3. \A i \in 1 .. NumStakes : g[i] \in Nat
    <3> SUFFICES ASSUME NEW u \in Stakes PROVE g[u] \in Nat
      BY DEF Stakes
    <3>1. stake'[u] \in Account
      BY DEF TypeOK, Account
    <3>2. Held(stake'[u], t) \in Nat
      BY <3>1, HeldNat
    <3> QED BY <3>2
  <2>4. \A i \in (1 .. NumStakes) \ {s} : g[i] = f[i]
    BY <1>1, Rest DEF HeldBy, Stakes
  <2>5. f[s] = 0
    BY <1>1 DEF HeldBy, Held
  <2>6. g[s] = q.godl_out
    <3>1. stake'[s] = v
      BY <1>1, Rest
    <3>2. UnlockAt(v) >= t
      BY <1>2, <1>6, <1>9
    <3>3. Held(stake'[s], t) = q.godl_out
      BY <1>5, <1>6, <3>1, <3>2 DEF Held
    <3> QED BY <1>1, <3>3
  <2>7. NumStakes \in Nat /\ s \in 1 .. NumStakes
    BY PartiesAssumption DEF Stakes
  <2> HIDE DEF f, g
  <2>8. Sum(g, NumStakes) = Sum(f, NumStakes) + g[s] - f[s]
    BY <2>1, <2>3, <2>4, <2>7, SumUpdate
  <2> QED BY <1>2, <2>1, <2>2, <2>5, <2>6, <2>8
<1> QED BY <1>7, <1>8, <1>9

MonthInv ==
    /\ TypeOK /\ DeskInv /\ VaultsBack /\ Started
    /\ BoughtTypes /\ BoughtStaysLocked

\* Whatever keeps the commitments and sells nothing keeps the month.
LEMMA MonthStays ==
  ASSUME MonthInv, TypeOK', Committed, bought' = bought, now' >= now
  PROVE  BoughtTypes' /\ BoughtStaysLocked'
<1>1. BoughtTypes' /\ \A a \in Authorities : \A t \in 0 .. MaxTime :
                        BoughtSince(a, t)' = BoughtSince(a, t)
  BY DEF MonthInv, BoughtTypes, BoughtSince
<1>2. /\ now \in Nat /\ now' \in Nat /\ MaxTime \in Nat /\ ONE_MONTH \in Nat
      /\ TypeOK /\ BoughtTypes /\ BoughtStaysLocked
  BY Rest, AmountsAssumption, DeskAssumption, ScalesAssumption DEF MonthInv, TypeOK
<1>3. ASSUME NEW a \in Authorities, NEW t \in 0 .. MaxTime, t + ONE_MONTH > now'
      PROVE  CommittedUntil(a, t + ONE_MONTH)' >= BoughtSince(a, t)'
  <2>1. t + ONE_MONTH \in Nat /\ t + ONE_MONTH > now
    BY <1>2, <1>3
  <2>2. CommittedUntil(a, t + ONE_MONTH) >= BoughtSince(a, t)
    BY <1>2, <2>1 DEF BoughtStaysLocked
  <2>3. CommittedUntil(a, t + ONE_MONTH)' >= CommittedUntil(a, t + ONE_MONTH)
    BY <1>3, <2>1 DEF Committed
  <2>4. CommittedUntil(a, t + ONE_MONTH) \in Nat /\ BoughtSince(a, t) \in Nat
    BY <1>2, <2>1, CommittedIs, PurchasesNat
  <2>5. CommittedUntil(a, t + ONE_MONTH)' \in Nat
    BY <2>1, CommittedNext
  <2> QED BY <1>1, <2>2, <2>3, <2>4, <2>5
<1> QED BY <1>1, <1>3 DEF BoughtStaysLocked

\* A trade locks at least what it sells, for a month at least.
LEMMA MonthTrade ==
  ASSUME MonthInv, TypeOK', NEW s \in Stakes, NEW q \in Quotes, ExecuteOtcTrade(s, q)
  PROVE  BoughtTypes' /\ BoughtStaysLocked'
<1> DEFINE buyer == Owner[s]
<1>1. /\ TypeOK /\ VaultsBack /\ Started /\ BoughtTypes /\ BoughtStaysLocked
      /\ now \in 0 .. MaxTime /\ now \in Nat /\ MaxTime \in Nat /\ ONE_MONTH \in Nat
  BY Rest, AmountsAssumption, DeskAssumption, ScalesAssumption DEF MonthInv
<1>2. /\ buyer \in Authorities /\ q.godl_out \in Nat /\ now' = now
      /\ Purchased(buyer, now, q.godl_out)
  BY DeskAssumption DEF ExecuteOtcTrade, Purchased
<1>3. /\ BoughtTypes'
      /\ \A a \in Authorities : \A t \in 0 .. MaxTime :
           BoughtSince(a, t)' = BoughtSince(a, t)
                                  + (IF a = buyer /\ t <= now THEN q.godl_out ELSE 0)
  BY <1>1, <1>2, PurchaseCounts
<1>4. /\ Committed
      /\ \A t \in Nat : t <= now + ONE_MONTH =>
           CommittedUntil(buyer, t)' = CommittedUntil(buyer, t) + q.godl_out
  BY <1>1, TradeLock
<1> HIDE DEF buyer
<1>5. ASSUME NEW a \in Authorities, NEW t \in 0 .. MaxTime, t + ONE_MONTH > now'
      PROVE  CommittedUntil(a, t + ONE_MONTH)' >= BoughtSince(a, t)'
  <2> DEFINE l == t + ONE_MONTH
             x == CommittedUntil(a, l)
             y == BoughtSince(a, t)
  <2>1. l \in Nat /\ l > now /\ t \in Nat
    BY <1>1, <1>2, <1>5
  <2>2. x >= y /\ x \in Nat /\ y \in Nat
    BY <1>1, <2>1, CommittedIs, PurchasesNat DEF BoughtStaysLocked
  <2>3. x' >= x /\ x' \in Nat
    BY <1>2, <1>4, <2>1, CommittedNext DEF Committed
  <2>4. y' = y + (IF a = buyer /\ t <= now THEN q.godl_out ELSE 0)
    BY <1>3
  <2>5. a = buyer /\ t <= now => x' = x + q.godl_out
    BY <1>1, <1>4, <2>1
  <2> HIDE DEF x, y
  <2>6. x' >= y'
    BY <1>2, <2>2, <2>3, <2>4, <2>5
  <2> QED BY <2>6 DEF x, y
<1> QED BY <1>3, <1>5 DEF BoughtStaysLocked

\* The steps of the desk other than the trade do not touch the stakes.
LEMMA QuietLock ==
  ASSUME TypeOK, TypeOK', VaultsBack, Started, stake' = stake, now' = now
  PROVE  VaultsBack' /\ Started' /\ Committed
<1>1. VaultsBack' /\ Started'
  BY DEF VaultsBack, Started, Backed
<1>2. \A s \in Stakes : \A t \in Nat : Held(stake[s], t) \in Nat
  BY Rest, HeldNat
<1>3. Committed
  BY <1>2, LocksAddUp, Rest
<1> QED BY <1>1, <1>3

LEMMA MonthNext == MonthInv /\ [OtcNext]_otc_vars => MonthInv'
<1> SUFFICES ASSUME MonthInv, [OtcNext]_otc_vars PROVE MonthInv'
  OBVIOUS
<1>1. TypeOK /\ DeskInv /\ DeskTypes /\ VaultsBack /\ Started /\ now \in Nat
  BY Rest DEF MonthInv, DeskInv
<1>2. ASSUME TypeOK', DeskInv', VaultsBack', Started', Committed, bought' = bought, now' >= now
      PROVE  MonthInv'
  BY <1>2, MonthStays DEF MonthInv
<1>3. ASSUME [Next]_vars, UNCHANGED desk PROVE MonthInv'
  <2>1. TypeOK' /\ VaultsBack' /\ Started' /\ Committed
    BY <1>1, <1>3, NextKeeps, NextBacked, NextLock
  <2>2. DeskInv' /\ bought' = bought
    BY <1>1, <1>3, IdleBooks DEF desk
  <2>3. now' >= now
    BY <1>1, <1>3, ClockRuns
  <2> QED BY <1>2, <2>1, <2>2, <2>3
<1>4. CASE InitializeOtcTreasury \/ WithdrawSolOtc
  <2>1. TypeOK' /\ DeskInv'
    BY <1>1, <1>4, DeskStep, InitializeBooks, WithdrawSolBooks DEF KeepsStaking
  <2>2. stake' = stake /\ now' = now /\ bought' = bought
    BY <1>4 DEF InitializeOtcTreasury, WithdrawSolOtc, vars
  <2> QED BY <1>1, <1>2, <2>1, <2>2, QuietLock
<1>5. ASSUME NEW a \in Authorities, NEW amount \in FundAmounts, FundGodlOtc(a, amount)
      PROVE  MonthInv'
  <2>1. TypeOK' /\ DeskInv'
    BY <1>1, <1>5, DeskStep, FundBooks DEF KeepsStaking
  <2>2. stake' = stake /\ now' = now /\ bought' = bought
    BY <1>5 DEF FundGodlOtc
  <2> QED BY <1>1, <1>2, <2>1, <2>2, QuietLock
<1>6. ASSUME NEW s \in Stakes, NEW q \in Quotes, ExecuteOtcTrade(s, q) PROVE MonthInv'
  <2>1. TypeOK' /\ DeskInv'
    BY <1>1, <1>6, TradeStep, TradeBooks DEF KeepsStaking
  <2>2. VaultsBack' /\ Started'
    BY <1>1, <1>6, <2>1, TradeLock
  <2>3. BoughtTypes' /\ BoughtStaysLocked'
    BY <1>6, <2>1, MonthTrade
  <2> QED BY <2>1, <2>2, <2>3 DEF MonthInv
<1>7. CASE UNCHANGED otc_vars
  BY <1>3, <1>7 DEF otc_vars
<1> QED BY <1>3, <1>4, <1>5, <1>6, <1>7 DEF OtcNext

LEMMA MonthInit == ASSUME GenesisBacked, GenesisStarted PROVE OtcInit => MonthInv
<1> SUFFICES ASSUME OtcInit PROVE MonthInv
  OBVIOUS
<1>1. TypeOK /\ VaultsBack /\ Started
  BY LockInit DEF OtcInit
<1>2. DeskInv
  BY DeskInit
<1>3. BoughtTypes /\ \A a \in Authorities : \A t \in 0 .. MaxTime : bought[a][t] = 0
  BY DEF OtcInit, BoughtTypes
<1>4. ASSUME NEW a \in Authorities, NEW t \in 0 .. MaxTime, t + ONE_MONTH > now
      PROVE  CommittedUntil(a, t + ONE_MONTH) >= BoughtSince(a, t)
  <2>1. \A i \in 1 .. MaxTime + 1 : Purchases(a, t)[i] = 0
    <3> SUFFICES ASSUME NEW i \in 1 .. MaxTime + 1 PROVE Purchases(a, t)[i] = 0
      OBVIOUS
    <3>1. i - 1 \in 0 .. MaxTime
      BY AmountsAssumption
    <3> QED BY <1>3, <3>1 DEF Purchases
  <2>2. MaxTime + 1 \in Nat
    BY AmountsAssumption
  <2>3. BoughtSince(a, t) = 0
    BY <1>3, <2>1, <2>2, SumOfZeros, PurchasesNat
  <2>4. t + ONE_MONTH \in Nat
    BY AmountsAssumption, DeskAssumption, ScalesAssumption
  <2>5. CommittedUntil(a, t + ONE_MONTH) \in Nat
    BY <1>1, <2>4, CommittedIs
  <2> QED BY <2>3, <2>5
<1> QED BY <1>1, <1>2, <1>3, <1>4 DEF MonthInv, BoughtStaysLocked

\* GODL bought at a discount stays locked for a month, whatever is done with
\* the stake (execute_otc_trade.rs opens it with a lock of ONE_MONTH at least,
\* and no instruction of staking shortens what is under lock).
THEOREM BoughtIsLocked ==
  ASSUME GenesisBacked, GenesisStarted
  PROVE  OtcSpec => []BoughtStaysLocked
<1>1. MonthInv => BoughtStaysLocked
  BY DEF MonthInv
<1> QED BY <1>1, MonthInit, MonthNext, PTL DEF OtcSpec
=============================================================================
