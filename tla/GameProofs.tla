----------------------------- MODULE GameProofs -----------------------------
(***************************************************************************)
(* The mining game as a game.  The lottery: the ranges that the miners of  *)
(* a round hold partition its squares, so every sample has exactly one     *)
(* holder and the permissionless reset always has a candidate it accepts.  *)
(* The tickets: every step of Mining is a step of Ticket, or leaves its    *)
(* state alone.                                                            *)
(***************************************************************************)
EXTENDS MiningProofs

\* Nobody has played a round that is still to come.
NoFuturePlay ==
    \A m \in Miners, k \in RoundIds : Plays(m, k) => k <= board.round_id

\* RangesDisjoint is not inductive by itself: that a new range lies above all
\* the others follows from SquaresTiled, and that a new round starts without
\* players from NoFuturePlay.
Lottery == RangesDisjoint /\ SquaresTiled /\ NoFuturePlay
-----------------------------------------------------------------------------
\* The numbers behind a range, and behind a square of a round.
RangesTyped ==
    \A m \in Miners, k \in RoundIds, s \in Squares : Plays(m, k) =>
        /\ miner[m] \in MinerRecord
        /\ miner[m].deployed[s] \in Nat /\ miner[m].cumulative[s] \in Nat
        /\ Span(m, s).low = miner[m].cumulative[s]
        /\ Span(m, s).high = miner[m].cumulative[s] + miner[m].deployed[s]
        /\ Span(m, s).high \in Nat

SquaresTyped ==
    /\ \A k \in RoundIds, s \in Squares : round[k] # None =>
         round[k] \in RoundRecord /\ round[k].deployed[s] \in Nat
    /\ board.round_id \in RoundIds
    /\ round[board.round_id] # None
    /\ Current = round[board.round_id]

\* Whoever plays a round has ranges of natural numbers on every square.
LEMMA PlayTypes == TypeOK => RangesTyped
<1> SUFFICES ASSUME TypeOK, NEW m \in Miners, NEW k \in RoundIds, NEW s \in Squares, Plays(m, k)
             PROVE  /\ miner[m] \in MinerRecord
                    /\ miner[m].deployed[s] \in Nat /\ miner[m].cumulative[s] \in Nat
                    /\ Span(m, s).low = miner[m].cumulative[s]
                    /\ Span(m, s).high = miner[m].cumulative[s] + miner[m].deployed[s]
                    /\ Span(m, s).high \in Nat
  BY DEF RangesTyped
<1>1. miner[m] \in MinerRecord
  BY DEF Plays, TypeOK
<1>2. miner[m].deployed[s] \in Nat /\ miner[m].cumulative[s] \in Nat
  BY <1>1 DEF MinerRecord, Sqs
<1> QED BY <1>1, <1>2 DEF Span

\* Every round holds a natural number on every square, and there is a current one.
LEMMA RoundTypes == TypeOK => SquaresTyped
<1> SUFFICES ASSUME TypeOK PROVE SquaresTyped
  OBVIOUS
<1>1. ASSUME NEW k \in RoundIds, NEW s \in Squares, round[k] # None
      PROVE  round[k] \in RoundRecord /\ round[k].deployed[s] \in Nat
  <2>1. round[k] \in RoundRecord
    BY <1>1 DEF TypeOK
  <2> QED BY <2>1 DEF RoundRecord, Sqs
<1>2. board.round_id \in RoundIds /\ Current \in RoundRecord
  BY CurrentType
<1> QED BY <1>1, <1>2, NoneAssumption DEF SquaresTyped, Current

\* The same after a step.
LEMMA NextTyped == TypeOK' => RangesTyped' /\ SquaresTyped'
BY PlayTypes, RoundTypes, PTL
-----------------------------------------------------------------------------
(* Three kinds of steps *)

\* The play of miner m is the same before and after the step.
SamePlay(m) ==
    \A k \in RoundIds :
        /\ Plays(m, k)' = Plays(m, k)
        /\ Plays(m, k) => /\ miner'[m].deployed = miner[m].deployed
                          /\ miner'[m].cumulative = miner[m].cumulative

\* The rounds are the same, but for those that the step closed.
SameSquares ==
    /\ board'.round_id = board.round_id
    /\ \A k \in RoundIds : round'[k] # None =>
         round[k] # None /\ round'[k].deployed = round[k].deployed

\* A step that leaves plays and squares alone keeps the invariant.
LEMMA UndisturbedLottery ==
  ASSUME TypeOK, TypeOK', Lottery, \A m \in Miners : SamePlay(m), SameSquares
  PROVE  Lottery'
<1>1. ASSUME NEW m \in Miners, NEW k \in RoundIds, Plays(m, k)', NEW s \in Squares
      PROVE  /\ Plays(m, k)
             /\ miner'[m].deployed[s] = miner[m].deployed[s]
             /\ Span(m, s)' = Span(m, s)
  BY <1>1 DEF SamePlay, Span
<1>2. RangesDisjoint'
  <2> SUFFICES ASSUME NEW m1 \in Miners, NEW m2 \in Miners, NEW k \in RoundIds,
                      NEW s \in Squares,
                      m1 # m2, Plays(m1, k)', Plays(m2, k)'
               PROVE  \/ miner'[m1].deployed[s] = 0 \/ miner'[m2].deployed[s] = 0
                      \/ Span(m1, s)'.high <= Span(m2, s)'.low
                      \/ Span(m2, s)'.high <= Span(m1, s)'.low
    BY DEF RangesDisjoint
  <2> QED BY <1>1 DEF Lottery, RangesDisjoint
<1>3. board'.round_id = board.round_id /\ Current'.deployed = Current.deployed
  BY RoundTypes, NextTyped DEF SameSquares, SquaresTyped
<1>4. SquaresTiled'
  <2>1. ASSUME NEW s \in Squares, NEW x \in 0 .. Current'.deployed[s] - 1
        PROVE  \E m \in Miners : Plays(m, board.round_id)' /\ Occupies(m, s, x)'
    <3>1. PICK m \in Miners : Plays(m, board.round_id) /\ Occupies(m, s, x)
      BY <1>3 DEF Lottery, SquaresTiled
    <3>2. Plays(m, board.round_id)'
      BY <1>3, <3>1, RoundTypes DEF SamePlay, Plays, SquaresTyped
    <3>3. Span(m, s)' = Span(m, s)
      <4>1. /\ miner'[m].deployed = miner[m].deployed
            /\ miner'[m].cumulative = miner[m].cumulative
        BY <3>1, RoundTypes DEF SamePlay, SquaresTyped
      <4> QED BY <4>1 DEF Span
    <3> QED BY <3>1, <3>2, <3>3 DEF Occupies
  <2>2. ASSUME NEW m \in Miners, NEW k \in RoundIds, NEW s \in Squares,
               Plays(m, k)', round'[k] # None, miner'[m].deployed[s] > 0
        PROVE  Span(m, s)'.high <= round'[k].deployed[s]
    BY <1>1, <2>2 DEF Lottery, SquaresTiled, SameSquares
  <2> QED BY <2>1, <2>2 DEF SquaresTiled
<1>5. NoFuturePlay'
  BY <1>3 DEF Lottery, NoFuturePlay, SamePlay
<1> QED BY <1>2, <1>4, <1>5 DEF Lottery

\* Miner m enters the current round, in which it had nothing, with ranges that
\* start where the squares ended.
Enters(m) ==
    /\ board'.round_id = board.round_id
    /\ \A n \in Miners \ {m} : miner'[n] = miner[n]
    /\ \A k \in RoundIds \ {board.round_id} : round'[k] = round[k]
    /\ Plays(m, board.round_id)'
    /\ Plays(m, board.round_id) => miner[m].deployed = Zero
    /\ \A s \in Squares :
         /\ Current'.deployed[s] = Current.deployed[s] + miner'[m].deployed[s]
         /\ miner'[m].deployed[s] > 0 => miner'[m].cumulative[s] = Current.deployed[s]

\* A miner who enters on top of the squares keeps the invariant.
LEMMA EnteringLottery ==
  ASSUME TypeOK, TypeOK', Lottery, NEW m \in Miners, Enters(m)
  PROVE  Lottery'
<1> DEFINE c == board.round_id
<1>1. c \in RoundIds /\ board'.round_id = c /\ round[c] # None /\ round'[c] # None
      /\ Current = round[c] /\ Current' = round'[c]
  BY RoundTypes, NextTyped DEF Enters, SquaresTyped
<1>2. ASSUME NEW n \in Miners \ {m}, NEW k \in RoundIds
      PROVE  /\ Plays(n, k)' = Plays(n, k)
             /\ \A s \in Squares : /\ Span(n, s)' = Span(n, s)
                                   /\ miner'[n].deployed[s] = miner[n].deployed[s]
  BY DEF Enters, Plays, Span
<1>3. ASSUME NEW k \in RoundIds, Plays(m, k)' PROVE k = c
  BY <1>3 DEF Enters, Plays
<1>4. ASSUME NEW s \in Squares
      PROVE  /\ Current.deployed[s] \in Nat
             /\ miner'[m].deployed[s] \in Nat
             /\ Current'.deployed[s] = Current.deployed[s] + miner'[m].deployed[s]
             /\ Span(m, s)'.high = miner'[m].cumulative[s] + miner'[m].deployed[s]
             /\ Span(m, s)'.low = miner'[m].cumulative[s]
             /\ miner'[m].deployed[s] > 0 =>
                  /\ Span(m, s)'.low = Current.deployed[s]
                  /\ Span(m, s)'.high = Current'.deployed[s]
  <2>1. Plays(m, c)'
    BY DEF Enters
  <2>2. /\ miner'[m].deployed[s] \in Nat
        /\ Span(m, s)'.high = miner'[m].cumulative[s] + miner'[m].deployed[s]
        /\ Span(m, s)'.low = miner'[m].cumulative[s]
    BY <1>1, <2>1, NextTyped DEF RangesTyped
  <2>3. Current.deployed[s] \in Nat
    BY <1>1, RoundTypes DEF SquaresTyped
  <2> QED BY <2>2, <2>3 DEF Enters
<1>5. ASSUME NEW n \in Miners \ {m}, NEW s \in Squares, Plays(n, c)', miner'[n].deployed[s] > 0
      PROVE  Span(n, s)'.high <= Current.deployed[s] /\ Span(n, s)'.high \in Nat
  <2>1. Plays(n, c) /\ miner[n].deployed[s] > 0 /\ Span(n, s)' = Span(n, s)
    BY <1>1, <1>2, <1>5
  <2>2. Span(n, s).high <= round[c].deployed[s]
    BY <1>1, <2>1 DEF Lottery, SquaresTiled
  <2>3. Span(n, s).high \in Nat
    BY <1>1, <2>1, PlayTypes DEF RangesTyped
  <2> QED BY <1>1, <2>1, <2>2, <2>3
<1>6. RangesDisjoint'
  <2> SUFFICES ASSUME NEW m1 \in Miners, NEW m2 \in Miners, NEW k \in RoundIds,
                      NEW s \in Squares,
                      m1 # m2, Plays(m1, k)', Plays(m2, k)',
                      miner'[m1].deployed[s] # 0, miner'[m2].deployed[s] # 0
               PROVE  \/ Span(m1, s)'.high <= Span(m2, s)'.low
                      \/ Span(m2, s)'.high <= Span(m1, s)'.low
    BY DEF RangesDisjoint
  <2>1. miner'[m1].deployed[s] > 0 /\ miner'[m2].deployed[s] > 0
    BY NextTyped DEF RangesTyped
  <2>2. CASE m1 # m /\ m2 # m
    BY <1>2, <2>1, <2>2 DEF Lottery, RangesDisjoint
  <2>3. CASE m1 = m
    <3>1. k = c /\ m2 \in Miners \ {m}
      BY <1>3, <2>3
    <3>2. Plays(m2, c)'
      BY <1>1, <3>1 DEF Plays
    <3>3. Span(m2, s)'.high <= Current.deployed[s]
      BY <1>5, <2>1, <3>1, <3>2
    <3>4. Span(m1, s)'.low = Current.deployed[s]
      BY <1>4, <2>1, <2>3
    <3> QED BY <2>3, <3>3, <3>4
  <2>4. CASE m2 = m
    <3>1. k = c /\ m1 \in Miners \ {m}
      BY <1>3, <2>4
    <3>2. Plays(m1, c)'
      BY <1>1, <3>1 DEF Plays
    <3>3. Span(m1, s)'.high <= Current.deployed[s]
      BY <1>5, <2>1, <3>1, <3>2
    <3>4. Span(m2, s)'.low = Current.deployed[s]
      BY <1>4, <2>1, <2>4
    <3> QED BY <2>4, <3>3, <3>4
  <2> QED BY <2>2, <2>3, <2>4
<1>7. SquaresTiled'
  <2>1. ASSUME NEW s \in Squares, NEW x \in 0 .. Current'.deployed[s] - 1
        PROVE  \E n \in Miners : Plays(n, c)' /\ Occupies(n, s, x)'
    <3>1. CASE x < Current.deployed[s]
      <4>1. x \in 0 .. Current.deployed[s] - 1
        BY <1>4, <3>1
      <4>2. PICK n \in Miners : Plays(n, c) /\ Occupies(n, s, x)
        BY <4>1 DEF Lottery, SquaresTiled
      <4>3. n # m
        <5> SUFFICES ASSUME n = m PROVE FALSE
          OBVIOUS
        <5>1. miner[m].deployed[s] = 0
          BY <4>2 DEF Enters, Zero
        <5>2. /\ Span(m, s).low \in Nat
              /\ Span(m, s).high = Span(m, s).low + miner[m].deployed[s]
          BY <1>1, <4>2, PlayTypes DEF RangesTyped
        <5> QED BY <4>1, <4>2, <5>1, <5>2 DEF Occupies
      <4> QED BY <1>1, <1>2, <4>2, <4>3 DEF Occupies
    <3>2. CASE ~ (x < Current.deployed[s])
      <4>1. miner'[m].deployed[s] > 0
        BY <1>4, <3>2
      <4>2. Occupies(m, s, x)'
        BY <1>4, <3>2, <4>1 DEF Occupies
      <4> QED BY <4>2 DEF Enters
    <3> QED BY <3>1, <3>2
  <2>2. ASSUME NEW n \in Miners, NEW k \in RoundIds, NEW s \in Squares,
               Plays(n, k)', round'[k] # None, miner'[n].deployed[s] > 0
        PROVE  Span(n, s)'.high <= round'[k].deployed[s]
    <3>1. CASE n = m
      <4>1. k = c
        BY <1>3, <2>2, <3>1
      <4> QED BY <1>1, <1>4, <2>2, <3>1, <4>1
    <3>2. CASE n # m /\ k = c
      BY <1>1, <1>4, <1>5, <2>2, <3>2
    <3>3. CASE n # m /\ k # c
      <4>1. round'[k] = round[k]
        BY <3>3 DEF Enters
      <4> QED BY <1>2, <2>2, <3>3, <4>1 DEF Lottery, SquaresTiled
    <3> QED BY <3>1, <3>2, <3>3
  <2> QED BY <1>1, <2>1, <2>2 DEF SquaresTiled
<1>8. NoFuturePlay'
  <2> SUFFICES ASSUME NEW n \in Miners, NEW k \in RoundIds, Plays(n, k)'
               PROVE  k <= c
    BY <1>1 DEF NoFuturePlay
  <2>1. CASE n = m
    BY <1>1, <1>3, <2>1 DEF RoundIds
  <2>2. CASE n # m
    BY <1>2, <2>2 DEF Lottery, NoFuturePlay
  <2> QED BY <2>1, <2>2
<1> QED BY <1>6, <1>7, <1>8 DEF Lottery
-----------------------------------------------------------------------------
(* Deployments *)

\* Whoever may enter the current round has nothing deployed in it yet, and
\* after entering it still has nothing.
LEMMA EnteredIsEmpty ==
  ASSUME TypeOK, NEW m \in Miners, MayEnter(m)
  PROVE  /\ EnteredMiner(m) \in MinerRecord
         /\ EnteredMiner(m).round_id = board.round_id
         /\ EnteredMiner(m).deployed = Zero
         /\ Plays(m, board.round_id) => miner[m].deployed = Zero
<1>1. OpenedMiner(m) \in MinerRecord
  BY OpenedMinerType
<1>2. EnteredMiner(m) \in MinerRecord
  BY EnteredMinerType
<1>3. /\ EnteredMiner(m).round_id = board.round_id
      /\ EnteredMiner(m).deployed = Zero
  BY <1>1 DEF EnteredMiner, MayEnter, MinerRecord
<1> QED BY <1>2, <1>3 DEF Plays, OpenedMiner, MayEnter

\* A deployment puts its range on top of each chosen square, and only there.
LEMMA PlaceEnters ==
  ASSUME TypeOK, TypeOK', NEW m \in Miners, NEW squares \in SUBSET Squares, NEW amount \in Nat,
         NEW pooled \in BOOLEAN, Place(m, squares, amount, pooled)
  PROVE  Enters(m)
<1> DEFINE M == EnteredMiner(m)
           c == board.round_id
<1>1. c \in RoundIds /\ board'.round_id = c
  BY CurrentType, StartedTypes DEF Place, StartedBoard
<1>2. /\ miner' = [miner EXCEPT ![m] = DeployedMiner(m, squares, amount)]
      /\ round' = [round EXCEPT ![c] = DeployedRound(squares, amount)]
      /\ MayEnter(m)
  BY DEF Place
<1>3. /\ M \in MinerRecord /\ M.round_id = c /\ M.deployed = Zero
      /\ Plays(m, c) => miner[m].deployed = Zero
  BY <1>2, EnteredIsEmpty
<1>4. /\ DeployedMiner(m, squares, amount).round_id = c
      /\ DeployedMiner(m, squares, amount).deployed =
           [s \in Squares |-> IF s \in squares THEN amount ELSE M.deployed[s]]
      /\ DeployedMiner(m, squares, amount).cumulative =
           [s \in Squares |-> IF s \in squares THEN RangeStart(s) ELSE M.cumulative[s]]
  BY <1>3 DEF DeployedMiner, MinerRecord
<1>5. /\ DeployedRound(squares, amount).deployed =
           [s \in Squares |-> Current.deployed[s] + IF s \in squares THEN amount ELSE 0]
  <2>1. StartedRound \in RoundRecord /\ StartedRound.deployed = Current.deployed
    BY StartedTypes, CurrentType DEF StartedRound, RoundRecord
  <2> QED BY <2>1 DEF DeployedRound, Grown, RoundRecord
<1> HIDE DEF M, c
<1>6. /\ miner'[m] = DeployedMiner(m, squares, amount)
      /\ \A n \in Miners \ {m} : miner'[n] = miner[n]
      /\ round'[c] = DeployedRound(squares, amount)
      /\ \A k \in RoundIds \ {c} : round'[k] = round[k]
  BY <1>1, <1>2 DEF TypeOK
<1>7. Plays(m, board.round_id)'
  <2>1. miner'[m] \in MinerRecord
    BY <1>6, DeployedMinerType
  <2> QED BY <1>1, <1>4, <1>6, <2>1, NoneAssumption DEF Plays
<1>8. ASSUME NEW s \in Squares
      PROVE  /\ Current'.deployed[s] = Current.deployed[s] + miner'[m].deployed[s]
             /\ miner'[m].deployed[s] > 0 => miner'[m].cumulative[s] = Current.deployed[s]
  <2>1. Current' = round'[c]
    BY <1>1 DEF Current
  <2> QED BY <1>3, <1>4, <1>5, <1>6, <2>1 DEF Zero, RangeStart
<1> QED BY <1>1, <1>3, <1>6, <1>7, <1>8 DEF Enters, c

\* An automation that runs out of funds enters the round with nothing.
LEMMA CancelledEnters ==
  ASSUME TypeOK, TypeOK', NEW m \in Miners, NEW r \in Hashes, NEW squares \in SUBSET Squares,
         DeployCancelled(m, r, squares)
  PROVE  Enters(m)
<1> DEFINE c == board.round_id
<1>1. c \in RoundIds /\ board'.round_id = c
  BY CurrentType, StartedTypes DEF DeployCancelled, StartedBoard
<1>2. /\ EnteredMiner(m) \in MinerRecord
      /\ EnteredMiner(m).round_id = c
      /\ EnteredMiner(m).deployed = Zero
      /\ Plays(m, c) => miner[m].deployed = Zero
  BY EnteredIsEmpty DEF DeployCancelled
<1>3. StartedRound.deployed = Current.deployed
  BY CurrentType DEF StartedRound, RoundRecord
<1> HIDE DEF c
<1>4. /\ miner'[m] = EnteredMiner(m)
      /\ \A n \in Miners \ {m} : miner'[n] = miner[n]
      /\ round'[c] = StartedRound
      /\ \A k \in RoundIds \ {c} : round'[k] = round[k]
  BY <1>1 DEF DeployCancelled, TypeOK, c
<1>5. Plays(m, board.round_id)'
  BY <1>1, <1>2, <1>4, NoneAssumption DEF Plays
<1>6. ASSUME NEW s \in Squares
      PROVE  /\ Current'.deployed[s] = Current.deployed[s] + miner'[m].deployed[s]
             /\ ~ (miner'[m].deployed[s] > 0)
  <2>1. Current' = round'[c]
    BY <1>1 DEF Current
  <2>2. Current.deployed[s] \in Nat
    BY CurrentType DEF RoundRecord, Sqs
  <2> QED BY <1>2, <1>3, <1>4, <2>1, <2>2 DEF Zero
<1> QED BY <1>1, <1>2, <1>4, <1>5, <1>6 DEF Enters, c
-----------------------------------------------------------------------------
(* A reset opens a round with empty squares *)

\* A round opened with empty squares keeps the invariant, as nobody plays it yet.
LEMMA AdvancingLottery ==
  ASSUME TypeOK, TypeOK', Lottery, NEW settled \in RoundRecord,
         settled.deployed = Current.deployed, AdvanceBoard(settled), miner' = miner
  PROVE  Lottery'
<1> DEFINE c == board.round_id
<1>1. /\ c \in RoundIds /\ c + 1 \in RoundIds /\ c + 1 > c
      /\ board'.round_id = c + 1
  <2>1. c \in RoundIds /\ c < MaxRounds
    BY CurrentType DEF AdvanceBoard
  <2> QED BY <2>1, ConstantTypes DEF RoundIds, AdvanceBoard
<1>2. /\ round'[c] = settled
      /\ round'[c + 1] = NewRound
      /\ \A k \in RoundIds \ {c, c + 1} : round'[k] = round[k]
  BY <1>1 DEF AdvanceBoard, TypeOK
<1>3. ASSUME NEW m \in Miners, NEW k \in RoundIds
      PROVE  /\ Plays(m, k)' = Plays(m, k)
             /\ \A s \in Squares : Span(m, s)' = Span(m, s)
  BY DEF Plays, Span
<1>4. ASSUME NEW m \in Miners, NEW k \in RoundIds, Plays(m, k)
      PROVE  k <= c /\ k # c + 1
  BY <1>1, <1>4 DEF Lottery, NoFuturePlay, RoundIds
<1>5. RangesDisjoint'
  BY <1>3 DEF Lottery, RangesDisjoint
<1>6. SquaresTiled'
  <2>1. ASSUME NEW s \in Squares, NEW x \in 0 .. Current'.deployed[s] - 1 PROVE FALSE
    <3>1. Current'.deployed[s] = 0
      BY <1>1, <1>2 DEF Current, NewRound, Zero
    <3> QED BY <2>1, <3>1
  <2>2. ASSUME NEW m \in Miners, NEW k \in RoundIds, NEW s \in Squares,
               Plays(m, k), round'[k] # None, miner[m].deployed[s] > 0
        PROVE  Span(m, s).high <= round'[k].deployed[s]
    <3>1. round[k] # None /\ round'[k].deployed = round[k].deployed
      <4>1. CASE k = c
        BY <1>2, <4>1, RoundTypes DEF SquaresTyped
      <4>2. CASE k # c
        BY <1>2, <1>4, <2>2, <4>2
      <4> QED BY <4>1, <4>2
    <3> QED BY <2>2, <3>1 DEF Lottery, SquaresTiled
  <2> QED BY <1>3, <2>1, <2>2 DEF SquaresTiled
<1>7. NoFuturePlay'
  <2> SUFFICES ASSUME NEW m \in Miners, NEW k \in RoundIds, Plays(m, k)
               PROVE  k <= c + 1
    BY <1>1, <1>3 DEF NoFuturePlay
  <2> QED BY <1>1, <1>4 DEF RoundIds
<1> QED BY <1>5, <1>6, <1>7 DEF Lottery

\* Both resets settle the round without changing what was deployed in it.
LEMMA ResetLottery ==
  ASSUME TypeOK, TypeOK', Lottery, NEW candidate \in Miners \cup {None},
         Reset(candidate) \/ ResetPermissionless(candidate)
  PROVE  Lottery'
<1> DEFINE R == Closing
<1>1. Over /\ miner' = miner /\ \E top \in Marks : Settle(R, top)
  BY DEF Reset, ResetPermissionless, LenientTopMiner, StrictTopMiner, Marks
<1>2. /\ R \in RoundRecord /\ R.slot_hash \in RngValues
      /\ R.deployed = Current.deployed
  BY <1>1, ClosingType
<1> HIDE DEF R
<1>3. PICK top \in Marks : Settle(R, top)
  BY <1>1
<1>4. /\ Refunded(R) \in RoundRecord /\ Refunded(R).deployed = Current.deployed
      /\ Vaulted(R) \in RoundRecord /\ Vaulted(R).deployed = Current.deployed
      /\ Won(R, top).deployed = Current.deployed
      /\ R.slot_hash # Unavailable => Won(R, top) \in RoundRecord
  <2>1. /\ Refunded(R) \in RoundRecord /\ Vaulted(R) \in RoundRecord
        /\ R.slot_hash # Unavailable => Won(R, top) \in RoundRecord
    BY <1>2, SettledTypes
  <2>2. /\ Refunded(R).deployed = R.deployed /\ Vaulted(R).deployed = R.deployed
        /\ Won(R, top).deployed = R.deployed
    BY <1>2 DEF Refunded, Vaulted, Won, RoundRecord
  <2> QED BY <1>2, <2>1, <2>2
<1>5. \E settled \in RoundRecord : settled.deployed = Current.deployed /\ AdvanceBoard(settled)
  BY <1>3, <1>4 DEF Settle
<1> QED BY <1>1, <1>5, AdvancingLottery
-----------------------------------------------------------------------------
(* Steps that leave every play alone *)

\* The account of miner m holds the same play, or has just been created.
KeepsPlay(m) ==
    \/ miner'[m] = miner[m]
    \/ /\ miner'[m] \in MinerRecord
       /\ miner'[m].round_id = OpenedMiner(m).round_id
       /\ miner'[m].deployed = OpenedMiner(m).deployed
       /\ miner'[m].cumulative = OpenedMiner(m).cumulative

\* A new account plays no round, because rounds are numbered from 1.
LEMMA KeptPlays ==
  ASSUME TypeOK, NEW m \in Miners, KeepsPlay(m)
  PROVE  SamePlay(m)
<1>1. CASE miner'[m] = miner[m]
  BY <1>1 DEF SamePlay, Plays
<1>2. CASE miner'[m] # miner[m] /\ miner[m] = None
  <2>1. miner'[m].round_id = 0
    BY <1>2 DEF KeepsPlay, OpenedMiner, NewMiner
  <2> QED BY <1>2, <2>1 DEF SamePlay, Plays, RoundIds
<1>3. CASE miner'[m] # miner[m] /\ miner[m] # None
  BY <1>3, NoneAssumption DEF KeepsPlay, OpenedMiner, SamePlay, Plays
<1> QED BY <1>1, <1>2, <1>3

\* Only the fee, the rewards, the lamports and the checkpoint of the miner's
\* own account change when it sets up or claims something, or checkpoints.
LEMMA UpdatedMiner ==
  ASSUME TypeOK, TypeOK', NEW m \in Miners, NEW M \in MinerRecord,
         miner' = [miner EXCEPT ![m] = M],
         M.round_id = OpenedMiner(m).round_id,
         M.deployed = OpenedMiner(m).deployed,
         M.cumulative = OpenedMiner(m).cumulative
  PROVE  \A n \in Miners : SamePlay(n)
<1> SUFFICES ASSUME NEW n \in Miners PROVE KeepsPlay(n)
  BY KeptPlays
<1>1. CASE n = m
  BY <1>1 DEF KeepsPlay, TypeOK
<1>2. CASE n # m
  BY <1>2 DEF KeepsPlay, TypeOK
<1> QED BY <1>1, <1>2

\* Settings and claims of an authority change no play and no round.
LEMMA AuthorityKeepsPlays ==
  ASSUME TypeOK, TypeOK', NEW m \in Miners,
         \/ \E plan \in Plans, deposit \in Deposits : Automate(m, plan, deposit)
         \/ CloseAutomation(m)
         \/ \E deposit \in Deposits : FundAutomation(m, deposit)
         \/ ClaimSol(m)
         \/ ClaimSolAndFundAutomation(m)
         \/ CheckpointForfeit(m)
  PROVE  (\A n \in Miners : SamePlay(n)) /\ SameSquares
<1>1. OpenedMiner(m) \in MinerRecord
  BY OpenedMinerType
<1>2. SameSquares
  BY DEF Automate, CloseAutomation, FundAutomation, ClaimSol, ClaimSolAndFundAutomation,
         CheckpointForfeit, SameSquares
<1>3. ASSUME NEW plan \in Plans, NEW deposit \in Deposits, Automate(m, plan, deposit)
      PROVE  \A n \in Miners : SamePlay(n)
  <2> DEFINE topUp == IF OpenedMiner(m).checkpoint_fee = 0 THEN CHECKPOINT_FEE ELSE 0
             fee == OpenedMiner(m).checkpoint_fee + topUp
             lamports == OpenedMiner(m).lamports + topUp
             M == [OpenedMiner(m) EXCEPT !.checkpoint_fee = fee, !.lamports = lamports]
  <2>1. miner' = [miner EXCEPT ![m] = M]
    BY <1>3 DEF Automate
  <2>2. fee \in Nat /\ lamports \in Int
    BY <1>1, ConstantTypes DEF MinerRecord
  <2>3. /\ M \in MinerRecord /\ M.round_id = OpenedMiner(m).round_id
        /\ M.deployed = OpenedMiner(m).deployed
        /\ M.cumulative = OpenedMiner(m).cumulative
    <3> HIDE DEF fee, lamports
    <3> QED BY <1>1, <2>2 DEF MinerRecord
  <2> HIDE DEF M
  <2> QED BY <2>1, <2>3, UpdatedMiner
<1>4. CASE CloseAutomation(m)
  BY <1>1, <1>2, <1>4, UpdatedMiner DEF CloseAutomation
<1>5. CASE \E deposit \in Deposits : FundAutomation(m, deposit)
  BY <1>2, <1>5, KeptPlays DEF FundAutomation, KeepsPlay
<1>6. CASE ClaimSol(m) \/ ClaimSolAndFundAutomation(m)
  <2> DEFINE paid == miner[m].lamports - miner[m].rewards_sol
             M == [miner[m] EXCEPT !.rewards_sol = 0, !.lamports = paid]
  <2>1. miner[m] # None
    BY <1>6 DEF ClaimSol, ClaimSolAndFundAutomation
  <2>2. miner[m] \in MinerRecord /\ OpenedMiner(m) = miner[m]
    BY <2>1 DEF TypeOK, OpenedMiner
  <2>3. miner' = [miner EXCEPT ![m] = M]
    BY <1>6, <2>2 DEF ClaimSol, ClaimSolAndFundAutomation, PaySolOut, TypeOK
  <2>4. paid \in Int
    BY <2>2 DEF MinerRecord
  <2>5. /\ M \in MinerRecord /\ M.round_id = miner[m].round_id
        /\ M.deployed = miner[m].deployed /\ M.cumulative = miner[m].cumulative
    <3> HIDE DEF paid
    <3> QED BY <2>2, <2>4 DEF MinerRecord
  <2> HIDE DEF M
  <2> QED BY <1>2, <2>2, <2>3, <2>5, UpdatedMiner
<1>7. CASE CheckpointForfeit(m)
  <2> DEFINE M == [miner[m] EXCEPT !.checkpoint_id = miner[m].round_id]
  <2>1. miner[m] \in MinerRecord /\ OpenedMiner(m) = miner[m]
    BY <1>7 DEF CheckpointForfeit, Unsettled, TypeOK, OpenedMiner
  <2>2. miner' = [miner EXCEPT ![m] = M]
    BY <1>7, <2>1 DEF CheckpointForfeit, TypeOK
  <2>3. /\ M \in MinerRecord /\ M.round_id = miner[m].round_id
        /\ M.deployed = miner[m].deployed /\ M.cumulative = miner[m].cumulative
    BY <2>1 DEF MinerRecord
  <2> HIDE DEF M
  <2> QED BY <1>2, <2>1, <2>2, <2>3, UpdatedMiner
<1> QED BY <1>2, <1>3, <1>4, <1>5, <1>6, <1>7

\* Referrers, settings and the vaults change no play and no round.
LEMMA OthersKeepPlays ==
  ASSUME TypeOK, TypeOK',
         \/ \E r \in Referrers : InitializeReferrer(r) \/ ClaimReferral(r)
         \/ \E m \in Claimants : SetNoReferrer(m) \/ \E r \in Referrers : SetReferrer(m, r)
         \/ \E rate \in Rates : SetGodlPerRound(rate)
         \/ \E denominator \in Denominators : SetMotherlodeDenominator(denominator)
         \/ \E t \in Timings : UpdateProtocolConfig(t)
         \/ \E amount \in Withdrawals : TakeFromVault(amount)
         \/ \E amount \in GoldBuys : PreBuyGold(amount)
  PROVE  (\A n \in Miners : SamePlay(n)) /\ SameSquares
<1>1. CASE \E m \in Claimants : SetNoReferrer(m) \/ \E r \in Referrers : SetReferrer(m, r)
  <2>1. PICK m \in Claimants : SetNoReferrer(m) \/ \E r \in Referrers : SetReferrer(m, r)
    BY <1>1
  <2>2. PICK x \in Referrers \cup {LOCKED} : miner' = [miner EXCEPT ![m].referrer = x]
    BY <2>1 DEF SetNoReferrer, SetReferrer
  <2>3. m \in Miners /\ miner[m] \in MinerRecord /\ OpenedMiner(m) = miner[m]
    BY <2>1, SizesAssumption DEF SetNoReferrer, SetReferrer, Unreferred, TypeOK, OpenedMiner
  <2> DEFINE M == [miner[m] EXCEPT !.referrer = x]
  <2>4. miner' = [miner EXCEPT ![m] = M]
    BY <2>2, <2>3 DEF TypeOK
  <2>5. /\ M \in MinerRecord /\ M.round_id = OpenedMiner(m).round_id
        /\ M.deployed = OpenedMiner(m).deployed /\ M.cumulative = OpenedMiner(m).cumulative
    BY <2>3 DEF MinerRecord
  <2>6. SameSquares
    BY <2>1 DEF SetNoReferrer, SetReferrer, RoundsUntouched, SameSquares
  <2> HIDE DEF M
  <2> QED BY <2>3, <2>4, <2>5, <2>6, UpdatedMiner
<1>2. CASE ~ \E m \in Claimants : SetNoReferrer(m) \/ \E r \in Referrers : SetReferrer(m, r)
  <2>1. UNCHANGED <<board, round, miner>>
    BY <1>2 DEF InitializeReferrer, ClaimReferral, RoundsUntouched, SetGodlPerRound,
                SetMotherlodeDenominator, UpdateProtocolConfig, SettingsOnly,
                TakeFromVault, PreBuyGold, VaultOnly
  <2> QED BY <2>1, KeptPlays DEF KeepsPlay, SameSquares
<1> QED BY <1>1, <1>2

\* A checkpoint pays the miner, and the round only loses lamports and may be signed.
LEMMA CheckpointKeepsPlays ==
  ASSUME TypeOK, TypeOK', NEW m \in Miners, NEW pooled \in BOOLEAN, Checkpoint(m, pooled)
  PROVE  (\A n \in Miners : SamePlay(n)) /\ SameSquares
<1> DEFINE k == miner[m].round_id
           sol == SolReward(miner[m], round[k])
           M == miner'[m]
<1>1. miner[m] \in MinerRecord /\ OpenedMiner(m) = miner[m]
  BY DEF Checkpoint, Unsettled, TypeOK, OpenedMiner
<1>2. k \in RoundIds /\ round[k] # None /\ round[k] \in RoundRecord
  BY DEF Checkpoint, Finished, TypeOK
<1>3. /\ M.round_id = miner[m].round_id
      /\ M.deployed = miner[m].deployed
      /\ M.cumulative = miner[m].cumulative
      /\ \A n \in Miners \ {m} : miner'[n] = miner[n]
  BY <1>1 DEF Checkpoint, TypeOK, MinerRecord
<1>4. M \in MinerRecord
  BY CheckpointTypes
<1>5. \A n \in Miners : SamePlay(n)
  BY <1>1, <1>3, <1>4, KeptPlays DEF KeepsPlay
<1>6. SameSquares
  BY <1>2 DEF Checkpoint, SameSquares, TypeOK, RoundRecord
<1> QED BY <1>5, <1>6

\* Closing removes a round of the past.
LEMMA CloseKeepsPlays ==
  ASSUME TypeOK, NEW k \in RoundIds, Close(k)
  PROVE  (\A n \in Miners : SamePlay(n)) /\ SameSquares
BY KeptPlays DEF Close, KeepsPlay, SameSquares, TypeOK
-----------------------------------------------------------------------------
(* The invariant and what follows from it *)

\* No miner has an account, and no square of round 1 holds anything, at first.
LEMMA InitLottery == Init => Lottery
<1> SUFFICES ASSUME Init PROVE Lottery
  OBVIOUS
<1>1. \A m \in Miners, k \in RoundIds : ~Plays(m, k)
  BY DEF Init, Plays
<1>2. \A s \in Squares : 0 .. Current.deployed[s] - 1 = {}
  BY SizesAssumption DEF Init, Current, NewRound, Zero, RoundIds
<1> QED BY <1>1, <1>2 DEF Lottery, RangesDisjoint, SquaresTiled, NoFuturePlay

\* One case per action: a deployment enters, a reset opens a round, everything
\* else leaves the plays and the squares alone.
LEMMA NextLottery == TypeOK /\ TypeOK' /\ Lottery /\ [Next]_vars => Lottery'
<1> SUFFICES ASSUME TypeOK, TypeOK', Lottery, [Next]_vars PROVE Lottery'
  OBVIOUS
<1> DEFINE Undisturbed == (\A n \in Miners : SamePlay(n)) /\ SameSquares
<1>1. ASSUME Tick \/ (\E value \in RngValues : Reveal(value)) \/ UNCHANGED vars
      PROVE  Undisturbed
  BY <1>1, KeptPlays DEF Tick, Reveal, vars, KeepsPlay, SameSquares
<1>2. ASSUME NEW m \in Miners, NEW squares \in Masks, NEW amount \in Amounts,
             NEW pooled \in PoolModes, Deploy(m, squares, amount, pooled)
      PROVE  Lottery'
  <2>1. squares \in SUBSET Squares /\ amount \in Nat /\ pooled \in BOOLEAN
    BY SizesAssumption
  <2>2. Place(m, squares, amount, pooled)
    BY <1>2 DEF Deploy
  <2> QED BY <2>1, <2>2, PlaceEnters, EnteringLottery
<1>3. ASSUME NEW m \in Miners, NEW r \in Hashes, NEW squares \in SUBSET Squares,
             DeployByExecutor(m, r, squares)
      PROVE  Lottery'
  <2>1. automation[m] \in AutomationRecord
    BY <1>3 DEF DeployByExecutor, TypeOK
  <2>2. automation[m].plan.amount \in Nat /\ automation[m].plan.is_pooled \in BOOLEAN
    BY <2>1, SizesAssumption DEF AutomationRecord
  <2>3. Place(m, squares, automation[m].plan.amount, automation[m].plan.is_pooled)
    BY <1>3 DEF DeployByExecutor
  <2> QED BY <2>2, <2>3, PlaceEnters, EnteringLottery
<1>4. ASSUME NEW m \in Miners, NEW r \in Hashes, NEW squares \in SUBSET Squares,
             DeployCancelled(m, r, squares)
      PROVE  Lottery'
  BY <1>4, CancelledEnters, EnteringLottery
<1>5. ASSUME NEW m \in Miners,
             \/ \E plan \in Plans, deposit \in Deposits : Automate(m, plan, deposit)
             \/ CloseAutomation(m)
             \/ \E deposit \in Deposits : FundAutomation(m, deposit)
             \/ ClaimSol(m)
             \/ ClaimSolAndFundAutomation(m)
             \/ CheckpointForfeit(m)
      PROVE  Undisturbed
  BY <1>5, AuthorityKeepsPlays
<1>6. ASSUME NEW candidate \in Miners \cup {None},
             Reset(candidate) \/ ResetPermissionless(candidate)
      PROVE  Lottery'
  BY <1>6, ResetLottery
<1>7. ASSUME NEW m \in Miners, NEW pooled \in BOOLEAN, Checkpoint(m, pooled) PROVE Undisturbed
  BY <1>7, CheckpointKeepsPlays
<1>8. ASSUME NEW k \in RoundIds, Close(k) PROVE Undisturbed
  BY <1>8, CloseKeepsPlays
<1>11. ASSUME \/ \E r \in Referrers : InitializeReferrer(r) \/ ClaimReferral(r)
              \/ \E m \in Claimants : SetNoReferrer(m) \/ \E r \in Referrers : SetReferrer(m, r)
              \/ \E rate \in Rates : SetGodlPerRound(rate)
              \/ \E denominator \in Denominators : SetMotherlodeDenominator(denominator)
              \/ \E t \in Timings : UpdateProtocolConfig(t)
              \/ \E amount \in Withdrawals : TakeFromVault(amount)
              \/ \E amount \in GoldBuys : PreBuyGold(amount)
       PROVE  Undisturbed
  BY <1>11, OthersKeepPlays
<1>9. Undisturbed => Lottery'
  BY UndisturbedLottery
<1>10. Claimants \subseteq Miners
  BY SizesAssumption
<1> HIDE DEF Undisturbed
<1> QED BY <1>1, <1>2, <1>3, <1>4, <1>5, <1>6, <1>7, <1>8, <1>9, <1>10, <1>11 DEF Next

\* The inductive invariant holds in every reachable state.
THEOREM LotteryIsCorrect == Spec => []Lottery
<1>1. TypeOK /\ Lottery /\ [Next]_vars => TypeOK' /\ Lottery'
  BY NextTypes, NextLottery
<1> QED BY InitTypes, InitLottery, <1>1, PTL DEF Spec

\* Two miners of a round never hold the same lamport of a square, however
\* their deployments, resets and checkpoints interleave (deploy.rs:318).
THEOREM RangesAreDisjoint == Spec => []RangesDisjoint
<1>1. Lottery => RangesDisjoint
  BY DEF Lottery
<1> QED BY <1>1, LotteryIsCorrect, PTL

\* The ranges of the miners of the current round leave no lamport of a square
\* without a holder, and none reaches beyond its square.
THEOREM SquaresAreTiled == Spec => []SquaresTiled
<1>1. Lottery => SquaresTiled
  BY DEF Lottery
<1> QED BY <1>1, LotteryIsCorrect, PTL

\* A tiled winning square always has a miner that the strict checks of
\* process_reset_permissionless accept.
LEMMA TiledGivesCandidate == TypeOK /\ Lottery => StrictResetPossible
<1> SUFFICES ASSUME TypeOK, Lottery, NEW value \in RngValues,
                    HasWinners([Current EXCEPT !.slot_hash = value])
             PROVE  \E m \in Miners : StrictCandidate([Current EXCEPT !.slot_hash = value], m)
  BY DEF StrictResetPossible
<1> DEFINE R == [Current EXCEPT !.slot_hash = value]
           w == value.square
<1>1. /\ Current \in RoundRecord
      /\ R.slot_hash = value /\ R.deployed = Current.deployed
  BY CurrentType DEF RoundRecord
<1>2. value # Unavailable /\ Current.deployed[w] > 0
  BY <1>1 DEF HasWinners
<1>3. w \in Squares /\ value.rev \in Nat
  BY <1>2, RngType
<1> HIDE DEF R
<1>4. Current.deployed[w] \in Nat
  BY <1>1, <1>3 DEF RoundRecord, Sqs
<1>5. Sample(R) = value.rev % Current.deployed[w]
  BY <1>1 DEF Sample
<1>6. Sample(R) \in 0 .. Current.deployed[w] - 1
  <2> DEFINE D == Current.deployed[w]
             v == value.rev
  <2>1. D \in Nat /\ D > 0 /\ v \in Nat /\ Sample(R) = v % D
    BY <1>2, <1>3, <1>4, <1>5
  <2> HIDE DEF D, v
  <2>2. v % D \in 0 .. D - 1
    BY <2>1
  <2> QED BY <2>1, <2>2 DEF D
<1>7. PICK m \in Miners : Plays(m, board.round_id) /\ Occupies(m, w, Sample(R))
  BY <1>3, <1>6 DEF Lottery, SquaresTiled
<1>8. /\ miner[m].deployed[w] \in Nat
      /\ Span(m, w).low = miner[m].cumulative[w]
      /\ Span(m, w).high = miner[m].cumulative[w] + miner[m].deployed[w]
      /\ miner[m].cumulative[w] \in Nat
  BY <1>3, <1>7, PlayTypes, RoundTypes DEF RangesTyped, SquaresTyped
<1>9. HoldsSample(miner[m], R)
  BY <1>1, <1>6, <1>7, <1>8 DEF HoldsSample, Occupies
<1>10. m # None
  BY MarksAssumption
<1> QED BY <1>7, <1>9, <1>10 DEF StrictCandidate, Plays, R

\* Whatever the entropy program delivers, somebody can use the permissionless
\* reset, so a round never depends on the crank bot.
THEOREM StrictResetIsPossible == Spec => []StrictResetPossible
BY TiledGivesCandidate, TypesAreCorrect, LotteryIsCorrect, PTL

\* At most one miner of a round holds its sample: at most one can be the solo
\* winner of the block reward.
SampleHasOneHolder ==
    \A k \in RoundIds : \A m1, m2 \in Miners :
        /\ round[k] # None /\ round[k].slot_hash # None /\ HasWinners(round[k])
        /\ Plays(m1, k) /\ HoldsSample(miner[m1], round[k])
        /\ Plays(m2, k) /\ HoldsSample(miner[m2], round[k])
        => m1 = m2

\* A sample inside two disjoint ranges would contradict their order.
LEMMA DisjointGivesOneHolder == TypeOK /\ Lottery => SampleHasOneHolder
<1> SUFFICES ASSUME TypeOK, Lottery, NEW k \in RoundIds, NEW m1 \in Miners, NEW m2 \in Miners,
                    round[k] # None, round[k].slot_hash # None, HasWinners(round[k]),
                    Plays(m1, k), HoldsSample(miner[m1], round[k]),
                    Plays(m2, k), HoldsSample(miner[m2], round[k]),
                    m1 # m2
             PROVE  FALSE
  BY DEF SampleHasOneHolder
<1> DEFINE w == round[k].slot_hash.square
           x == Sample(round[k])
<1>1. round[k] \in RoundRecord
  BY DEF TypeOK
<1>2. w \in Squares /\ round[k].slot_hash.rev \in Nat
  BY <1>1, RngType DEF RoundRecord, HasWinners
<1>3. round[k].deployed[w] \in Nat /\ round[k].deployed[w] > 0
  BY <1>1, <1>2 DEF RoundRecord, Sqs, HasWinners
<1>4. x \in Int
  <2> DEFINE D == round[k].deployed[w]
             v == round[k].slot_hash.rev
  <2>1. D \in Nat /\ D > 0 /\ v \in Nat /\ x = v % D
    BY <1>2, <1>3 DEF Sample
  <2> HIDE DEF D, v, x
  <2> QED BY <2>1
<1>5. /\ miner[m1].deployed[w] > 0 /\ miner[m2].deployed[w] > 0
      /\ Span(m1, w).low <= x /\ x < Span(m1, w).high
      /\ Span(m2, w).low <= x /\ x < Span(m2, w).high
      /\ Span(m1, w).low \in Nat /\ Span(m1, w).high \in Nat
      /\ Span(m2, w).low \in Nat /\ Span(m2, w).high \in Nat
  BY <1>2, PlayTypes DEF HoldsSample, RangesTyped
<1>6. \/ Span(m1, w).high <= Span(m2, w).low
      \/ Span(m2, w).high <= Span(m1, w).low
  BY <1>2, <1>5 DEF Lottery, RangesDisjoint
<1> HIDE DEF x
<1> QED BY <1>4, <1>5, <1>6

\* No two checkpoints of a round can both pay the whole block reward.
THEOREM OneHolderOfTheSample == Spec => []SampleHasOneHolder
BY DisjointGivesOneHolder, TypesAreCorrect, LotteryIsCorrect, PTL
-----------------------------------------------------------------------------
(* The tickets                                                              *)

\* What the mapping needs to know of the states of Mining: no ticket is of a
\* round to come, or of the current one before its clock was started; the clock
\* of a round is started when its deadline is fixed.
TicketInv ==
    /\ \A m \in Miners :
         /\ TicketOf(m).round \in 0 .. board.round_id
         /\ TicketOf(m).open => TicketOf(m).round \in RoundIds
         /\ DeadlineOf(board.round_id) = U64Max => TicketOf(m).round # board.round_id
    /\ board.end_slot = U64Max <=> DeadlineOf(board.round_id) = U64Max

\* A step of the game of tickets that keeps what the mapping needs.
Maps == [Tickets!Next]_(Tickets!vars) /\ TicketInv'

SameTicket(m) == TicketOf(m)' = TicketOf(m) /\ PurseOf(m)' = PurseOf(m)
SameDeadlines == \A k \in RoundIds : DeadlineOf(k)' = DeadlineOf(k)
-----------------------------------------------------------------------------
(* Steps seen through the mapping *)

\* A step that changes nothing that Ticket sees.
LEMMA Stutters ==
  ASSUME TicketInv, board.round_id \in RoundIds,
         \A m \in Miners : SameTicket(m), SameDeadlines, UNCHANGED <<board, slot>>
  PROVE  Maps
<1>1. UNCHANGED Tickets!vars
  BY DEF SameTicket, SameDeadlines, Tickets!vars
<1>2. TicketInv'
  BY DEF SameTicket, SameDeadlines, TicketInv
<1> QED BY <1>1, <1>2 DEF Maps

LEMMA TickMaps ==
  ASSUME TicketInv, board.round_id \in RoundIds,
         \A m \in Miners : SameTicket(m), SameDeadlines, UNCHANGED board, slot' = slot + 1
  PROVE  Maps
<1>1. Tickets!Tick
  BY DEF SameTicket, SameDeadlines, Tickets!Tick
<1>2. TicketInv'
  BY DEF SameTicket, SameDeadlines, TicketInv
<1> QED BY <1>1, <1>2 DEF Maps, Tickets!Next

LEMMA EnterMaps ==
  ASSUME TicketInv, NEW m \in Miners, board.round_id \in RoundIds,
         ~TicketOf(m).open,
         TicketOf(m)' = [round |-> board.round_id, open |-> TRUE],
         PurseOf(m)' = PurseOf(m),
         \A n \in Miners \ {m} : SameTicket(n),
         board'.round_id = board.round_id, UNCHANGED slot,
         \A k \in RoundIds \ {board.round_id} : DeadlineOf(k)' = DeadlineOf(k),
         DeadlineOf(board.round_id)' # U64Max,
         board'.end_slot # U64Max,
         IF DeadlineOf(board.round_id) = U64Max
         THEN DeadlineOf(board.round_id)' > slot + ONE_DAY_SLOTS
         ELSE DeadlineOf(board.round_id)' = DeadlineOf(board.round_id)
  PROVE  Maps
<1>1. Tickets!Enter(m)
  BY DEF SameTicket, Tickets!Enter, Tickets!DeadlinesKept, Tickets!OthersKeep
<1>2. TicketInv'
  <2>1. \A n \in Miners : TicketOf(n)'.round \in 0 .. board.round_id
                          /\ (TicketOf(n)'.open => TicketOf(n)'.round \in RoundIds)
    BY DEF SameTicket, TicketInv, RoundIds
  <2> QED BY <2>1 DEF TicketInv
<1> QED BY <1>1, <1>2 DEF Maps, Tickets!Next

LEMMA UseMaps ==
  ASSUME TicketInv, NEW m \in Miners, board.round_id \in RoundIds,
         TicketOf(m).open, TicketOf(m).round < board.round_id,
         TicketOf(m)' = [round |-> TicketOf(m).round, open |-> FALSE],
         \A n \in Miners \ {m} : SameTicket(n),
         UNCHANGED <<board, slot>>, SameDeadlines,
         \/ /\ slot < DeadlineOf(TicketOf(m).round)
            /\ PurseOf(m)'.sol >= PurseOf(m).sol /\ PurseOf(m)'.godl >= PurseOf(m).godl
         \/ slot >= DeadlineOf(TicketOf(m).round) /\ PurseOf(m)' = PurseOf(m)
  PROVE  Maps
<1>1. TicketOf(m).round \in RoundIds
  BY DEF TicketInv
<1>2. Tickets!Collect(m) \/ Tickets!Forfeit(m)
  BY <1>1 DEF SameTicket, SameDeadlines, Tickets!Collect, Tickets!Forfeit, Tickets!Use,
              Tickets!OthersKeep
<1>3. TicketInv'
  BY <1>1 DEF SameTicket, SameDeadlines, TicketInv
<1> QED BY <1>2, <1>3 DEF Maps, Tickets!Next

LEMMA SpendMaps ==
  ASSUME TicketInv, NEW m \in Miners, board.round_id \in RoundIds,
         TicketOf(m)' = TicketOf(m),
         PurseOf(m)'.sol <= PurseOf(m).sol, PurseOf(m)'.godl = PurseOf(m).godl,
         \A n \in Miners \ {m} : SameTicket(n),
         UNCHANGED <<board, slot>>, SameDeadlines
  PROVE  Maps
<1>1. Tickets!Spend(m)
  BY DEF SameTicket, SameDeadlines, Tickets!Spend, Tickets!OthersKeep
<1>2. TicketInv'
  BY DEF SameTicket, SameDeadlines, TicketInv
<1> QED BY <1>1, <1>2 DEF Maps, Tickets!Next

LEMMA AdvanceMaps ==
  ASSUME TicketInv, board.round_id \in RoundIds,
         DeadlineOf(board.round_id) # U64Max,
         board'.round_id = board.round_id + 1, board'.end_slot = U64Max,
         DeadlineOf(board.round_id)' = U64Max,
         \A m \in Miners : SameTicket(m), SameDeadlines, UNCHANGED slot
  PROVE  Maps
<1>1. Tickets!Advance
  BY DEF SameTicket, SameDeadlines, Tickets!Advance
<1>2. TicketInv'
  BY DEF SameTicket, TicketInv, RoundIds
<1> QED BY <1>1, <1>2 DEF Maps, Tickets!Next

LEMMA SweepMaps ==
  ASSUME TicketInv, NEW k \in RoundIds, board.round_id \in RoundIds,
         k < board.round_id, DeadlineOf(k) < slot, DeadlineOf(k)' = 0,
         \A j \in RoundIds \ {k} : DeadlineOf(j)' = DeadlineOf(j),
         \A m \in Miners : SameTicket(m), UNCHANGED <<board, slot>>
  PROVE  Maps
<1>1. Tickets!Sweep(k)
  BY DEF SameTicket, Tickets!Sweep, Tickets!DeadlinesKept
<1>2. TicketInv'
  <2>1. DeadlineOf(board.round_id)' = DeadlineOf(board.round_id) /\ board.round_id # k
    BY DEF RoundIds
  <2> QED BY <2>1 DEF SameTicket, TicketInv
<1> QED BY <1>1, <1>2 DEF Maps, Tickets!Next
-----------------------------------------------------------------------------
(* The actions *)

\* A miner without an account holds the ticket of a new one.
LEMMA OpenedTicket ==
  ASSUME NEW m \in Miners
  PROVE  /\ TicketOf(m) = [round |-> OpenedMiner(m).round_id,
                           open |-> OpenedMiner(m).checkpoint_id # OpenedMiner(m).round_id]
         /\ PurseOf(m) = [sol |-> OpenedMiner(m).rewards_sol,
                          godl |-> OpenedMiner(m).rewards_godl]
<1>1. CASE miner[m] = None
  BY <1>1 DEF TicketOf, PurseOf, OpenedMiner, NewMiner
<1>2. CASE miner[m] # None
  BY <1>2 DEF TicketOf, PurseOf, OpenedMiner
<1> QED BY <1>1, <1>2

LEMMA OpenedTicketFields ==
  ASSUME NEW m \in Miners
  PROVE  /\ TicketOf(m).round = OpenedMiner(m).round_id
         /\ TicketOf(m).open <=> OpenedMiner(m).checkpoint_id # OpenedMiner(m).round_id
<1>1. CASE miner[m] = None
  BY <1>1 DEF TicketOf, OpenedMiner, NewMiner
<1>2. CASE miner[m] # None
  BY <1>2 DEF TicketOf, OpenedMiner
<1> QED BY <1>1, <1>2

\* What Ticket sees of a miner after its account was stored.
LEMMA StoredTicket ==
  ASSUME TypeOK, NEW m \in Miners, NEW M \in MinerRecord, miner' = [miner EXCEPT ![m] = M]
  PROVE  /\ TicketOf(m)' = [round |-> M.round_id, open |-> M.checkpoint_id # M.round_id]
         /\ PurseOf(m)' = [sol |-> M.rewards_sol, godl |-> M.rewards_godl]
         /\ \A n \in Miners \ {m} : SameTicket(n)
<1>1. miner'[m] = M /\ \A n \in Miners \ {m} : miner'[n] = miner[n]
  BY DEF TypeOK
<1>2. M # None
  BY NoneAssumption
<1> QED BY <1>1, <1>2 DEF TicketOf, PurseOf, SameTicket

\* The play and the purse in an account.
SameAccount(M, N) ==
    /\ M.round_id = N.round_id /\ M.checkpoint_id = N.checkpoint_id
    /\ M.rewards_sol = N.rewards_sol /\ M.rewards_godl = N.rewards_godl

LEMMA SameStored ==
  ASSUME TypeOK, NEW m \in Miners, NEW M \in MinerRecord,
         miner' = [miner EXCEPT ![m] = M], SameAccount(M, OpenedMiner(m))
  PROVE  \A n \in Miners : SameTicket(n)
<1> DEFINE O == OpenedMiner(m)
<1>1. /\ TicketOf(m)' = [round |-> M.round_id, open |-> M.checkpoint_id # M.round_id]
      /\ PurseOf(m)' = [sol |-> M.rewards_sol, godl |-> M.rewards_godl]
      /\ \A n \in Miners \ {m} : SameTicket(n)
  BY StoredTicket
<1>2. /\ TicketOf(m) = [round |-> O.round_id, open |-> O.checkpoint_id # O.round_id]
      /\ PurseOf(m) = [sol |-> O.rewards_sol, godl |-> O.rewards_godl]
  BY OpenedTicket
<1>3. /\ M.round_id = O.round_id /\ M.checkpoint_id = O.checkpoint_id
      /\ M.rewards_sol = O.rewards_sol /\ M.rewards_godl = O.rewards_godl
  BY DEF SameAccount
<1> HIDE DEF O
<1>4. TicketOf(m)' = TicketOf(m) /\ PurseOf(m)' = PurseOf(m)
  BY <1>1, <1>2, <1>3, Zenon
<1> QED BY <1>1, <1>4 DEF SameTicket

LEMMA StoredStutters ==
  ASSUME TypeOK, TicketInv, NEW m \in Miners, NEW M \in MinerRecord,
         miner' = [miner EXCEPT ![m] = M], SameAccount(M, OpenedMiner(m)),
         UNCHANGED <<board, slot, round>>
  PROVE  Maps
<1>1. \A n \in Miners : SameTicket(n)
  BY SameStored
<1>2. SameDeadlines
  BY DEF SameDeadlines, DeadlineOf
<1> QED BY <1>1, <1>2, Stutters, CurrentType

LEMMA UntouchedStutters ==
  ASSUME TypeOK, TicketInv, UNCHANGED <<board, slot, round, miner>>
  PROVE  Maps
<1>1. (\A n \in Miners : SameTicket(n)) /\ SameDeadlines
  BY DEF SameTicket, TicketOf, PurseOf, SameDeadlines, DeadlineOf
<1> QED BY <1>1, Stutters, CurrentType

\* The clock of a round is started with its deadline, more than a day ahead.
LEMMA StartedDeadline ==
  ASSUME TypeOK, TicketInv
  PROVE  /\ StartedBoard.end_slot # U64Max /\ StartedBoard.round_id = board.round_id
         /\ StartedRound.expires_at # U64Max
         /\ IF Starting THEN StartedRound.expires_at > slot + ONE_DAY_SLOTS
            ELSE StartedRound.expires_at = Current.expires_at
<1>1. /\ Current \in RoundRecord /\ round[board.round_id] # None
      /\ board.round_id \in RoundIds
  BY CurrentType, NoneAssumption DEF Current
<1>2. Starting <=> Current.expires_at = U64Max
  <2>1. ~(board.round_id > board.round_id)
    BY <1>1 DEF RoundIds
  <2> QED BY <1>1, <2>1 DEF TicketInv, Starting, DeadlineOf, Current
<1>3. slot \in 0 .. MaxSlot /\ RoundSlots \in 1 .. ONE_DAY_SLOTS
  BY SlotsAssumption, ConstantTypes DEF TypeOK, RoundSlots, ConfigRecord
<1> DEFINE end == slot + RoundSlots
           expiry == end + ONE_DAY_SLOTS
<1>4. end \in Nat /\ expiry \in Nat /\ end < U64Max /\ expiry < U64Max /\ end > slot
      /\ expiry > slot + ONE_DAY_SLOTS
  BY <1>3, SlotsAssumption, ConstantTypes
<1>5. CASE Starting
  <2>1. StartedBoard.end_slot = end /\ StartedBoard.round_id = board.round_id
    BY <1>5 DEF StartedBoard, TypeOK
  <2>2. StartedRound.expires_at = expiry
    BY <1>1, <1>5, <2>1 DEF StartedRound, RoundRecord
  <2> HIDE DEF end, expiry
  <2> QED BY <1>4, <1>5, <2>1, <2>2, ConstantTypes
<1>6. CASE ~Starting
  BY <1>2, <1>6 DEF StartedBoard, StartedRound, Starting
<1> QED BY <1>5, <1>6

\* Every way of deploying enters the round, or finds the miner in it already.
LEMMA DeployMaps ==
  ASSUME TypeOK, TicketInv, NEW m \in Miners, MayEnter(m), NEW M \in MinerRecord,
         SameAccount(M, EnteredMiner(m)), NEW R \in RoundRecord,
         R.expires_at = StartedRound.expires_at,
         miner' = [miner EXCEPT ![m] = M],
         round' = [round EXCEPT ![board.round_id] = R],
         board' = StartedBoard, UNCHANGED slot
  PROVE  Maps
<1> DEFINE c == board.round_id
           O == OpenedMiner(m)
<1>1. /\ c \in RoundIds /\ board'.round_id = c /\ c \in Nat /\ ~(c > c)
      /\ Current = round[c] /\ round[c] # None
  BY CurrentType, StartedDeadline, NoneAssumption DEF Current, RoundIds
<1>2. O \in MinerRecord
  BY OpenedMinerType
<1>3. round'[c] = R /\ R # None /\ \A k \in RoundIds \ {c} : round'[k] = round[k]
  BY <1>1, NoneAssumption DEF TypeOK
<1>4. /\ DeadlineOf(board.round_id)' = StartedRound.expires_at
      /\ DeadlineOf(board.round_id) = Current.expires_at
      /\ \A k \in RoundIds \ {c} : DeadlineOf(k)' = DeadlineOf(k)
  BY <1>1, <1>3 DEF DeadlineOf
<1>5. Starting <=> Current.expires_at = U64Max
  BY <1>4 DEF TicketInv, Starting
<1>6. SameAccount(M, O) \/ (M.round_id = c /\ M.checkpoint_id = O.checkpoint_id
        /\ M.rewards_sol = O.rewards_sol /\ M.rewards_godl = O.rewards_godl)
  BY <1>2 DEF SameAccount, EnteredMiner, MinerRecord
<1>7. CASE O.round_id # c
  <2>1. M.round_id = c /\ M.checkpoint_id = O.round_id
        /\ M.rewards_sol = O.rewards_sol /\ M.rewards_godl = O.rewards_godl
    BY <1>2, <1>7 DEF SameAccount, EnteredMiner, MinerRecord, MayEnter
  <2>2. ~TicketOf(m).open
    BY <1>7, OpenedTicketFields DEF MayEnter
  <2>3. TicketOf(m)' = [round |-> c, open |-> TRUE] /\ PurseOf(m)' = PurseOf(m)
        /\ \A n \in Miners \ {m} : SameTicket(n)
    BY <1>7, <2>1, OpenedTicket, StoredTicket
  <2> QED BY <1>1, <1>4, <1>5, <2>2, <2>3, StartedDeadline, EnterMaps
<1>8. CASE O.round_id = c
  <2>1. SameAccount(M, O)
    BY <1>8 DEF SameAccount, EnteredMiner
  <2>2. ~Starting
    BY <1>4, <1>5, <1>8, OpenedTicketFields DEF TicketInv
  <2>3. UNCHANGED board /\ SameDeadlines
    <3>1. board' = board
      BY <2>2 DEF StartedBoard
    <3>2. DeadlineOf(board.round_id)' = DeadlineOf(board.round_id)
      BY <1>4, <2>2, StartedDeadline
    <3>3. DeadlineOf(c)' = DeadlineOf(c)
      BY <3>1, <3>2 DEF DeadlineOf
    <3> QED BY <1>4, <3>1, <3>3 DEF SameDeadlines
  <2>4. \A n \in Miners : SameTicket(n)
    BY <2>1, SameStored
  <2> QED BY <1>1, <2>3, <2>4, Stutters
<1> QED BY <1>7, <1>8

\* The three deploy handlers.
LEMMA DeploysMap ==
  ASSUME TypeOK, TicketInv, NEW m \in Miners,
         \/ \E squares \in Masks, amount \in Amounts, pooled \in PoolModes :
              Deploy(m, squares, amount, pooled)
         \/ \E r \in Hashes, squares \in SUBSET Squares : DeployByExecutor(m, r, squares)
         \/ \E r \in Hashes, squares \in SUBSET Squares : DeployCancelled(m, r, squares)
  PROVE  Maps
<1>1. ASSUME NEW squares \in SUBSET Squares, NEW amount \in Nat, NEW pooled \in BOOLEAN,
             Place(m, squares, amount, pooled), UNCHANGED slot
      PROVE  Maps
  <2>1. SameAccount(DeployedMiner(m, squares, amount), EnteredMiner(m))
    <3> DEFINE M == EnteredMiner(m)
               deployed == [s \in Squares |-> IF s \in squares THEN amount ELSE M.deployed[s]]
               cumulative == [s \in Squares |-> IF s \in squares THEN RangeStart(s) ELSE M.cumulative[s]]
               topUp == IF M.checkpoint_fee = 0 THEN CHECKPOINT_FEE ELSE 0
               fee == M.checkpoint_fee + topUp
               cash == M.lamports + topUp
               N == [M EXCEPT !.deployed = deployed, !.cumulative = cumulative,
                              !.checkpoint_fee = fee, !.lamports = cash]
    <3>1. DeployedMiner(m, squares, amount) = N
      BY DEF DeployedMiner
    <3>2. M \in MinerRecord
      BY EnteredMinerType
    <3>3. SameAccount(N, M)
      <4> HIDE DEF M, deployed, cumulative, fee, cash
      <4> QED BY <3>2 DEF MinerRecord, SameAccount
    <3> HIDE DEF N
    <3> QED BY <3>1, <3>3
  <2>2. DeployedRound(squares, amount).expires_at = StartedRound.expires_at
    BY StartedTypes DEF DeployedRound, Grown, RoundRecord
  <2> QED BY <1>1, <2>1, <2>2, DeployedMinerType, DeployedRoundType, DeployMaps DEF Place
<1>2. ASSUME NEW squares \in Masks, NEW amount \in Amounts, NEW pooled \in PoolModes,
             Deploy(m, squares, amount, pooled)
      PROVE  Maps
  BY <1>1, <1>2, SizesAssumption DEF Deploy
<1>3. ASSUME NEW r \in Hashes, NEW squares \in SUBSET Squares, DeployByExecutor(m, r, squares)
      PROVE  Maps
  <2>1. automation[m].plan.amount \in Nat /\ automation[m].plan.is_pooled \in BOOLEAN
    <3>1. automation[m].plan \in Plans
      BY <1>3, AutomationType DEF DeployByExecutor
    <3> QED BY <3>1, SizesAssumption
  <2> QED BY <1>1, <1>3, <2>1 DEF DeployByExecutor
<1>4. ASSUME NEW r \in Hashes, NEW squares \in SUBSET Squares, DeployCancelled(m, r, squares)
      PROVE  Maps
  <2>1. MayEnter(m) /\ miner' = [miner EXCEPT ![m] = EnteredMiner(m)]
        /\ round' = [round EXCEPT ![board.round_id] = StartedRound]
        /\ board' = StartedBoard /\ UNCHANGED slot
    BY <1>4 DEF DeployCancelled
  <2>2. EnteredMiner(m) \in MinerRecord /\ StartedRound \in RoundRecord
    BY EnteredMinerType, StartedTypes
  <2> QED BY <2>1, <2>2, DeployMaps DEF SameAccount
<1> QED BY <1>2, <1>3, <1>4

\* Settings of a miner.
LEMMA SettingsMap ==
  ASSUME TypeOK, TicketInv, NEW m \in Miners,
         \/ \E plan \in Plans, deposit \in Deposits : Automate(m, plan, deposit)
         \/ CloseAutomation(m)
         \/ SetNoReferrer(m)
         \/ \E r \in Referrers : SetReferrer(m, r)
  PROVE  Maps
<1>1. OpenedMiner(m) \in MinerRecord
  BY OpenedMinerType
<1>2. UNCHANGED <<board, slot, round>>
  BY DEF Automate, CloseAutomation, SetNoReferrer, SetReferrer, RoundsUntouched
<1>3. ASSUME NEW plan \in Plans, NEW deposit \in Deposits, Automate(m, plan, deposit)
      PROVE  Maps
  <2> DEFINE topUp == IF OpenedMiner(m).checkpoint_fee = 0 THEN CHECKPOINT_FEE ELSE 0
             fee == OpenedMiner(m).checkpoint_fee + topUp
             lamports == OpenedMiner(m).lamports + topUp
             M == [OpenedMiner(m) EXCEPT !.checkpoint_fee = fee, !.lamports = lamports]
  <2>1. miner' = [miner EXCEPT ![m] = M]
    BY <1>3 DEF Automate
  <2>2. fee \in Nat /\ lamports \in Int
    BY <1>1, ConstantTypes DEF MinerRecord
  <2>3. M \in MinerRecord /\ SameAccount(M, OpenedMiner(m))
    <3> HIDE DEF fee, lamports
    <3> QED BY <1>1, <2>2 DEF MinerRecord, SameAccount
  <2> HIDE DEF M
  <2> QED BY <1>2, <2>1, <2>3, StoredStutters
<1>4. CASE CloseAutomation(m)
  BY <1>1, <1>2, <1>4, StoredStutters DEF CloseAutomation, SameAccount
<1>5. CASE SetNoReferrer(m) \/ \E r \in Referrers : SetReferrer(m, r)
  <2>1. PICK x \in Referrers \cup {LOCKED} : miner' = [miner EXCEPT ![m].referrer = x]
    BY <1>5 DEF SetNoReferrer, SetReferrer
  <2>2. miner[m] \in MinerRecord /\ OpenedMiner(m) = miner[m]
    BY <1>5 DEF SetNoReferrer, SetReferrer, Unreferred, TypeOK, OpenedMiner
  <2> DEFINE M == [miner[m] EXCEPT !.referrer = x]
  <2>3. miner' = [miner EXCEPT ![m] = M]
    BY <2>1, <2>2 DEF TypeOK
  <2>4. M \in MinerRecord /\ SameAccount(M, miner[m])
    BY <2>2 DEF MinerRecord, SameAccount
  <2> HIDE DEF M
  <2> QED BY <1>2, <2>2, <2>3, <2>4, StoredStutters
<1> QED BY <1>3, <1>4, <1>5

\* A claim takes all the SOL out of the purse.
LEMMA ClaimsMap ==
  ASSUME TypeOK, TicketInv, NEW m \in Miners, ClaimSol(m) \/ ClaimSolAndFundAutomation(m)
  PROVE  Maps
<1> DEFINE cash == miner[m].lamports - miner[m].rewards_sol
           M == [miner[m] EXCEPT !.rewards_sol = 0, !.lamports = cash]
<1>1. miner[m] \in MinerRecord /\ OpenedMiner(m) = miner[m]
  BY DEF ClaimSol, ClaimSolAndFundAutomation, TypeOK, OpenedMiner
<1>2. miner' = [miner EXCEPT ![m] = M] /\ UNCHANGED <<board, slot, round>>
  BY <1>1 DEF ClaimSol, ClaimSolAndFundAutomation, PaySolOut, TypeOK
<1>3. cash \in Int /\ miner[m].rewards_sol \in Nat
  BY <1>1 DEF MinerRecord
<1>4. /\ M \in MinerRecord /\ M.round_id = miner[m].round_id
      /\ M.checkpoint_id = miner[m].checkpoint_id
      /\ M.rewards_sol = 0 /\ M.rewards_godl = miner[m].rewards_godl
  <2> HIDE DEF cash
  <2> QED BY <1>1, <1>3 DEF MinerRecord
<1> HIDE DEF M
<1>5. /\ TicketOf(m)' = [round |-> M.round_id, open |-> M.checkpoint_id # M.round_id]
      /\ PurseOf(m)' = [sol |-> M.rewards_sol, godl |-> M.rewards_godl]
      /\ \A n \in Miners \ {m} : SameTicket(n)
  BY <1>2, <1>4, StoredTicket
<1>6. TicketOf(m)' = TicketOf(m)
  <2>1. TicketOf(m) = [round |-> miner[m].round_id,
                       open |-> miner[m].checkpoint_id # miner[m].round_id]
    BY <1>1, OpenedTicket
  <2> QED BY <1>4, <1>5, <2>1, Zenon
<1>7. PurseOf(m)'.sol <= PurseOf(m).sol /\ PurseOf(m)'.godl = PurseOf(m).godl
  <2>1. PurseOf(m) = [sol |-> miner[m].rewards_sol, godl |-> miner[m].rewards_godl]
    BY <1>1, OpenedTicket
  <2> QED BY <1>3, <1>4, <1>5, <2>1
<1>8. SameDeadlines
  BY <1>2 DEF SameDeadlines, DeadlineOf
<1> QED BY <1>2, <1>5, <1>6, <1>7, <1>8, SpendMaps, CurrentType

\* A play that is not settled is an open ticket of a round that was opened.
LEMMA UnsettledTicket ==
  ASSUME TypeOK, TicketInv, NEW m \in Miners, Unsettled(m)
  PROVE  /\ miner[m] \in MinerRecord /\ miner[m].round_id \in RoundIds
         /\ miner[m].round_id <= board.round_id
         /\ TicketOf(m).open /\ TicketOf(m).round = miner[m].round_id
         /\ PurseOf(m) = [sol |-> miner[m].rewards_sol, godl |-> miner[m].rewards_godl]
<1>1. miner[m] # None /\ OpenedMiner(m) = miner[m] /\ miner[m] \in MinerRecord
  BY DEF Unsettled, OpenedMiner, TypeOK
<1>2. TicketOf(m).open /\ TicketOf(m).round = miner[m].round_id
  BY <1>1, OpenedTicketFields DEF Unsettled
<1>3. miner[m].round_id \in RoundIds /\ miner[m].round_id \in 0 .. board.round_id
  BY <1>2 DEF TicketInv
<1> QED BY <1>1, <1>2, <1>3, OpenedTicket

LEMMA ForfeitMaps ==
  ASSUME TypeOK, TicketInv, NEW m \in Miners, CheckpointForfeit(m)
  PROVE  Maps
<1> DEFINE k == miner[m].round_id
           M == [miner[m] EXCEPT !.checkpoint_id = k]
<1>1. Unsettled(m) /\ Forfeited(k)
  BY DEF CheckpointForfeit
<1>2. /\ miner[m] \in MinerRecord /\ k \in RoundIds /\ k <= board.round_id
      /\ TicketOf(m).open /\ TicketOf(m).round = k
      /\ PurseOf(m) = [sol |-> miner[m].rewards_sol, godl |-> miner[m].rewards_godl]
  BY <1>1, UnsettledTicket
<1>3. miner' = [miner EXCEPT ![m] = M] /\ UNCHANGED <<board, slot, round>>
  BY DEF CheckpointForfeit, TypeOK
<1>4. /\ M \in MinerRecord /\ M.round_id = k /\ M.checkpoint_id = k
      /\ M.rewards_sol = miner[m].rewards_sol /\ M.rewards_godl = miner[m].rewards_godl
  BY <1>2 DEF MinerRecord
<1>5. k < board.round_id /\ slot >= DeadlineOf(k)
  <2>1. board.round_id \in Nat /\ k \in Nat /\ k # board.round_id
        /\ slot \in Nat
    BY <1>1, <1>2, CurrentType, NoneAssumption, ConstantTypes
       DEF Forfeited, Finished, Current, RoundIds, TypeOK
  <2>2. k < board.round_id
    BY <1>2, <2>1
  <2> QED BY <1>1, <2>1, <2>2 DEF Forfeited, DeadlineOf
<1> HIDE DEF M
<1>6. /\ TicketOf(m)' = [round |-> M.round_id, open |-> M.checkpoint_id # M.round_id]
      /\ PurseOf(m)' = [sol |-> M.rewards_sol, godl |-> M.rewards_godl]
      /\ \A n \in Miners \ {m} : SameTicket(n)
  BY <1>3, <1>4, StoredTicket
<1>7. TicketOf(m)' = [round |-> TicketOf(m).round, open |-> FALSE] /\ PurseOf(m)' = PurseOf(m)
  BY <1>2, <1>4, <1>6
<1>8. SameDeadlines
  BY <1>3 DEF SameDeadlines, DeadlineOf
<1> QED BY <1>2, <1>3, <1>5, <1>6, <1>7, <1>8, UseMaps, CurrentType

LEMMA CheckpointMaps ==
  ASSUME TypeOK, TicketInv, NEW m \in Miners, NEW pooled \in BOOLEAN, Checkpoint(m, pooled)
  PROVE  Maps
<1> DEFINE k == miner[m].round_id
           A == miner[m]
           R == round[k]
           sol == SolReward(A, R)
           godl == GodlReward(m, k, pooled)
           fee == A.checkpoint_fee - BotFee(m, k)
           rewards_sol == A.rewards_sol + sol
           rewards_godl == A.rewards_godl + godl
           cash == A.lamports + sol - BotFee(m, k)
           left == R.lamports - sol
           top == TopMinerAfter(m, k)
           M == [A EXCEPT !.checkpoint_id = k, !.checkpoint_fee = fee,
                          !.rewards_sol = rewards_sol, !.rewards_godl = rewards_godl,
                          !.lamports = cash]
           S == [R EXCEPT !.lamports = left, !.top_miner = top]
<1>1. Unsettled(m) /\ Finished(k) /\ slot < R.expires_at
  BY DEF Checkpoint
<1>2. /\ A \in MinerRecord /\ k \in RoundIds /\ k <= board.round_id
      /\ TicketOf(m).open /\ TicketOf(m).round = k
      /\ PurseOf(m) = [sol |-> A.rewards_sol, godl |-> A.rewards_godl]
  BY <1>1, UnsettledTicket
<1>3. R # None /\ R \in RoundRecord /\ k # board.round_id
  BY <1>1, <1>2 DEF Finished, TypeOK
<1>4. miner' = [miner EXCEPT ![m] = M] /\ UNCHANGED <<board, slot>>
  BY DEF Checkpoint
<1>5. round' = [round EXCEPT ![k] = S]
  <2>1. round' = [round EXCEPT ![k].lamports = @ - sol, ![k].top_miner = top]
    BY DEF Checkpoint
  <2> HIDE DEF sol, k, top
  <2> QED BY <1>2, <1>3, <2>1 DEF TypeOK
<1>6. sol \in Nat /\ godl \in Nat
  <2>1. /\ R.slot_hash \in RngValues
        /\ R.slot_hash # Unavailable =>
             R.deployed[R.slot_hash.square] >= A.deployed[R.slot_hash.square]
    <3>1. R.slot_hash \in RngValues \cup {None} /\ R.slot_hash # None
      BY <1>3 DEF RoundRecord, Checkpoint
    <3> QED BY <3>1 DEF Checkpoint
  <2>2. sol \in Nat
    BY <1>2, <1>3, <2>1, SolRewardType
  <2>3. miner[m] # None
    BY <1>1 DEF Unsettled
  <2> QED BY <1>2, <1>3, <2>1, <2>2, <2>3, GodlRewardType
<1>7. /\ A.rewards_sol \in Nat /\ A.rewards_godl \in Nat
      /\ rewards_sol >= A.rewards_sol /\ rewards_godl >= A.rewards_godl
  <2>1. A.rewards_sol \in Nat /\ A.rewards_godl \in Nat
    BY <1>2 DEF MinerRecord
  <2> HIDE DEF A, sol, godl
  <2> QED BY <1>6, <2>1
<1>8. M \in MinerRecord
  <2>1. /\ rewards_sol \in Nat /\ rewards_godl \in Nat
        /\ fee \in Nat /\ cash \in Int
    <3>1. A.checkpoint_fee \in Nat /\ A.lamports \in Int
      BY <1>2 DEF MinerRecord
    <3>2. BotFee(m, k) \in {0, A.checkpoint_fee}
      BY DEF BotFee
    <3> HIDE DEF A, sol, godl, k
    <3> QED BY <1>6, <1>7, <3>1, <3>2
  <2>2. k \in Nat
    BY <1>2 DEF MinerRecord
  <2> HIDE DEF A, k, fee, rewards_sol, rewards_godl, cash
  <2> QED BY <1>2, <2>1, <2>2 DEF MinerRecord
<1>9. /\ M.round_id = k /\ M.checkpoint_id = k
      /\ M.rewards_sol = rewards_sol /\ M.rewards_godl = rewards_godl
  <2>1. A.round_id = k
    OBVIOUS
  <2> HIDE DEF A, k, fee, rewards_sol, rewards_godl, cash
  <2> QED BY <1>2, <2>1 DEF MinerRecord
<1>10. S # None /\ S.expires_at = R.expires_at
  <2>1. S \in RoundRecord
    <3>1. left \in Int
      <4>1. R.lamports \in Int
        BY <1>3 DEF RoundRecord
      <4> HIDE DEF R, sol
      <4> QED BY <1>6, <4>1
    <3>2. top \in Marks
      BY <1>2, <1>3 DEF TopMinerAfter, Marks, RoundRecord
    <3> HIDE DEF R, left, top
    <3> QED BY <1>3, <3>1, <3>2 DEF RoundRecord, Marks
  <2>2. S.expires_at = R.expires_at
    <3> HIDE DEF R, left, top
    <3> QED BY <1>3 DEF RoundRecord
  <2> QED BY <2>1, <2>2, NoneAssumption
<1>11. SameDeadlines
  <2>1. \A j \in RoundIds : round'[j] = IF j = k THEN S ELSE round[j]
    <3> HIDE DEF S, k
    <3> QED BY <1>2, <1>5 DEF TypeOK
  <2> HIDE DEF S
  <2> QED BY <1>3, <1>4, <1>10, <2>1 DEF SameDeadlines, DeadlineOf
<1>12. k < board.round_id /\ slot < DeadlineOf(k)
  <2>1. k < board.round_id
    BY <1>2, <1>3, CurrentType DEF RoundIds
  <2>2. ~(k > board.round_id)
    BY <2>1, <1>2, CurrentType DEF RoundIds
  <2> QED BY <1>1, <1>3, <2>1, <2>2 DEF DeadlineOf
<1> HIDE DEF M
<1>13. /\ TicketOf(m)' = [round |-> M.round_id, open |-> M.checkpoint_id # M.round_id]
       /\ PurseOf(m)' = [sol |-> M.rewards_sol, godl |-> M.rewards_godl]
       /\ \A n \in Miners \ {m} : SameTicket(n)
  BY <1>4, <1>8, StoredTicket
<1>14. TicketOf(m)' = [round |-> TicketOf(m).round, open |-> FALSE]
  <2> HIDE DEF k
  <2> QED BY <1>2, <1>9, <1>13
<1>15. PurseOf(m)'.sol >= PurseOf(m).sol /\ PurseOf(m)'.godl >= PurseOf(m).godl
  <2> HIDE DEF rewards_sol, rewards_godl, A
  <2> QED BY <1>2, <1>7, <1>9, <1>13
<1> HIDE DEF k
<1> QED BY <1>2, <1>4, <1>11, <1>12, <1>13, <1>14, <1>15, UseMaps, CurrentType

\* A reset keeps the deadline of the round it settles.
LEMMA SettledDeadline ==
  ASSUME NEW R \in RoundRecord, NEW top
  PROVE  /\ Refunded(R).expires_at = R.expires_at
         /\ Vaulted(R).expires_at = R.expires_at
         /\ Won(R, top).expires_at = R.expires_at
BY DEF Refunded, Vaulted, Won, RoundRecord

LEMMA ResetMaps ==
  ASSUME TypeOK, TicketInv, NEW candidate \in Miners \cup {None},
         Reset(candidate) \/ ResetPermissionless(candidate)
  PROVE  Maps
<1> DEFINE R == Closing
           c == board.round_id
<1>1. Over /\ UNCHANGED <<slot, miner>> /\ \E top \in Marks : Settle(R, top)
  BY DEF Reset, ResetPermissionless, LenientTopMiner, StrictTopMiner, Marks
<1>2. /\ R \in RoundRecord /\ R.slot_hash \in RngValues
      /\ R.expires_at = Current.expires_at
  <2>1. R \in RoundRecord /\ R.slot_hash \in RngValues
    BY <1>1, ClosingType
  <2> QED BY <2>1, CurrentType DEF Closing, RoundRecord
<1> HIDE DEF R
<1>3. PICK top \in Marks : Settle(R, top)
  BY <1>1
<1>4. PICK settled \in RoundRecord :
        settled.expires_at = Current.expires_at /\ AdvanceBoard(settled)
  <2>1. /\ Refunded(R) \in RoundRecord /\ Vaulted(R) \in RoundRecord
        /\ R.slot_hash # Unavailable => Won(R, top) \in RoundRecord
    BY <1>2, SettledTypes
  <2> QED BY <1>2, <1>3, <2>1, SettledDeadline DEF Settle
<1>5. /\ c \in RoundIds /\ c + 1 \in RoundIds /\ c \in Nat /\ Current = round[c]
      /\ Current # None
  <2>1. c \in RoundIds /\ c < MaxRounds
    BY <1>4, CurrentType DEF AdvanceBoard
  <2> QED BY <2>1, ConstantTypes, CurrentType, NoneAssumption DEF RoundIds, Current
<1>6. /\ board'.round_id = c + 1 /\ board'.end_slot = U64Max
      /\ round' = [round EXCEPT ![c] = settled, ![c + 1] = NewRound]
  BY <1>4 DEF AdvanceBoard
<1>7. /\ round'[c] = settled /\ round'[c + 1] = NewRound
      /\ \A k \in RoundIds \ {c, c + 1} : round'[k] = round[k]
  <2>1. c # c + 1
    BY <1>5
  <2> HIDE DEF c
  <2> QED BY <1>5, <1>6, <2>1 DEF TypeOK
<1>8. settled # None /\ NewRound # None /\ NewRound.expires_at = U64Max
  BY NewTypes, NoneAssumption DEF NewRound
<1>9. SameDeadlines
  <2> SUFFICES ASSUME NEW k \in RoundIds PROVE DeadlineOf(k)' = DeadlineOf(k)
    BY DEF SameDeadlines
  <2>1. k \in Nat
    BY DEF RoundIds
  <2>2. CASE k = c
    BY <1>4, <1>5, <1>6, <1>7, <1>8, <2>1, <2>2 DEF DeadlineOf
  <2>3. CASE k = c + 1
    BY <1>5, <1>6, <1>7, <1>8, <2>1, <2>3 DEF DeadlineOf
  <2>4. CASE k \notin {c, c + 1}
    <3>1. round'[k] = round[k]
      BY <1>7, <2>4
    <3>2. k > c + 1 <=> k > c
      BY <1>5, <2>1, <2>4
    <3> QED BY <1>6, <3>1, <3>2 DEF DeadlineOf
  <2> QED BY <2>2, <2>3, <2>4
<1>11. board.end_slot # U64Max
  <2>1. slot \in Nat /\ slot < U64Max /\ IntermissionSlots \in Nat
        /\ board.end_slot \in Nat /\ U64Max \in Nat
    BY SlotsAssumption, ConstantTypes DEF TypeOK, IntermissionSlots, ConfigRecord
  <2> QED BY <1>1, <2>1 DEF Over, AtMost
<1>12. DeadlineOf(board.round_id)' = U64Max
  BY <1>5, <1>6, <1>7, <1>8 DEF DeadlineOf
<1>13. \A n \in Miners : SameTicket(n)
  BY <1>1 DEF SameTicket, TicketOf, PurseOf
<1>14. DeadlineOf(board.round_id) # U64Max
  BY <1>11 DEF TicketInv
<1> QED BY <1>1, <1>5, <1>6, <1>9, <1>12, <1>13, <1>14, AdvanceMaps

LEMMA CloseMaps ==
  ASSUME TypeOK, TicketInv, NEW k \in RoundIds, Close(k)
  PROVE  Maps
<1>1. /\ round[k] # None /\ k < board.round_id /\ round[k].expires_at < slot
      /\ UNCHANGED <<board, slot, miner>> /\ round' = [round EXCEPT ![k] = None]
  BY DEF Close, Closable
<1>2. board.round_id \in RoundIds /\ k \in Nat /\ board.round_id \in Nat
  BY CurrentType DEF RoundIds
<1>3. ~(k > board.round_id)
  BY <1>1, <1>2
<1>4. round'[k] = None /\ \A j \in RoundIds \ {k} : round'[j] = round[j]
  BY <1>1 DEF TypeOK
<1>5. DeadlineOf(k) < slot /\ DeadlineOf(k)' = 0
  BY <1>1, <1>3, <1>4 DEF DeadlineOf
<1>6. \A j \in RoundIds \ {k} : DeadlineOf(j)' = DeadlineOf(j)
  BY <1>1, <1>4 DEF DeadlineOf
<1>7. \A n \in Miners : SameTicket(n)
  BY <1>1 DEF SameTicket, TicketOf, PurseOf
<1> QED BY <1>1, <1>2, <1>5, <1>6, <1>7, SweepMaps
-----------------------------------------------------------------------------
(* The refinement *)

LEMMA NextMaps == TypeOK /\ TicketInv /\ [Next]_vars => Maps
<1> SUFFICES ASSUME TypeOK, TicketInv, [Next]_vars PROVE Maps
  OBVIOUS
<1>1. CASE Tick
  <2>1. SameDeadlines /\ \A n \in Miners : SameTicket(n)
    BY <1>1 DEF Tick, SameDeadlines, DeadlineOf, SameTicket, TicketOf, PurseOf
  <2> QED BY <1>1, <2>1, TickMaps, CurrentType DEF Tick
<1>2. CASE \/ UNCHANGED vars
           \/ \E value \in RngValues : Reveal(value)
           \/ \E m \in Miners, deposit \in Deposits : FundAutomation(m, deposit)
           \/ \E r \in Referrers : InitializeReferrer(r) \/ ClaimReferral(r)
           \/ \E rate \in Rates : SetGodlPerRound(rate)
           \/ \E denominator \in Denominators : SetMotherlodeDenominator(denominator)
           \/ \E t \in Timings : UpdateProtocolConfig(t)
           \/ \E amount \in Withdrawals : TakeFromVault(amount)
           \/ \E amount \in GoldBuys : PreBuyGold(amount)
  <2>1. UNCHANGED <<board, slot, round, miner>>
    BY <1>2 DEF vars, Reveal, FundAutomation, InitializeReferrer, ClaimReferral,
                RoundsUntouched, SetGodlPerRound, SetMotherlodeDenominator,
                UpdateProtocolConfig, SettingsOnly, TakeFromVault, PreBuyGold, VaultOnly
  <2> QED BY <2>1, UntouchedStutters
<1>3. ASSUME NEW m \in Miners,
             \/ \E squares \in Masks, amount \in Amounts, pooled \in PoolModes :
                  Deploy(m, squares, amount, pooled)
             \/ \E r \in Hashes, squares \in SUBSET Squares : DeployByExecutor(m, r, squares)
             \/ \E r \in Hashes, squares \in SUBSET Squares : DeployCancelled(m, r, squares)
      PROVE  Maps
  BY <1>3, DeploysMap
<1>4. ASSUME NEW m \in Miners,
             \/ \E plan \in Plans, deposit \in Deposits : Automate(m, plan, deposit)
             \/ CloseAutomation(m)
             \/ SetNoReferrer(m)
             \/ \E r \in Referrers : SetReferrer(m, r)
      PROVE  Maps
  BY <1>4, SettingsMap
<1>5. ASSUME NEW m \in Miners, ClaimSol(m) \/ ClaimSolAndFundAutomation(m) PROVE Maps
  BY <1>5, ClaimsMap
<1>6. ASSUME NEW candidate \in Miners \cup {None},
             Reset(candidate) \/ ResetPermissionless(candidate)
      PROVE  Maps
  BY <1>6, ResetMaps
<1>7. ASSUME NEW m \in Miners,
             (\E pooled \in BOOLEAN : Checkpoint(m, pooled)) \/ CheckpointForfeit(m)
      PROVE  Maps
  BY <1>7, CheckpointMaps, ForfeitMaps
<1>8. ASSUME NEW k \in RoundIds, Close(k) PROVE Maps
  BY <1>8, CloseMaps
<1>9. Claimants \subseteq Miners
  BY SizesAssumption
<1> QED BY <1>1, <1>2, <1>3, <1>4, <1>5, <1>6, <1>7, <1>8, <1>9 DEF Next

LEMMA InitMaps == Init => Tickets!Init /\ TicketInv
<1> SUFFICES ASSUME Init PROVE Tickets!Init /\ TicketInv
  OBVIOUS
<1>1. /\ board.round_id = 1 /\ board.end_slot = U64Max /\ 1 \in RoundIds
      /\ round[1] = NewRound /\ NewRound # None /\ NewRound.expires_at = U64Max
  <2>1. 1 \in RoundIds
    BY SizesAssumption DEF RoundIds
  <2>2. NewRound # None /\ NewRound.expires_at = U64Max
    BY NewTypes, NoneAssumption DEF NewRound
  <2>3. round = [k \in RoundIds |-> IF k = 1 THEN NewRound ELSE None]
        /\ board = [round_id |-> 1, start_slot |-> 0, end_slot |-> U64Max]
    BY DEF Init
  <2> QED BY <2>1, <2>2, <2>3
<1>2. DeadlineOf(board.round_id) = U64Max
  BY <1>1 DEF DeadlineOf
<1>3. \A m \in Miners : /\ ~TicketOf(m).open /\ TicketOf(m).round = 0
                        /\ PurseOf(m) = [sol |-> 0, godl |-> 0]
  BY DEF Init, TicketOf, PurseOf
<1>4. Tickets!Init
  BY <1>1, <1>2, <1>3 DEF Tickets!Init
<1>5. TicketInv
  BY <1>1, <1>2, <1>3 DEF TicketInv
<1> QED BY <1>4, <1>5

\* The mining game implements the game of tickets, for any number of miners,
\* squares and rounds, and whatever the admins set: deploys enter, checkpoints
\* collect in time or forfeit, resets advance, closings sweep what expired.
THEOREM MiningImplementsTicket == Spec => ImplementsTicket
<1>1. TypeOK /\ TicketInv /\ [Next]_vars => [Tickets!Next]_(Tickets!vars) /\ TicketInv'
  BY NextMaps DEF Maps
<1> QED BY <1>1, InitMaps, TypesAreCorrect, PTL DEF Spec, ImplementsTicket, Tickets!Spec
=============================================================================
