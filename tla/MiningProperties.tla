-------------------------- MODULE MiningProperties --------------------------
(***************************************************************************)
(* What the mining game promises: the properties of Mining.                *)
(***************************************************************************)
EXTENDS Mining

\* Every account holds values of its declared type; the current round always
\* has its Round and PoolRound accounts (Deploy and Reset load both).
TypeOK ==
    /\ slot \in 0 .. MaxSlot
    /\ board \in [round_id : RoundIds, start_slot : Nat, end_slot : Nat]
    /\ var \in RngValues \cup {None}
    /\ round \in [RoundIds -> RoundRecord \cup {None}]
    /\ pool_round \in [RoundIds -> PoolRoundRecord \cup {None}]
    /\ miner \in [Miners -> MinerRecord \cup {None}]
    /\ pool_member \in [Miners -> PoolMemberRecord \cup {None}]
    /\ automation \in [Miners -> AutomationRecord \cup {None}]
    /\ referrer \in [Referrers -> ReferrerRecord \cup {None}]
    /\ treasury \in [balance : Nat, lamports : Nat, motherlode : Nat,
                     total_unclaimed : Nat, tokens : Nat]
    /\ sol_motherlode \in [amount : Nat, lamports : Nat]
    /\ supply \in Nat
    /\ config \in ConfigRecord
    /\ Current \in RoundRecord /\ pool_round[board.round_id] \in PoolRoundRecord
-----------------------------------------------------------------------------
(* The lottery *)

Plays(m, k) == miner[m] # None /\ miner[m].round_id = k

Span(m, s) == [low |-> miner[m].cumulative[s],
                high |-> miner[m].cumulative[s] + miner[m].deployed[s]]

\* x lies in the range that miner m occupies on square s.
Occupies(m, s, x) == Span(m, s).low <= x /\ x < Span(m, s).high

\* Two miners of the same round never occupy the same lamport of a square: at
\* most one of them can hold the sample (deploy.rs records cumulative before it
\* adds the amount).
RangesDisjoint ==
    \A m1, m2 \in Miners : \A k \in RoundIds : \A s \in Squares :
        m1 # m2 /\ Plays(m1, k) /\ Plays(m2, k) =>
            \/ miner[m1].deployed[s] = 0 \/ miner[m2].deployed[s] = 0
            \/ Span(m1, s).high <= Span(m2, s).low
            \/ Span(m2, s).high <= Span(m1, s).low

\* Every lamport of a square of the current round is occupied by a miner who
\* has not left the round, and nobody occupies a lamport beyond the square.
SquaresTiled ==
    /\ \A s \in Squares : \A x \in 0 .. Current.deployed[s] - 1 :
         \E m \in Miners : Plays(m, board.round_id) /\ Occupies(m, s, x)
    /\ \A m \in Miners, k \in RoundIds, s \in Squares :
         Plays(m, k) /\ round[k] # None /\ miner[m].deployed[s] > 0 =>
            Span(m, s).high <= round[k].deployed[s]

\* Whatever value the entropy account delivers, some miner passes the strict
\* checks of process_reset_permissionless: the backstop can always be used.
StrictResetPossible ==
    \A value \in RngValues :
        LET R == [Current EXCEPT !.slot_hash = value]
        IN  HasWinners(R) => \E m \in Miners : StrictCandidate(R, m)

\* The solo block reward is paid once: once a checkpoint has signed a round as
\* its top miner, no later checkpoint signs it again or pays it to another.
SoloWinnerIsFinal ==
    [][\A k \in RoundIds :
         round[k] # None /\ round'[k] # None /\ round[k].top_miner \in Miners =>
            /\ round'[k].top_miner = round[k].top_miner
            /\ miner'[round[k].top_miner].rewards_godl = miner[round[k].top_miner].rewards_godl
               \/ miner[round[k].top_miner].round_id # k]_vars

\* The pool's books agree with its members': on each square the pool holds
\* exactly what the members of the current round deployed through it, at least
\* what the unsettled members of a finished round did, and no member's share is
\* anything but its own deployment there.
PoolHolds(k, s) ==
    Sum([m \in Miners |->
           IF pool_member[m] # None /\ pool_member[m].round_id = k
           THEN pool_member[m].deployed[s] ELSE 0], NumMiners)
PoolAgrees ==
    /\ \A k \in RoundIds, s \in Squares : pool_round[k] # None =>
         /\ PoolHolds(k, s) <= pool_round[k].deployed[s]
         /\ k = board.round_id => PoolHolds(k, s) = pool_round[k].deployed[s]
         /\ pool_round[k].deployed[s] <= round[k].deployed[s]
    /\ \A m \in Miners, s \in Squares :
         pool_member[m] # None /\ Plays(m, pool_member[m].round_id) =>
            pool_member[m].deployed[s] \in {0, miner[m].deployed[s]}
-----------------------------------------------------------------------------
(* Money *)

\* What a play is worth in GODL: what its checkpoint pays if the caller passes
\* the miner's own pool accounts.
GodlWorth(m, k) == GodlReward(m, k, TRUE)

\* What the unsettled miners of a finished round may still collect.
Pending(m, k) == Unsettled(m) /\ miner[m].round_id = k
PendingSol(k) ==
    Sum([m \in Miners |-> IF Pending(m, k) THEN SolReward(miner[m], round[k]) ELSE 0], NumMiners)
PendingGodl(k) ==
    Sum([m \in Miners |-> IF Pending(m, k) THEN GodlWorth(m, k) ELSE 0], NumMiners)

\* A finished round holds the SOL of every winner who has not collected yet.
\* It holds when no fee is rounded (amounts that the basis points divide).
WinnersCovered ==
    \A k \in RoundIds : Finished(k) => PendingSol(k) <= round[k].lamports

\* For any amounts, a finished round lacks at most one lamport per winner: the
\* fees reset.rs takes from the total exceed the fees it and checkpoint.rs
\* collect from the parts only by truncation.
ShortOfDustOnly ==
    \A k \in RoundIds : Finished(k) =>
        PendingSol(k) <= round[k].lamports
            + (IF HasWinners(round[k]) THEN round[k].count[round[k].slot_hash.square] ELSE 0)

\* The treasury's GODL backs every miner's reward, the motherlode and all that
\* the finished rounds may still pay, and the mint never exceeds its cap.
GodlBacked ==
    /\ treasury.total_unclaimed + treasury.motherlode
         + Sum([k \in RoundIds |-> IF Finished(k) THEN PendingGodl(k) ELSE 0], MaxRounds)
         <= treasury.tokens
    /\ treasury.tokens <= MAX_SUPPLY

\* Each SOL balance that the program keeps in an account's data is the SOL in
\* that account, so no claim or sweep that trusts the data can fail.
BooksMatchCash ==
    /\ treasury.balance = treasury.lamports
    /\ sol_motherlode.amount = sol_motherlode.lamports
    /\ \A r \in Referrers : referrer[r] # None =>
         referrer[r].rewards_sol = referrer[r].lamports
    /\ Current.lamports = Current.total_deployed
    /\ Current.total_deployed = Sum(Current.deployed, NumSquares)
    /\ \A m \in Miners :
         /\ miner[m] # None =>
              miner[m].lamports = miner[m].checkpoint_fee + miner[m].rewards_sol
         /\ automation[m] # None => automation[m].lamports = automation[m].balance
\* A referrer a miner names exists, is somebody else, and counts every miner
\* that names it: the claims of those miners, which load the account, never fail.
ReferralsAreSound ==
    /\ \A m \in Miners : miner[m] # None /\ HasReferrer(m) =>
         miner[m].referrer # m /\ referrer[miner[m].referrer] # None
    /\ \A r \in Referrers : referrer[r] # None =>
         referrer[r].referrer_count =
           Cardinality({m \in Miners : miner[m] # None /\ miner[m].referrer = r})
-----------------------------------------------------------------------------
(* What a step may never do *)

\* A round that a miner has not settled stays on its account as it was played:
\* no later deploy, automation or pool change overwrites the claim.
UnsettledPlayKept ==
    [][\A m \in Miners : Unsettled(m) =>
         LET k == miner[m].round_id
         IN  /\ miner'[m].round_id = k
             /\ \A s \in Squares : miner[m].deployed[s] > 0 =>
                  /\ miner'[m].deployed[s] = miner[m].deployed[s]
                  /\ miner'[m].cumulative[s] = miner[m].cumulative[s]
                  /\ InPool(m, k, s) =>
                       pool_member'[m].deployed[s] = pool_member[m].deployed[s]]_vars

\* A reward that could be collected before this step is collected by it or can
\* still be collected: only the expiry of the round takes it away.  A checkpoint
\* collects it in full, but for the pool's share of a block reward: that is
\* forgone if the caller, who may be anybody, passes an empty account in place
\* of the miner's PoolMember or the round's PoolRound (checkpoint.rs:50, 129).
Claimable(m) ==
    /\ Unsettled(m)
    /\ Finished(miner[m].round_id)
    /\ slot < round[miner[m].round_id].expires_at
NothingPayableLost ==
    [][\A m \in Miners : Claimable(m) =>
         LET k == miner[m].round_id
         IN  \/ /\ miner'[m].checkpoint_id # k
                /\ round'[k] # None
                /\ round'[k].expires_at = round[k].expires_at
                /\ SolReward(miner[m], round[k])' = SolReward(miner[m], round[k])
                /\ GodlWorth(m, k)' = GodlWorth(m, k)
             \/ /\ miner'[m].checkpoint_id = k
                /\ miner'[m].rewards_sol = miner[m].rewards_sol + SolReward(miner[m], round[k])
                /\ \/ miner'[m].rewards_godl = miner[m].rewards_godl + GodlWorth(m, k)
                   \/ /\ round[k].top_miner = POOL_ADDRESS
                      /\ miner'[m].rewards_godl
                           = miner[m].rewards_godl + GodlReward(m, k, FALSE)]_vars

\* Only a deploy by the executor takes from the balance of an automation.
SpendsRandomPlan(m) ==
    /\ automation[m] # None /\ automation'[m] # None
    /\ automation'[m].balance < automation[m].balance
    /\ automation[m].plan.strategy = "Random" /\ automation[m].plan.amount > 0

FillsPlan(m) ==
    LET plan == automation[m].plan
        wanted == AtMost(plan.num_squares, NumSquares)
    IN  /\ Cardinality({s \in Squares : miner'[m].deployed[s] > 0}) = wanted
        /\ automation[m].balance - automation'[m].balance = plan.amount * wanted + plan.fee

\* Whatever the hash, a random plan plays exactly as many squares as its
\* authority asked for (at most all), so that a round costs what it planned.
RandomPlanFills == [][\A m \in Miners : SpendsRandomPlan(m) => FillsPlan(m)]_vars
-----------------------------------------------------------------------------
(* The abstract game *)

TicketOf(m) ==
    IF miner[m] = None THEN [round |-> 0, open |-> FALSE]
    ELSE [round |-> miner[m].round_id, open |-> miner[m].checkpoint_id # miner[m].round_id]

PurseOf(m) ==
    IF miner[m] = None THEN [sol |-> 0, godl |-> 0]
    ELSE [sol |-> miner[m].rewards_sol, godl |-> miner[m].rewards_godl]

\* Whoever comes after a round account was closed finds it expired.
DeadlineOf(k) ==
    IF k > board.round_id THEN U64Max
    ELSE IF round[k] = None THEN 0 ELSE round[k].expires_at

Tickets == INSTANCE Ticket WITH
    Players <- Miners, Rounds <- RoundIds, Window <- ONE_DAY_SLOTS, Never <- U64Max,
    current <- board.round_id, clock <- slot,
    deadline <- [k \in RoundIds |-> DeadlineOf(k)],
    ticket <- [m \in Miners |-> TicketOf(m)],
    purse <- [m \in Miners |-> PurseOf(m)]

\* Deploys, resets, checkpoints and closings implement the game of tickets: a
\* deadline is fixed once, by the first deploy and a day ahead (deploy.rs:64);
\* every play is settled once, before it or after it, and only a play that is
\* collected in time puts SOL or GODL into the Miner account.
ImplementsTicket == Tickets!Spec
-----------------------------------------------------------------------------
(* Progress *)

\* Slots pass, the entropy operator delivers, somebody takes the crank reward
\* of the permissionless reset, and somebody checkpoints each miner (the
\* checkpoint fee pays for it).  Nobody is obliged to deploy, claim or close.
Fairness ==
    /\ WF_vars(Tick)
    /\ WF_vars(\E value \in RngValues : Reveal(value))
    /\ WF_vars(\E candidate \in Miners \cup {None} : ResetPermissionless(candidate))
    /\ \A m \in Miners :
         WF_vars((\E pooled \in BOOLEAN : Checkpoint(m, pooled)) \/ CheckpointForfeit(m))

FairSpec == Spec /\ Fairness

\* What stops the reset until an admin acts: a Config account not yet grown, a
\* motherlode denominator of zero (reset.rs divides by it).  The last disjunct
\* is the model's clock, which must leave the round room to end.
Stuck ==
    \/ ~config.grown
    \/ config.motherlode_denominator = 0
    \/ board.end_slot + IntermissionSlots > MaxSlot

\* A round that has started is reset, even if the crank bot never acts, unless
\* the settings stop it again and again: once they are right for good, the game
\* goes on.
RoundIsReset ==
    \A k \in RoundIds :
        board.round_id = k /\ k < MaxRounds ~> board.round_id > k \/ []<>Stuck

\* A miner who has played can play again: its round is settled in the end,
\* paid or forfeited, whatever the round account still holds.
MinerIsReleased ==
    \A m \in Miners : \A k \in RoundIds :
        /\ Unsettled(m) /\ miner[m].round_id = k /\ k < MaxRounds
        /\ round[k] # None => round[k].expires_at <= MaxSlot
        ~> ~(Unsettled(m) /\ miner[m].round_id = k) \/ []<>(board.round_id = k /\ Stuck)
-----------------------------------------------------------------------------
(* What the repository says and the code does not do *)

\* reset.rs:236 checks "tracked outflows do not exceed total deployed": what
\* leaves the round for fees and vault, with what its winners are owed, stays
\* within the deposits.
OutflowsWithinDeployed == WinnersCovered

\* reset.rs:13-15: "Every round outcome ... is identical regardless of who
\* calls": a pooled top miner's round goes to the pool.
OutcomeIsFixed ==
    \A k \in RoundIds : \A m \in Miners :
        /\ Finished(k) /\ HasWinners(round[k]) /\ ~round[k].slot_hash.split
        /\ Pending(m, k)
        /\ HoldsSample(miner[m], round[k])
        /\ InPool(m, k, round[k].slot_hash.square)
        => round[k].top_miner = POOL_ADDRESS

=============================================================================
