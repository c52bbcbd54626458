------------------------------ MODULE MCMining ------------------------------
(***************************************************************************)
(* Instances of Mining for TLC.                                            *)
(***************************************************************************)
EXTENDS MiningProperties

RngOf(squares, revs, splits) == [square : squares, rev : revs, split : splits]

AutoPlan(amount, fee, pooled, fund) ==
    [amount |-> amount, fee |-> fee, strategy |-> "Preferred", mask |-> {1, 2},
     num_squares |-> 0, is_pooled |-> pooled, claim_and_fund |-> fund]

\* One round with rounding amounts: samples that fall on every range.
MCRoundMasks == {{1}, {1, 2}}
MCRoundRngs ==
    RngOf({1, 2}, {0, 399}, {FALSE}) \cup RngOf({1}, {0}, {TRUE}) \cup {Unavailable}

\* Two rounds: both squares are played and one wins; its lamport 200 is the
\* first of the second deploy, or the only one's.
MCTwoMasks == {{1, 2}}
MCTwoRngs == RngOf({1}, {200}, {FALSE})

\* Automations: solo, pooled and random plans.
MCAutoMasks == {{1}}
MCAutoRngs == RngOf({1}, {0}, {FALSE}) \cup {Unavailable}
MCAutoPlans ==
    {AutoPlan(200, 5, FALSE, TRUE),
     [AutoPlan(200, 5, TRUE, FALSE) EXCEPT !.strategy = "Random", !.num_squares = 1]}
\* The byte 255 on the last square is where a scale of 255 instead of 256 fails.
MCHashes == {[s \in Squares |-> IF s = 1 THEN b ELSE 255] : b \in {100, 200}}
MCTimings == {[round_slots |-> 1, intermission_slots |-> 1]}
=============================================================================
