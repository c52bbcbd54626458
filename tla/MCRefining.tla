----------------------------- MODULE MCRefining -----------------------------
(***************************************************************************)
(* Instances of Refining for TLC.                                          *)
(***************************************************************************)
EXTENDS RefiningProperties

\* A miner of before the gold vault with this much unrefined GODL.
Holder(rewards, playing) ==
    [rewards_godl |-> rewards, refined_godl |-> 0, rewards_factor |-> 0,
     lifetime_rewards_godl |-> rewards, playing |-> playing]

Fresh == [xaut_rewards_factor |-> 0, xaut_rewards |-> 0]

\* Three holders around the expiry of the legacy instructions; one still
\* plays, another has no extended account.
ShareGenesis == <<Holder(5, TRUE), Holder(3, FALSE), Holder(2, FALSE)>>
ShareExtended == <<Fresh, Fresh, None>>

\* The rollout: a holder with an extended account, a holder and a newcomer
\* without one.
RolloutGenesis == <<Holder(3, FALSE), Holder(2, TRUE), None>>
RolloutExtended == <<Fresh, None, None>>
=============================================================================
