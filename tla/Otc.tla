--------------------------------- MODULE Otc ---------------------------------
(***************************************************************************)
(* The OTC desk beside GODL staking.  Anybody funds the desk with GODL; a  *)
(* quote that the oracle and the buyer sign together sells some of it for  *)
(* SOL, as a new locked stake of the buyer's and a bonus; anybody sends    *)
(* the SOL the desk has collected to the chest.  The desk's account keeps  *)
(* both balances, beside the lamports and the token account it really has. *)
(*                                                                         *)
(* The bonus is unrefined GODL of the buyer: here the GODL that the        *)
(* treasury receives for it, in module Refining the weight it adds.  One   *)
(* clock serves the quote's expiry slot and the stake's timestamps.        *)
(***************************************************************************)
EXTENDS Staking

CONSTANTS
    Buyers,       \* bound: authorities that accept quotes
    Quotes,       \* quotes the oracle may sign
    FundAmounts,  \* GODL that may be brought to the desk at once
    ONE_MONTH

ASSUME DeskAssumption ==
    /\ Buyers \subseteq Authorities /\ Buyers \subseteq Executors
    /\ Quotes \subseteq [sol_in : Nat, godl_out : Nat, godl_bonus : Nat,
                         lock_duration : Nat, expiry : Nat]
    /\ FundAmounts \subseteq Nat
    /\ ONE_MONTH \in 0 .. MAX_LOCK_DURATION

VARIABLES
    otc_treasury,  \* OtcTreasury account with its lamports and token account
    otc_user,      \* OtcUser accounts; None when empty
    chest,         \* lamports the desk sent to the chest
    funded,        \* history: GODL brought to the desk
    bought         \* history: GODL each authority bought as stake, by time

OtcTreasuryRecord == [sol_balance : Nat, godl_balance : Nat, lamports : Nat, tokens : Nat]
OtcUserRecord == [total_sol_in : Nat, total_godl_out : Nat, total_godl_bonus : Nat]

ASSUME EmptyAssumption == None \notin OtcTreasuryRecord /\ None \notin OtcUserRecord

desk == <<otc_treasury, otc_user, chest, funded, bought>>
otc_vars == <<vars, desk>>

NewOtcUser == [total_sol_in |-> 0, total_godl_out |-> 0, total_godl_bonus |-> 0]

OtcInit ==
    /\ Init
    /\ otc_treasury = None
    /\ otc_user = [a \in Authorities |-> None]
    /\ chest = 0
    /\ funded = 0
    /\ bought = [a \in Authorities |-> [t \in 0 .. MaxTime |-> 0]]

InitializeOtcTreasury ==
    /\ otc_treasury = None
    /\ otc_treasury' = [sol_balance |-> 0, godl_balance |-> 0, lamports |-> 0, tokens |-> 0]
    /\ UNCHANGED <<vars, otc_user, chest, funded, bought>>

FundGodlOtc(a, amount) ==
    /\ otc_treasury # None
    /\ amount > 0
    /\ wallet[a] >= amount
    /\ wallet' = [wallet EXCEPT ![a] = @ - amount]
    /\ otc_treasury' = [otc_treasury EXCEPT !.godl_balance = @ + amount, !.tokens = @ + amount]
    /\ funded' = funded + amount
    /\ UNCHANGED <<now, stake, stake_v1, treasury, assets, audit, owed, taken,
                   otc_user, chest, bought>>

Needed_WithoutBonus(q) == q.godl_out
Needed(q) == q.godl_out + q.godl_bonus

Bought(user, q) ==
    [total_sol_in |-> user.total_sol_in + q.sol_in,
     total_godl_out |-> user.total_godl_out + q.godl_out,
     total_godl_bonus |-> user.total_godl_bonus + q.godl_bonus]

\* The buyer, who owns the empty address s, accepts the quote before it expires.
ExecuteOtcTrade(s, q) ==
    /\ otc_treasury # None
    /\ Owner[s] \in Buyers /\ s \notin Phantoms /\ stake[s] = None
    /\ now <= q.expiry
    /\ q.sol_in > 0 /\ q.godl_out > 0
    /\ q.lock_duration \in ONE_MONTH .. MAX_LOCK_DURATION
    /\ otc_treasury.tokens >= Needed(q)
    /\ otc_treasury.godl_balance >= Needed(q)
    /\ LET buyer == Owner[s]
           fresh == NewStake(q.lock_duration, buyer)
           new == Deposited(fresh, q.godl_out)
           user == IF otc_user[buyer] = None THEN NewOtcUser ELSE otc_user[buyer]
       IN  /\ stake' = [stake EXCEPT ![s] = [new EXCEPT !.tokens = q.godl_out]]
           /\ treasury' = [treasury EXCEPT !.total_staked = Reweighed(@, fresh, new),
                                           !.tokens = @ + q.godl_bonus]
           /\ otc_user' = [otc_user EXCEPT ![buyer] = Bought(user, q)]
           /\ bought' = [bought EXCEPT ![buyer][now] = @ + q.godl_out]
    /\ otc_treasury' = [otc_treasury EXCEPT
                          !.sol_balance = @ + q.sol_in, !.lamports = @ + q.sol_in,
                          !.godl_balance = @ - Needed(q),
                          !.tokens = @ - q.godl_out - q.godl_bonus]
    /\ UNCHANGED <<now, stake_v1, wallet, assets, audit, owed, taken, chest, funded>>

\* With nothing collected the handler returns at once.
WithdrawSolOtc ==
    /\ otc_treasury # None
    /\ otc_treasury.sol_balance > 0
    /\ otc_treasury.lamports >= otc_treasury.sol_balance
    /\ otc_treasury' = [otc_treasury EXCEPT !.sol_balance = 0,
                                            !.lamports = @ - otc_treasury.sol_balance]
    /\ chest' = chest + otc_treasury.sol_balance
    /\ UNCHANGED <<vars, otc_user, funded, bought>>

\* The desk, and everything that staking does meanwhile.
OtcNext ==
    \/ Next /\ UNCHANGED desk
    \/ InitializeOtcTreasury
    \/ \E a \in Authorities, amount \in FundAmounts : FundGodlOtc(a, amount)
    \/ \E s \in Stakes, q \in Quotes : ExecuteOtcTrade(s, q)
    \/ WithdrawSolOtc

OtcSpec == OtcInit /\ [][OtcNext]_otc_vars
=============================================================================
