----------------------------- MODULE RewardPool -----------------------------
(***************************************************************************)
(* What each of the program's three lazily settled rewards promises: the   *)
(* yield of stakes, the refined GODL and the gold of miners.  An amount is *)
(* shared at once, in proportion to the weights of that moment; afterwards *)
(* a holder's claim changes only when the holder is paid, however weights  *)
(* change; and the fund always covers all claims.  There are no factors    *)
(* and nothing is settled here.                                            *)
(***************************************************************************)
EXTENDS Sums

CONSTANTS NumHolders,
          Loss      \* bound: what truncation may take from one share

Holders == 1 .. NumHolders

VARIABLES members,    \* the holders that take part
          weight,     \* of each holder
          total,      \* the weight that an amount is divided by
          claimable,  \* what each holder may claim
          fund        \* what is there to pay claims with

vars == <<members, weight, total, claimable, fund>>

Init ==
    /\ \A h \in Holders : claimable[h] = 0
    /\ fund = 0

Solvent == Sum(claimable, NumHolders) <= fund

\* Only the holders in S are concerned; they may join the pool.
OthersKeep(S) ==
    /\ \A h \in Holders \ S : claimable'[h] = claimable[h] /\ weight'[h] = weight[h]
    /\ members \subseteq members' /\ members' \ members \subseteq S

\* Holder h receives its part of an amount that is divided by `all`: no more
\* than the part rounded up, no less than what truncation leaves of it.
Receives(h, amount, all) ==
    LET part == claimable'[h] - claimable[h]
    IN  /\ part >= 0
        /\ all > 0 => /\ part * all < amount * weight[h] + all
                      /\ (part + Loss) * all >= amount * weight[h]

SharedBy(S, amount, all) ==
    \A h \in S : IF h \in members THEN Receives(h, amount, all)
                 ELSE claimable'[h] = claimable[h]

\* An amount is shared by all members, or kept if nobody has any weight.
Distribute ==
    /\ fund' >= fund
    /\ SharedBy(Holders, fund' - fund, total)
    /\ UNCHANGED <<members, weight, total>>

\* What two holders, or one that is named twice, have together.
OfPair(c, g, h) == c[g] + IF g = h THEN 0 ELSE c[h]

\* Holders g and h do business: they are paid, move claims between them, and
\* change their weights; the other holders do not notice.
Deal(g, h) ==
    /\ OthersKeep({g, h})
    /\ OfPair(claimable', g, h) <= OfPair(claimable, g, h)
    /\ fund - fund' = OfPair(claimable, g, h) - OfPair(claimable', g, h)
    /\ total' - total = OfPair(weight', g, h) - OfPair(weight, g, h)

\* A holder is paid in full and gives up its weight; what it leaves in the fund
\* is shared by the others.
Leave(h) ==
    /\ claimable'[h] = 0 /\ weight'[h] = 0
    /\ total' = total - weight[h]
    /\ fund' >= fund - claimable[h]
    /\ SharedBy(Holders \ {h}, fund' - (fund - claimable[h]), total')
    /\ \A g \in Holders \ {h} : weight'[g] = weight[g]
    /\ UNCHANGED members

\* A holder without weight loses its claim.
Forfeit(h) ==
    /\ weight[h] = 0 /\ claimable'[h] = 0
    /\ OthersKeep({h})
    /\ UNCHANGED <<weight, total, fund>>

Next ==
    /\ \/ Distribute
       \/ \E g, h \in Holders : Deal(g, h)
       \/ \E h \in Holders : Leave(h) \/ Forfeit(h)
    /\ Solvent'

Spec == Init /\ [][Next]_vars
=============================================================================
