-------------------------------- MODULE Ticket --------------------------------
(***************************************************************************)
(* What the mining game promises a player, without squares, pools or fees: *)
(* to enter a round is to hold a ticket.  A player holds one ticket at a   *)
(* time.  The first ticket of a round fixes the moment at which all of     *)
(* them expire; when the round is over, its ticket is collected once, into *)
(* the player's purse, or expires.  Nothing else fills a purse.            *)
(***************************************************************************)
EXTENDS Integers

CONSTANTS Players, Rounds,
          Window,    \* a ticket is good for more than this
          Never      \* the deadline of a round nobody has entered

VARIABLES current,   \* the round being played
          clock,
          deadline,  \* when the tickets of each round expire
          ticket,    \* the last ticket of each player: its round, and whether it is open
          purse      \* SOL and GODL that each player may take out

vars == <<current, clock, deadline, ticket, purse>>

Init ==
    /\ current \in Rounds
    /\ deadline[current] = Never
    /\ \A p \in Players : ~ticket[p].open /\ purse[p] = [sol |-> 0, godl |-> 0]

OthersKeep(p) ==
    \A q \in Players \ {p} : ticket'[q] = ticket[q] /\ purse'[q] = purse[q]

\* The deadlines of the rounds in S, and no others, may change.
DeadlinesKept(S) == \A k \in Rounds \ S : deadline'[k] = deadline[k]

\* A ticket of the current round, for a player without an open one.
Enter(p) ==
    /\ ~ticket[p].open
    /\ ticket'[p] = [round |-> current, open |-> TRUE]
    /\ purse'[p] = purse[p]
    /\ IF deadline[current] = Never
       THEN deadline'[current] > clock + Window /\ deadline'[current] # Never
       ELSE deadline'[current] = deadline[current]
    /\ DeadlinesKept({current})
    /\ OthersKeep(p)
    /\ UNCHANGED <<current, clock>>

\* A ticket closes when its round is over.
Use(p) ==
    /\ ticket[p].open
    /\ ticket[p].round < current
    /\ ticket'[p] = [round |-> ticket[p].round, open |-> FALSE]
    /\ OthersKeep(p)
    /\ UNCHANGED <<current, clock, deadline>>

Collect(p) ==
    /\ Use(p)
    /\ clock < deadline[ticket[p].round]
    /\ purse'[p].sol >= purse[p].sol /\ purse'[p].godl >= purse[p].godl

Forfeit(p) ==
    /\ Use(p)
    /\ clock >= deadline[ticket[p].round]
    /\ purse'[p] = purse[p]

\* A player takes SOL out.
Spend(p) ==
    /\ ticket'[p] = ticket[p]
    /\ purse'[p].sol <= purse[p].sol /\ purse'[p].godl = purse[p].godl
    /\ OthersKeep(p)
    /\ UNCHANGED <<current, clock, deadline>>

\* A round that somebody has entered gives way to the next.
Advance ==
    /\ deadline[current] # Never
    /\ current' = current + 1
    /\ \A k \in Rounds : deadline'[k] = deadline[k]
    /\ UNCHANGED <<clock, ticket, purse>>

\* What an expired round still holds is taken, and its deadline forgotten.
Sweep(k) ==
    /\ k < current
    /\ deadline[k] < clock
    /\ deadline'[k] = 0
    /\ DeadlinesKept({k})
    /\ UNCHANGED <<current, clock, ticket, purse>>

Tick ==
    /\ clock' = clock + 1
    /\ UNCHANGED <<current, deadline, ticket, purse>>

Next ==
    \/ \E p \in Players : Enter(p) \/ Collect(p) \/ Forfeit(p) \/ Spend(p)
    \/ Advance
    \/ \E k \in Rounds : Sweep(k)
    \/ Tick

Spec == Init /\ [][Next]_vars
=============================================================================
