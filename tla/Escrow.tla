------------------------------- MODULE Escrow -------------------------------
(***************************************************************************)
(* What the payment protocol promises, without schedules, messages or      *)
(* signatures: the buyer keeps an account that he fills round by round     *)
(* from his purse, money leaves it only to the seller and in whole rounds, *)
(* nothing is created or lost on the way, and what is in the account       *)
(* reaches the seller in the end, unless the buyer abandons the account.   *)
(***************************************************************************)
EXTENDS Integers

CONSTANTS Accounts,   \* the shared accounts
          Round,      \* the price of one round
          Funds       \* what the buyer has at the start

VARIABLES purse,      \* the buyer's own account
          held,       \* the shared accounts
          paid,       \* what the seller has received from each account
          abandoned   \* the accounts that the buyer no longer knows of

vars == <<purse, held, paid, abandoned>>

Init ==
    /\ purse = Funds
    /\ held = [a \in Accounts |-> 0]
    /\ paid = [a \in Accounts |-> 0]
    /\ abandoned = {}

\* The buyer puts the price of one round into an account.
Fund(a) ==
    /\ purse >= Round
    /\ purse' = purse - Round
    /\ held' = [held EXCEPT ![a] = @ + Round]
    /\ UNCHANGED <<paid, abandoned>>

\* Some whole rounds of an account go to its seller.
Release(a) ==
    \E amount \in 1..held[a] :
        /\ amount % Round = 0
        /\ held' = [held EXCEPT ![a] = @ - amount]
        /\ paid' = [paid EXCEPT ![a] = @ + amount]
        /\ UNCHANGED <<purse, abandoned>>

\* The buyer forgets an account.
Abandon(a) ==
    /\ a \notin abandoned
    /\ abandoned' = abandoned \cup {a}
    /\ UNCHANGED <<purse, held, paid>>

Next == \E a \in Accounts : Fund(a) \/ Release(a) \/ Abandon(a)

Safety == Init /\ [][Next]_vars

Spec == Safety /\ \A a \in Accounts : WF_vars(a \notin abandoned /\ Release(a))
=============================================================================
