--------------------------- MODULE SharedAccounts ---------------------------
(***************************************************************************)
(* What the buyer promises about the shared accounts, without a peer       *)
(* table, connections, backoff or hole punching.  Each account is money    *)
(* put aside for one seller.  A caller opens a further account for a       *)
(* seller only when that seller has been forgotten since his last one, and *)
(* a seller is only ever asked to serve on an account that was opened for  *)
(* him.                                                                    *)
(***************************************************************************)
EXTENDS Integers

CONSTANTS Callers,    \* who may open accounts
          Sellers     \* for whom

VARIABLES accounts,   \* how many accounts were opened for each seller: 1..n
          delivered,  \* the accounts each seller was asked to serve on
          opened,     \* how many of them each caller opened
          forgotten   \* how often each seller was forgotten

vars == <<accounts, delivered, opened, forgotten>>

Init ==
    /\ accounts = [s \in Sellers |-> 0]
    /\ delivered = [s \in Sellers |-> {}]
    /\ opened = [t \in Callers |-> [s \in Sellers |-> 0]]
    /\ forgotten = [s \in Sellers |-> 0]

\* A caller opens an account for a seller.
Open(t, s) ==
    /\ opened[t][s] <= forgotten[s]
    /\ accounts' = [accounts EXCEPT ![s] = @ + 1]
    /\ opened' = [opened EXCEPT ![t][s] = @ + 1]
    /\ UNCHANGED <<delivered, forgotten>>

\* A seller is asked to serve on one of his accounts.
Deliver(s) ==
    \E a \in 1..accounts[s] :
        /\ delivered' = [delivered EXCEPT ![s] = @ \cup {a}]
        /\ UNCHANGED <<accounts, opened, forgotten>>

\* What the buyer knew of some sellers is gone; their accounts are not.
Forget(S) ==
    /\ forgotten' = [s \in Sellers |-> IF s \in S THEN forgotten[s] + 1 ELSE forgotten[s]]
    /\ UNCHANGED <<accounts, delivered, opened>>

Next ==
    \/ \E t \in Callers, s \in Sellers : Open(t, s)
    \/ \E s \in Sellers : Deliver(s) \/ Forget({s})
    \/ Forget(Sellers)

Spec == Init /\ [][Next]_vars
=============================================================================
