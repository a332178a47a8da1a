------------------------------ MODULE Payments ------------------------------
(***************************************************************************)
(* How a service is paid for: an account shared by buyer, seller and       *)
(* arbiter, filled by the buyer and emptied by a transfer that the seller  *)
(* schedules once an hour and the buyer countersigns.                      *)
(*                                                                         *)
(* The seller's round is SellerSendScheduledTransferRequest (hedera/       *)
(* main.go), called by the invoice loop of seller-case.go; the buyer's     *)
(* side is the scheduleSignRequest case of the topic callback in buyer-    *)
(* case.go.  The ledger itself is external: it keeps the balances and the  *)
(* schedules, executes a schedule when enough keys have signed, and        *)
(* forgets one that stays unsigned.  Modelled are one buyer, one seller    *)
(* and the accounts they come to share: the buyer opens one when he has no *)
(* entry for the seller, so again after a restart, and the seller bills    *)
(* the one that its own entry names.  Amounts are in millibar.             *)
(***************************************************************************)
EXTENDS Integers, FiniteSets

CONSTANTS Accounts,    \* the shared accounts, opened one after another
          Schedules,   \* names of the schedules that exist at one time
          Callbacks,   \* the buyer's callbacks that can run at one time
          Funds,       \* bound: the buyer's own account at the start
          MaxWasted,   \* bound: deposits into each account although nothing had been released
          NoSchedule,  \* no schedule
          NoAccount    \* no account

ASSUME PaymentsAssumption ==
    /\ Funds \in Nat /\ MaxWasted \in Nat
    /\ NoSchedule \notin Schedules /\ NoAccount \notin Accounts
    /\ IsFiniteSet(Callbacks)

VARIABLES
    purse,      \* ledger: the buyer's own account
    held,       \* ledger: the shared accounts
    paid,       \* ledger: what the seller has received from each account
    opened,     \* ledger: the shared accounts that exist
    schedule,   \* ledger: the schedules
    moving,     \* deposits submitted and not yet decided, for each account
    requests,   \* the accounts of the requests that the seller may still take
    entry,      \* seller: the account that its connected entry names
    spc, sread, sinv,   \* seller, for each account: place in its round, balance read, schedule made
    inbox,      \* the invoices on the buyer's topic that are still to be delivered
    mine,       \* buyer: the account in its entry for the seller
    cpc, cinv, creleased, \* each callback: place, invoice, whether its signature released money
    wasted      \* observer: deposits submitted although the signature released nothing

ledger == <<purse, held, paid, opened>>
seller == <<requests, entry, spc, sread, sinv>>
buyer == <<mine, cpc, cinv, creleased>>
vars == <<ledger, schedule, moving, seller, inbox, buyer, wasted>>

\* A closed schedule is executed, failed or expired.
ScheduleRecord == [open : BOOLEAN, acct : Accounts, total : Nat, parent : Nat, device : Nat]

TypeOK ==
    /\ purse \in Nat
    /\ held \in [Accounts -> Nat] /\ paid \in [Accounts -> Nat]
    /\ opened \in SUBSET Accounts
    /\ schedule \in [Schedules -> ScheduleRecord]
    /\ moving \in [Accounts -> Nat]
    /\ requests \in SUBSET opened
    /\ entry \in opened \cup {NoAccount} /\ mine \in opened \cup {NoAccount}
    /\ spc \in [Accounts -> {"sleep", "create", "send"}]
    /\ sread \in [Accounts -> Nat]
    /\ sinv \in [Accounts -> Schedules \cup {NoSchedule}]
    /\ inbox \in SUBSET Schedules
    /\ cpc \in [Callbacks -> {"idle", "sign", "deposit"}]
    /\ cinv \in [Callbacks -> Schedules \cup {NoSchedule}]
    /\ creleased \in [Callbacks -> BOOLEAN]
    /\ wasted \in [Accounts -> 0..MaxWasted]

-----------------------------------------------------------------------------
(* Amounts.                                                                *)

\* Both the initial payment and the deposit of each round are fixed in the code.
InitialPayment == 100
DepositAmount == 100

\* HbarFrom truncates the product of a float64.  On a multiple of 100 millibar
\* the product is exact; on another amount it may come out just below.
Truncated(amount, x) == IF amount % 100 = 0 THEN {x} ELSE {x - 1, x}

\* Mutant: the share has the sign of the amount taken out.
fortyPercent_Signed(amount) == Truncated(amount, -((amount * 4) \div 10))

\* Mutant: the device is given a third.
sixtyPercent_TwoThirds(amount) == Truncated(amount, (amount * 2) \div 3)

sixtyPercent(amount) == Truncated(amount, (amount * 6) \div 10)
fortyPercent(amount) == Truncated(amount, (amount * 4) \div 10)

-----------------------------------------------------------------------------
(* The ledger.                                                             *)

\* Mutant: all four keys are asked for.
Threshold_All == 4

\* The shared account takes three of the keys buyer, buyer, arbiter, seller.
Weight(signer) == IF signer = "buyer" THEN 2 ELSE 1
Threshold == 3
Authorised(signers) ==
    (IF "buyer" \in signers THEN Weight("buyer") ELSE 0)
    + Cardinality(signers \ {"buyer"}) >= Threshold

\* A transfer goes through if its amounts add up to zero and the account has
\* the money.  One that does not is closed as well.
GoesThrough(s) ==
    /\ Authorised({"seller", "buyer"})
    /\ schedule[s].parent + schedule[s].device = schedule[s].total
    /\ schedule[s].total <= held[schedule[s].acct]

Close(s) == schedule' = [schedule EXCEPT ![s].open = FALSE]

\* Schedules nobody signs are dropped by the ledger after half an hour.
Expire(s) ==
    /\ schedule[s].open
    /\ Close(s)
    /\ UNCHANGED <<ledger, moving, seller, inbox, buyer, wasted>>

\* A deposit that was submitted without asking for a receipt arrives, or does not.
DepositArrives(a) ==
    /\ moving[a] > 0
    /\ moving' = [moving EXCEPT ![a] = @ - 1]
    /\ purse >= DepositAmount
    /\ purse' = purse - DepositAmount
    /\ held' = [held EXCEPT ![a] = @ + DepositAmount]
    /\ UNCHANGED <<paid, opened, schedule, seller, inbox, buyer, wasted>>

DepositFails(a) ==
    /\ moving[a] > 0
    /\ moving' = [moving EXCEPT ![a] = @ - 1]
    /\ UNCHANGED <<ledger, schedule, seller, inbox, buyer, wasted>>

\* A name may be used again once nobody refers to the schedule that had it.
Unused(s) ==
    /\ ~schedule[s].open /\ s \notin inbox
    /\ \A a \in Accounts : sinv[a] # s
    /\ \A c \in Callbacks : cinv[c] # s

-----------------------------------------------------------------------------
(* The seller: its entry for the buyer, and one round of its invoice loop. *)

\* A request of the buyer has been taken and the connection made: the entry
\* says Connected and holds the account of that request.  The buyer repeats the
\* request while the account is in its table, and requests are taken in the order
\* in which their accounts were opened: once the last one has been, no older is.
RequestTaken(a) ==
    /\ a \in requests /\ entry # a
    /\ entry' = a
    /\ requests' = IF a = mine THEN {a} ELSE requests
    /\ UNCHANGED <<ledger, schedule, moving, spc, sread, sinv, inbox, buyer, wasted>>

\* The entry is removed by a failed write, or no longer says Connected.
EntryLost ==
    /\ entry # NoAccount
    /\ entry' = NoAccount
    /\ UNCHANGED <<ledger, schedule, moving, requests, spc, sread, sinv, inbox, buyer, wasted>>

SellerAt(a, from, to) ==
    /\ spc[a] = from
    /\ spc' = [spc EXCEPT ![a] = to]

\* The loop bills one entry after another, and of the entries that say Connected
\* the account that their request names.  The amount is the whole balance of it.
GetBalance(a) ==
    /\ entry = a
    /\ \A b \in Accounts : spc[b] = "sleep"
    /\ SellerAt(a, "sleep", "create")
    /\ sread' = [sread EXCEPT ![a] = held[a]]
    /\ UNCHANGED <<ledger, schedule, moving, requests, entry, sinv, inbox, buyer, wasted>>

\* The schedule is created, signed by the seller, and its receipt awaited.
CreateSchedule(a) ==
    /\ SellerAt(a, "create", "send")
    /\ \E s \in Schedules, p \in sixtyPercent(sread[a]), d \in fortyPercent(sread[a]) :
        /\ Unused(s)
        /\ schedule' = [schedule EXCEPT ![s] =
              [open |-> TRUE, acct |-> a, total |-> sread[a], parent |-> p, device |-> d]]
        /\ sinv' = [sinv EXCEPT ![a] = s]
    /\ sread' = [sread EXCEPT ![a] = 0]
    /\ UNCHANGED <<ledger, moving, requests, entry, inbox, buyer, wasted>>

\* The invoice goes to the buyer's topic without a receipt: it may not arrive.
SendScheduleSignRequest(a) ==
    /\ SellerAt(a, "send", "sleep")
    /\ inbox' = inbox \cup {sinv[a]}
    /\ sinv' = [sinv EXCEPT ![a] = NoSchedule]
    /\ UNCHANGED <<ledger, schedule, moving, requests, entry, sread, buyer, wasted>>

\* Any error on the way is a log.Panic.  The seller starts again with an empty
\* table, until the buyer's repeated request is taken.
SellerPanics(a) ==
    /\ spc[a] # "sleep"
    /\ entry' = NoAccount
    /\ spc' = [spc EXCEPT ![a] = "sleep"]
    /\ sread' = [sread EXCEPT ![a] = 0]
    /\ sinv' = [sinv EXCEPT ![a] = NoSchedule]
    /\ UNCHANGED <<ledger, schedule, moving, requests, inbox, buyer, wasted>>

LoseInvoice(s) ==
    /\ s \in inbox
    /\ inbox' = inbox \ {s}
    /\ UNCHANGED <<ledger, schedule, moving, seller, buyer, wasted>>

-----------------------------------------------------------------------------
(* The buyer.                                                              *)

\* createSharedAccount, with the initial payment, when the table has no entry
\* for the seller.
OpenSharedAccount(a) ==
    /\ mine = NoAccount
    /\ a \notin opened /\ purse >= InitialPayment
    /\ opened' = opened \cup {a}
    /\ mine' = a
    /\ requests' = requests \cup {a}
    /\ purse' = purse - InitialPayment
    /\ held' = [held EXCEPT ![a] = @ + InitialPayment]
    /\ UNCHANGED <<paid, schedule, moving, entry, spc, sread, sinv, inbox, cpc, cinv, creleased, wasted>>

TakeInvoice(c, s) ==
    /\ cpc[c] = "idle" /\ s \in inbox
    /\ inbox' = inbox \ {s}
    /\ cpc' = [cpc EXCEPT ![c] = "sign"]
    /\ cinv' = [cinv EXCEPT ![c] = s]
    /\ UNCHANGED <<ledger, schedule, moving, seller, mine, creleased, wasted>>

Signed(c, released) ==
    /\ cpc' = [cpc EXCEPT ![c] = "deposit"]
    /\ creleased' = [creleased EXCEPT ![c] = released]
    /\ UNCHANGED <<mine, cinv, purse, opened, moving, seller, inbox, wasted>>

\* The signature completes the schedule, and the transfer goes through at once.
SignSchedule(c) ==
    LET s == cinv[c] IN
    /\ cpc[c] = "sign" /\ schedule[s].open /\ GoesThrough(s)
    /\ Close(s)
    /\ held' = [held EXCEPT ![schedule[s].acct] = @ - schedule[s].total]
    /\ paid' = [paid EXCEPT ![schedule[s].acct] = @ + schedule[s].parent + schedule[s].device]
    /\ Signed(c, schedule[s].total > 0)

\* The transfer is refused by the ledger: the account was emptied meanwhile.
TransferRefused(c) ==
    /\ cpc[c] = "sign" /\ schedule[cinv[c]].open /\ ~GoesThrough(cinv[c])
    /\ Close(cinv[c])
    /\ UNCHANGED <<held, paid>>
    /\ Signed(c, FALSE)

\* The schedule is gone, or the signature does not reach the ledger.  The
\* error is returned and dropped.
SignFails(c) ==
    /\ cpc[c] = "sign"
    /\ UNCHANGED <<held, paid, schedule>>
    /\ Signed(c, FALSE)

Returned(c) ==
    /\ cpc' = [cpc EXCEPT ![c] = "idle"]
    /\ cinv' = [cinv EXCEPT ![c] = NoSchedule]
    /\ creleased' = [creleased EXCEPT ![c] = FALSE]
    /\ UNCHANGED mine

Waste(c, a) == wasted' = [wasted EXCEPT ![a] = IF creleased[c] THEN @ ELSE @ + 1]

\* Mutant: the deposit is submitted a second time.
DepositToSharedAccount_Twice(c) ==
    LET a == schedule[cinv[c]].acct IN
    /\ cpc[c] = "deposit" /\ (creleased[c] \/ wasted[a] < MaxWasted)
    /\ moving' = [moving EXCEPT ![a] = @ + 2]
    /\ Waste(c, a)
    /\ Returned(c)
    /\ UNCHANGED <<ledger, schedule, seller, inbox>>

\* Whatever became of the signature, money for the next round is submitted.
DepositToSharedAccount(c) ==
    LET a == schedule[cinv[c]].acct IN
    /\ cpc[c] = "deposit" /\ (creleased[c] \/ wasted[a] < MaxWasted)
    /\ moving' = [moving EXCEPT ![a] = @ + 1]
    /\ Waste(c, a)
    /\ Returned(c)
    /\ UNCHANGED <<ledger, schedule, seller, inbox>>

\* The submission itself fails.  The error is printed.
DepositRefused(c) ==
    /\ cpc[c] = "deposit"
    /\ Returned(c)
    /\ UNCHANGED <<ledger, schedule, moving, seller, inbox, wasted>>

scheduleSignRequest(c) ==
    \/ SignSchedule(c) \/ TransferRefused(c) \/ SignFails(c)
    \/ DepositToSharedAccount(c) \/ DepositRefused(c)

\* The application takes the seller off its list, which removes the entry.
RemoveBuffer ==
    /\ mine # NoAccount
    /\ mine' = NoAccount
    /\ UNCHANGED <<ledger, schedule, moving, seller, inbox, cpc, cinv, creleased, wasted>>

\* The buyer's process dies and starts again: table and callbacks are gone,
\* and nobody remembers the account.
BuyerRestarts ==
    /\ mine # NoAccount \/ \E c \in Callbacks : cpc[c] # "idle"
    /\ mine' = NoAccount
    /\ cpc' = [c \in Callbacks |-> "idle"]
    /\ cinv' = [c \in Callbacks |-> NoSchedule]
    /\ creleased' = [c \in Callbacks |-> FALSE]
    /\ UNCHANGED <<ledger, schedule, moving, seller, inbox, wasted>>

-----------------------------------------------------------------------------

Init ==
    /\ purse = Funds
    /\ held = [a \in Accounts |-> 0]
    /\ paid = [a \in Accounts |-> 0]
    /\ opened = {}
    /\ schedule \in [Schedules -> {[open |-> FALSE, acct |-> a, total |-> 0,
                                   parent |-> 0, device |-> 0] : a \in Accounts}]
    /\ moving = [a \in Accounts |-> 0]
    /\ requests = {} /\ entry = NoAccount /\ mine = NoAccount
    /\ spc = [a \in Accounts |-> "sleep"]
    /\ sread = [a \in Accounts |-> 0]
    /\ sinv = [a \in Accounts |-> NoSchedule]
    /\ inbox = {}
    /\ cpc = [c \in Callbacks |-> "idle"]
    /\ cinv = [c \in Callbacks |-> NoSchedule]
    /\ creleased = [c \in Callbacks |-> FALSE]
    /\ wasted = [a \in Accounts |-> 0]

Next ==
    \/ \E a \in Accounts :
        \/ OpenSharedAccount(a) \/ RequestTaken(a)
        \/ GetBalance(a) \/ CreateSchedule(a) \/ SendScheduleSignRequest(a) \/ SellerPanics(a)
        \/ DepositArrives(a) \/ DepositFails(a)
    \/ \E s \in Schedules :
        \/ Expire(s) \/ LoseInvoice(s)
        \/ \E c \in Callbacks : TakeInvoice(c, s)
    \/ \E c \in Callbacks : scheduleSignRequest(c)
    \/ EntryLost \/ RemoveBuffer \/ BuyerRestarts

Safety == Init /\ [][Next]_vars

(* Fairness.  The loop and the callbacks run on, and a message on the      *)
(* topic is delivered or passed over in the end.  Errors, losses, expiries *)
(* and restarts may happen again and again, but no step that is tried for  *)
(* ever fails every time.  With the account that the buyer has in its      *)
(* table: now and then the loop finds it in a connected entry, the calls   *)
(* of its round succeed now and then, its invoice now and then arrives     *)
(* before the schedule expires and, although the callback may be busy with *)
(* another, is taken up before it does (a callback takes seconds, a        *)
(* schedule lasts half an hour), and the signature now and then reaches    *)
(* the ledger.  Nothing is assumed of an account that the buyer has given  *)
(* up: no request names it.                                                *)
IsMine(a) == a = mine

ForMine(s) == s # NoSchedule /\ schedule[s].acct = mine

Fairness ==
    /\ \A s \in Schedules :
        /\ WF_vars(Expire(s))
        /\ WF_vars(LoseInvoice(s) \/ \E c \in Callbacks : TakeInvoice(c, s))
    /\ \A c \in Callbacks : WF_vars(scheduleSignRequest(c))
    /\ SF_vars(\E a \in Accounts : IsMine(a) /\ GetBalance(a))
    /\ SF_vars(\E a \in Accounts : CreateSchedule(a))
    /\ WF_vars(\E a \in Accounts : SendScheduleSignRequest(a) \/ SellerPanics(a))
    /\ SF_vars(\E a \in Accounts :
                  ForMine(sinv[a]) /\ schedule[sinv[a]].open /\ SendScheduleSignRequest(a))
    /\ []<>(\E s \in inbox : ForMine(s) /\ schedule[s].open)
        => []<><<\E c \in Callbacks, s \in Schedules :
                    ForMine(s) /\ schedule[s].open /\ TakeInvoice(c, s)>>_vars
    /\ SF_vars(\E c \in Callbacks : ForMine(cinv[c]) /\ SignSchedule(c))

Spec == Safety /\ Fairness

(* The service goes on: an entry that was lost comes back.  Rendezvous     *)
(* shows that it does once faults cease, with one exception: after a       *)
(* failed write the stream may stay open, and a buyer who sees it does not *)
(* ask again.                                                              *)
ServiceGoesOn == []<>(mine = NoAccount \/ entry = mine)

SpecInService == Spec /\ ServiceGoesOn

-----------------------------------------------------------------------------
(* Properties.                                                             *)

\* SellerSendScheduledTransferRequest computes the two shares in floating
\* point and truncates each: whatever rounds were paid, lost or added twice,
\* every transfer it schedules adds up to the amount it takes out.
SplitAddsUp ==
    \A s \in Schedules :
        schedule[s].open => schedule[s].parent + schedule[s].device = schedule[s].total

\* The callback deposits for the next round without looking at the result of
\* SignSchedule: what the buyer has in an account, or on the way to it, is at
\* most one round, and one more for each time nothing had been released.
AtStake ==
    \A a \in Accounts : held[a] + 100 * moving[a] <= 100 * (1 + wasted[a])

\* With its invoices lost, refused or out of date, its unchecked signatures
\* and its deposits, the protocol implements the escrow: money moves from the
\* buyer to the accounts and from there to the seller in whole rounds, none is
\* made or lost, and, while the service goes on, what is in the account that the
\* buyer has in its table is released in the end.  What is left in one that a
\* restart or a removal made him forget may stay there: the seller bills the
\* account of the last request.
Promise == INSTANCE Escrow WITH Round <- 100, abandoned <- opened \ {mine}
ImplementsEscrow == Promise!Spec
=============================================================================
