-------------------------- MODULE Payments_proofs --------------------------
(***************************************************************************)
(* Proofs about Payments, for every number of accounts, schedules and      *)
(* callbacks.  The inductive invariant adds to the type that every amount  *)
(* on the ledger, in a schedule or in a seller's hands is a multiple of    *)
(* one round, that whoever refers to a schedule refers to one of an opened *)
(* account, and that a callback about to deposit after a release still has *)
(* a round to make good.                                                   *)
(***************************************************************************)
EXTENDS Payments, FiniteSetTheorems, TLAPS

WholeRounds ==
    /\ \A a \in Accounts : held[a] % 100 = 0 /\ sread[a] % 100 = 0
    /\ \A s \in Schedules : schedule[s].total % 100 = 0

Balanced ==
    \A s \in Schedules : schedule[s].parent + schedule[s].device = schedule[s].total

References ==
    /\ \A c \in Callbacks : cpc[c] # "idle" => cinv[c] \in Schedules
    /\ \A a \in Accounts : spc[a] = "send" => sinv[a] \in Schedules
    /\ \A a \in Accounts : spc[a] # "sleep" => a \in opened
    /\ \A a \in Accounts : sinv[a] \in Schedules => schedule[sinv[a]].acct \in opened
    /\ \A s \in inbox : schedule[s].acct \in opened
    /\ \A c \in Callbacks : cinv[c] \in Schedules => schedule[cinv[c]].acct \in opened

\* The callbacks whose signature emptied account a and whose deposit is due.
Due(a) == {c \in Callbacks : cpc[c] = "deposit" /\ creleased[c] /\ schedule[cinv[c]].acct = a}

Opened(a) == IF a \in opened THEN 1 ELSE 0

Stake ==
    \A a \in Accounts :
        held[a] + 100 * moving[a] + 100 * Cardinality(Due(a)) <= 100 * (Opened(a) + wasted[a])

IInv == TypeOK /\ WholeRounds /\ Balanced /\ References /\ Stake

-----------------------------------------------------------------------------
(* Helpers.                                                                *)

\* The two shares of a whole number of rounds add up.
LEMMA SharesOfWholeRounds ==
    ASSUME NEW amount \in Nat, amount % 100 = 0,
           NEW p \in sixtyPercent(amount), NEW d \in fortyPercent(amount)
    PROVE  p \in Nat /\ d \in Nat /\ p + d = amount
<1>1. PICK k \in Nat : amount = 100 * k
  <2>1. amount = 100 * (amount \div 100) /\ amount \div 100 \in Nat
    OBVIOUS
  <2>2. QED
    BY <2>1
<1>2. p = (amount * 6) \div 10 /\ d = (amount * 4) \div 10
  BY DEF sixtyPercent, fortyPercent, Truncated
<1>3. amount * 6 = 10 * (60 * k) /\ amount * 4 = 10 * (40 * k)
  BY <1>1
<1>4. p = 60 * k /\ d = 40 * k
  BY <1>2, <1>3
<1>5. QED
  BY <1>1, <1>4

\* A round more is a whole number of rounds.
LEMMA OneMoreRound == \A n \in Nat : n % 100 = 0 => (n + 100) % 100 = 0
OBVIOUS

\* So is the difference.
LEMMA RoundsLess ==
    \A n \in Nat, m \in Nat : n % 100 = 0 /\ m % 100 = 0 /\ m <= n => n - m \in Nat /\ (n - m) % 100 = 0
OBVIOUS

\* Every set of callbacks is finite.
LEMMA FiniteCallbacks ==
    ASSUME NEW S, S \subseteq Callbacks
    PROVE  IsFiniteSet(S) /\ Cardinality(S) \in Nat
<1>1. IsFiniteSet(S)
  BY PaymentsAssumption, FS_Subset
<1>2. QED
  BY <1>1, FS_CardinalityType

\* Fewer callbacks due never make the stake larger.
LEMMA FewerDue ==
    ASSUME NEW S, NEW T, S \subseteq T, T \subseteq Callbacks
    PROVE  Cardinality(S) <= Cardinality(T)
BY FiniteCallbacks, FS_Subset

\* One callback more or less.
LEMMA OneMoreDue ==
    ASSUME NEW S, NEW c \in Callbacks, S \subseteq Callbacks
    PROVE  /\ Cardinality(S \cup {c}) <= Cardinality(S) + 1
           /\ c \in S => Cardinality(S \ {c}) = Cardinality(S) - 1
<1>1. IsFiniteSet(S)
  BY FiniteCallbacks
<1>2. Cardinality(S \cup {c}) = IF c \in S THEN Cardinality(S) ELSE Cardinality(S) + 1
  BY <1>1, FS_AddElement
<1>3. Cardinality(S \ {c}) = IF c \in S THEN Cardinality(S) - 1 ELSE Cardinality(S)
  BY <1>1, FS_RemoveElement
<1>4. Cardinality(S) \in Nat
  BY FiniteCallbacks
<1>5. QED
  BY <1>2, <1>3, <1>4

-----------------------------------------------------------------------------
(* One lemma for each action.                                              *)

\* A new account holds one round and no debt.
LEMMA OpenStep ==
    ASSUME NEW a \in Accounts, IInv, OpenSharedAccount(a)
    PROVE  IInv'
<1>1. TypeOK'
  BY PaymentsAssumption DEF IInv, TypeOK, ScheduleRecord, OpenSharedAccount, InitialPayment, ledger, seller, buyer
<1>2. WholeRounds'
  BY OneMoreRound DEF IInv, TypeOK, ScheduleRecord, WholeRounds, OpenSharedAccount, InitialPayment, ledger, seller, buyer
<1>3. Balanced'
  BY DEF IInv, TypeOK, ScheduleRecord, Balanced, OpenSharedAccount, InitialPayment, ledger, seller, buyer
<1>4. References'
  BY PaymentsAssumption DEF IInv, TypeOK, ScheduleRecord, References, OpenSharedAccount, InitialPayment, ledger, seller, buyer
<1>5. Stake'
  <2>1. ASSUME NEW b \in Accounts PROVE Due(b)' \subseteq Due(b)
    BY DEF IInv, TypeOK, ScheduleRecord, References, Due, OpenSharedAccount, InitialPayment, ledger, seller, buyer
  <2>2. ASSUME NEW b \in Accounts PROVE Cardinality(Due(b)) \in Nat /\ Cardinality(Due(b)') <= Cardinality(Due(b)) /\ Cardinality(Due(b)') \in Nat
    BY <2>1, FiniteCallbacks, FewerDue DEF Due
  <2>3. QED
    BY <2>2 DEF IInv, TypeOK, ScheduleRecord, Stake, Opened, OpenSharedAccount, InitialPayment, ledger, seller, buyer
<1>6. QED
  BY <1>1, <1>2, <1>3, <1>4, <1>5 DEF IInv

\* A request names an account that was opened.
LEMMA RequestStep ==
    ASSUME NEW a \in Accounts, IInv, RequestTaken(a)
    PROVE  IInv'
<1>1. TypeOK'
  BY PaymentsAssumption DEF IInv, TypeOK, ScheduleRecord, RequestTaken, ledger, seller, buyer
<1>2. WholeRounds'
  BY DEF IInv, TypeOK, ScheduleRecord, WholeRounds, RequestTaken, ledger, seller, buyer
<1>3. Balanced'
  BY DEF IInv, TypeOK, ScheduleRecord, Balanced, RequestTaken, ledger, seller, buyer
<1>4. References'
  BY PaymentsAssumption DEF IInv, TypeOK, ScheduleRecord, References, RequestTaken, ledger, seller, buyer
<1>5. Stake'
  <2>1. ASSUME NEW b \in Accounts PROVE Due(b)' \subseteq Due(b)
    BY DEF IInv, TypeOK, ScheduleRecord, References, Due, RequestTaken, ledger, seller, buyer
  <2>2. ASSUME NEW b \in Accounts PROVE Cardinality(Due(b)) \in Nat /\ Cardinality(Due(b)') <= Cardinality(Due(b)) /\ Cardinality(Due(b)') \in Nat
    BY <2>1, FiniteCallbacks, FewerDue DEF Due
  <2>3. QED
    BY <2>2 DEF IInv, TypeOK, ScheduleRecord, Stake, Opened, RequestTaken, ledger, seller, buyer
<1>6. QED
  BY <1>1, <1>2, <1>3, <1>4, <1>5 DEF IInv

\* A lost entry names nothing.
LEMMA EntryLostStep ==
    ASSUME IInv, EntryLost
    PROVE  IInv'
<1>1. TypeOK'
  BY PaymentsAssumption DEF IInv, TypeOK, ScheduleRecord, EntryLost, ledger, seller, buyer
<1>2. WholeRounds'
  BY DEF IInv, TypeOK, ScheduleRecord, WholeRounds, EntryLost, ledger, seller, buyer
<1>3. Balanced'
  BY DEF IInv, TypeOK, ScheduleRecord, Balanced, EntryLost, ledger, seller, buyer
<1>4. References'
  BY PaymentsAssumption DEF IInv, TypeOK, ScheduleRecord, References, EntryLost, ledger, seller, buyer
<1>5. Stake'
  <2>1. ASSUME NEW b \in Accounts PROVE Due(b)' \subseteq Due(b)
    BY DEF IInv, TypeOK, ScheduleRecord, References, Due, EntryLost, ledger, seller, buyer
  <2>2. ASSUME NEW b \in Accounts PROVE Cardinality(Due(b)) \in Nat /\ Cardinality(Due(b)') <= Cardinality(Due(b)) /\ Cardinality(Due(b)') \in Nat
    BY <2>1, FiniteCallbacks, FewerDue DEF Due
  <2>3. QED
    BY <2>2 DEF IInv, TypeOK, ScheduleRecord, Stake, Opened, EntryLost, ledger, seller, buyer
<1>6. QED
  BY <1>1, <1>2, <1>3, <1>4, <1>5 DEF IInv

\* Nor does a removed one.
LEMMA RemoveStep ==
    ASSUME IInv, RemoveBuffer
    PROVE  IInv'
<1>1. TypeOK'
  BY PaymentsAssumption DEF IInv, TypeOK, ScheduleRecord, RemoveBuffer, ledger, seller, buyer
<1>2. WholeRounds'
  BY DEF IInv, TypeOK, ScheduleRecord, WholeRounds, RemoveBuffer, ledger, seller, buyer
<1>3. Balanced'
  BY DEF IInv, TypeOK, ScheduleRecord, Balanced, RemoveBuffer, ledger, seller, buyer
<1>4. References'
  BY PaymentsAssumption DEF IInv, TypeOK, ScheduleRecord, References, RemoveBuffer, ledger, seller, buyer
<1>5. Stake'
  <2>1. ASSUME NEW b \in Accounts PROVE Due(b)' \subseteq Due(b)
    BY DEF IInv, TypeOK, ScheduleRecord, References, Due, RemoveBuffer, ledger, seller, buyer
  <2>2. ASSUME NEW b \in Accounts PROVE Cardinality(Due(b)) \in Nat /\ Cardinality(Due(b)') <= Cardinality(Due(b)) /\ Cardinality(Due(b)') \in Nat
    BY <2>1, FiniteCallbacks, FewerDue DEF Due
  <2>3. QED
    BY <2>2 DEF IInv, TypeOK, ScheduleRecord, Stake, Opened, RemoveBuffer, ledger, seller, buyer
<1>6. QED
  BY <1>1, <1>2, <1>3, <1>4, <1>5 DEF IInv

\* A balance is a whole number of rounds.
LEMMA GetBalanceStep ==
    ASSUME NEW a \in Accounts, IInv, GetBalance(a)
    PROVE  IInv'
<1>1. TypeOK'
  BY PaymentsAssumption DEF IInv, TypeOK, ScheduleRecord, GetBalance, SellerAt, ledger, seller, buyer
<1>2. WholeRounds'
  BY DEF IInv, TypeOK, ScheduleRecord, WholeRounds, GetBalance, SellerAt, ledger, seller, buyer
<1>3. Balanced'
  BY DEF IInv, TypeOK, ScheduleRecord, Balanced, GetBalance, SellerAt, ledger, seller, buyer
<1>4. References'
  BY PaymentsAssumption DEF IInv, TypeOK, ScheduleRecord, References, GetBalance, SellerAt, ledger, seller, buyer
<1>5. Stake'
  <2>1. ASSUME NEW b \in Accounts PROVE Due(b)' \subseteq Due(b)
    BY DEF IInv, TypeOK, ScheduleRecord, References, Due, GetBalance, SellerAt, ledger, seller, buyer
  <2>2. ASSUME NEW b \in Accounts PROVE Cardinality(Due(b)) \in Nat /\ Cardinality(Due(b)') <= Cardinality(Due(b)) /\ Cardinality(Due(b)') \in Nat
    BY <2>1, FiniteCallbacks, FewerDue DEF Due
  <2>3. QED
    BY <2>2 DEF IInv, TypeOK, ScheduleRecord, Stake, Opened, GetBalance, SellerAt, ledger, seller, buyer
<1>6. QED
  BY <1>1, <1>2, <1>3, <1>4, <1>5 DEF IInv

\* The invoice refers to the schedule just made.
LEMMA SendStep ==
    ASSUME NEW a \in Accounts, IInv, SendScheduleSignRequest(a)
    PROVE  IInv'
<1>1. TypeOK'
  BY PaymentsAssumption DEF IInv, TypeOK, ScheduleRecord, References, SendScheduleSignRequest, SellerAt, ledger, seller, buyer
<1>2. WholeRounds'
  BY DEF IInv, TypeOK, ScheduleRecord, WholeRounds, SendScheduleSignRequest, SellerAt, ledger, seller, buyer
<1>3. Balanced'
  BY DEF IInv, TypeOK, ScheduleRecord, Balanced, SendScheduleSignRequest, SellerAt, ledger, seller, buyer
<1>4. References'
  BY PaymentsAssumption DEF IInv, TypeOK, ScheduleRecord, References, SendScheduleSignRequest, SellerAt, ledger, seller, buyer
<1>5. Stake'
  <2>1. ASSUME NEW b \in Accounts PROVE Due(b)' \subseteq Due(b)
    BY DEF IInv, TypeOK, ScheduleRecord, References, Due, SendScheduleSignRequest, SellerAt, ledger, seller, buyer
  <2>2. ASSUME NEW b \in Accounts PROVE Cardinality(Due(b)) \in Nat /\ Cardinality(Due(b)') <= Cardinality(Due(b)) /\ Cardinality(Due(b)') \in Nat
    BY <2>1, FiniteCallbacks, FewerDue DEF Due
  <2>3. QED
    BY <2>2 DEF IInv, TypeOK, ScheduleRecord, Stake, Opened, SendScheduleSignRequest, SellerAt, ledger, seller, buyer
<1>6. QED
  BY <1>1, <1>2, <1>3, <1>4, <1>5 DEF IInv

\* A panic only forgets.
LEMMA PanicStep ==
    ASSUME NEW a \in Accounts, IInv, SellerPanics(a)
    PROVE  IInv'
<1>1. TypeOK'
  BY PaymentsAssumption DEF IInv, TypeOK, ScheduleRecord, SellerPanics, ledger, seller, buyer
<1>2. WholeRounds'
  BY DEF IInv, TypeOK, ScheduleRecord, WholeRounds, SellerPanics, ledger, seller, buyer
<1>3. Balanced'
  BY DEF IInv, TypeOK, ScheduleRecord, Balanced, SellerPanics, ledger, seller, buyer
<1>4. References'
  BY PaymentsAssumption DEF IInv, TypeOK, ScheduleRecord, References, SellerPanics, ledger, seller, buyer
<1>5. Stake'
  <2>1. ASSUME NEW b \in Accounts PROVE Due(b)' \subseteq Due(b)
    BY DEF IInv, TypeOK, ScheduleRecord, References, Due, SellerPanics, ledger, seller, buyer
  <2>2. ASSUME NEW b \in Accounts PROVE Cardinality(Due(b)) \in Nat /\ Cardinality(Due(b)') <= Cardinality(Due(b)) /\ Cardinality(Due(b)') \in Nat
    BY <2>1, FiniteCallbacks, FewerDue DEF Due
  <2>3. QED
    BY <2>2 DEF IInv, TypeOK, ScheduleRecord, Stake, Opened, SellerPanics, ledger, seller, buyer
<1>6. QED
  BY <1>1, <1>2, <1>3, <1>4, <1>5 DEF IInv

\* A deposit moves one round.
LEMMA ArrivesStep ==
    ASSUME NEW a \in Accounts, IInv, DepositArrives(a)
    PROVE  IInv'
<1>1. TypeOK'
  BY PaymentsAssumption DEF IInv, TypeOK, ScheduleRecord, DepositArrives, DepositAmount, ledger, seller, buyer
<1>2. WholeRounds'
  BY OneMoreRound DEF IInv, TypeOK, ScheduleRecord, WholeRounds, DepositArrives, DepositAmount, ledger, seller, buyer
<1>3. Balanced'
  BY DEF IInv, TypeOK, ScheduleRecord, Balanced, DepositArrives, DepositAmount, ledger, seller, buyer
<1>4. References'
  BY PaymentsAssumption DEF IInv, TypeOK, ScheduleRecord, References, DepositArrives, DepositAmount, ledger, seller, buyer
<1>5. Stake'
  <2>1. ASSUME NEW b \in Accounts PROVE Due(b)' \subseteq Due(b)
    BY DEF IInv, TypeOK, ScheduleRecord, References, Due, DepositArrives, DepositAmount, ledger, seller, buyer
  <2>2. ASSUME NEW b \in Accounts PROVE Cardinality(Due(b)) \in Nat /\ Cardinality(Due(b)') <= Cardinality(Due(b)) /\ Cardinality(Due(b)') \in Nat
    BY <2>1, FiniteCallbacks, FewerDue DEF Due
  <2>3. QED
    BY <2>2 DEF IInv, TypeOK, ScheduleRecord, Stake, Opened, DepositArrives, DepositAmount, ledger, seller, buyer
<1>6. QED
  BY <1>1, <1>2, <1>3, <1>4, <1>5 DEF IInv

\* A deposit that fails leaves less at stake.
LEMMA FailsStep ==
    ASSUME NEW a \in Accounts, IInv, DepositFails(a)
    PROVE  IInv'
<1>1. TypeOK'
  BY PaymentsAssumption DEF IInv, TypeOK, ScheduleRecord, DepositFails, ledger, seller, buyer
<1>2. WholeRounds'
  BY DEF IInv, TypeOK, ScheduleRecord, WholeRounds, DepositFails, ledger, seller, buyer
<1>3. Balanced'
  BY DEF IInv, TypeOK, ScheduleRecord, Balanced, DepositFails, ledger, seller, buyer
<1>4. References'
  BY PaymentsAssumption DEF IInv, TypeOK, ScheduleRecord, References, DepositFails, ledger, seller, buyer
<1>5. Stake'
  <2>1. ASSUME NEW b \in Accounts PROVE Due(b)' \subseteq Due(b)
    BY DEF IInv, TypeOK, ScheduleRecord, References, Due, DepositFails, ledger, seller, buyer
  <2>2. ASSUME NEW b \in Accounts PROVE Cardinality(Due(b)) \in Nat /\ Cardinality(Due(b)') <= Cardinality(Due(b)) /\ Cardinality(Due(b)') \in Nat
    BY <2>1, FiniteCallbacks, FewerDue DEF Due
  <2>3. QED
    BY <2>2 DEF IInv, TypeOK, ScheduleRecord, Stake, Opened, DepositFails, ledger, seller, buyer
<1>6. QED
  BY <1>1, <1>2, <1>3, <1>4, <1>5 DEF IInv

\* Expiry changes no amount.
LEMMA ExpireStep ==
    ASSUME NEW s \in Schedules, IInv, Expire(s)
    PROVE  IInv'
<1>1. TypeOK'
  BY PaymentsAssumption DEF IInv, TypeOK, ScheduleRecord, Expire, Close, ledger, seller, buyer
<1>2. WholeRounds'
  BY DEF IInv, TypeOK, ScheduleRecord, WholeRounds, Expire, Close, ledger, seller, buyer
<1>3. Balanced'
  BY DEF IInv, TypeOK, ScheduleRecord, Balanced, Expire, Close, ledger, seller, buyer
<1>4. References'
  BY PaymentsAssumption DEF IInv, TypeOK, ScheduleRecord, References, Expire, Close, ledger, seller, buyer
<1>5. Stake'
  <2>1. ASSUME NEW b \in Accounts PROVE Due(b)' \subseteq Due(b)
    BY DEF IInv, TypeOK, ScheduleRecord, References, Due, Expire, Close, ledger, seller, buyer
  <2>2. ASSUME NEW b \in Accounts PROVE Cardinality(Due(b)) \in Nat /\ Cardinality(Due(b)') <= Cardinality(Due(b)) /\ Cardinality(Due(b)') \in Nat
    BY <2>1, FiniteCallbacks, FewerDue DEF Due
  <2>3. QED
    BY <2>2 DEF IInv, TypeOK, ScheduleRecord, Stake, Opened, Expire, Close, ledger, seller, buyer
<1>6. QED
  BY <1>1, <1>2, <1>3, <1>4, <1>5 DEF IInv

\* A lost invoice refers to nothing any more.
LEMMA LoseStep ==
    ASSUME NEW s \in Schedules, IInv, LoseInvoice(s)
    PROVE  IInv'
<1>1. TypeOK'
  BY PaymentsAssumption DEF IInv, TypeOK, ScheduleRecord, LoseInvoice, ledger, seller, buyer
<1>2. WholeRounds'
  BY DEF IInv, TypeOK, ScheduleRecord, WholeRounds, LoseInvoice, ledger, seller, buyer
<1>3. Balanced'
  BY DEF IInv, TypeOK, ScheduleRecord, Balanced, LoseInvoice, ledger, seller, buyer
<1>4. References'
  BY PaymentsAssumption DEF IInv, TypeOK, ScheduleRecord, References, LoseInvoice, ledger, seller, buyer
<1>5. Stake'
  <2>1. ASSUME NEW b \in Accounts PROVE Due(b)' \subseteq Due(b)
    BY DEF IInv, TypeOK, ScheduleRecord, References, Due, LoseInvoice, ledger, seller, buyer
  <2>2. ASSUME NEW b \in Accounts PROVE Cardinality(Due(b)) \in Nat /\ Cardinality(Due(b)') <= Cardinality(Due(b)) /\ Cardinality(Due(b)') \in Nat
    BY <2>1, FiniteCallbacks, FewerDue DEF Due
  <2>3. QED
    BY <2>2 DEF IInv, TypeOK, ScheduleRecord, Stake, Opened, LoseInvoice, ledger, seller, buyer
<1>6. QED
  BY <1>1, <1>2, <1>3, <1>4, <1>5 DEF IInv

\* A callback takes over the reference of its invoice.
LEMMA TakeStep ==
    ASSUME NEW c \in Callbacks, NEW s \in Schedules, IInv, TakeInvoice(c, s)
    PROVE  IInv'
<1>1. TypeOK'
  BY PaymentsAssumption DEF IInv, TypeOK, ScheduleRecord, TakeInvoice, ledger, seller, buyer
<1>2. WholeRounds'
  BY DEF IInv, TypeOK, ScheduleRecord, WholeRounds, TakeInvoice, ledger, seller, buyer
<1>3. Balanced'
  BY DEF IInv, TypeOK, ScheduleRecord, Balanced, TakeInvoice, ledger, seller, buyer
<1>4. References'
  BY PaymentsAssumption DEF IInv, TypeOK, ScheduleRecord, References, TakeInvoice, ledger, seller, buyer
<1>5. Stake'
  <2>1. ASSUME NEW b \in Accounts PROVE Due(b)' \subseteq Due(b)
    BY DEF IInv, TypeOK, ScheduleRecord, References, Due, TakeInvoice, ledger, seller, buyer
  <2>2. ASSUME NEW b \in Accounts PROVE Cardinality(Due(b)) \in Nat /\ Cardinality(Due(b)') <= Cardinality(Due(b)) /\ Cardinality(Due(b)') \in Nat
    BY <2>1, FiniteCallbacks, FewerDue DEF Due
  <2>3. QED
    BY <2>2 DEF IInv, TypeOK, ScheduleRecord, Stake, Opened, TakeInvoice, ledger, seller, buyer
<1>6. QED
  BY <1>1, <1>2, <1>3, <1>4, <1>5 DEF IInv

\* A refused transfer leaves the amounts alone.
LEMMA RefusedStep ==
    ASSUME NEW c \in Callbacks, IInv, TransferRefused(c)
    PROVE  IInv'
<1>0. PICK s \in Schedules : s = cinv[c] /\ Close(s) /\ schedule[s] \in ScheduleRecord
  BY DEF IInv, TypeOK, References, TransferRefused
<1>a. [schedule[s] EXCEPT !.open = FALSE] \in ScheduleRecord
  BY <1>0 DEF ScheduleRecord
<1>b. schedule' \in [Schedules -> ScheduleRecord]
  BY <1>0, <1>a DEF IInv, TypeOK, Close
<1>1. TypeOK'
  BY <1>b, PaymentsAssumption DEF IInv, TypeOK, TransferRefused, Signed, ledger, seller, buyer
<1>2. WholeRounds'
  BY DEF IInv, TypeOK, ScheduleRecord, WholeRounds, TransferRefused, Close, Signed, ledger, seller, buyer
<1>3. Balanced'
  BY DEF IInv, TypeOK, ScheduleRecord, Balanced, TransferRefused, Close, Signed, ledger, seller, buyer
<1>4. References'
  BY PaymentsAssumption DEF IInv, TypeOK, ScheduleRecord, References, TransferRefused, Close, Signed, ledger, seller, buyer
<1>5. Stake'
  <2>1. ASSUME NEW b \in Accounts PROVE Due(b)' \subseteq Due(b)
    BY DEF IInv, TypeOK, ScheduleRecord, References, Due, TransferRefused, Close, Signed, ledger, seller, buyer
  <2>2. ASSUME NEW b \in Accounts PROVE Cardinality(Due(b)) \in Nat /\ Cardinality(Due(b)') <= Cardinality(Due(b)) /\ Cardinality(Due(b)') \in Nat
    BY <2>1, FiniteCallbacks, FewerDue DEF Due
  <2>3. QED
    BY <2>2 DEF IInv, TypeOK, ScheduleRecord, Stake, Opened, TransferRefused, Close, Signed, ledger, seller, buyer
<1>6. QED
  BY <1>1, <1>2, <1>3, <1>4, <1>5 DEF IInv

\* A failed signature leaves the ledger alone.
LEMMA SignFailsStep ==
    ASSUME NEW c \in Callbacks, IInv, SignFails(c)
    PROVE  IInv'
<1>1. TypeOK'
  BY PaymentsAssumption DEF IInv, TypeOK, ScheduleRecord, SignFails, Signed, ledger, seller, buyer
<1>2. WholeRounds'
  BY DEF IInv, TypeOK, ScheduleRecord, WholeRounds, SignFails, Signed, ledger, seller, buyer
<1>3. Balanced'
  BY DEF IInv, TypeOK, ScheduleRecord, Balanced, SignFails, Signed, ledger, seller, buyer
<1>4. References'
  BY PaymentsAssumption DEF IInv, TypeOK, ScheduleRecord, References, SignFails, Signed, ledger, seller, buyer
<1>5. Stake'
  <2>1. ASSUME NEW b \in Accounts PROVE Due(b)' \subseteq Due(b)
    BY DEF IInv, TypeOK, ScheduleRecord, References, Due, SignFails, Signed, ledger, seller, buyer
  <2>2. ASSUME NEW b \in Accounts PROVE Cardinality(Due(b)) \in Nat /\ Cardinality(Due(b)') <= Cardinality(Due(b)) /\ Cardinality(Due(b)') \in Nat
    BY <2>1, FiniteCallbacks, FewerDue DEF Due
  <2>3. QED
    BY <2>2 DEF IInv, TypeOK, ScheduleRecord, Stake, Opened, SignFails, Signed, ledger, seller, buyer
<1>6. QED
  BY <1>1, <1>2, <1>3, <1>4, <1>5 DEF IInv

\* A deposit that is not submitted.
LEMMA DepositRefusedStep ==
    ASSUME NEW c \in Callbacks, IInv, DepositRefused(c)
    PROVE  IInv'
<1>1. TypeOK'
  BY PaymentsAssumption DEF IInv, TypeOK, ScheduleRecord, DepositRefused, Returned, ledger, seller, buyer
<1>2. WholeRounds'
  BY DEF IInv, TypeOK, ScheduleRecord, WholeRounds, DepositRefused, Returned, ledger, seller, buyer
<1>3. Balanced'
  BY DEF IInv, TypeOK, ScheduleRecord, Balanced, DepositRefused, Returned, ledger, seller, buyer
<1>4. References'
  BY PaymentsAssumption DEF IInv, TypeOK, ScheduleRecord, References, DepositRefused, Returned, ledger, seller, buyer
<1>5. Stake'
  <2>1. ASSUME NEW b \in Accounts PROVE Due(b)' \subseteq Due(b)
    BY DEF IInv, TypeOK, ScheduleRecord, References, Due, DepositRefused, Returned, ledger, seller, buyer
  <2>2. ASSUME NEW b \in Accounts PROVE Cardinality(Due(b)) \in Nat /\ Cardinality(Due(b)') <= Cardinality(Due(b)) /\ Cardinality(Due(b)') \in Nat
    BY <2>1, FiniteCallbacks, FewerDue DEF Due
  <2>3. QED
    BY <2>2 DEF IInv, TypeOK, ScheduleRecord, Stake, Opened, DepositRefused, Returned, ledger, seller, buyer
<1>6. QED
  BY <1>1, <1>2, <1>3, <1>4, <1>5 DEF IInv

\* A restart drops the deposits that were due.
LEMMA RestartStep ==
    ASSUME IInv, BuyerRestarts
    PROVE  IInv'
<1>1. TypeOK'
  BY PaymentsAssumption DEF IInv, TypeOK, ScheduleRecord, BuyerRestarts, ledger, seller, buyer
<1>2. WholeRounds'
  BY DEF IInv, TypeOK, ScheduleRecord, WholeRounds, BuyerRestarts, ledger, seller, buyer
<1>3. Balanced'
  BY DEF IInv, TypeOK, ScheduleRecord, Balanced, BuyerRestarts, ledger, seller, buyer
<1>4. References'
  BY PaymentsAssumption DEF IInv, TypeOK, ScheduleRecord, References, BuyerRestarts, ledger, seller, buyer
<1>5. Stake'
  <2>1. ASSUME NEW b \in Accounts PROVE Due(b)' \subseteq Due(b)
    BY DEF IInv, TypeOK, ScheduleRecord, References, Due, BuyerRestarts, ledger, seller, buyer
  <2>2. ASSUME NEW b \in Accounts PROVE Cardinality(Due(b)) \in Nat /\ Cardinality(Due(b)') <= Cardinality(Due(b)) /\ Cardinality(Due(b)') \in Nat
    BY <2>1, FiniteCallbacks, FewerDue DEF Due
  <2>3. QED
    BY <2>2 DEF IInv, TypeOK, ScheduleRecord, Stake, Opened, BuyerRestarts, ledger, seller, buyer
<1>6. QED
  BY <1>1, <1>2, <1>3, <1>4, <1>5 DEF IInv

\* The new schedule has whole rounds and shares that add up.
LEMMA CreateStep ==
    ASSUME NEW a \in Accounts, IInv, CreateSchedule(a)
    PROVE  IInv'
<1>0. PICK s \in Schedules, p \in sixtyPercent(sread[a]), d \in fortyPercent(sread[a]) :
        /\ Unused(s)
        /\ schedule' = [schedule EXCEPT ![s] =
              [open |-> TRUE, acct |-> a, total |-> sread[a], parent |-> p, device |-> d]]
        /\ sinv' = [sinv EXCEPT ![a] = s]
  BY DEF CreateSchedule
<1>a. sread[a] \in Nat /\ sread[a] % 100 = 0
  BY DEF IInv, TypeOK, WholeRounds
<1>b. p \in Nat /\ d \in Nat /\ p + d = sread[a]
  BY <1>a, SharesOfWholeRounds
<1>1. TypeOK'
  BY <1>0, <1>a, <1>b DEF IInv, TypeOK, ScheduleRecord, CreateSchedule, SellerAt, ledger, seller, buyer
<1>2. WholeRounds'
  BY <1>0, <1>a, <1>b DEF IInv, TypeOK, ScheduleRecord, WholeRounds, CreateSchedule, SellerAt, ledger, seller, buyer
<1>3. Balanced'
  BY <1>0, <1>a, <1>b DEF IInv, TypeOK, ScheduleRecord, Balanced, CreateSchedule, SellerAt, ledger, seller, buyer
<1>4. References'
  BY <1>0, PaymentsAssumption DEF IInv, TypeOK, ScheduleRecord, References, Unused, CreateSchedule, SellerAt, ledger, seller, buyer
<1>5. Stake'
  <2>1. ASSUME NEW b \in Accounts PROVE Due(b)' \subseteq Due(b)
    BY <1>0 DEF IInv, TypeOK, ScheduleRecord, References, Unused, Due, CreateSchedule, SellerAt, ledger, seller, buyer
  <2>2. ASSUME NEW b \in Accounts PROVE Cardinality(Due(b)) \in Nat /\ Cardinality(Due(b)') <= Cardinality(Due(b)) /\ Cardinality(Due(b)') \in Nat
    BY <2>1, FiniteCallbacks, FewerDue DEF Due
  <2>3. QED
    BY <2>2 DEF IInv, TypeOK, ScheduleRecord, Stake, Opened, CreateSchedule, SellerAt, ledger, seller, buyer
<1>6. QED
  BY <1>1, <1>2, <1>3, <1>4, <1>5 DEF IInv

\* A release takes at least one round out of the account.
LEMMA SignStep ==
    ASSUME NEW c \in Callbacks, IInv, SignSchedule(c)
    PROVE  IInv'
<1>0. PICK s \in Schedules, x \in Accounts, n \in Nat, p \in Nat, d \in Nat :
        /\ s = cinv[c] /\ x = schedule[s].acct
        /\ n = schedule[s].total /\ p = schedule[s].parent /\ d = schedule[s].device
        /\ x \in opened /\ n % 100 = 0 /\ p + d = n /\ n <= held[x]
  BY DEF IInv, TypeOK, ScheduleRecord, WholeRounds, Balanced, References, SignSchedule, GoesThrough
<1>a. /\ schedule' = [schedule EXCEPT ![s].open = FALSE]
      /\ held' = [held EXCEPT ![x] = @ - n]
      /\ paid' = [paid EXCEPT ![x] = @ + p + d]
      /\ cpc' = [cpc EXCEPT ![c] = "deposit"]
      /\ creleased' = [creleased EXCEPT ![c] = (n > 0)]
      /\ UNCHANGED <<mine, cinv, purse, opened, moving, seller, inbox, wasted>>
  BY <1>0 DEF SignSchedule, Close, Signed
<1>b. held[x] \in Nat /\ held[x] - n \in Nat /\ (held[x] - n) % 100 = 0
  BY <1>0, RoundsLess DEF IInv, TypeOK, WholeRounds
<1>c. [schedule[s] EXCEPT !.open = FALSE] \in ScheduleRecord
  <2>1. schedule[s] \in ScheduleRecord
    BY DEF IInv, TypeOK
  <2>2. QED
    BY <2>1 DEF ScheduleRecord
<1>d. schedule' \in [Schedules -> ScheduleRecord]
  BY <1>0, <1>a, <1>c DEF IInv, TypeOK
<1>e. held' \in [Accounts -> Nat] /\ paid' \in [Accounts -> Nat]
  <2>1. held \in [Accounts -> Nat] /\ paid \in [Accounts -> Nat]
    BY DEF IInv, TypeOK
  <2>2. paid[x] + p + d \in Nat
    BY <2>1
  <2>3. held' = [held EXCEPT ![x] = held[x] - n] /\ paid' = [paid EXCEPT ![x] = paid[x] + p + d]
    BY <1>a
  <2>4. QED
    BY <1>b, <2>1, <2>2, <2>3
<1>1. TypeOK'
  BY <1>0, <1>a, <1>d, <1>e DEF IInv, TypeOK, seller
<1>2. WholeRounds'
  BY <1>0, <1>a, <1>b DEF IInv, TypeOK, ScheduleRecord, WholeRounds, seller
<1>3. Balanced'
  BY <1>0, <1>a DEF IInv, TypeOK, ScheduleRecord, Balanced, seller
<1>4. References'
  BY <1>0, <1>a DEF IInv, TypeOK, ScheduleRecord, References, seller
<1>5. Stake'
  <2>1. ASSUME NEW b \in Accounts, b # x PROVE Due(b)' \subseteq Due(b)
    BY <2>1, <1>0, <1>a DEF IInv, TypeOK, ScheduleRecord, References, Due, seller
  <2>2. Due(x)' \subseteq IF n > 0 THEN Due(x) \cup {c} ELSE Due(x)
    BY <1>0, <1>a DEF IInv, TypeOK, ScheduleRecord, References, Due, seller
  <2>3. ASSUME NEW b \in Accounts PROVE Due(b) \subseteq Callbacks /\ Due(b)' \subseteq Callbacks
    BY DEF Due
  <2>4. Cardinality(Due(x)') <= IF n > 0 THEN Cardinality(Due(x)) + 1 ELSE Cardinality(Due(x))
    <3>1. CASE n > 0
      <4>1. Cardinality(Due(x)') <= Cardinality(Due(x) \cup {c})
        BY <3>1, <2>2, <2>3, <1>0, FewerDue
      <4>2. Cardinality(Due(x) \cup {c}) <= Cardinality(Due(x)) + 1
        BY <2>3, <1>0, OneMoreDue
      <4>3. /\ Cardinality(Due(x)') \in Nat
            /\ Cardinality(Due(x) \cup {c}) \in Nat
            /\ Cardinality(Due(x)) \in Nat
        BY <2>3, <1>0, FiniteCallbacks
      <4>4. QED
        BY <4>1, <4>2, <4>3, <3>1
    <3>2. CASE ~(n > 0)
      BY <3>2, <2>2, <2>3, <1>0, FewerDue
    <3>3. QED
      BY <3>1, <3>2
  <2>5. ASSUME NEW b \in Accounts PROVE Cardinality(Due(b)) \in Nat /\ Cardinality(Due(b)') \in Nat
    BY <2>3, FiniteCallbacks
  <2>6. ASSUME NEW b \in Accounts, b # x PROVE Cardinality(Due(b)') <= Cardinality(Due(b))
    BY <2>6, <2>1, <2>3, FewerDue
  <2>7. n > 0 => n >= 100
    BY <1>0
  <2>8. /\ held' = [held EXCEPT ![x] = @ - n]
        /\ UNCHANGED <<moving, opened, wasted>>
    BY <1>a DEF seller
  <2>9. held'[x] = held[x] - n /\ \A b \in Accounts : b # x => held'[b] = held[b]
    BY <2>8, <1>0, <1>b DEF IInv, TypeOK
  <2>10. ASSUME NEW b \in Accounts
         PROVE  held'[b] + 100 * moving[b] + 100 * Cardinality(Due(b)') <= 100 * (Opened(b) + wasted[b])
    <3>1. held[b] + 100 * moving[b] + 100 * Cardinality(Due(b)) <= 100 * (Opened(b) + wasted[b])
      BY DEF IInv, Stake
    <3>2. held[b] \in Nat /\ moving[b] \in Nat /\ wasted[b] \in Nat /\ Opened(b) \in Nat
      BY PaymentsAssumption DEF IInv, TypeOK, Opened
    <3>3. CASE b = x
      <4>1. held'[b] = held[b] - n
        BY <3>3, <2>9
      <4>2. /\ Cardinality(Due(b)') <= IF n > 0 THEN Cardinality(Due(b)) + 1 ELSE Cardinality(Due(b))
            /\ Cardinality(Due(b)) \in Nat /\ Cardinality(Due(b)') \in Nat
        BY <3>3, <2>4, <2>5
      <4>3. QED
        BY <3>1, <3>2, <4>1, <4>2, <2>7
    <3>4. CASE b # x
      BY <3>1, <3>2, <3>4, <2>6, <2>5, <2>9
    <3>5. QED
      BY <3>3, <3>4
  <2>11. QED
    BY <2>8, <2>10 DEF Stake, Opened
<1>6. QED
  BY <1>1, <1>2, <1>3, <1>4, <1>5 DEF IInv

\* A deposit after a release makes good one that was due; another is counted.
LEMMA DepositStep ==
    ASSUME NEW c \in Callbacks, IInv, DepositToSharedAccount(c)
    PROVE  IInv'
<1>0. PICK s \in Schedules, x \in Accounts : s = cinv[c] /\ x = schedule[s].acct
  BY DEF IInv, TypeOK, ScheduleRecord, References, DepositToSharedAccount
<1>1. TypeOK'
  BY <1>0, PaymentsAssumption DEF IInv, TypeOK, ScheduleRecord, DepositToSharedAccount, Waste, Returned, ledger, seller, buyer
<1>2. WholeRounds'
  BY DEF IInv, TypeOK, ScheduleRecord, WholeRounds, DepositToSharedAccount, Waste, Returned, ledger, seller, buyer
<1>3. Balanced'
  BY DEF IInv, TypeOK, ScheduleRecord, Balanced, DepositToSharedAccount, Waste, Returned, ledger, seller, buyer
<1>4. References'
  BY <1>0, PaymentsAssumption DEF IInv, TypeOK, ScheduleRecord, References, DepositToSharedAccount, Waste, Returned, ledger, seller, buyer
<1>5. Stake'
  <2>1. ASSUME NEW b \in Accounts
        PROVE  /\ Due(b)' \subseteq Due(b)
               /\ b = x /\ creleased[c] => c \in Due(b) /\ Due(b)' \subseteq Due(b) \ {c}
    BY <1>0 DEF IInv, TypeOK, ScheduleRecord, References, Due, DepositToSharedAccount, Waste, Returned, ledger, seller, buyer
  <2>2. ASSUME NEW b \in Accounts PROVE Due(b) \subseteq Callbacks /\ Due(b)' \subseteq Callbacks
    BY DEF Due
  <2>3. ASSUME NEW b \in Accounts
        PROVE  /\ Cardinality(Due(b)) \in Nat /\ Cardinality(Due(b)') \in Nat
               /\ Cardinality(Due(b)') <= Cardinality(Due(b))
    BY <2>1, <2>2, FiniteCallbacks, FewerDue
  <2>4. creleased[c] => Cardinality(Due(x)') <= Cardinality(Due(x)) - 1
    <3>1. SUFFICES ASSUME creleased[c] PROVE Cardinality(Due(x)') <= Cardinality(Due(x)) - 1
      OBVIOUS
    <3>2. c \in Due(x) /\ Due(x)' \subseteq Due(x) \ {c}
      BY <3>1, <2>1, <1>0
    <3>3. Cardinality(Due(x)') <= Cardinality(Due(x) \ {c})
      BY <3>2, <2>2, <1>0, FewerDue
    <3>4. Cardinality(Due(x) \ {c}) = Cardinality(Due(x)) - 1
      BY <3>2, <2>2, <1>0, OneMoreDue
    <3>5. QED
      BY <3>3, <3>4
  <2>5. /\ moving' = [moving EXCEPT ![x] = @ + 1]
        /\ wasted' = [wasted EXCEPT ![x] = IF creleased[c] THEN @ ELSE @ + 1]
        /\ UNCHANGED <<held, opened>>
    BY <1>0 DEF DepositToSharedAccount, Waste, Returned, ledger, seller, buyer
  <2>6. /\ moving'[x] = moving[x] + 1
        /\ wasted'[x] = IF creleased[c] THEN wasted[x] ELSE wasted[x] + 1
        /\ \A b \in Accounts : b # x => moving'[b] = moving[b] /\ wasted'[b] = wasted[b]
    BY <2>5, <1>0 DEF IInv, TypeOK
  <2>7. ASSUME NEW b \in Accounts
        PROVE  held[b] + 100 * moving'[b] + 100 * Cardinality(Due(b)') <= 100 * (Opened(b) + wasted'[b])
    <3>1. held[b] + 100 * moving[b] + 100 * Cardinality(Due(b)) <= 100 * (Opened(b) + wasted[b])
      BY DEF IInv, Stake
    <3>2. held[b] \in Nat /\ moving[b] \in Nat /\ wasted[b] \in Nat /\ Opened(b) \in Nat
      BY PaymentsAssumption DEF IInv, TypeOK, Opened
    <3>3. CASE b = x
      BY <3>1, <3>2, <3>3, <2>3, <2>4, <2>6
    <3>4. CASE b # x
      BY <3>1, <3>2, <3>4, <2>3, <2>6
    <3>5. QED
      BY <3>3, <3>4
  <2>8. QED
    BY <2>5, <2>7 DEF Stake, Opened
<1>6. QED
  BY <1>1, <1>2, <1>3, <1>4, <1>5 DEF IInv

\* The invariant holds at the start.
LEMMA InitiallyIInv == Init => IInv
<1> SUFFICES ASSUME Init PROVE IInv
  OBVIOUS
<1> DEFINE closed(a) == [open |-> FALSE, acct |-> a, total |-> 0, parent |-> 0, device |-> 0]
<1>a. ASSUME NEW s \in Schedules
      PROVE  schedule[s] \in ScheduleRecord /\ schedule[s].total = 0
             /\ schedule[s].parent = 0 /\ schedule[s].device = 0
  <2>1. PICK a \in Accounts : schedule[s] = closed(a)
    BY DEF Init
  <2>2. QED
    BY <2>1 DEF ScheduleRecord
<1>0. schedule \in [Schedules -> ScheduleRecord] /\ Balanced /\ \A s \in Schedules : schedule[s].total = 0
  BY <1>a DEF Init, Balanced
<1>1. TypeOK /\ WholeRounds /\ References
  BY <1>0, PaymentsAssumption DEF Init, TypeOK, WholeRounds, References
<1>2. ASSUME NEW a \in Accounts PROVE Due(a) = {}
  BY DEF Init, Due
<1>3. Cardinality({}) = 0
  BY FS_EmptySet
<1>4. Stake
  <2>1. ASSUME NEW a \in Accounts
        PROVE  held[a] = 0 /\ moving[a] = 0 /\ wasted[a] = 0 /\ Opened(a) = 0
    BY DEF Init, Opened
  <2>2. QED
    BY <1>2, <1>3, <2>1 DEF Stake
<1>5. QED
  BY <1>0, <1>1, <1>4 DEF IInv

\* Every step of the protocol keeps it.
LEMMA NextIInv == IInv /\ [Next]_vars => IInv'
<1> SUFFICES ASSUME IInv, [Next]_vars PROVE IInv'
  OBVIOUS
<1>1. CASE Next
  <2>1. ASSUME NEW a \in Accounts,
               \/ OpenSharedAccount(a) \/ RequestTaken(a)
               \/ GetBalance(a) \/ CreateSchedule(a) \/ SendScheduleSignRequest(a) \/ SellerPanics(a)
               \/ DepositArrives(a) \/ DepositFails(a)
        PROVE  IInv'
    BY <2>1, OpenStep, RequestStep, GetBalanceStep, CreateStep, SendStep, PanicStep, ArrivesStep, FailsStep
  <2>2. ASSUME NEW s \in Schedules,
               \/ Expire(s) \/ LoseInvoice(s)
               \/ \E c \in Callbacks : TakeInvoice(c, s)
        PROVE  IInv'
    BY <2>2, ExpireStep, LoseStep, TakeStep
  <2>3. ASSUME NEW c \in Callbacks, scheduleSignRequest(c) PROVE IInv'
    BY <2>3, SignStep, RefusedStep, SignFailsStep, DepositStep, DepositRefusedStep DEF scheduleSignRequest
  <2>4. QED
    BY <1>1, <2>1, <2>2, <2>3, EntryLostStep, RemoveStep, RestartStep DEF Next
<1>2. CASE UNCHANGED vars
  BY <1>2 DEF vars, ledger, seller, buyer, IInv, TypeOK, ScheduleRecord, WholeRounds, Balanced,
              References, Stake, Due, Opened
<1>3. QED
  BY <1>1, <1>2

\* The inductive invariant holds throughout every behaviour.
LEMMA AlwaysIInv == Safety => []IInv
BY InitiallyIInv, NextIInv, PTL DEF Safety

-----------------------------------------------------------------------------
(* The theorems.                                                           *)

\* Every variable stays in its type: in particular no balance, share or count
\* becomes negative.
THEOREM TypeCorrect == Spec => []TypeOK
<1>1. IInv => TypeOK
  BY DEF IInv
<1>2. QED
  BY <1>1, AlwaysIInv, PTL DEF Spec

\* Every transfer that is scheduled adds up, for every number of rounds that
\* were paid, lost or added.
THEOREM SharesAlwaysAddUp == Spec => []SplitAddsUp
<1>1. IInv => SplitAddsUp
  BY DEF IInv, Balanced, SplitAddsUp
<1>2. QED
  BY <1>1, AlwaysIInv, PTL DEF Spec

\* The buyer never has more than one round at stake beyond those he added
\* although nothing had been released.
THEOREM BuyerStakeIsBounded == Spec => []AtStake
<1>1. IInv => AtStake
  <2>1. SUFFICES ASSUME IInv, NEW a \in Accounts
                 PROVE  held[a] + 100 * moving[a] <= 100 * (1 + wasted[a])
    BY DEF AtStake
  <2>2. Cardinality(Due(a)) \in Nat
    BY FiniteCallbacks DEF Due
  <2>3. held[a] \in Nat /\ moving[a] \in Nat /\ wasted[a] \in Nat
    BY <2>1, PaymentsAssumption DEF IInv, TypeOK
  <2>4. QED
    BY <2>1, <2>2, <2>3 DEF IInv, Stake, Opened
<1>2. QED
  BY <1>1, AlwaysIInv, PTL DEF Spec

\* Three actions touch the balances, and two make the buyer forget its account.
LEMMA StepRefines == IInv /\ [Next]_vars => [Promise!Next]_(Promise!vars)
<1> DEFINE gone == opened \ {mine}
<1> SUFFICES ASSUME IInv, [Next]_vars, ~UNCHANGED <<purse, held, paid, gone>> PROVE Promise!Next
  BY DEF Promise!vars
<1>0. NoAccount \notin opened /\ mine \in opened \cup {NoAccount}
  BY PaymentsAssumption DEF IInv, TypeOK
<1>1. \/ \E a \in Accounts : OpenSharedAccount(a) \/ DepositArrives(a)
      \/ \E c \in Callbacks : SignSchedule(c)
      \/ RemoveBuffer \/ BuyerRestarts
  BY DEF Next, vars, ledger, buyer, RequestTaken, EntryLost, GetBalance, CreateSchedule,
         SendScheduleSignRequest, SellerPanics, DepositFails, Expire, LoseInvoice, TakeInvoice,
         scheduleSignRequest, TransferRefused, SignFails, Signed, Returned, DepositToSharedAccount,
         DepositRefused
<1>2. ASSUME NEW a \in Accounts, OpenSharedAccount(a) \/ DepositArrives(a) PROVE Promise!Fund(a)
  <2>1. CASE OpenSharedAccount(a)
    <3>1. UNCHANGED gone
      BY <2>1, <1>0 DEF OpenSharedAccount
    <3>2. QED
      BY <2>1, <3>1 DEF OpenSharedAccount, InitialPayment, Promise!Fund
  <2>2. CASE DepositArrives(a)
    BY <2>2 DEF DepositArrives, DepositAmount, buyer, Promise!Fund
  <2>3. QED
    BY <1>2, <2>1, <2>2
<1>3. ASSUME NEW c \in Callbacks, SignSchedule(c)
      PROVE  \E a \in Accounts : Promise!Release(a)
  <2>1. PICK s \in Schedules, x \in Accounts, n \in Nat, p \in Nat, d \in Nat :
          /\ s = cinv[c] /\ x = schedule[s].acct
          /\ n = schedule[s].total /\ p = schedule[s].parent /\ d = schedule[s].device
          /\ n % 100 = 0 /\ p + d = n /\ n <= held[x]
    BY <1>3 DEF IInv, TypeOK, ScheduleRecord, WholeRounds, Balanced, References, SignSchedule, GoesThrough
  <2>2. /\ held' = [held EXCEPT ![x] = held[x] - n]
        /\ paid' = [paid EXCEPT ![x] = paid[x] + p + d]
        /\ UNCHANGED <<purse, gone>>
    BY <1>3, <2>1 DEF SignSchedule, Signed
  <2>3. held \in [Accounts -> Nat] /\ paid \in [Accounts -> Nat]
    BY DEF IInv, TypeOK
  <2>4. paid[x] + p + d = paid[x] + n
    BY <2>1, <2>3
  <2>5. n # 0
    <3>1. SUFFICES ASSUME n = 0 PROVE FALSE
      OBVIOUS
    <3>2. held[x] - n = held[x] /\ paid[x] + n = paid[x]
      BY <3>1, <2>3
    <3>3. held' = held /\ paid' = paid
      BY <2>2, <2>3, <2>4, <3>2
    <3>4. QED
      BY <3>3, <2>2
  <2>6. n \in 1..held[x]
    BY <2>1, <2>3, <2>5
  <2>7. QED
    BY <2>1, <2>2, <2>4, <2>6 DEF Promise!Release
<1>4. ASSUME RemoveBuffer \/ BuyerRestarts PROVE \E a \in Accounts : Promise!Abandon(a)
  <2>1. mine' = NoAccount /\ UNCHANGED <<purse, held, paid, opened>>
    BY <1>4 DEF RemoveBuffer, BuyerRestarts, ledger
  <2>2. mine \in opened /\ opened \subseteq Accounts
    BY <2>1, <1>0 DEF IInv, TypeOK
  <2>3. mine \notin gone /\ gone' = gone \cup {mine}
    BY <2>1, <2>2, <1>0
  <2>4. Promise!Abandon(mine)
    BY <2>1, <2>3 DEF Promise!Abandon
  <2>5. QED
    BY <2>2, <2>4
<1>5. QED
  BY <1>1, <1>2, <1>3, <1>4 DEF Promise!Next

\* The payment protocol implements the safety part of the escrow, for every
\* number of accounts, schedules and callbacks: whole rounds only, none made
\* or lost, and the only account ever given up is the one in the buyer's table.
\* That rounds are released in the end is left to TLC.
THEOREM ImplementsEscrowSafety == Spec => Promise!Safety
<1>1. Init => Promise!Init
  BY DEF Init, Promise!Init
<1>2. QED
  BY <1>1, StepRefines, AlwaysIInv, PTL DEF Spec, Safety, Promise!Safety
=============================================================================
