# TLA+ project for the Neuron Go Hedera SDK

The SDK lets *buyers* of a data stream find *sellers*, ask them for service over
Hedera topics, pay them from shared Hedera accounts and receive the stream over
libp2p. This project models the SDK's control logic in TLA+, checks it with TLC
and proves part of it with TLAPS. Every definition is translated from the Go
source; `PROJECT.json` maps each one to its lines.

## 1. Inventory

| Component | Source | State | Operations | What makes it correct |
|---|---|---|---|---|
| Peer table | `common-lib/buffers.go`, `types/` | `NodeBuffersInstance`: peer id → entry (envelope, two states, validity, attempts, age, address) | AddBuffer2/3, RemoveBuffer, five setters, GetBuffer, GetBufferMap | each call is atomic; sequences of calls are not, so callers must survive any entry appearing, changing or vanishing between two calls |
| Retry backoff | `common-lib/connection.go:119` | the entry's attempts and time | IsRequestTooEarly | waits 30 s · 2ⁿ, capped at 12 h, for every n (it does not once the product wraps) |
| Buyer processing | `buyer-case.go` | `listOfSellers`, the table, the locals of every goroutine in processSeller | processSeller, the 60 s loop, write errors, punchMeRequest, ReplaceSellers and variants | one funded account per seller, requests spaced, bans kept, every request payable, nobody forgotten |
| Buyer discovery | `buyer-case.go:206`, `hedera/http.go` | `listOfSellers` | heartbeat query, radius filter, start signal | sellers are found and the loop is started |
| Seller | `seller-case.go`, `connection.go` | the table, one stream per buyer, a copied map of pointers in the invoice loop | service request with InitialConnect, invoices, WriteAndFlushBuffer, hole punching | entries hold the current request, invoices name requested accounts, an asking buyer is served |
| Topic listener | `hedera/main.go:421` | subscription, timer, one-slot channel | subscribe, reset, resubscribe, callbacks | each message once, in order; never deaf for good |
| Payments | `hedera/main.go`, `buyer-case.go:98` | ledger accounts, schedules | createSharedAccount, deposit, scheduled transfer, SignSchedule | amounts add up, deposits follow payments |
| Rendezvous of both nodes | `buyer-case.go`, `seller-case.go` | two tables, two topics | punchMeRequest, acknowledgment, two timers | both sides punch at the same time |
| Contract access, heartbeat | `hedera/rpc.go`, `neuron-sdk.go` | contract entry, topics | GetPeerInfo with retries, EnsureTopicsAndNotifyContract, heartbeat | bounded retries, one set of topics per node |
| Explorer and mirror access | `hedera/http.go` | none | HTTP reads | — |
| Message codec | `types/messages.go` | none | dispatch on messageType | total on all message types |
| NAT detection | `whoami/nat-info.go` | one channel, one timeout | STUN round trips | an answer belongs to its question |
| Environment file | `common-lib/environment.go` | the file, its backup and temporary copy | read, update, write | no crash or overlap loses the file |
| Start-up, configurator | `neuron-sdk.go`, `common-lib/flags.go` | flags, a channel | LaunchSDK | start-up does not block |
| UPnP, keys, contract bindings, validator | `upnp/`, `keylib/`, `hederacontract/`, `validator-lib/` | none | I/O, cryptography, generated code, a stub | — |

How they interact. The buyer's discovery fills `listOfSellers`; the loop hands
each listed seller to processSeller, which opens a shared account on the ledger
and sends a serviceRequest to the seller's stdin topic. The seller's topic
listener calls its handler, which dials the buyer (InitialConnect) and records
the request, or asks for hole punching when the dial fails. The seller's
application then writes to the stream (WriteAndFlushBuffer); its failures lead
to a write error on the buyer's stdin topic, whose callback calls processSeller
again. An hourly loop sends invoices for connected buyers.

What is hard. No lock spans a handler: the table is locked per call while the
handlers wait seconds for the ledger, the contract and the network between two
calls. Loop, callback, application, punching goroutines and the callbacks of
former subscriptions all write the same entries. GetBufferMap copies pointers,
so the invoice loop reads entries others change or have dropped. Submissions to
a topic are never confirmed, and neither are deposits. The table is lost in a
restart while the other node, the ledger and the connection live on. NAT
detection shares its UDP port with the host and takes any answer for the one it
asked for. The environment file is replaced in steps between which the process
may end. `PROJECT.json` lists the hazards line by line.

## 2. Modules

| Module | Models | Extends |
|---|---|---|
| `NodeBuffers` | the table and the backoff test as operators on a function from peers to entries or `NoBuffer` | — |
| `NodeBuffers_proofs` | what each table operator preserves and changes; powers of two, by induction | `NodeBuffers` |
| `RetryBackoff`, `RetryBackoff_proofs` | one peer's timer with the int64 arithmetic; at which counts it is right, and that it implements the table's timer | `NodeBuffers`, `NodeBuffers_proofs` |
| `SharedAccounts` | what the buyer promises about accounts: a caller opens another one for a seller only if that seller was forgotten since, and asks for service only on accounts he opened | — |
| `BuyerCase`, `BuyerCase_proofs` | the buyer process; its theorems, that it implements `SharedAccounts` among them, and those on a buyer with a single caller of processSeller | `NodeBuffers`, `NodeBuffers_proofs`; instance of `SharedAccounts` with `forgotten <- removed + restarts` |
| `SellerCase`, `SellerCase_proofs` | the seller process; its theorems | `NodeBuffers`, `NodeBuffers_proofs` |
| `MCSellerCase` | accounts per buyer for TLC | `SellerCase` |
| `TopicListener`, `TopicListener_proofs` | ListenToTopicAndCallBack; its theorems | — |
| `Escrow` | what payment promises: money goes from the purse to an account and on to the seller, in whole rounds, and is released in the end unless the buyer abandons the account | — |
| `Payments`, `Payments_proofs` | shared account, scheduled transfer, countersignature, deposit; that they implement `Escrow` | instance of `Escrow` with `Round <- 100`, `abandoned <- opened \ {mine}` |
| `Rendezvous`, `Rendezvous_proofs` | one buyer and one seller, end to end; its theorems | `NodeBuffers`, `NodeBuffers_proofs` |
| `NatInfo` | the STUN tests | — |
| `EnvFile` | UpdateEnvVariable | — |
| `Startup`, `Startup_proofs` | a peer from `init` to serving and through every restart; the theorems on all three | `NatInfo`, `EnvFile` |

**State and actions.** A goroutine is a program counter and its locals. Each
table call and each outside call of a handler is one action, because between two
of them any other goroutine may run; what the handler does around the call with
its own locals is part of the same action.

* `RetryBackoff`: `attempts`, `lib` and `elapsed` are three fields of an entry,
  `elapsed` in two 27-bit limbs of an int64, and `age` is the same time in units
  of 30 s. `Resend` is the repetition in processSeller, `UpdateState` every other
  write of LibP2PState.
* `BuyerCase`: `pc[t] = "lookup"` is processSeller at its GetBuffer, `"conns"`
  at ConnsToPeer, `"prepare"` at prepareServiceRequestMsg, and so on down the
  function; `"ack"`, `"mark"`, `"schedule"` are handlePunchMeRequest,
  `"verify"`, `"snapshot"`, `"remove"` the ReplaceSellers family.
* `SellerCase`: `hpc` runs through the service request and InitialConnect, `ipc`
  through the invoice loop, `wpc` through WriteAndFlushBuffer, `ppc` through
  performSellerHolePunching. `snap[p] = Live` is a pointer to the table's own
  entry; when the entry is replaced or removed `snap[p]` becomes the record it
  was.
* `TopicListener`: `phase` is the listener's loop, `running` the callback of the
  current subscription, `stray` those of former ones.
* `Payments`: one buyer, one seller and the accounts they come to share.
  `mine` is the account in the buyer's entry for the seller and `entry` the one
  in the seller's connected entry for the buyer: the buyer opens an account when
  it has no entry (`buyer-case.go:602`), so again after a restart or a removal,
  and the seller bills what its entry names (`seller-case.go:73-78`), so the old
  account until the new request is taken and not after that. `spc` is
  SellerSendScheduledTransferRequest (balance, schedule, invoice), `cpc` the
  buyer's scheduleSignRequest (SignSchedule, then the deposit whatever came of
  it); `held`, `paid`, `schedule`, `moving` are the ledger with the deposits
  nobody waits for. A panic of the seller and the end of the buyer's process
  drop what was in hand and the table with it.
* `Rendezvous`: each process runs one handler at a time, cut only where it waits
  for the other node. The goroutines of one process meet in `BuyerCase` and
  `SellerCase`; here the two tables, the two topics, the connection and the dead
  connections each host still lists (`stale`) meet. `hpc` is the seller's
  request handler, `ppc` the buyer's punch; the seller's punch is absent because
  no acknowledgment ever reaches the seller (see below).
* `NatInfo`: `test` is the round trip under way, `way` the answers not yet
  received, `port` who has the UDP port, `leaked` included. `EnvFile`: `upc` is
  the call of the file system that UpdateEnvVariable is about to make.
  `Startup`: `pc` is the part of init, LaunchSDK and HandleBuyerCase the process
  is in.

**Abstractions.** An envelope is the number of the shared account it names
(`NoMessage` = 0 for the zero envelope). Addresses are `"none"`, `"transport"`
(no `/p2p` part) or `"p2p"`, because AddrInfoFromString tells these apart. A
connection is `"none"`, `"open"` or `"streams"`. Time is counted in units of the
initial backoff. Message text, logging, keys and formats are left out. What the
ledger, the contract, libp2p and the peers do is a free choice in the action
that calls them; in particular a submission may succeed without reaching the
topic and fail although it did. In `Payments` amounts are in millibar, and a
share of an amount that is no multiple of 100 may come out one too small: HbarFrom
truncates a float64 product. Computed in float64, the 60 and 40 per cent shares
of every multiple of 100 millibar up to 2 000 000 are exact, while those of 3, 6,
12 or 17 millibar are not. In `EnvFile` a file is the set of settings in it, and
a file that was cut off while being written holds any subset.

**Observers.** `opened`, `removed`, `sinceTry`, `streak` (buyer), `requested`,
`latest` (seller), `handled` (listener), `current` (rendezvous), `tidy` (NAT),
`whole` (environment file) and `given` (start-up) record history for the properties and are read by
no guard. `wasted` (payments) counts deposits that followed a signature which
released nothing; its bound `MaxWasted` is the only guard that reads it.

## 3. Runs

| Run | Checks | Shows |
|---|---|---|
| `backoff` | TypeOK, BackoffFollowsPolicy, ImplementsTable | at every number of attempts the 64-bit arithmetic asks for the doubling wait capped at 12 h or, at the counts where the product has wrapped, for none; every step of the exact timer is one of the table in `NodeBuffers`: the smaller counters of the other modules lose nothing |
| `buyer_alone` | TypeOK, RepeatsAreSpaced, BlacklistSticks | with a single caller of processSeller, and hole punching around it, requests keep their distance until the product wraps, and bans hold |
| `buyer_races` | OneAccountPerGoroutine, AccountsAreRecorded, RequestsArePayable, ImplementsSharedAccounts | callback and application race in processSeller, entries are removed under both, the process restarts; still no caller funds a seller twice without having forgotten him, and no seller is asked to serve on an account that is not his |
| `buyer_live` | KeepsAsking, StatusCatchesUp | unconnected sellers are asked for ever; a lasting connection is recorded although punching goroutines overwrite the state |
| `seller_one` | TypeOK, AskingBuyerIsServed | with handler, invoice loop, write loop and a hole punch under way the table and the copied pointers stay well formed; a buyer who asks for ever has a connection with streams again and again: no stale entry, lost connection or failed punch locks him out |
| `seller_invoice` | InvoicesWereRequested, NilRequestWindow | stale pointers never bill a buyer for an account he did not name; an entry without request exists only inside a handler's window |
| `listener` | TypeOK, HandledInOrder, DeliveredIsPast, NeverDeafForGood | each message once and in order over all subscriptions; dead streams, failed subscriptions and hanging callbacks are overcome |
| `payments_books` | TypeOK, SplitAddsUp, AtStake | invoices are lost, refused, out of date or overtaken, signatures unchecked, deposits unconfirmed, accounts forgotten and replaced; still transfers add up and the stake in each account is bounded |
| `payments_live` | ImplementsEscrow | money moves in whole rounds, and while the service goes on what is in the account the buyer uses reaches the seller; what is in one the buyer has forgotten may stay there |
| `rendezvous` | TypeOK, RequestsInOrder, BillsPresentAccount, FaultPerAccount, ConnectedInTheEnd, AccountsAgree | the seller never goes back to an older account, and bills no other once it has accepted the present one; the buyer puts money aside once, and once more per fault at the most; after any two faults (lost messages, dropped or dead connections, failed calls, restarts of either node) the nodes are connected in the end, and the seller bills the account the buyer now pays into |
| `rendezvous_fresh` ✗ | FreshRequestIsIssued | without any fault, a punch by the buyer leaves a connection without streams for which no request is issued again |
| `startup` | TypeOK, NoFalseReachability, SettingsSurvive, ServesInTheEnd | late STUN answers, a leaked socket and an absent contract neither deceive the node nor stop it for good; an update cut off halfway leaves the settings in the file or its backup, and only a file torn in the restore keeps a node down |

✗ marks the run in which TLC finds the code at odds with its own words; "findings" in `PROJECT.json` quotes them. `rendezvous` bears on
`rendezvous_fresh`: the nodes *are* connected in the end, but that connection may
be one without streams.

### Disagreements without a run of their own

Each of these is a definition of the module named; making it a property of the
configuration named, with the change named, has TLC print the behaviour.

| Property | Configuration | What happens |
|---|---|---|
| `RetryBackoff!WaitsInitialBackoff` | `RetryBackoff_pass` | "start with an initial backoff of 30 seconds" (`connection.go:125`): at 29 attempts in a row the product at `:127` is negative before the cap is applied, and the request is repeated at once |
| `BuyerCase!OneAccountPerSeller` | `BuyerCase_races` | two goroutines find no entry and each funds an account for the same seller |
| `BuyerCase!RepeatsAreSpaced` | `BuyerCase_races` with `MaxAttempts = 3`, `MaxBackoff = 1`, `Wrapped = {3}` | two goroutines pass the backoff test (`buyer-case.go:619`) before either counts its attempt (`:625`), and the request goes out twice at once |
| `BuyerCase!BlacklistSticks` | `BuyerCase_races` | a late AddBuffer2 (`:618`) replaces the entry that banned the seller (`:605`) |
| `SellerCase!NoInvoiceWithoutRequest` | `SellerCase_one` | the invoice loop meets an entry between AddBuffer3 and SetNeuronSellerRequest and panics |
| `SellerCase!SkipsUnconnected` | `SellerCase_one` | "skip if not connected" (`seller-case.go:75`) reads LibP2PState, which a dropped connection leaves at Connected: the buyer is billed |
| `SellerCase!PunchIsRecorded` | `SellerCase_one` | after a failed first dial the buyer has no entry, and the mark of the punch (`:263`) is lost |
| `SellerCase!StoredAddressCanBeDialled` | `SellerCase_one` | the address stored at `:272` has lost its `/p2p` part, and AddrInfoFromString (`:439`) refuses it |
| `TopicListener!ResumesAtLastMessage` | `TopicListener_pass` with `SPECIFICATION Spec`, `Lag = 0` | every subscription starts at the present (`hedera/main.go:452`), so a message with consensus that was not delivered when the timer fired is skipped |
| `Startup!UpnpHelps` | `Startup` with `MaxFaults = 0` | the third NAT detection (`buyer-case.go:67`) binds the port the host listens on and panics; so does every later start |
| `Startup!ComesBack` | `Startup` | changes are "safely written back" (`environment.go:16`): after a rename that fails and a process that ends during the restore the settings are in the backup only, no start reads it, and each exits |
| `Startup!EmptyConfiguratorReturns` | `Startup` with `MaxFaults = 0` | "or leave empty" (`README.md:186`): a configurator that sends nothing leaves the process waiting on the channel (`neuron-sdk.go:574`) for ever |
| `EnvFile!NoAccidentalLoss` | `Startup` | "creating a backup to avoid accidental data loss" (`environment.go`, head): an update that follows on a torn file copies it over the only complete backup |
| `NatInfo!NoFalseReachability` without its `tidy` | `Startup` | an answer given up in one detection is taken for the answer in the next |

The two properties of `buyer_alone` hold there. A second caller of processSeller
breaks both. `RepeatsAreSpaced` is moreover limited to the counts at which the
product has not wrapped: with a single caller, too, the code sends without a wait
at 29 and 30 attempts in a row, again at some later counts, and each time from 52
on (`WaitsInitialBackoff` in the table).

Some are plain to see in the model and need no run. The punchMeRequest names the
buyer's own topic as the one to answer on (`seller-case.go:351`), so the
acknowledgment returns to the buyer, who does not know the message
(`Rendezvous!PunchMeRequest`, `OtherMessage`), and the seller never starts its
half of the punch. A configurator that sends inline blocks the process for ever,
like an empty one, because the unbuffered channel is read only after it returned
(`neuron-sdk.go:574`). What is in a shared account when its buyer restarts is
billed only until the seller takes the next request. After a failed write the seller removes its entry but
leaves the stream open, so the buyer sees streams and does not ask
(`Rendezvous!WriteFails`). The no-nat branch (`nat-info.go:140`) compares with a
local address that is always `0.0.0.0`.

### Bounds

* One seller in the buyer's runs and, but for `seller_invoice`, one buyer in the
  seller's: the table and all the per-peer state are functions of the peer and
  no operation reads one peer to write another, so hazards lie in goroutines
  that meet at one entry. `seller_invoice` has two buyers because it asks about
  mixing them up. The proofs have any number of peers.
* Two goroutines in processSeller: callback and application in `buyer_races`,
  where `Locations` is empty and the loop therefore has nobody to process. The
  bound on accounts is proved for any set of goroutines. The seller's runs have
  one handler; what `seller_invoice` checks is proved for any number.
* `AppAddresses`, the buyers whose address the application stores itself, and with
  it a hole punch that gets as far as a dial, are in `seller_one`. Its buyer has one
  account; `QuietEntryHoldsLatest`, which tells an older request from a newer one,
  is a theorem. TLC confirms it with `AccountsOf <- TwoAccountsEach` and
  `SPECIFICATION Spec`, without the liveness property.
* `MaxAttempts`, `MaxDoublings`, `MaxBackoff` and `Wrapped` are the counter, the
  doublings up to the cap, the cap, and the counts at which the product is zero
  or negative. In the code they are 52, 11, 1440 and the set in
  `RetryAssumption`; `backoff` uses these and counts to
  `AttemptBound` 54, past the last count that still waits, 51. The other runs keep
  the order of events in small numbers: `buyer_alone` 4, 1, 2, {4}, a wait that
  doubles, stays at the cap and is gone; `buyer_live` 2, 1, 2, {2}; `rendezvous`
  3, 0, 1, {3}. `buyer_races` has 0, 0, 0, {0} and the seller's runs, which do not
  read the wait, 0, 0, 1, {0}: there every request may go out at once, which gives
  more interleavings, not fewer. `MaxRestarts` 1, `MaxReplaces` 2: a
  removal, and one that follows the re-creation of the entry.
* Listener: `Timeout` 2 and `MaxTime` 6 give three subscriptions with messages
  before, between and after them; `Lag = Delay` is the extreme case that the
  order property allows.
* Payments: two accounts, so that one can be forgotten and another opened.
  `payments_books` has two schedules and two callbacks, so that an old invoice
  meets a new one and both are signed at once, and `Funds` 200 for two openings,
  or one and a deposit. `payments_live` has two schedules, one
  callback, `MaxWasted` 0 against 1 in `payments_books`, where the wasted
  deposits are. The safety results are proved for all values.
* Rendezvous: `MaxFaults` 2 of any kind, `MaxQueue` 2 messages per topic (a
  sender waits for room), one unit of backoff. Every case in which at least one
  node can be dialled is an initial state; if neither can, only luck connects
  them.
* Startup: `MaxFaults` 2 over all starts, `MaxWay` 2 answers from an endpoint,
  `MaxRetries` 2 in place of 25 (the count matters only in that it ends), three
  needed settings and one more; all nine routers, four kinds of configurator,
  registered or not, three outcomes of UPnP are initial states.
* `Punchers` bounds punching goroutines alive at once; a schedule action waits
  for a free one. `inbox` is a set: equal undelivered messages are merged.
* Deadlock is checked in every run but `startup`, where an inline or an empty
  configurator really blocks the process for ever.

### Fairness

`BuyerCase!Fairness`: goroutines that can run do (Go's scheduler), timers fire
(`Tick`), the signal that starts the loop is repeated every 120 s and so meets
the waiting loop, and a contract asked for ever answers again and again
(strong fairness of `NextSeller` entering processSeller). Nothing is assumed
of sellers, connections or the topic. `SellerCase!Fairness`: handlers in
progress go on, buyers repeat their requests (which is what `KeepsAsking` says
of the buyer), a dial, a stream and a punchMeRequest tried for ever succeed sometimes, a
stopped process is restarted; a seller that restarts for ever is excluded in the
property. `TopicListener!FairSpec`: the listener and the timer run and Subscribe
does not fail for ever; a callback may hang for ever.

`Payments!Fairness`: the seller's loop and the buyer's callbacks run on, and
schedules expire. Failures may come again and again, but for the account that
the buyer has in its table a step that is tried for ever does not fail every
time: the loop meets it in a connected entry, a schedule is created, an invoice
arrives before its schedule has expired and is taken up in time even if the
callback is busy (seconds against half an hour), a signature reaches the ledger now and
then (strong fairness). Nothing is assumed of accounts that were given up. That
the entry comes back when it was lost is a hypothesis of its own,
`ServiceGoesOn`: it holds once faults cease (`rendezvous`), but not after a failed
write that leaves the stream open. `Rendezvous!Fairness` and `Startup!Fairness`: goroutines run,
timers fire, a supervisor starts the process again. Faults have no fairness;
they come from a finite budget, so the liveness properties there say that the
system recovers once faults cease.

## 4. Proofs

All constants are arbitrary within `AttemptsAssumption`, `WrapAssumption`,
`NoBufferAssumption` (`NodeBuffers`), `BuyerAssumption`, `SellerAssumption`, `ListenerAssumption`,
`PaymentsAssumption`, `RendezvousAssumption`, `NatAssumption`, `EnvAssumption`,
`RetryAssumption` and `StartupAssumption`, which TLC evaluates in the runs.
`PowersAssumption` (`NodeBuffers`) is no restriction: it is the definition of the
powers of two, 2⁰ = 1 and 2ⁿ = 2 · 2ⁿ⁻¹, which the provers do not know. Three
theorems (`BansStick`, `RepetitionsAreSpaced`, `QuietEntriesAreUpToDate`) have a
hypothesis on the constants of their own; it is named with them.

Induction over numbers is argued with a least counterexample: `LeastNumber`
(`NodeBuffers_proofs`) says that a set of numbers that is not empty has a least
one, and the set of counterexamples is then an ordinary set. So `PowersGrow`,
the recursion equation of `RetryBackoff!Product`, and that the product stays zero
once it is (`ZeroProducts`).

* `RetryBackoff_proofs!ArithmeticFollowsPolicy`: `BackoffFollowsPolicy` for every
  number of attempts, the wrap included: the doubling wait capped at 12 h, except
  at 29, 30, 32 to 37, 42, 46 to 48, 50 and from 52 on (`NoWait`), where there is
  none. `Val` reads two limbs as one number; `Add` is addition modulo 2⁵⁴
  (`AddSum`), and below 2⁵³ `Less` is the order (`LessVal`). The products are
  computed count by count up to 28 (`ProductValues`), decided at each count from
  29 to 54 (`WrappedProducts`), and zero from 54 on (`ZeroProducts`). The
  strengthening `Clock` says that both clocks show the same time:
  `Val(elapsed) = 29296875 * age`; they stop at twelve hours, so that they never
  wrap themselves.
* `RetryBackoff_proofs!TimerImplementsTable` (`ImplementsTable`): the exact timer
  is an entry of the table. `RetryAssumption` gives the table the code's own
  numbers, the cap of 1440 units, the count of 52 from which on no wait is left
  and the wrapped counts below it; nothing bounds the
  attempts. `TableWaits` shows that the two waits are equal at every count. Resend maps to IncrementReconnectAttempts
  and UpdateBufferLibP2PState behind a test of IsRequestTooEarly, which is where
  the arithmetic is needed. It ties the one module with real integers to the
  modules that count in units of 30 s.
* `BuyerCase_proofs!TypeCorrect`: `TypeOK` for any sellers, goroutines, bounds.
  It is inductive as it stands; `NodeBuffers_proofs` supplies that each table
  operator maps tables to tables.
* `OneAccountForEachGoroutine`: however many goroutines race, each opens at most
  one account per seller, plus one per removal of the entry and per restart. The
  bound is not inductive: it needs that a goroutine about to open an account has
  no unrecorded one. `AccountsAreRecorded` says so: for a goroutine that found
  no entry, or a seller without one who is not being recorded, everything opened
  earlier is accounted for by a removal or a restart. It is kept because an
  entry, once there, leaves only by removal or restart
  (`OpenedAccountsAreRecorded`).
* `DeliveredRequestsArePayable`: every delivered request and every entry that is
  not blacklisted names an account opened for that seller. The strengthening is
  `RequestsInHand`: so does every envelope a goroutine may still send.
* `KeepsSharedAccounts` (`Spec => ImplementsSharedAccounts`): every step of the
  buyer is a step of `SharedAccounts` or leaves its variables alone.
  PrepareServiceRequest is `Open`, whose guard is what `AccountsAreRecorded`
  gives; Send and Resend are `Deliver`, with the account in hand opened by
  `RequestsInHand`; RemoveSeller and Restart are `Forget`, of one seller and of
  all. `OneAccountPerGoroutine` bounds a total; this says of each account at
  the moment it is opened that the caller had been made to forget.
* `BuyerCase_proofs!BansStick` and `RepetitionsAreSpaced`: the action
  properties `BlacklistSticks` and `RepeatsAreSpaced` under the hypothesis
  `Alone`, that no application replaces sellers and no seller reports write
  errors, so that the loop alone calls processSeller. Both are false without it
  (see the table in section 3). Sellers, hole punching and restarts are
  arbitrary. `AloneInv` says that the callbacks only punch and that the loop,
  past its look at the table, works on a seller who is not banned: a ban is
  written by the loop itself, so none appears under it. The spacing needs
  `SpacedInv`, which ties what the entry counts to what really went out: the
  entry's attempts are at least the requests in a row, its age is at most the
  time since the last one (`EntriesSpaced`), a first request is sent while there
  is no entry and the entry then made counts it, and a repetition is counted
  between the backoff test and its submission (`LoopSpaced`). The spacing is
  claimed while the entry counts fewer attempts than make the product wrap
  (`Doubling`, 28 in the code): after that even a single caller repeats requests
  without a wait (section 3).
* `TopicListener_proofs!EachMessageOnceInOrder`: order and uniqueness for every
  Delay, Lag ≤ Delay and Timeout. The strengthening is `DeliveredIsPast`, itself
  a theorem (`DeliveredStaysPast`): what was delivered is at least Delay old and
  behind the cursor, so a subscription that starts at the node's own "now"
  starts after it. A clock further behind than Delay would have messages
  delivered again. `TypeCorrect` for the same constants.
* `SellerCase_proofs!TypeCorrect`, `NilRequestOnlyInWindow`,
  `BilledAccountsWereRequested`: for any buyers, handlers and punching
  goroutines. One inductive invariant `IInv` serves all three. `TypeOK` needs
  `LivePointers` and `ReadsHeld`: a pointer in the copied map that is live has
  an entry behind it, and the invoice loop holds the entry it is about to read.
  The window needs `RequestsInHand`: a handler that is going to record a request
  has one. The invoices need that everything an invoice can be read from
  names a requested account: entries (`EntriesRequested`), records kept by the
  copied map (`KeptRequested`) and the handlers.
* `SellerCase_proofs!QuietEntriesAreUpToDate`: `QuietEntryHoldsLatest` under the
  hypothesis that there is one handler, which is what one subscription gives; a
  stray callback of a former subscription is a second one, and may record an
  older request last. On top of `IInv` it needs `LatestInv`: the request in hand
  is the last one taken, and so is the entry of every buyer who is not being
  served. The invoice loop, the writes, the punches and the removals are
  arbitrary.
* `Payments_proofs!TypeCorrect`, `SharesAlwaysAddUp`, `BuyerStakeIsBounded`,
  `ImplementsEscrowSafety` (`Spec => Promise!Safety`). `IInv` is `TypeOK` with
  `WholeRounds` (every balance, every balance read and every schedule is a
  multiple of 100, which is what makes the truncated shares exact), `Balanced`
  (the shares of every schedule add up), `References` (who holds an invoice
  and whose account it is on) and `Stake`. `Stake` is stronger than `AtStake`:
  a callback that has released money and not yet deposited counts as a round,
  or two callbacks could each use up the same room. The refinement follows
  action by action: OpenSharedAccount and DepositArrives are `Fund`,
  SignSchedule of a non-empty schedule is `Release`, RemoveBuffer and
  BuyerRestarts are `Abandon` of the account in the table, and every other step
  leaves the escrow's variables alone.
* `Rendezvous_proofs!TypeCorrect`, `RequestsStayInOrder`,
  `PresentAccountIsBilled`: for any number of faults and any length of the
  topics. `IInv` is `TypeOK` with `OrderInv`. Even `TypeOK` is not inductive: a
  request on a topic names an account, and that the entry resent names one is
  `PresentIsNewest` (the entry of a seller who is not banned names the account
  opened last). `QueueInOrder` and `HandInOrder` extend the order from the
  seller's entry over the handler to the whole queue, which is what a lost,
  repeated or late record needs; `AcceptedIsNewest` says that after the present
  account was accepted nothing older is left in hand or on the topic.
* `Rendezvous_proofs!AccountsArePaidByFaults` (`FaultPerAccount`): accounts and
  faults left never exceed the budget by more than the one account of the entry.
  It is inductive with `TypeOK`. Only FirstRequest and PrepareFails open an
  account, both without an entry and leaving one behind (`ProcessSellerCost`);
  only a restart of the buyer, a fault, takes the entry away; all other steps
  keep the entries (`KeepsRequests`).
* `Startup_proofs!TypeCorrect`, `ReachabilityIsTrue`, `SettingsAreNotLost`: for
  any number of faults, retries and answers under way. A false conclusion takes
  an answer that belongs to another test, so `NatInv` says which can be on their
  way: `HolesMade` (a router that maps all destinations alike was never asked
  mapping test III), `AnswersFit` (in a process whose tests began with nothing on
  its way no answer is left for the next test but that of filtering test II for
  III, and a router that lets it in is one behind which the node is reachable).
  Like the property it is restricted to `tidy`; without it it is false. `EnvInv`
  says at each call of UpdateEnvVariable which of file and backup is complete.
  `UpdatesWhileServing` ties the two to the process: an update runs only in one
  that serves.

Each step lemma has one step per action; actions that do not write the
variables of an invariant are grouped under a frame lemma.

Every safety invariant, every action property and the safety part of every
refinement that the runs check is a theorem. Only model-checked is liveness
(`KeepsAsking`, `StatusCatchesUp`, `AskingBuyerIsServed`, `NeverDeafForGood`,
`ConnectedInTheEnd`, `AccountsAgree`, `ServesInTheEnd` and the fairness of
`Escrow`): fairness and ENABLED are beyond the prover.

## 5. Not modelled

* Relay mode, which the source calls work in progress, the memory monitor and
  the heartbeat, which only reports.
* Discovery's queries (heartbeats of sellers, radius filter, the retry without
  pause when the explorer fails): `BuyerCase` has their outcome, a seller being
  listed and the loop being started.
* Explorer and mirror access are HTTP reads without state; the message codec is
  a stateless dispatch, and a message that does not decode is one of the early
  returns; the SSDP and SOAP exchange of UPnP is I/O, of which `Startup` has the
  outcome.
* `keylib` is cryptography, the contract bindings are generated, the validator
  is a stub that permits everything.
* Overlapping updates of the environment file: no code of the SDK calls
  UpdateEnvVariable any more, and an application that makes one call at a time
  is assumed.
* In `SellerCase` acknowledgments reach the seller (`Acknowledging`), so that
  performSellerHolePunching is exercised; `Rendezvous` has them go where they
  are really sent.

## 6. Plan

Done: table, backoff with its refinement of the table, buyer with its refinement
of `SharedAccounts`, seller, listener, payments with their refinement of
`Escrow`, the composition of buyer and seller, NAT detection, environment file
and start-up; theorems on every one of them. What is left, in this order:

1. What the seller's table holds when several callbacks overlap: the weakest
   form of `QuietEntryHoldsLatest` that stray callbacks leave true.
2. That `Rendezvous` implements `SharedAccounts` with the buyer as the only
   caller: `FaultPerAccount` bounds the accounts, the refinement would say of
   each one that the buyer had started again before it.
3. Discovery, with the radius filter and the retry without pause.
