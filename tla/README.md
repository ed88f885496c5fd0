# Verification of the consultation services

TLA+ models, TLC checks and TLAPS proofs for the backend of an astrology
consultation platform (NestJS, Postgres through Drizzle and TypeORM, Redis,
socket.io). A client with a prepaid wallet requests a chat, voice or video
consultation of an expert; the service holds money, runs a metered session, and
settles the hold when it ends. Around it the platform takes payments, pays its
partners out, books pujas and sells products. What is modelled is the program's
own logic: it is concurrent at every level (async handlers, SQL statements at
READ COMMITTED, timers in memory beside keys with TTLs, sockets that come and
go, a gateway that repeats its webhooks).

## Inventory

| Component | State | Operations | Hard behaviour | What makes it correct |
|---|---|---|---|---|
| Consultation lifecycle (`consultation/orchestrator/use-cases`, `consultation/room/initiate-consultation.usecase.ts`) | `consultations.status`, `mode`, `started_at`; rows of `consultation_sessions` | request, attach, accept, start, re-request, pause, resume, end, cancel, reject, close | read first, write by id later; only some writes are conditional | a started consultation is never cancelled, a closed one stays closed, no live session under a completed one |
| Client wallet (`actors/client/wallet`) | `balance`, `reserved_balance`, HOLD / RELEASE / CREDIT / DEBIT rows | hold, release, settle, recharge, purchase | absolute values written from an earlier read; idempotence by looking for a RELEASE row | one charge, within the hold; nothing completes unsettled; no money made or lost |
| Deferred close (`realtime/room/consultation-session-settlement.ts`) | the same rows | close the sessions of an absent actor, cancel what never started | acts on what it read before its transaction | never cancels what has started |
| Clock and timers (`consultation-orchestrator.service.ts`, `consultation-budget.engine.ts`) | five maps of timers; anchor, hold and pause keys in Redis | pause, resume, billing hold, budget hold, end, switch, join, media ready, boot recovery | timers against TTLs, refused commands that have cancelled timers, restarts | the meter counts neither too much nor too little, and stops |
| Sockets and disconnect grace (`realtime.gateway.ts`, both `*-realtime.service.ts`, `consultation-disconnect-grace.ts`) | sockets with `data.auth`, one grace timer per actor | connect, authenticate, drop, several tabs, grace | continuations of two sockets of one actor interleave | a live tab protects the session, absence closes it |
| Expert presence (`actors/expert/presence`) | connection keys with TTLs, availability, BUSY marker, last published status | register, heartbeat, unregister, busy, idle, repair, evaluate and publish | marker deleted without looking at its owner, written back by a heartbeat; keys expire unannounced | a client is shown the true status; a live consultation keeps the expert busy; a stale marker goes |
| Token refresh (`actors/client/auth`, `actors/expert/auth`) | the session row with the hash of its secret, rotation results in Redis | lock, verify, rotate, replay, revoke | several tabs with one cookie jar, lost and late answers | a secret has one successor; an honest browser is never revoked |
| Payments webhook, wallet recharge (`finance/payments`, `client/wallet/use-cases/verify-wallet-recharge.use-case.ts`) | `gateway_transactions`, `payment_orders`, `client_wallet_recharges` | webhook, verify, wallet verify | three handlers credit one payment, in two lock orders | a captured payment is credited exactly once |
| Withdrawals (`finance/wallet`) | partner wallet, ledger rows, `withdrawals` | request, admin update, payout, payout webhook | idempotence by a query, status read outside the transaction | the wallet is its ledger; one withdrawal per key; money leaves and comes back once, as the status says; final is final |
| Puja appointments (`puja-appointment`) | status and price of a row, wallets of four parties, commission splits | book, accept, reprice, confirm and pay, cancel | the row is read without a lock and saved whole; four wallets locked in turn | paid once, at the price; every payment adds up; every update ends |
| Orders (`commerce/order`) | `orders.status`, `order_items.status`, `products.stock`, the fee setting | checkout, mark paid, update, cancel, deliver and settle | one status for the items of several merchants; absolute restock; settlement in a second transaction; a fee that changes between charge and refund | no piece lost; an item's money goes one way once; refunds match the payment |
| Request expiry (`realtime/chat`) | TTL keys, cron | expire a request | cron against accept | its write is `Withdraw` of `ConsultationSettlement`; its schedule is not modelled |
| Promotions, coupons | counters | consume, redeem | double consumption | not modelled |
| Catalogue, accounts, reviews, notifications, support, astrology, places, media, external clients, infrastructure | rows; third-party services | CRUD, lookups, pure computation | none between calls | not modelled |

How they interact: the socket gateways call the orchestrator; it runs a use case
(Postgres, then Redis) and arms or cancels its timers; a timer calls the
orchestrator again. The use cases `end`, `cancel`, `reject` and the deferred
close call `releaseConsultationHold` / `settleConsultationHold` inside their
transactions. A dropped socket cancels the budget timer and arms the grace, whose
timer calls the deferred close. On boot the orchestrator re-arms timers from the
rows and keys that survived. Acceptances and ends also set and delete the BUSY
marker of the expert's presence. Recharges reach the same wallet from the payment
handlers; puja payments and orders debit it and credit partner wallets, out of
which withdrawals are paid. `PROJECT.json` lists every component with its status
and, under `hazards`, each line where these interactions can go wrong.

## Modules

| Module | Models |
|---|---|
| `HoldContract` | The abstract promise about a client's money: an amount is set aside once per consultation and comes back once, less a fee within it |
| `ConsultationSettlement`, `MCSettlement` | The lifecycle workflows and the wallet, statement by statement |
| `ConsultationClock`, `MCClock` | One consultation's meter and timers |
| `DisconnectGrace`, `MCGrace` | The sockets of its two parties |
| `ExpertPresence`, `MCPresence` | What clients are shown of one expert |
| `RefreshRotation`, `MCRefresh` | One refresh session, its tabs and its secrets |
| `PaymentCapture`, `MCPayment` | A recharge from the gateway's capture to the credit |
| `Withdrawals`, `MCWithdrawals` | One partner's wallet and withdrawals |
| `PujaAppointments`, `MCPuja` | Appointments and their payments |
| `ProductOrders`, `MCOrders` | Orders, their items, stock, refunds and settlements |
| `*_proofs` | The inductive invariants and theorems about the module named |
| `Realtime_proofs` | The same for `ExpertPresence`, `ConsultationClock` and `DisconnectGrace` |
| `SumLemmas` | What the proofs need of sums over finite sets |

The `MC` modules hold the instances for TLC; each `.cfg` belongs to one run. The
names of `ConsultationClock` and `DisconnectGrace` carry a prefix (`ClockSpec`,
`GraceSpec`) or differ from those of `ExpertPresence`, so that one module can extend
all three.

**ConsultationSettlement.** Handler slot `r` runs `req[r]`: the operation, the
statement it runs next (`at`) and the values it has read. Every SQL statement is
an action: `BeginEnd` is the read at the head of the end use case, `ClaimEnd` the
first UPDATE of its transaction, `ReadHoldRows` and `ReadWallet` the reads of
`release-consultation-hold.ts`, `CommitRelease` its writes and the commit.
`lock[c]` is the row lock an open transaction has on consultation `c`: other
UPDATEs of the row wait, plain SELECTs see the last committed row. `Abort` is an
exception or a crash before the commit. `HOLD`, `RELEASE` and settlement rows are
counted per consultation (`held`, `releases`, `charges`, `charged`, `refunded`).
Session rows are locked in the code too; that lock is left out, so the model has
more interleavings of sessions than Postgres. The model has one client and
amounts are small integers.

**ConsultationClock.** `memory` holds the timers of the orchestrator's maps,
`redis` the keys with their TTLs, `db` the row and the latest session. Countdown
values are units of time. A handler runs in two or three steps, cut where it has
read and where it writes. `Elapsed` and `Remaining` are `calculateAffordability`.
`armBudgetTimer` cancels now and sets the timer when a promise resolves, so
computations in flight are counted (`arming`), and a timer that is replaced in
the map without being cleared lives on in `strays`. `Tick` lets time pass only
when no handler is under way and nothing is due: handlers are instantaneous, but a
timer and a key due in the same unit go in either order. A party that loses its
last socket (`LoseSocket`) has `handleDisconnect` cancel the budget timer of an
active consultation and arm a grace, after a query and whether or not the party
is back by then (`PauseBilling`); `ComeBack` cancels the grace and arms the budget
timer anew, `LeaveFires` closes the session. None of them touches the anchor, so
the meter counts the absence. `Crash` loses `memory`, the handlers and the
sockets; `Boot` is `rearmOne`.

**DisconnectGrace.** Each socket has a transport (`link`), an identity once its
token is verified, and the continuations of its `handleConnection` (`conn`) and
`handleDisconnect` (`disc`). The expert's disconnect first awaits the presence
set, the client's does not (`Registers`). `grace` is the map of grace timers;
`closing` are the deferred closes under way. It starts where a session has
started, with one socket of each party (`First`).

**ExpertPresence.** A handler is the list of awaited calls it has still to make
(`worker[w].todo`), so that two handlers interleave at every await. `keys` are
connection keys alive in Redis, `open` the sockets the gateway knows; a key may
expire under an open socket. `getLastStatus`, `setLastStatus` and the publication
that follow each other are one step. `clean` and `steady` are history: a
publication can still be trusted while no two evaluations have overlapped, a
consultation's marker while nothing has disturbed it. A consultation that was
completed may be reopened, or closed (`Close`) without a word to the presence;
`Terminal` is the code's list of statuses, which has no "closed". The 24 hours of
`last_status` never run out.

**RefreshRotation.** Secrets are numbered as the server makes them. `execute`
takes the row lock, compares the hash, rotates, commits, and saves the result in
Redis afterwards; a request with an older secret is answered from that cache, or
revokes the family. `Timely` says that Redis answers and that the grace outlasts
every delay; without it `HonestStaysIn` fails, as a hazard notes.

**PaymentCapture.** The handlers `webhook`, `verify` and `recharge` run a
transaction each over the gateway row, the legacy row and the wallet. `OldOrders`
have the legacy row only; for them the first two lock the legacy row first and
the third the gateway row first, and `Victim` is the transaction Postgres rolls
back to break that deadlock. `Declined` is a `payment.failed` webhook, after which
the same order may still be captured.

**Withdrawals.** Requests and credits lock the wallet row, an admin's update reads
withdrawal and wallet without a lock. `Alone = {"update"}` keeps updates from
overlapping, `EagerRetry = FALSE` has clients wait for an answer, `AdminMoves
<- Decisions` has the admin act on a withdrawal whose payout is under way by the
gateway's word and leave `FAILED` as it is, and `PayoutsLost = FALSE` has no update
fail once the gateway has accepted its payout. Without any of these TLC finds a
second refund, a second payout, a refund of what was paid or a second withdrawal,
as the hazards say. Payouts are counted when the gateway accepts them. `RefusedWebhook` is the payout webhook that
names its admin by a string and is rolled back by the integer column.

**PujaAppointments.** An update reads the entity, then saves the whole of it; a
confirmation locks the wallets of client, expert and both agents in turn. Two
confirmations may lock two agents in opposite orders; `Victim` is the one rolled
back. A referrer without an agent profile gets no commission, which the platform
keeps. `Overlap` lets updates of one appointment overlap and `ExpertMoves` are the
statuses experts ask for: the code accepts any pair, and with `Overlap` or the
move from confirmed to accepted an appointment is paid twice.

**ProductOrders.** An update is about the target items (a merchant's own, or all),
while `status` is the order's. A cancellation puts back an absolute stock it has
read; a delivery commits first and is settled by a second transaction. Four
switches admit what breaks the properties: `Overlap` (requests on one order, or a
cancellation next to a purchase of its product), `Unpaid` (moving on orders that
are not paid), `Mixed` (cancelling or delivering over items closed before) and
`SettlementFails`. Amounts are in paise, since shipping is charged to the paisa but
stored and refunded in whole rupees (`StoredShipping`). `fee` is the setting
PLATFORM_FEE, which `SetFee` changes at any time: `charged` is its value when the
order was placed, `Extras` refunds its value when the order is cancelled. The stock
may go below zero (two purchases check it before either decrements it).
Quantities are fixed per product; the two reads of a client's
cancel are one; coupons and the amounts of settlements are left out.

### Where they meet

`ConsultationSettlement`, `ConsultationClock` and `DisconnectGrace` share the
states `accepted`, `active` and over. The clock takes the settlement of an end as
one step, since that it charges once whatever overlaps is what
`ConsultationSettlement` shows. `DisconnectGrace` takes a budget timer as set or
not, `ExpertPresence` an acceptance or an end as committed before its own calls.
`Recharge` of `ConsultationSettlement` is the credit of `PaymentCapture`, its
`BeginDebit` the purchases of the other modules; `MarkPaid` of `ProductOrders` is
what a capture does for an order. The credits of `Withdrawals` are the provider
and agent shares of the rest. The successful switch from a call to chat, warning
timers and media control messages are in none of them.

## Runs

Passing runs, with every property refuted by a mutated form of the code
(`mutants` in `PROJECT.json`):

| Run | Instance | Shows |
|---|---|---|
| `settlement_serial` | 2 consultations, 1 slot, aborts | handlers one at a time: the money adds up (`MoneyConserved`, `ReservedIsOpenHolds`, `BillWithinCharge`), every step implements `HoldContract` (`ImplementsHoldContract`), no session outlives its consultation (`NoOrphanSession`), what has started is never cancelled (`StartedNeverCancelled`) |
| `settlement_overlap` | 1 consultation, 3 slots | any overlap: `TypeOK`, `NoDoubleCharge`, `ChargeWithinHold`, `CompletedIsSettled` |
| `clock_serial` | chat, 1 slot, 3 of all commands but a switch, parties that lose their sockets, 1 restart, fair | `ClockTypeOK`; the meter is within real time (`NeverBeyondRealTime`); a session is served past its budget only while the disconnect grace of a party runs, and by at most two graces (`MeterWithinBudget`); it stops being metered (`MeteringStops`) |
| `clock_overlap` | chat or call, 2 slots, 3 commands, a crash anywhere | the meter loses no talk (`MeterCoversTalk`) when handlers overlap, refused switches included; no socket is lost |
| `grace_tabs` | 2 sockets of each party, fair | `GraceTypeOK`; an actor that keeps one live socket is never closed (`TabProtects`), one that stays away is (`AbsenceCloses`) |
| `presence` | 2 sockets, 1 consultation, 2 slots, fair | `TypeOK`; clients are shown the truth (`ShownIsTrue`), a live consultation keeps the expert busy (`LiveIsBusy`), the marker of one that was completed or cancelled goes (`StaleMarkerGoes`) |
| `refresh` | 3 overlapping requests, 5 in all, 1 crash, fair | a secret has one successor (`NoFork`), an honest browser stays in (`HonestStaysIn`), every request ends (`RequestsEnd`) |
| `capture` | 2 orders, one of them old, 2 slots, 1 crash, 1 declined attempt, fair | one credit per payment (`CreditedOnce`), none marked without it (`SettledIsCredited`), the locking handlers never meet the unique index (`LockedNeverRefused`), the wallet is the sum of the credits (`BalanceIsCredits`), and what was paid is credited in the end (`PaidIsCredited`) |
| `withdrawals` | 2 rows, 2 keys, 2 slots, 1 crash | `LedgerMatchesWallet`, `OneWithdrawalPerKey`, payouts and refunds are as the status says (`MoneyMatchesStatus`), `FinalIsFinal` |
| `puja` | 3 appointments sharing clients and agents, 2 slots, 1 crash, fair | the money of every payment adds up (`SplitsAddUp`), confirmed means paid once at the price (`ConfirmedIsPaidOnce`), updates end in spite of deadlocks (`UpdatesEnd`) |
| `orders` | 2 orders of 2 merchants that share a product, 2 slots, 1 crash, a fee that changes | `StockConserved`, `MoneyFollowsGoods`, and `RefundsMatchPayment`: refunds match the payments but for a change of the fee and the rounding of the shipping |

One run expects a violation: it checks one statement the repository makes about
the program and finds what the code does against it (`findings` has the line).
In `settlement_refund_twice` two releases of one hold overlap and both pay back
(`NeverRefundTwice`).

Five more statements of comments and documents are definitions of the models that
no run has: TLC refutes each within seconds when it takes the place of the
properties in the `.cfg` named.

| Statement | `.cfg` | What happens |
|---|---|---|
| `DisconnectNotCharged` (`client-realtime.service.ts:91-93`) | `ClockSerial` | the budget timer is cancelled, the meter runs on and the bill has the absence in it |
| `OverMarkerGoes` (`presence.service.ts:29`) | `ExpertPresence` | a marker that names a closed consultation is not stale, and heartbeats keep it |
| `StockSuffices` (`create-order-from-cart.use-case.ts:162`) | `ProductOrders` | two purchases have both read the last piece and both take it |
| `CancelDebitsMerchant` (`docs/finance-flow.md:108-110`) | `ProductOrders` with `Mixed = TRUE` | one merchant delivers and is paid, the order is cancelled over him: the client is refunded, nobody debited |
| `FullRefund` (`docs/earnings-and-revenue-distribution.md:234-235`) | `ProductOrders` | the fee was changed since, or the shipping was charged to the paisa: the client gets back more or less than he paid |

Some switches stand for cases in which a property fails. Each has a hazard with a
note: among them the end of a REQUESTED consultation, a refused resume that has
cancelled the grace, the grace armed after a refresh has reconnected, the switches
of the paragraphs above.

### Bounds, and why they are enough

- Settlement: a race here is between a read and a write of two handlers; a third
  slot lets one settle what two others have read. Prices of 1 and 3 against a hold
  of 2 reach both sides of every cap in `settlement_serial`; where handlers
  overlap the price is above the hold, the side that could overcharge. Two sessions per consultation
  (`MaxSessions`) give one cycle of end and continuation; `MaxDeposited` and
  `MaxSpent` bound recharges and purchases.
- Clock: TTLs of two units, a dialog of one and a budget of one or two let each
  outlast the other in some run. Three commands are enough for pause, resume, pause
  and for two commands under a timer. Ages saturate at `MaxElapsed`, which in
  `clock_serial`, where the budget is compared with them, is at least what budget
  and top-ups add up to and leaves room for the session that is served past it by
  two graces. A `LeaveGrace` of two units lets a party come back in the middle of
  it and leave again, so that one grace as the bound fails there. `MaxArming` bounds
  rejoins, `MaxCrashes` restarts.
- `FromLobby = FALSE` keeps pauses and resumes out of the lobby: with `TRUE`,
  `NeverBeyondRealTime` fails, since a hold before the start anchors the meter
  there. Likewise `Commands` has no `switch` and `Modes` no call where the budget
  is checked, and crashes fall between handlers where budget and liveness are
  (`CrashAnywhere`): a crash inside a resume leaves an open session that boot
  recovery takes for a paused one and arms nothing for.
- Grace: the races are between two sockets of one actor, with two of the other;
  `MaxResumes` and `MaxComputing` bound what else can happen.
- Presence: the races are between two handlers, or a handler and a heartbeat;
  `AnyOverlap = FALSE` has only heartbeats overlap with anything, `MaxNesting`
  bounds what the first still has to do. With arbitrary overlap a derived status
  may be published after a newer one (a hazard with a note).
- Refresh: three requests let one rotate while two present what it rotated; five
  sends give chains of rotations longer than the overlap.
- Capture: two orders, one of each kind, are needed to have the wallet row held
  while a payment row is waited for; two handlers deadlock, and a third adds
  no new pair. `MaxAborts` and `MaxDeclines` bound crashes and declined attempts,
  not captures.
- Withdrawals: two rows under limits of two a month and three a day reach every
  refusal; `MaxPayouts = 2` leaves room for the second payout that must not
  happen, `MaxMoves` and `MaxAborts` bound the rest.
- Puja: a1 and a2 are each referred by both agents in opposite roles, a3 competes
  with a1 for one balance and has an unprofiled referrer. The tax of
  18 percent on the fee of a payment of 1400 paise is rounded.
- Orders: o1 spans both merchants, and the shared product is scarce, so that a
  purchase is refused, restocked and sold again. A shipping charge of 5.49 is
  rounded to 5 rupees; two fees are enough for one to be charged and the other
  refunded.
- The runs of `DisconnectGrace`, `ExpertPresence`, `RefreshRotation`,
  `PaymentCapture`, `Withdrawals` and `ProductOrders` may stop for good (all
  sockets gone, all requests answered, all orders closed) and do not check
  deadlock; the others do.

### Fairness

Weak fairness of every step of a handler that has started (a promise settles), of
timers that are due, keys whose TTL has run out, time, boot after a crash,
and heartbeats of open sockets. No party is assumed to send, connect or leave.
Node's event loop and Redis give this much; a failing database would not, and then
nothing can be promised.

Where handlers wait for row locks (`PaymentCapture`, `PujaAppointments`,
`RefreshRotation`) the fairness is strong: Postgres grants a row lock to its
waiters in a queue, and its deadlock detection ends a cycle. `PaidIsCredited` also needs the gateway to repeat
a webhook until it is answered, which is its protocol. `Withdrawals`,
`ProductOrders` and `settlement_*` claim safety only and assume nothing.

## Proofs

A theorem holds for all values of the constants that satisfy the named
assumptions of its module; sets over which something is summed are assumed
finite, as rows of a table are. Where a theorem has a further hypothesis, the
instance of its run satisfies it, and it excludes a case in which TLC finds the
property violated; the hazards in `PROJECT.json` describe these cases.

**Settlement, any overlap** (`ConsultationSettlement_proofs`: any number of
consultations and slots, prices, deposits and debits).

- `TypeCorrect`: its content is `reserved \in Nat`: every handler writes
  `reserved` from an earlier read, and each is capped by what it read
  (`AmountsType`).
- `ChargedOnce`, `ChargedWithinHold`, `CompletionSettles`, `BilledWithinCharge`.

None of these is inductive. A handler that is about to charge looked for a
RELEASE row some steps before it writes one, so one must know that nobody else
charges in between. `IInv` says why. `ChargerIsAlone`: a handler that will charge
owns the row lock of its consultation and no charge has been made.
`StaleEndIsSettled`: an end that got past the claim without the lock found the
consultation not live, and then, as it had started, it was already settled
(`RowInv`). So the UPDATE of `end-consultation.use-case.ts` protects the
settlement even when it matches no row, by way of the state it would have
matched. `CreatorIsAlone` keeps two creations off one row. The proof has one lemma
per group of actions (`OpenInv`, `LockStep`, `ReleaseInv`, `WalletInv`), each
reduced by `QuietStep` and `RowStep` to what the action changes.

These theorems say nothing of refunds. `cancel`, `reject` and the deferred close
hold no lock, and `settlement_refund_twice` shows that two releases may both pay
back; only charging is single.

**Settlement, one handler at a time** (`Serial`: at most one slot; any number of
consultations). With two handlers the balance written back may be stale and the
money does not add up, so this is as far as the code goes.

- `MoneyAddsUp`, `ReservedAddsUp`: the wallet is what was deposited, and the
  reserve is the sum of the open holds. They are proved together: that the money
  is conserved needs that a release gives back the whole hold, hence that the
  reserve covers it, which is `ReservedIsOpenHolds` (`OpenHoldIsReserved`).
- `CompletedHasNoLiveSession`, `StartedIsNotCancelled`.
- `HoldContractImplemented`: every step maps to `SetAside`, `Settle`, `Deposit`,
  `Spend` or a stutter of `HoldContract`.

`SerialInv` adds to `IInv` what the only handler has read and is still true
(`SerialHandler`: `Fresh`, the sessions it saw, the hold it will release), and
which hold, flag and sessions a status goes with (`SerialRow`).

**Capture** (`PaymentCapture_proofs`: any orders, old ones among them, any number
of handlers). `TypeCorrect`, `CreditedOnceHolds`, `SettledIsCreditedHolds` and
`LockedNeverRefusedHolds` follow from one invariant, whose part beyond the
properties is `Holding`: a webhook or verify past its check holds the row it
checked, so what it read of that row still stands. The wallet's verify holds
nothing when it checks; it is the unique index that stops it, which is why
`LockedNeverRefused` is claimed of the others only. `BalanceIsCreditsHolds` adds
the sum: a credit adds one order's amount once, and the wallet's own row lock
makes its absolute write exact.

**Withdrawals** (`Withdrawals_proofs`) assumes `Serial`: updates run alone, clients
wait for their answer, failed withdrawals stay. Under it
`LedgerMatchesWalletHolds`, `OneWithdrawalPerKeyHolds` and the action property
`FinalIsFinalHolds`; under `Judged` besides (`Decisions`, no payout lost)
`MoneyMatchesStatusHolds`: `MoveInv` says where an update under way leads, and
`PayoutsFit` that the gateway has accepted one payout exactly for the withdrawals
whose status, or whose update waiting for its commit, says so. `UpdateAlone` and `KeyAlone` say what
`Serial` excludes; `RowInv` and `LockInv` say that a handler about to commit still
sees the rows it read: a request and a credit by the wallet lock, an update by
being alone.

**Refresh** (`RefreshRotation_proofs`) has two invariants. `LockInv` needs nothing:
at most one request is past the lock, so rotations are steps of one in the order
of the secrets (`PairSteps`), and `NoForkHolds`. `ChainInv` needs `Timely`: every
secret that somebody may still present is the current one or leads to it through
rotations that are known (`InUseIsTraceable`, `CacheIsChained`), hence
`HonestStaysInHolds` and `JarIsKnownHolds`.

**Puja** (`PujaAppointments_proofs`). `TypeCorrect` and `SplitsAddUpHolds` need no
condition: with any rates, referrers and overlaps, repetitions included, every
payment that is made adds up, since shares and rounding are taken off one
amount. Under `Careful` (updates of one appointment do not overlap, experts leave
confirmed and cancelled ones alone and confirm none), `ConfirmedIsPaidOnceHolds`.
The invariant adds what an update has read and what is still true when it saves: a
payment finds the appointment unpaid (`PayingFindsUnpaid`), a save does not undo
one (`SavingKeepsPaid`), and what was paid is confirmed or cancelled
(`PaidIsOver`).

**Orders** (`ProductOrders_proofs`): `TypeCorrect` without conditions; the rest for
any orders, products and merchants.

- Under `Careful` (`Overlap`, `Mixed` and `SettlementFails` off),
  `MoneyFollowsGoodsHolds` and `StockIsConserved`. `OwnStep` says that a request
  changes its own order only, so that one order is left to look at (`OwnKeeps`);
  `FindsItems` says that a cancellation or delivery finds its targets as it wrote
  them. For the stock, `BasketsApart` and `FindsStock` say that the absolute stock
  a cancellation has read is the stock when it saves. `StockIsConserved` counts
  pieces and does not say that the count stays above zero, which it does not
  (`StockSuffices`).
- Under `Paying`, which adds that only paid orders move on and that no product is
  free, `RefundsMatchPaymentHolds`: exactly the price of the goods while a part of
  the order stands, and for an order cancelled as a whole what was paid, plus the
  fee of then less the fee charged, plus what rounding the shipping gives or takes.
  Neither difference can be dropped (`FullRefund`; the shipping of the run is 5.49). The price of products had to be added to prove it: the
  refund adds fee and shipping under `if (refundAmount > 0)`
  (`order.service.ts:217`), so cancelling a last item that cost nothing, which
  `create-product.dto.ts:30` allows, returns neither.

**Presence** (`Realtime_proofs`: any sockets, consultations and handlers).
`TypeCorrect`, `ShownIsTrueHolds` and `LiveIsBusyHolds`, the second for clean
histories, the third for consultations accepted alone (`clean`, `steady`): neither
speaks of two live consultations of which one ends.

- `CleanInv`: while the history is clean, at most one handler runs, and if what is
  shown is not the status the expert has, that handler has still to compare or
  to announce (`WillTell`), with a derived status that is still the status
  (`FindsFresh`). That the expiry of the last key publishes nothing is harmless
  because a reconnect announces by force. Calls are taken from the front of a
  list, so `Fit` and `WellFormed` say what may follow what.
- `SteadyInv`: the marker of a live consultation that nothing disturbed is set, or
  its acceptance has still to set it (`Brings`); and no call under way takes it
  away (`Leaves`), a repair included, since that looks at the row.

**Clock** (`Realtime_proofs`: any budgets, TTLs, commands and number of handlers).

- `ClockTypeCorrect`: its content is that no countdown runs below 0: a timer or key that is due is never passed over.
- `BilledForRealTime`, with `~FromLobby`: any TTLs, modes, commands and overlap,
  a crash anywhere. `RealTime` has `Lobby` (before the start nothing is anchored,
  armed or held), `Pace` (anchors, sessions and the readings of handlers under way
  do not exceed real time) and `Billing` (the end that bills has read the meter of
  a running consultation). Reading and writing may be a crash or another handler
  apart; that readings only grow stale in the right direction is the argument.
- `TalkIsCovered`, with `Plain`: any overlap, a crash anywhere, no pause by hand,
  no recharge and no lost socket, the budget within the range of ages. `Cover` says that the
  meter, and every reading that will still become an anchor, covers the talk; and
  that before the first anchor the session that is open is the first
  (`FirstSession`). `Plain` is needed: with `manual` among the commands TLC finds a
  pause, which writes no anchor, and a crash between the next session's row and
  its anchor, after which the meter starts anew; with `recharge`, a recharged
  client resumes while the budget hold is still writing; with `drop`, a session
  that was closed by the disconnect grace leaves no anchor, and the one that a
  resume opens next starts the meter anew when a crash, or a reading of another
  handler, comes before its anchor.
- `ServedWithinBudget`, with `OneAtATime`: one slot, no crash inside a handler,
  chat. A call starts when both have joined but is armed when their media is
  ready, so that TLC finds it unbounded in between. A session is past its budget
  only while the grace of a party whose socket was lost runs, by at most two
  graces: a disconnect cancels the budget timer and the clock runs on. `Guarded`
  says that between handlers a running session is `Watched`: it has a budget timer
  within what is left, or one being computed, or a grace in time to close it
  (`Graced`). One grace is not enough as an `Allowance`: a party may be back before
  its disconnect has armed the grace, leave again when that is nearly over, and
  have its second disconnect arm a new one (`BackEarly`). `Closing` says that a
  handler that will close the session found it open, and one that failed to leaves
  it closed.

**Grace** (`Realtime_proofs`: any actors, sockets and owners of which each actor has
at least one socket to start with, `StartAssumption`).

- `GraceTypeCorrect`, `LiveTabProtects`. A disconnect decides that no tab is left
  and arms the grace one await later, when the actor may be back; so "no grace
  while a socket is live" is not true (an old socket's grace may be armed after
  the new one has connected), and what is true has to speak of having been away.
  `PausedWasAway` carries the decision over the await. `HereIsPresent` says an
  actor that was never away has a live socket; it makes the check of a disconnect
  conclusive, with `LeavingIsDown`: the socket whose expert waits for the presence
  set is down already and is not counted.

**Sums** (`SumLemmas`). The models add up with `SumFunctionOnSet` of the community
modules, a recursive function over subsets. No induction theorem with an operator
parameter can be cited here, so induction is done on sets of numbers
(`NatSetInduction`: a set with 0 and the successor of each member is `Nat`, from
the well-foundedness of `<`). From it follow that the function exists, that its
value does not depend on the order of elements (`AnyFirst`), and the lemmas the
proofs cite: `SumTakeOut`, `SumChange`, `SumJoin`, `SumDisjoint`, `SumPart`.

The type invariants of capture, withdrawals, refresh, puja and orders are proved
and not repeated in a run.

Model-checked only: all liveness (`MeteringStops`, `AbsenceCloses`,
`StaleMarkerGoes`, `RequestsEnd`, `PaidIsCredited`, `UpdatesEnd`), which the prover
cannot treat, as it has no rules for ENABLED.

## Not modelled

See `components` in `PROJECT.json`: a component is `partly` modelled when
operations of it are left out, and each row says which. Pure CRUD, clients of
third-party services and read models carry no protocol to check.

The schedule of the request-expiry cron, coupons and the counter of promotions,
the merchant's own token refresh, refunds of disputes, and the amounts an order's
settlement splits are operations with state that no module has. The ledger queue
copies what was committed, and earnings and statistics are read models. Seeders,
schema files, generated tables and astronomical data hold no state of a protocol.

## Plan

1. Theorems under weaker hypotheses: `CompletedHasNoLiveSession` and
   `StartedIsNotCancelled` read no wallet, so they should hold when only the
   handlers of one consultation follow each other; `ServedWithinBudget` for calls
   from the moment media is ready.
2. The rejections, as action properties: a step that refuses a command changes no
   row.
3. The expiry cron with its TTL keys, composed with acceptance.
4. Coupons and promotions: counters redeemed by overlapping checkouts.
5. The merchant's token refresh, which has neither lock nor replay.
6. The amounts of an order's settlement against a reference split.
