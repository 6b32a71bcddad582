# A verification project for the NMPL shop

TLA+ models of this repository's server - its order workflow, the checkout that
leads to it, the invoices that follow it, and the registration, accounts, sessions,
tabs and address books of the people around it - with the TLC runs that check them on small instances, and TLAPS proofs of the main
results for every value of the constants. Paths below are relative to `src/src/server/src/` unless
they start with `src/`.

Contents: [1 The system](#1-the-system) · [2 Modules](#2-modules) ·
[3 How state and steps correspond to the code](#3-how-state-and-steps-correspond-to-the-code) ·
[4 Runs](#4-runs) · [5 What the runs found](#5-what-the-runs-found) ·
[6 Proofs](#6-proofs) · [7 What is not modelled](#7-what-is-not-modelled) ·
[8 Plan](#8-plan) · [9 Running it](#9-running-it)

## 1 The system

A quotation-based web shop: an Express/Prisma server on PostgreSQL and Redis, a
Next.js client that keeps no data of its own but sends a failed mutation again. A customer does not buy, he asks: an
order is verified by an admin against the stock, quoted (perhaps for less than
was ordered) or waitlisted; the customer accepts, pays or rejects; an admin
delivers. Approved quotations hold stock; a rejection hands the stock to the
waitlist. Dealers may be allowed to pay after delivery ("pay later").

| Component | State | Operations | Hard behaviour | What makes it correct | Module |
|---|---|---|---|---|---|
| Transaction workflow (`modules/transaction`) | `Order.status`, `Transaction.status`, `OrderReservation`, `ProductVariant.stock/reservedStock`, `Payment`, quotation log | set a status, quote, delete | check outside the database transaction; snapshot reads without row locks; two admins, the customer and Stripe on one order | holds, sales and statuses agree; no oversell; lifecycle | `OrderFulfilment` |
| Waitlist promotion (same repository) | `verificationQueuedAt` | promote after a release | the waiting orders are read without a lock and promoted as read; all-or-nothing reservation of several items, with undo | first come, first served; what is held is what is asked; nothing left reserved | `OrderFulfilment`, `PromotionLoop` |
| Order placement, quotation answers (`modules/order`) | order rows | create, accept, reject | an answer races an admin | as above | `OrderFulfilment`, `Checkout` |
| Payments (`modules/payment`) | `PaymentTransaction`, `Payment`, audit log | record by hand, gateway payment | check-then-act "already paid" | status stays lawful; a payment is invoiced | `OrderFulfilment`, `Billing` |
| Stripe webhook (`modules/webhook`) | none | completion event | repeated, late events | money that arrives confirms its order | `OrderFulfilment` |
| Stock keeping (`modules/variant`, `modules/product`) | stock | restock, edit | absolute stock values written from a form | holds stay covered; nothing is sold that is not there | `OrderFulfilment`, `StockLedger` |
| Invoices (`modules/invoice`) | `Invoice`, `InvoiceCounter` | create on delivery, on a look, on payment | creation unawaited after the commit, its failure only logged; unique-key conflicts and retries | one invoice per order, numbers without gaps, right status | `Billing` |
| Cart, checkout (`modules/cart`, `modules/checkout`, `modules/order`) | `Cart`, `CartItem` | find or create, add, edit, convert | read-then-write without a transaction, several tabs | a cart is ordered once, at the total the click sent | `Checkout` |
| Idempotency guard (`shared/middlewares/idempotencyGuard.ts`), client retries (`ApiSlice.ts`) | Redis keys | guard every mutation; send again | key deleted on failure; lost answers; crash | one effect per click | `Checkout` |
| Sessions (`modules/auth`, `protect.ts`, `protectCache.ts`) | `tokenVersion`, password, record in Redis | sign in, let in, change or reset a password | the record refilled with an old version | no access for long after a reset | `Sessions` |
| Users, dealers (`modules/user`) | roles, dealer profiles, supervisor | promote, demote, delete, approve, apply, create | every decision on rows read earlier, by a caller whose role may be cached | staff and customers stay apart | `Accounts` |
| Tabs of a browser (`src/src/client/app`: `ApiSlice.ts`, `AuthProvider.tsx`, `authSyncChannel.ts`) | cookies shared by the tabs, the user each shows | check, recover after a 401, tell the other tabs | the session changes under requests and events under way | no tab goes on showing a user whose session is over | `BrowserTabs` |
| Registration codes (`shared/utils/auth/registrationOtp.ts`, `auth.service.ts`) | Redis keys, the account | send, verify, register | several Redis commands per operation; keys that expire between them, by rounded lives | an account is what its code was asked for; guesses are bounded | `Registration` |
| Addresses (`modules/address`) | which one is the default | create, edit, choose, delete | reads outside the transaction, two statements in it | one default, restored after a race | `Addresses` |
| Catalogue, delivery rates, GST, analytics, reports, logs, workers, pages | records | store, query, show | none between requests | - | - |

Interaction: `WebhookService` and `OrderService` call
`TransactionService.updateTransactionStatus`, which calls
`TransactionRepository.updateTransaction`; payments write the order and the
transaction directly; stock keeping shares `ProductVariant` with the repository; a
delivery starts, without awaiting it, the job that makes the invoice. All of it
meets in the database rows and in two kinds of Redis keys (idempotency keys, the
record `protect` keeps of a user); nothing else is shared between requests.

The hazards are listed in `PROJECT.json`, each at its line, with the properties
that would catch it going wrong, or a note why no property
does.

## 2 Modules

| Module | What it is |
|---|---|
| `Waitlist` | quantities, counting of units, and the rule of promotion. Constants only. |
| `StockLedger` | abstract: what the shop promises of its stock, with no order in sight. |
| `OrderLife` | abstract: what the shop promises about an order, each change of which happens at one moment. |
| `OrderFulfilment` | the whole workflow: orders, stock, reservations, payments, Stripe, and request handlers that overlap. States what holds however they interleave, and implements `StockLedger`. |
| `FulfilmentBooks` | what the books of the shop say when they agree, and what it takes to keep them so: that no commit is disturbed; and what it takes, besides, to implement `OrderLife`. |
| `SerialFulfilment` | the workflow with one request handler (`OneHandler`), where that always holds, and fairness. |
| `PromotionLoop` | the promotion loop and the item-by-item reservation, statement by statement. |
| `FulfilmentClaims` | a sentence of the repository that the workflow does not keep. |
| `MCConcurrentFulfilment`, `MCRegistration` | for TLC: symmetry of handlers; of requests and phones. |
| `Checkout` | one customer's clicks, their tries, the idempotency guard, the cart and its conversion. |
| `Sessions` | one account's versions and the requests that read them through Redis. |
| `Accounts` | roles, dealer profiles and the operations on them, as read and write steps. |
| `Billing` | deliveries, looks and payments that make and mark invoices. |
| `Registration` | one e-mail address: its codes, and the requests that ask for, try and use them. |
| `Addresses` | one customer's addresses and which is the default. |
| `BrowserTabs` | the tabs of one browser, on a server that keeps what `Sessions` promises. |
| `MCBrowserTabs` | tabs and slots for TLC. |
| `WaitlistProofs` | lemmas about `Units`; the rule of promotion has exactly one answer. |
| `OrderFulfilmentProofs` | theorems for any number of handlers: the two refinements, the books as long as no commit is disturbed, and that one handler disturbs none. |
| `PromotionLoopProofs`, `CheckoutProofs`, `AccountsProofs`, `BillingProofs`, `RegistrationProofs`, `AddressesProofs` | theorems of the module of that name. |

`OrderFulfilment` promotes waitlisted orders one by one, as the code does and as other
requests can see and disturb it: the list is read (`ListWaiting`), each order on it is
taken or passed over (`PromoteNext`, `PassNext`), and the commit shows the result. What
it takes as one step is the reservation of one order's items. `PromotionLoop` has the
same loop item by item, with the undo, for nobody else's eyes, and shows that it computes
exactly the rule `Waitlist!Promoted`, which is also how `OrderLife` promotes.

`OrderFulfilment` has orders placed in one step and leaves the invoice out; `Checkout` and
`Billing` say what happens inside those two: `Checkout!PlaceOrder` is where `OrderFulfilment!PlaceOrder` happens, and
`Billing` knows of an order only whether it is CONFIRMED or DELIVERED.

An operator commented "Mutant" is a plausible mistake in the definition that
follows it. No specification uses it; putting it in the place of that definition
must make a property fail, which is how each property is shown to say something.

## 3 How state and steps correspond to the code

### The order workflow

**State.** `stock`, `reserved`, `sales` are `ProductVariant.stock`,
`.reservedStock` and the variant's share of `Product.salesCount`; `status`, `txn`
are the two status columns, `"NONE"` when the row does not exist; `resv`,
`payment` the statuses of the `OrderReservation` and the legacy `Payment`; `qty`
the current `OrderItem` quantities, `ordered` those of the `ORIGINAL_ORDER` log;
`queuedAt` the rank of `verificationQueuedAt`; `paidTxns` counts CONFIRMED
`PaymentTransaction` rows; `checkout` is the Stripe session; `req[r]` is a request
in flight with what it has read. An order's number is its place in `orderDate`
order.

**Steps.** A status request takes several, because the code does:

1. *checked* - `AdminSetStatus`, `IssueQuotation`, `AcceptPayLater`,
   `RejectQuotation`, `StripeWebhook`: `updateTransactionStatus` reads the
   transaction **outside** any database transaction and checks the transition.
   The one more read some callers do before has no effect of its own: the check
   that counts is this one.
2. *read* - `TxRead`: `updateTransaction` has opened its database transaction,
   read the order (`getOrderSnapshot`) and checked the quoted lines. The status
   is **not** checked again.
3. *short* - `FallShort`: an approval's reservation has failed for want of stock. What it
   found missing may be there by the time the order is waitlisted.
4. *promoting* - `ListWaiting`: a rejection has released its stock and written its order,
   and `promoteWaitlistedOrders` has read the waiting orders, locking none. `PromoteNext`
   and `PassNext` then go through that list, as read (`listed`, `places`), in the order of
   the queue: an order that fits in what is free by now (`Taken`) is taken (`got`),
   whether or not it still waits, for the quantities it had when it was listed.
5. *commit* - `CommitApprove`, `CommitFallback` (no stock: waitlisted instead),
   `CommitWaitlist`, `CommitReject` (with everybody it has taken), `CommitConfirm`,
   `CommitDeliver`.

A payment takes two, `BeginPayment` and `CommitPayment`. The rest are single
statements.

*Why a commit is one step.* The writes are SQL statements on rows that stay locked
until the transaction ends, and another statement that writes one of them waits, in PostgreSQL's Read Committed (Prisma's default; the
code sets no other and takes no `FOR UPDATE`). `reserveStockForOrder` and
`finalizePaidOrder` test the row in the UPDATE that changes it, on its latest
committed version, so a guard on `stock` and `reserved` is evaluated at the
commit; everything else a commit uses is what `TxRead` or `ListWaiting` saw, however long
ago. A promotion writes over several steps: what it holds locked meanwhile is
`LockedOrders` and `LockedVariants`, and whoever would write one of these waits for
`Unlocked`; so does a fallback's order between its quotation and its commit. If
any UPDATE fails the transaction rolls back: `Abandon`, which is also a crash, a
time-out (20 s) or a deadlock found by the database.

A stock edit stores what the form says, unless less than is held: the database has
`CHECK ("reservedStock" <= "stock")` (migration `20260227193000`), which refuses it
(`EditStock`). The CHECK could refuse an approval or a promotion too; `NoOversell` says
that it never has to.

*What is abstracted.* Prices, tax, e-mails, audit entries; `QUOTATION_EXPIRED`,
which the code keeps for old rows (`ENVIRONMENT_SOURCE_OF_TRUTH.md`: no automatic
expiry); `Product.salesCount` is kept per variant (the code adds up a product's).
A variant occurs in one item of an order (`createOrder` gets the items of a cart,
which has a row per variant).

*Fairness* (`FairSpec`, used by `live`). Each handler makes
progress or gives up (weak): Prisma times a transaction out. Per order and
handler, strong fairness of the webhook, of the read and of the commit of a
confirmation: Stripe delivers an event again until it is answered with 2xx, so
unless errors abort *every* attempt some attempt commits. Nothing is assumed of
customers or admins.

*Refinement* (`Ledger == INSTANCE StockLedger`). On the shelf, held and sold are
`stock`, `reserved` and `sales`. Approvals, rejections and promotions are an
`Exchange`, confirmations and deliveries a `Sell`, a restock a `Receive`, a stock
edit a `Recount`; every other step stutters. `Exchange` lets several holds change at
once, because a rejection gives back and promotes in one commit.

*Refinement* (`Life == INSTANCE OrderLife`, in `FulfilmentBooks`). `OrderLife` has no
requests, no counters and one status: what is held is what the orders hold, and each
action reads and writes the orders as they are. A commit is its action there - a rejection
with the promotions of the rule `Promoted`, judged at that moment -, a placement
`Place`, the customer's payment `Capture`, a deletion `Withdraw`, a restock or an edit
`Stock`; checks, reads, the steps of a promotion, opened sessions and abandoned requests
stutter. The legacy payment
rows and the sales count, which nothing in an order's life depends on, are left out of it.

### Checkout

A *click* is a mutation of the client with one idempotency key; a *try* is one HTTP
request of it. `MaxTries` is 1 + `MAX_RETRIES_FOR_MUTATION`. A try passes `Guard`
(`SET NX`), then runs the handler's statements one by one: `FindCart`, `CreateCart`,
`ReadLine` and `WriteLine` for an addition, `Draft` and `PlaceOrder` for an order.
Only `createOrder` is a database transaction, hence `PlaceOrder` is one step.
`Fail` is a statement that fails (500), `Crash` the process dying with no answer;
`ReleaseKey` is the `finish` listener that deletes the key of a failed response, best
effort and after the answer is on its way. `LoseConnection` is the client seeing a
network error whatever the server does: the retry then overlaps its predecessor.

`shown` are the totals the cart has had, any of which some page may still show. A pickup
is ordered at one of them (`ClickPickup`). For a delivery, `handleInitiateCheckout` fetches
the summary again after the customer has confirmed and sends that total (`ClickDelivery`);
the server compares the order with what was sent, not with what was shown.

Abstracted: a cart's content is the units of one variant (a total is compared, and
the total tells units apart); a click is made in a tab that has no other mutation in
flight, as its button is disabled meanwhile. The key's 120 s are taken to outlast
all tries of its click (`Expire`): a try ends with its database transaction, 20 s.

### Sessions

`version` is `User.tokenVersion`, `cache` the version in the record of `protect`. A
token is what a session shows, abstracted to the version it carries. A request looks
the record up, reads the user on a miss, and stores the record after the read: by then
it may be old. Each update that raises the version evicts the record afterwards, best
effort. *Fairness*: the record expires (60 s), and a request that has arrived runs to
its end. Nothing is assumed of evictions: they may all fail.

### Accounts

Each operation of `user.service.ts` is a *read* step, which evaluates the service's
checks, and *write* steps, one per statement that is not in a transaction with the
one before (`createDealer` writes the user, then the profile; the count of
SuperAdmins is a read of its own). `op[k]` is what operation `k` will write next.
`Abort` is a refusal, a failed statement or a crash between two of them. The rights a
route demands are the guards on who may call it. Where they rest on `protect` alone
(`BySuperAdmin`), the role is that of a record up to 60 s old which a demotion or a
deletion does not clear: `trusted` are those taken for a SuperAdmin, until `Forget`. Deleting a user deletes the profile
(`onDelete: Cascade`).

### Billing

`ensureInvoiceForOrder` is followed from its first read to its last retry: the read
of the order, the search for an invoice, and up to three attempts, each a database
transaction that looks again, takes a number and inserts. The row of the counter is
locked from the increment to the commit, so those are one step; the insertion can
still meet an invoice made since the look, and is then rolled back, number and all. A
payment locks its order's row (`LockOrder`), looks for the invoice, and commits.
`Fail` is any other error of a request or job: a statement, or the time limit of its
transaction. Nobody awaits a delivery's job; its `.catch` logs the error and that is all,
so a job that fails is gone (`lost`), as is one that `Crash` takes with the process.
*Fairness*: a request or job that runs goes on or fails.

### Registration

Every Redis command is a step: the code, the counter of wrong tries and the resend
cooldown are three keys with lives of their own (`ExpireCode`, `ExpireCounter`,
`ExpireCooldown`). Of lifetimes only the order in which they can end is kept. The counter
is given what `TTL` says remains of the code, and Redis rounds that to whole seconds: so
the counter may end in the code's last half second (`LastHalfSecond`, `lasting` "nearly"),
and in that half second the code's life reads 0, for which the code takes a whole one.
Codes are
numbered in the order they are made; a code says for which phone and purpose it was asked.
`Ask`, `CheckCooldown`, `StoreCode`, `Mail` and, when the mail fails, `Clear` are a request
for a code; `Register`, `GetAndCompare`, `ReadTtl`, `Judge`, `CountMiss`, `LimitCounter`,
`UseCode`, `CreateUser`, `CreateProfile` are an attempt to register. `Die` is a process that
stops between two of them. The code sent to the phone (off unless configured) is left out.

### Addresses

A request reads the address, or the count, outside its database transaction
(`CreateAddress`, ... , `DeleteAddress`), finds the rows to change inside it
(`UnsetDefaultAddresses`, `FindNextAddressForDefault`) and commits (`Store`, `Remove`).
The writes are at the commit because a row that is changed stays locked until then and an
UPDATE that waited looks at its row again; a row that became the default after the
statement's snapshot is not found, which is how two defaults come about. The forms send the
default mark they were opened with, so an edit may set or clear it.

### Tabs of a browser

`jar` is the session in the cookies, `shown[t]` the `auth.user` of a tab (unknown, a
user, nobody), `ask[s]` a request under way: a check (`GET /users/me`), of which
`revalidateAuth` has one at a time, or another. A 401 leads through `RefreshRefused` to
`GET /users/me` (another tab may have a new session) and, if that is answered, to the
request once more; else `HandleUnauthorized`. The refresh itself is always refused: section
5. The server appears by what `Sessions` shows of it: while `lag` holds, a record of before
the last update may let an old session in and keep a new one out, and `lag` ends
(`OldSessionsEnd`). What RTK Query does with a query whose state is thrown away is outside
this repository: it may end without data (`EndReset`). *Fairness*: old records expire, a
request goes on and not all answers are lost, events arrive, a page loads, and the customer
comes back to a tab - the one assumption about people, as a tab nobody looks at need not
know. Nothing is assumed of sign-ins, sign-outs and updates.

## 4 Runs

All under 5 minutes with two workers.

| Run | Instance | States | Question |
|---|---|---|---|
| `serial` | 1 variant, 3 orders of up to 2 units, 2 on the shelf, stock edited to 0, order 2 pay-later, 1 handler | 5.7 M | Do the books agree over whole lives of competing orders? Is the queue served? Does each request take effect at one moment? |
| `live` | 2 variants, 2 orders of a unit of each, restock, deletion, 1 handler, fairness | 326 k | Is a captured payment answered? Do several items, a restock or a deletion upset the books? |
| `concurrent` | 1 variant, 2 orders of a unit, 1 on the shelf, order 2 pay-later, 2 handlers (symmetric) | 6.0 M | What survives overlap, and what alone parts the books? |
| `promotion` | 2 variants, 3 orders, every stock, hold, stamp and quantity in range | 1.7 M | Does the loop compute the rule? |
| `checkout` | 2 clicks of 2 tries each, 2 tabs, 2 carts, 1 unit in the cart at first | 3.7 M | Does a click take effect once? |
| `sessions` | 2 requests at once, versions 0 to 2 | 44 k | Do old sessions end? |
| `accounts` | 3 users, 2 operations at once | 2.7 M | Do staff and customers stay apart? |
| `billing` | 2 orders, one on credit, 2 requests or jobs at once, 2 payments | 2.4 M | Is every delivery and payment invoiced, with gapless numbers? |
| `registration` | 2 requests at once, 2 phones, 2 wrong tries allowed, 2 codes, a death (requests and phones symmetric) | 8.0 M | Whose account is it, and how often can a code be guessed? |
| `addresses` | 4 addresses, 2 requests at once | 778 k | Does the default come back? |
| `tabs` | 2 tabs, 3 slots, 2 acts, 1 event under way to a tab | 1.1 M | Do the tabs come to agree with the session? |
| `claim_reserved` | the smallest instance with the counterexample | - | section 5 |

*Bounds of the workflow.* `MaxOrders` and `MaxQty` bound the orders and their units,
`MaxStock` what a restock may reach; nothing else is bounded: queue stamps are bounded
because each order is stamped once, payments because each order begins one only while
it has none. Three orders are the least with which a promotion can pass one over for
another; two units the least that tell "an item" from "a unit", and a partial
quotation from a full one; two variants the least for which a reservation can fail
half-way. With 2 units on the shelf and orders of up to 2, every approval can
succeed, fail for want of one unit, and succeed after a rejection. In `concurrent` two
orders race for the one unit there is. With orders of one unit a promotion cannot hold a
quantity that its order no longer asks for; that takes 18 steps of three requests and an
instance beyond the time for a run, and is covered for every size by
`OnlyDisturbanceParts`. One variant is all a rejection in `serial` has to hand on, and it
stays locked meanwhile: there `ReleasedStockIsOffered` and `ImplementsOrderLife` need
nothing of the queue that the handler does not give (section 6 says what several variants
need). A stop is not
an error (`CHECK_DEADLOCK FALSE`): when every order has reached its end and
nothing can be restocked, the shop is simply done.

*Bounds of the others.* Checkout: two clicks are the least that race each other for
a cart, two tries the least that race for a key, and the client makes no more; two
carts let the second click meet a cart made after a conversion. Sessions: two requests
are a late writer of the record and the update it is late for; three versions let a
record be two versions old. Accounts: an actor, a target and another SuperAdmin, with
two operations that each act on what they read before the other wrote. Billing: two
requests can conflict with each other and with a payment; two payments can both find
none recorded; two orders share the counter. Registration: two requests are the least
that read one code; two tries and two codes let a try meet the next code, and a try be
counted for it. Addresses: two requests race for the mark, and four rows leave one that
neither touches. Tabs: the cookies and what the tabs show at first are arbitrary, so that
whatever many acts can leave behind is a start; two acts more are a session renewed and
ended under the requests of one renewal; a third event under way to a tab would only repeat
one of the two kinds, and what is over the bound is lost, as events may be. Clicks, updates and payments are used up
in the end (`CHECK_DEADLOCK FALSE` where nothing else can happen then); `Billing`
never stops, since a customer can always look, and is checked for deadlock.

*Properties, and what each would catch.*

- `ReservedIsSumOfHolds`: reservedStock is the units of the ACTIVE reservations. A
  hold lost, doubled, left behind, or released at another quantity than it was
  taken - across approval, quotation at a lower quantity, promotion, rejection.
- `SalesIsSumOfConsumed`: sold once, with every quoted unit, on whichever path.
- `HoldsFollowStatus`: AWAITING_PAYMENT means held; PENDING_VERIFICATION and
  WAITLISTED mean nothing held; without a hand-recorded payment, CONFIRMED and
  DELIVERED mean taken from the shelf, QUOTATION_REJECTED means given back.
- `PaidMeansMoney`: no PAID without a recorded payment or a captured session, pay-later
  confirmations and deliveries included.
- `StatusFollowsLifecycle`, `QueuePlaceIsKept`: steps of an order along the table;
  a place in the queue is for good.
- `ReleasedStockIsOffered`: an order a rejection leaves waiting for one of its
  variants would not fit even if those promoted from behind it gave theirs back - judged
  at the commit, though the loop saw the queue and the stock some steps before.
- `LoopComputesRule`, `ReservedForPromoted`: the loop is first come, first served,
  and skipping an order leaves nothing reserved. The rule has exactly one solution.
- `ImplementsStockLedger`: no step, of any handler, changes the three counters in a way
  the ledger forbids: units sold that were not held, held beyond the shelf, or lost.
- `StockCoversReservations`: with any overlap, no more is held than is on the shelf. The
  model has the database's CHECK only where a stock edit meets it, so the property says
  that nothing else ever runs into it. `OrderMirrorsTransaction`: the two status
  columns agree. `QuotedWithinOrdered`: quotations stay within the order.
- `OnlyDisturbedCommitsPart`: with any overlap, books that agree (the counters with the
  reservations, these and the payments with the orders' status) part only by a commit
  whose check or snapshot is no longer true, or that promotes an order which no longer waits
  for what was read. An order placed, a payment recorded, a transaction deleted, stock
  edited meanwhile do no harm, nor does a queue that changes elsewhere.
- `ImplementsOrderLife`: requests of several steps leave what orders
  that change atomically would leave: awaiting payment only when the shelf has room beside
  what the other orders hold; confirmed only if paid for or on credit; what is sold leaves
  the shelf once; what is released is offered to the queue at the same moment. (That an order
  waits although there is room is no violation: an admin may have it wait.)
- `CapturedPaymentIsAnswered`: a payment captured while the quotation stands ends
  in a confirmation, or in someone's closing the quotation.
- `OneOrderPerClickAndCart`, `TwiceOnlyAfterError`: retries do not double an effect. The
  second names the one exception there is: `logCartEvent` fails after the effect is
  stored, the answer is 500, the key is deleted and the client tries again.
- `ConfirmedOrderExists`: "your order was placed" is true, and of the total the click sent. For a
  pickup that was on the page; for a delivery it need not have been (section 5).
- `OldSessionsEnd`: after an update, from some point on no record and no read under way
  lets a session of an older version in, even if every eviction fails.
- `InternalHasNoProfile`, `SupervisorIsInternal`, `BoundaryKept`: checks made on old
  rows still keep dealer prices and pay-later away from staff, and billing rights
  away from customers. They hold because no operation crosses the boundary, so what a
  check saw of it cannot grow old.
- `NumbersAreGapless`: conflicts, retries and roll-backs waste no number and share none.
- `RecordedIsInvoiced`: whichever of delivery, look and payment made the invoice, a
  recorded payment is listed on it and it says PAID.
- `OneRetryIsEnough`: a second conflict cannot happen; the third attempt is spare.
- `AccountFollowsCode`: whatever codes are asked for and expire meanwhile, an account
  has the phone and the kind its code was asked for.
- `GuessesBounded`: with requests that overlap, keys that expire and processes that die,
  the wrong tries a code is compared with are at most `MaxAttempts` for each request that
  may be under way at once, plus `MaxAttempts - 1` for the rounding of the counter's life,
  plus one per death. No smaller bound holds in the run.
- `DefaultIsRestored`, `DefaultStaysOne`, `ChoosingLeavesADefault`: races may leave two
  defaults, but a request that makes one the default, alone, leaves exactly that one;
  alone, no request spoils a single default; and choosing never leaves none.
- `TabsAgree`: once the session has changed for the last time, here or on another device,
  every tab comes to show nobody, or the user of a session that lives.
- `EventsDieOut`: tabs do not answer each other's events with events for ever.
- `DeliveredIsInvoiced`: a delivery is invoiced in the end, unless its job fails (and is
  logged and forgotten) or dies with the process: conflicts and races alone do not lose it.

The properties of `FulfilmentBooks` are those that need no commit to be disturbed;
`serial` checks them where that always holds, `concurrent` those that need nothing,
and with `OnlyDisturbedCommitsPart` that nothing else is needed.
`ImplementsOrderLife` needs a little more, and section 6 says what. That most of them
fail with two handlers is not a weakness of the model: section 5 shows one.

## 5 What the runs found

`claim_reserved` checks a sentence of the repository, and TLC refutes it.

**A quotation is released twice.** Two requests read the same reservation as ACTIVE
before either commits (`transaction.repository.ts:726`) - customer and admin reject the
quotation, or one rejects it while a wait that was accepted earlier is under way -, and
both subtract. The second subtraction eats another order's hold, hidden by `GREATEST(0, ...)`, and an order that awaits
payment is not covered: "Stock is already reserved (set when admin issued the
quotation)." Its confirmation will later fail with 409, or sell a third order's
units.

Also seen while modelling, with no run kept for it:

- A rejection promotes from an old list: `promoteWaitlistedOrders` reads the waiting orders
  without a lock and never looks again. If meanwhile a quotation lowers such an order
  and falls back to the waitlist, the quantity held is not the quantity quoted; a payment
  recorded for it is overwritten by AWAITING_PAYMENT; an order that joins the queue, or a
  restock, is missed. `TakenCurrent` and `QueueStands` name exactly this.
- A delivery is ordered at a total nobody was shown: after the customer confirms,
  `handleInitiateCheckout` fetches the summary again and sends its `finalTotal`
  (`CartSummary.tsx:715`), so the guard of `order.service.ts:694` ("Guard against price drift
  between the checkout summary preview and actual order placement") compares the order
  with a total of the last moment, not with the preview.
- A delivery whose invoice cannot be made stays without one: the error is logged
  (`transaction.service.ts:936`) and nothing tries again until somebody looks or pays.
- Wrong codes beyond the limit: `registerFailedAttempt` gives the counter the code's
  remaining life in whole seconds (`registrationOtp.ts:91`). It may end half a second
  before the code, and further tries are compared with it, even one by one.
- A SuperAdmin who is demoted or deleted goes on being one for up to 60 s wherever a route
  asks `protect` alone: no change of role clears the cached record.

- Paid, and never confirmed: a rejection leaves the Stripe session open; paid afterwards,
  every delivery of the event is refused with 409. `CapturedPaymentIsAnswered` names it
  as the one way out.
- One cart, two orders: `createOrderFromCart` reads the cart outside the transaction that
  converts it, and the conversion does not ask again whether it is ACTIVE. Two tabs, each
  with a key of its own, order the same items.
- Credit marked as paid: a customer who opens the invoice of a pay-later order before the
  delivery's job makes it, or while it is only CONFIRMED, creates one with the default
  status PAID; the job keeps it (`invoice.service.ts:304`, `:446`).
- Two requests that make different addresses the default leave two; so do two first
  addresses. An old form of the former default, saved, takes the mark back.
- A tab whose check is under way when an event tells it of a new session drops the event;
  a sign-in is told to no other tab, as nobody emits `SIGNED_IN`. A sign-out whose request
  fails leaves the cookies, and the next page load shows the user again.
- `recordAdminPayment` sets CONFIRMED from any status but DELIVERED: an order that never
  held stock, or one in a terminal status. With a status read before a delivery it
  even takes a DELIVERED order back to CONFIRMED.
- Two payments of one order both find none recorded; the second waits for the first's
  lock and goes on, updating the invoice the first one made.
- The quotation cap is never the ordered quantity: `createOrder` logs the original items
  with `orderItemId: null`, so `getOriginalOrderQuantityCaps` falls back to the current
  quantities, and a lower quotation that was waitlisted cannot be raised again.
- A deleted transaction keeps its order's hold for ever; a restock promotes nobody.
- The count that protects the last SuperAdmin is taken before the change: two demotions
  at once leave none.
- `upsertDealerProfile` keeps `payLaterEnabled` when a LEGACY dealer is made something
  else; an application that overlaps an approval leaves role and profile out of step.
- The web client's refresh (`src/src/client/app/store/slices/ApiSlice.ts:452`) does not
  send the `x-csrf-token` header its route demands, so it is answered 403 and a session
  ends with its access token, not with its refresh token. Were it sent, the request to
  be repeated would still carry the token the refresh has just replaced.
- A user who changes the password with the old one, just before a reset, is answered with
  tokens of the version after it.

## 6 Proofs

Proved by TLAPS for every value of the constants within the assumptions
`WaitlistAssumption` and `FulfilmentAssumption` (finite variants, positive bounds,
quantities that are naturals), `CheckoutAssumption` (the same of tries, carts and
units), `PayLaterAssumption` (orders on credit are orders), `RegistrationAssumption` (finite
requests, bounds that are naturals) and `AddressesAssumption` (a finite address book).
TLC evaluates them all on the runs. `OneHandler` is a hypothesis of three theorems only, and
of the runs of `SerialFulfilment` (`SerialAssumption`).

| Theorem | States | Argument |
|---|---|---|
| `TypeInvariant` | `[]TypeOK` | inductive by itself. `stock` and `reserved` stay natural since a sale's UPDATE demands the units and a release is clamped. |
| `NoOversell` | `[]StockCoversReservations` | the guarded UPDATE covers an approval, a sale lowers both sides by the same, and a promotion is covered by `HoldsFit`, see *A promotion under way* below. |
| `StatusColumnsAgree` | `[]OrderMirrorsTransaction` | inductive: every commit writes both columns, and a transaction that is gone stays gone. |
| `NeverQuotedBeyondOrder` | `[]QuotedWithinOrdered` | strengthened by `QuoteInv`: the items a request carries once read are also within the order, and its order exists - that is what survives two admins. |
| `WorkflowImplementsLedger` | `ImplementsStockLedger` | step simulation from types and `HoldsFit`: each commit is matched to one action of `StockLedger`, all others leave the counters alone. |
| `OnlyDisturbanceParts` | `OnlyDisturbedCommitsPart` | one lemma per kind of step (`...KeepsBooks`), see *The books* below. |
| `ReservedStockIsHeld`, `SoldOnce`, `StatusTellsReservation`, `NoPaymentWithoutMoney` | four invariants of `serial`, of `UndisturbedSpec`: any number of handlers | the books agree at first, and no step is disturbed. |
| `LifecycleIsFollowed`, `QueueIsFair` | two of its step properties, of `UndisturbedSpec` | the status a commit starts from allows its target. |
| `RejectionServesQueue` | `ReleasedStockIsOffered`, of `UndisturbedSpec` with `[][QueueStands]_vars` | `ServedInv` below: each order passed over did not fit in what those ahead of it had left, which is what the property says without those behind it. |
| `OneHandlerIsUndisturbed` | with one handler `Spec => UndisturbedSpec` | `InFlight` below. |
| `OneHandlerKeepsBooks` | with one handler the seven properties, of `Spec` (the last if `QueueStands`) | the theorems above, together. |
| `CalmImplementsOrderLife` | `ImplementsOrderLife`, of `CalmSpec`: any number of handlers | step simulation from `LifeInv`, see *One moment* below. |
| `OneHandlerImplementsOrderLife` | the same of `Spec`, with one handler, if `QueueStands` and `ShortageStands` | `InFlight` below. |
| `PromotionIsDetermined` | for any queue, quantities, holds and stock exactly one set of orders satisfies `Promoted` | *One answer* below. |
| `LoopImplementsRule`, `NothingLeftReserved` | `LoopComputesRule`, `ReservedForPromoted` | `LoopInv` below. |
| `OneOrderPerClick`, `EffectTwiceOnlyAfterError`, `ConfirmationIsTrue` | the invariants of `checkout` | `CheckoutInv` below. |
| `StaffHaveNoProfile`, `SupervisorsAreStaff`, `NobodyCrosses` | the properties of `accounts` | `AccountsInv`: what an operation under way has decided (`Decided`) fits its user's side of the boundary, or the user is gone. Side and decision can only become void together. |
| `AccountIsOfItsCode` | `AccountFollowsCode` | inductive with what a request carries (`Carries`): past the comparison, a code that was mailed and was asked for with the request's phone; the kind of that code chooses the branch that completes the account. |
| `GuessesStayBounded` | `GuessesBounded` | `GuessInv` below. |
| `GaplessNumbering`, `PaymentsAreInvoiced`, `RetriesSuffice` | the invariants of `billing` | `BillingInv`: with them, a request that has conflicted has an invoice to find (`ConflictInv`), and an invoice found stays (`FoundInv`). |

*The books.* `ReservedIsSumOfHolds`, `SalesIsSumOfConsumed`, `HoldsFollowStatus` and
`PaidMeansMoney` are inductive together, the status telling the reservation, which tells
the branch that moved the units, but only if a commit may trust what its request was
checked against (`Allowed`) and has read of its order (`Current`) and of those it promotes
(`TakenCurrent`). That is `Undisturbed`, a condition on steps, and `OnlyDisturbanceParts` says that nothing else is needed: `BooksAgree /\
Undisturbed /\ [Next]_vars => BooksAgree'`, from an invariant that holds under any
overlap, `BaseInv`: types, the two status columns, what may be asked of which order
(`Asked`), that orders not placed hold nothing, and `GotInv`. So a stale snapshot, as in
the finding, and the stale list of a promotion are the only ways the books part, and a
repair is proved sufficient before it is written: whatever makes a commit undisturbed (the
order's row locked and the transition checked again inside the transaction, the waiting
orders read `FOR UPDATE`) gives the books, the lifecycle and the queue's order back, for
any number of handlers. Serving the queue takes `QueueStands` besides: nobody joins it and
nobody fills or counts the shelf while a rejection goes through it.

*A promotion under way.* What has been taken and is not yet committed is nobody's hold yet,
so three invariants that any overlap keeps must see to it. `GotInv`: only a promotion has
taken orders, and their transactions exist until it ends (they are locked). `LocksApart`: no
variant is locked by two requests. `HoldsFit`: on each variant of an order it has taken, what
is held, less what the rejection gave back, plus all it has taken, is on the shelf - the
guard of each UPDATE made it so, and locked rows stand still. `ServedInv`, which
needs `QueueStands`, is the loop's own invariant: those gone through come before those to
come; whoever was passed over did not fit in what those before him had left; whoever waits
was listed, as he is. When the list is done that is the rule `Promoted` for the queue as it
is at the commit.

*One moment.* The simulation rests on `LifeInv`: `BaseInv`, the books, `QuoteInv`,
`HoldsFit`, `ServedInv`, and
`Stamps` - stamps are given out in order, and whoever waits, holds or may pay has one. The
books are what makes the code's guard on a counter the abstract one on the orders
(`RoomIsFits`): `reserved[v] + n <= stock[v]` says that there is room only because
`reserved` is the sum of the holds, and `Fits` holds of the promoted for the same reason
(`HeldWithout`). One lemma per action (`LifeQuote`, `LifeReject`, ...) does the rest. The
hypothesis, `Calm`, has three parts more than the books need. `UndisturbedPayment`: an order
is neither delivered nor paid between the check of a payment by hand and its commit.
`QueueStands`, as above. `ShortageStands`: an order that falls back to the waitlist would
still not fit when that is committed. With one handler the first holds, and the other two say
only that no stock is filled or counted in the middle of such a request.

*One answer.* That the rule has an answer is an induction on the length of the queue, put
as the absence of a shortest one without: its first order is promoted if it fits and
skipped if not, and an answer of the rest becomes one of the whole (`PromotionFirst`,
`PromotionSkipped`). That it has one only is another: of two answers, the first order on
which they differ (`FirstInQueue`) has the same ahead of it in both, so it fits in both or
in neither (`PromotionUnique`). This matters to the abstract specification: `OrderLife!Reject`
takes a set the rule allows, and would be an order that silently cannot be rejected if there
were none, and a choice the code does not have if there were several.

*`InFlight`* is the invariant that one handler keeps: a request that was checked is still
allowed by the order's status; one that has read still agrees with status, reservation,
queue place and (unless it brings its own) quantities and payment; the orders a promotion
has taken or is yet to look at still wait for what was listed; one that pays would find the
order as it was. It makes every step `Undisturbed` and `UndisturbedPayment`, and it is
precisely what overlapping requests break.

*`BookInv`* (of `Addresses`) has two parts besides types. `Seen`: a request that no other
overtook would find again what it has found, which gives `DefaultIsRestored` and
`DefaultStaysOne`. `Own`, which overtaking does not break: the address a request creates
is nobody else's, and it unsets nothing unless it was asked for the default; from it alone
`ChoosingLeavesADefault` follows.

*`LoopInv`.* A loop invariant over the orders already taken: they come before the
others in the queue (`InOrder`); the hold is the opening one plus the promoted orders
plus the items reserved so far of the current one (`Accounted`, `GotFits`); each order
skipped did not fit what was left to it (`SkippedDidNotFit`). When none is left that is
the rule. That the rule has one solution needs no induction of its own: `RuleAgrees`, part of
the invariant, says that any solution agrees with the loop on the orders handled.

*`CheckoutInv`.* A try past the guard owns its click's key (`KeyInv`), so no two tries
of a click run at once. After an effect not answered with an error the key stays
until nothing of the click can reach the server (`StoredInv`). An order's cart is
CONVERTED, and no try of the same click still works on it (`OrderInv`).

*`GuessInv`.* The counter of failed attempts may start again under a living code, but
only if it was given the life of an older one, or, once, when its own code is in its last
half second. Every request that holds an older life
(`Stale`), a counter that has one, and the rounding while it may still strike (`Life`) is a
debt of `MaxAttempts - 1` guesses; a living
code gets no new debts, and a restart of the counter pays one. So `GuessesPaidFor`:
guesses made and debts together are at most what the requests at the code's birth could
owe, what the counter shows, the guesses not counted yet (`Pending`) and the deaths. The
bound follows since no more requests are stale or pending than there are.

*Counting.* `Units(S, q, v)` is the cardinality of a set of pairs
`<<order, unit number>>`, so sums over sets of orders need neither recursion nor
induction: `UnitsUnion`, `UnitsOne`, `UnitsSame` follow from the library's theorems
about finite sets, and every change of the books is one of these.

*Only model-checked*: the liveness properties (`CapturedPaymentIsAnswered`,
`OldSessionsEnd`, `DeliveredIsInvoiced`, `TabsAgree`, `EventsDieOut`), as TLAPS does not
reason about fairness and ENABLED here; and the counterexample. Every other
property the runs check is a theorem.

## 7 What is not modelled

- *Refresh rotation* and its blacklist: the client's refresh is refused before it gets
  there (section 5), and a refresh compares with the database and gives a token of the
  version it was shown, which is why `Sessions` can leave it out. The race of two
  refreshes is listed as a hazard.
- *The CSRF token of the client* and the cart action kept over a sign-in.
- *The dealer's ledger*: no code writes a debit, so the balance is always 0. The audit
  log, which nothing reads back.
- *`mergeCarts` and session carts*: no caller.
- *The mock payment switch* of `acceptQuotationForOrder` (development: it confirms
  without money, so `PaidMeansMoney` speaks of the switch being off), deletion of
  `Payment` rows, the older `PaymentService` (its order status is not in the schema).
- *Prices and tax*: floating point without shared state. E-mails and PDF files.
- *Catalogue, what an address says, analytics, reports, logs, pages*: storage and display.
  *Workers*: nightly
  purges; the one of orders asks for orders without a `Payment` row, which all have.
- *The change of year* of invoice numbers, which starts another counter row.
- *Interleavings of single SQL statements inside a commit*: section 3 says why these add
  no outcomes for the rows guarded in the UPDATE. The queries of one read (an order, then
  its items) are one step too, and so is the reservation of one order's items; rows that a
  partial reservation wrote and undid stay locked in the database and are left open in the
  model, which lets more happen.

## 8 Plan

Done: section 2. What could follow, in this order:

1. A year's end in `Billing`.
2. Refresh rotation, once the client sends the header its route asks for.

## 9 Running it

    tlc -workers 2 -config FulfilmentSerial.cfg SerialFulfilment.tla
    tlapm OrderFulfilmentProofs.tla

`PROJECT.json` lists the module, configuration and properties of every run, the
source lines of every definition, the findings, the hazards and the theorems.
