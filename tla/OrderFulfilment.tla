-------------------------- MODULE OrderFulfilment --------------------------
(***************************************************************************)
(* The life of an order of the shop: placed, verified against the stock,    *)
(* quoted or waitlisted, accepted and paid or rejected, delivered; and the  *)
(* stock it holds meanwhile.                                                *)
(*                                                                          *)
(* A status change is a REQUEST and takes several steps, because the code    *)
(* does and lets other requests in between:                                 *)
(*                                                                          *)
(*   "checked"    TransactionService.updateTransactionStatus has read the   *)
(*                transaction outside any database transaction and accepted *)
(*                the requested status;                                     *)
(*   "read"       TransactionRepository.updateTransaction has opened its    *)
(*                database transaction, read the order (getOrderSnapshot)   *)
(*                and checked the quoted lines;                             *)
(*   "short"      an approval has found too little free stock;              *)
(*   "promoting"  a rejection has released its stock, read the waiting      *)
(*                orders, and takes them one after the other;               *)
(*   (commit)     what was written, from what was read, is seen by others.  *)
(*                                                                          *)
(* A row that is written stays locked until the database transaction ends,  *)
(* and a statement that writes it waits; so the writes of a commit are one  *)
(* step, and what a promotion has locked is told by LockedOrders and        *)
(* LockedVariants.  Reads lock nothing (Read Committed, no SELECT FOR        *)
(* UPDATE here), nor does an UPDATE whose condition fails: what they found  *)
(* need not be so at the commit.                                            *)
(* Prices, e-mails, logs and the invoice of a delivery are left out.        *)
(***************************************************************************)
EXTENDS Waitlist

CONSTANTS
    MaxStock,       \* bound: units Restock may bring a variant to
    InitialStock,   \* stock of every variant at the start
    RestockSizes,   \* quantities a restock may add
    EditableStock,  \* absolute quantities the admin's edit form may store
    PayLaterOrders, \* orders whose dealer had payLaterEnabled (Order.isPayLater)
    Deletable,      \* orders whose transaction an admin may delete
    Requests        \* request handlers that may be in flight at once

ASSUME FulfilmentAssumption ==
    /\ MaxStock \in Nat
    /\ InitialStock \in Nat
    /\ RestockSizes \subseteq Nat \ {0}
    /\ EditableStock \subseteq Nat
    /\ PayLaterOrders \subseteq Orders
    /\ Deletable \subseteq Orders

-----------------------------------------------------------------------------
(* orderLifecycle.ts                                                        *)

OrderLifecycleStatus ==
    {"PENDING_VERIFICATION", "WAITLISTED", "AWAITING_PAYMENT", "CONFIRMED",
     "DELIVERED", "QUOTATION_REJECTED"}

\* QUOTATION_EXPIRED, which no request can ask for any more, is left out.
Transitions == [s \in OrderLifecycleStatus |->
    CASE s = "PENDING_VERIFICATION" -> {"AWAITING_PAYMENT", "WAITLISTED"}
      [] s = "WAITLISTED"           -> {"AWAITING_PAYMENT"}
      [] s = "AWAITING_PAYMENT"     -> {"CONFIRMED", "QUOTATION_REJECTED"}
      [] s = "CONFIRMED"            -> {"DELIVERED"}
      [] OTHER                      -> {}]

Terminal == {"DELIVERED", "QUOTATION_REJECTED"}

RowStatus == OrderLifecycleStatus \cup {"NONE"}     \* NONE: no such row
ReservationStatus == {"NONE", "ACTIVE", "RELEASED", "CONSUMED"}
PaymentStatus == {"NONE", "PENDING", "PAID", "CANCELED"}

\* Mutant: the released quantity is not clamped at what is reserved.
MonusUnclamped(a, b) == a - b

Monus(a, b) == IF b <= a THEN a - b ELSE 0          \* GREATEST(0, a - b)

-----------------------------------------------------------------------------
VARIABLES
    \* ProductVariant and Product
    stock,      \* stock[v]: units on the shelf, held or not
    reserved,   \* reserved[v]: reservedStock, units of them held for orders
    sales,      \* sales[v]: the part of its product's salesCount v sold
    \* Order, OrderItem, OrderReservation, Payment, OrderQuotationLog
    status,     \* status[o]: Order.status
    txn,        \* txn[o]: Transaction.status of the order's transaction
    resv,       \* resv[o]: OrderReservation.status
    payment,    \* payment[o]: status of the legacy Payment row
    qty,        \* qty[o][v]: the order items' quantities, as quoted
    ordered,    \* ordered[o][v]: the quantities first ordered (ORIGINAL_ORDER log)
    queuedAt,   \* queuedAt[o]: Order.verificationQueuedAt, 0 when null
    paidTxns,   \* paidTxns[o]: CONFIRMED PaymentTransaction rows
    \* time of day, the requests in flight, and the payment provider
    clock,      \* last verificationQueuedAt stamp given out
    req,        \* req[r]: what request handler r is doing
    checkout    \* checkout[o]: the order's Stripe sessions (external)

stockVars == <<stock, reserved, sales>>
orderVars == <<status, txn, resv, payment, qty, queuedAt, clock>>
vars == <<stock, reserved, sales, status, txn, resv, payment, qty, ordered,
          queuedAt, paidTxns, clock, req, checkout>>

Request == [pc       : {"idle", "checked", "read", "short", "promoting", "paying"},
            order    : Orders,
            target   : OrderLifecycleStatus,
            quoted   : BOOLEAN,             \* carries quotation items
            items    : Quantities,          \* quoted, then the order's
            status   : RowStatus,           \* the order as last read
            resv     : ReservationStatus,
            payment  : PaymentStatus,
            queuedAt : Nat,
            \* a promotion: the waiting orders as read, those not yet looked at,
            \* and those it has taken
            listed   : [Orders -> Quantities],
            places   : [Orders -> Nat],
            todo     : SUBSET Orders,
            got      : SUBSET Orders]

Idle == [pc |-> "idle", order |-> 1, target |-> "PENDING_VERIFICATION",
         quoted |-> FALSE, items |-> NoItems, status |-> "NONE",
         resv |-> "NONE", payment |-> "NONE", queuedAt |-> 0,
         listed |-> [o \in Orders |-> NoItems], places |-> [o \in Orders |-> 0],
         todo |-> {}, got |-> {}]

Init ==
    /\ stock = [v \in Variants |-> InitialStock]
    /\ reserved = [v \in Variants |-> 0]
    /\ sales = [v \in Variants |-> 0]
    /\ status = [o \in Orders |-> "NONE"]
    /\ txn = [o \in Orders |-> "NONE"]
    /\ resv = [o \in Orders |-> "NONE"]
    /\ payment = [o \in Orders |-> "NONE"]
    /\ qty = [o \in Orders |-> NoItems]
    /\ ordered = [o \in Orders |-> NoItems]
    /\ queuedAt = [o \in Orders |-> 0]
    /\ paidTxns = [o \in Orders |-> 0]
    /\ clock = 0
    /\ req = [r \in Requests |-> Idle]
    /\ checkout = [o \in Orders |-> "NONE"]

-----------------------------------------------------------------------------
(* Placing an order.  createOrder checks no stock and holds none.           *)

PlaceOrder(o, q) ==
    /\ status[o] = "NONE"
    /\ \A p \in Orders : p < o => status[p] # "NONE"
    /\ Items(q) # {}
    /\ status' = [status EXCEPT ![o] = "PENDING_VERIFICATION"]
    /\ txn' = [txn EXCEPT ![o] = "PENDING_VERIFICATION"]
    /\ payment' = [payment EXCEPT ![o] = "PENDING"]
    /\ qty' = [qty EXCEPT ![o] = q]
    /\ ordered' = [ordered EXCEPT ![o] = q]
    /\ UNCHANGED <<stockVars, resv, queuedAt, clock, paidTxns, req, checkout>>

-----------------------------------------------------------------------------
(* Requests for a new status: the checks of updateTransactionStatus, on the *)
(* transaction as it is now.  A refused request never starts.               *)

Check(r, o, target, quoted, items) ==
    /\ req[r].pc = "idle"
    /\ txn[o] # "NONE"
    /\ req' = [req EXCEPT ![r] = [Idle EXCEPT !.pc = "checked", !.order = o,
                                  !.target = target, !.quoted = quoted,
                                  !.items = items]]
    /\ UNCHANGED <<stockVars, orderVars, ordered, paidTxns, checkout>>

\* Mutant: a pay-later order may be delivered from any status.
TransitionAllowedAnywhere(o, target) ==
    \/ txn[o] # "NONE" /\ target \in Transitions[txn[o]]
    \/ o \in PayLaterOrders /\ target = "DELIVERED"

\* assertValidStatusTransition; delivery of a pay-later quotation skips
\* confirmation.
TransitionAllowed(o, target) ==
    \/ txn[o] # "NONE" /\ target \in Transitions[txn[o]]
    \/ o \in PayLaterOrders /\ txn[o] = "AWAITING_PAYMENT" /\ target = "DELIVERED"

\* An admin sets a status; only pay-later orders may be confirmed by hand.
AdminSetStatus(r, o, target) ==
    /\ TransitionAllowed(o, target)
    /\ target = "CONFIRMED" => o \in PayLaterOrders
    /\ Check(r, o, target, FALSE, NoItems)

\* An admin revises quantities and sends the quotation.
IssueQuotation(r, o, q) ==
    /\ txn[o] \in {"PENDING_VERIFICATION", "WAITLISTED"}
    /\ Items(q) # {}
    /\ Check(r, o, "AWAITING_PAYMENT", TRUE, q)

\* A pay-later dealer accepts the quotation: confirmed with no payment.
AcceptPayLater(r, o) ==
    /\ txn[o] = "AWAITING_PAYMENT" /\ o \in PayLaterOrders
    /\ Check(r, o, "CONFIRMED", FALSE, NoItems)

RejectQuotation(r, o) ==
    /\ txn[o] = "AWAITING_PAYMENT"
    /\ Check(r, o, "QUOTATION_REJECTED", FALSE, NoItems)

\* Any other customer accepts by opening a Stripe checkout session.
OpenCheckout(o) ==
    /\ txn[o] = "AWAITING_PAYMENT" /\ o \notin PayLaterOrders
    /\ checkout[o] = "NONE"
    /\ checkout' = [checkout EXCEPT ![o] = "OPEN"]
    /\ UNCHANGED <<stockVars, orderVars, ordered, paidTxns, req>>

\* Stripe captures the money.  Nothing in the code expires a session.
CustomerPays(o) ==
    /\ checkout[o] = "OPEN"
    /\ checkout' = [checkout EXCEPT ![o] = "CAPTURED"]
    /\ UNCHANGED <<stockVars, orderVars, ordered, paidTxns, req>>

\* Stripe's completion event, delivered once or again.  An order already
\* CONFIRMED or DELIVERED is left alone; any other status is refused.
StripeWebhook(r, o) ==
    /\ checkout[o] = "CAPTURED"
    /\ txn[o] = "AWAITING_PAYMENT"
    /\ Check(r, o, "CONFIRMED", FALSE, NoItems)

-----------------------------------------------------------------------------
(* updateTransaction opens its database transaction and reads the order.    *)

\* Mutant: a quotation may raise a quantity.
QuotationAllowedAbove(o, q) ==
    /\ Items(q) = Items(qty[o])
    /\ \A v \in Items(q) : q[v] + reserved[v] <= stock[v]

\* applyQuotationAdjustments: every item once, no more than the order has and
\* no more than is free at this moment.  The cap is meant to be the quantity
\* first ordered, but that log entry names no order item (createOrder), so
\* getOriginalOrderQuantityCaps falls back to the current quantities.
QuotationAllowed(o, q) ==
    /\ Items(q) = Items(qty[o])
    /\ \A v \in Items(q) : q[v] <= qty[o][v] /\ q[v] + reserved[v] <= stock[v]

TxRead(r) ==
    LET o == req[r].order
        quoted == req[r].quoted IN
    /\ req[r].pc = "checked"
    /\ txn[o] # "NONE"
    /\ quoted => QuotationAllowed(o, req[r].items)
    /\ req' = [req EXCEPT ![r] =
         [req[r] EXCEPT !.pc = "read",
                        !.items = IF quoted THEN req[r].items ELSE qty[o],
                        !.status = status[o],
                        !.resv = resv[o],
                        !.payment = IF quoted THEN "PENDING" ELSE payment[o],
                        !.queuedAt = queuedAt[o]]]
    /\ UNCHANGED <<stockVars, orderVars, ordered, paidTxns, checkout>>

-----------------------------------------------------------------------------
(* Rows that are written and not yet committed: the order of a rejection,    *)
(* what it has released and what it has promoted, and an order just quoted.  *)
(* (Rows that a partial reservation wrote and undid stay locked too; they are *)
(* left open here, which only lets more happen.)                            *)

LockedOrders(r) ==
    IF req[r].pc = "promoting" \/ (req[r].pc = "short" /\ req[r].quoted)
    THEN {req[r].order} \cup req[r].got ELSE {}

LockedVariants(r) ==
    IF req[r].pc = "promoting"
    THEN {v \in Variants : \/ req[r].resv = "ACTIVE" /\ req[r].items[v] > 0
                           \/ \E w \in req[r].got : req[r].listed[w][v] > 0}
    ELSE {}

\* r need not wait for another request to write these orders and variants.
Unlocked(r, S, V) ==
    \A s \in Requests \ {r} : LockedOrders(s) \cap S = {} /\ LockedVariants(s) \cap V = {}

-----------------------------------------------------------------------------
(* The commits.  Every one ends in transaction.update, which throws when the *)
(* row was deleted meanwhile.  Done is the outcome for order req[r].order.  *)

Committing(r, at, target) ==
    /\ req[r].pc = at
    /\ req[r].target = target
    /\ txn[req[r].order] # "NONE"
    /\ Unlocked(r, {req[r].order}, {})
    /\ req' = [req EXCEPT ![r] = Idle]
    /\ UNCHANGED <<ordered, paidTxns, checkout>>

\* Mutant: the transaction keeps its old status.
SetStatusOrderOnly(o, s) ==
    /\ status' = [status EXCEPT ![o] = s]
    /\ UNCHANGED txn

SetStatus(o, s) ==
    /\ status' = [status EXCEPT ![o] = s]
    /\ txn' = [txn EXCEPT ![o] = s]

\* Mutant: every approval and every wait stamps the order anew.
StampQueueAgain(r) ==
    /\ queuedAt' = [queuedAt EXCEPT ![req[r].order] = clock + 1]
    /\ clock' = clock + 1

\* verificationQueuedAt: order.verificationQueuedAt || now, of the snapshot.
StampQueue(r) ==
    LET o == req[r].order
        fresh == req[r].queuedAt = 0 IN
    /\ queuedAt' = [queuedAt EXCEPT ![o] = IF fresh THEN clock + 1
                                                     ELSE req[r].queuedAt]
    /\ clock' = IF fresh THEN clock + 1 ELSE clock

\* Mutant: the stock is compared, not the stock that is free.
FitsShelf(q) == \A v \in Items(q) : q[v] <= stock[v]

\* reserveStockForOrder: all of the items or, after undoing, none.
Fits(q) == \A v \in Items(q) : reserved[v] + q[v] <= stock[v]

Held(q) == [v \in Variants |-> reserved[v] + q[v]]

\* Mutant: one unit is released for each item.
ReleasedOneEach(q) ==
    [v \in Variants |-> IF q[v] = 0 THEN reserved[v] ELSE Monus(reserved[v], 1)]

\* Mutant: the release stops after one of the items.
ReleasedOneItem(q) ==
    [v \in Variants |-> IF v = (CHOOSE x \in Items(q) : TRUE)
                        THEN Monus(reserved[v], q[v]) ELSE reserved[v]]

Released(q) == [v \in Variants |-> Monus(reserved[v], q[v])]

CommitApprove(r) ==
    LET o == req[r].order IN
    /\ Committing(r, "read", "AWAITING_PAYMENT")
    /\ Fits(req[r].items)
    /\ Unlocked(r, {}, Items(req[r].items))
    /\ reserved' = Held(req[r].items)
    /\ resv' = [resv EXCEPT ![o] = "ACTIVE"]
    /\ payment' = [payment EXCEPT ![o] = "PENDING"]
    /\ qty' = [qty EXCEPT ![o] = IF req[r].quoted THEN req[r].items ELSE @]
    /\ SetStatus(o, "AWAITING_PAYMENT")
    /\ StampQueue(r)
    /\ UNCHANGED <<stock, sales>>

\* Not enough free stock.
FallShort(r) ==
    /\ req[r].pc = "read" /\ req[r].target = "AWAITING_PAYMENT"
    /\ ~Fits(req[r].items)
    /\ req[r].quoted => Unlocked(r, {req[r].order}, {})
    /\ req' = [req EXCEPT ![r] = [req[r] EXCEPT !.pc = "short"]]
    /\ UNCHANGED <<stockVars, orderVars, ordered, paidTxns, checkout>>

\* The order is waitlisted instead, its quoted quantities kept.
CommitFallback(r) ==
    LET o == req[r].order IN
    /\ Committing(r, "short", "AWAITING_PAYMENT")
    /\ payment' = [payment EXCEPT ![o] = IF req[r].quoted THEN "PENDING" ELSE @]
    /\ qty' = [qty EXCEPT ![o] = IF req[r].quoted THEN req[r].items ELSE @]
    /\ SetStatus(o, "WAITLISTED")
    /\ StampQueue(r)
    /\ UNCHANGED <<stockVars, resv>>

CommitWaitlist(r) ==
    LET o == req[r].order
        holding == req[r].resv = "ACTIVE" IN
    /\ Committing(r, "read", "WAITLISTED")
    /\ holding => Unlocked(r, {}, Items(req[r].items))
    /\ reserved' = IF holding THEN Released(req[r].items) ELSE reserved
    /\ resv' = [resv EXCEPT ![o] = IF holding THEN "RELEASED" ELSE @]
    /\ SetStatus(o, "WAITLISTED")
    /\ StampQueue(r)
    /\ UNCHANGED <<stock, sales, payment, qty>>

\* Orders the promotion after a release of o's items looks at.
Waiting(o, items) ==
    {w \in Orders \ {o} : /\ status[w] = "WAITLISTED" /\ txn[w] # "NONE"
                          /\ Items(qty[w]) \cap Items(items) # {}}

WaitingFor(r) == Waiting(req[r].order, req[r].items)

\* The rejected order is written, its stock released; the findMany of
\* promoteWaitlistedOrders reads the waiting orders and locks none.
ListWaiting(r) ==
    LET W == WaitingFor(r) IN
    /\ req[r].pc = "read" /\ req[r].target = "QUOTATION_REJECTED"
    /\ Unlocked(r, {req[r].order}, IF req[r].resv = "ACTIVE" THEN Items(req[r].items) ELSE {})
    /\ req' = [req EXCEPT ![r] =
         [req[r] EXCEPT !.pc = "promoting",
                        !.listed = [w \in Orders |-> IF w \in W THEN qty[w] ELSE NoItems],
                        !.places = [w \in Orders |-> IF w \in W THEN queuedAt[w] ELSE 0],
                        !.todo = W]]
    /\ UNCHANGED <<stockVars, orderVars, ordered, paidTxns, checkout>>

\* reservedStock as r sees it: what it has released and taken included.
AfterRelease(r) == IF req[r].resv = "ACTIVE" THEN Released(req[r].items) ELSE reserved
Taken(r) ==
    [v \in Variants |-> AfterRelease(r)[v] + Units(req[r].got, req[r].listed, v)]

\* Mutant: the newest waiting order is served first.
TurnOfNewest(r, w) ==
    /\ req[r].pc = "promoting"
    /\ w \in req[r].todo /\ \A p \in req[r].todo : ~Ahead(req[r].places, w, p)

\* The promotion has come to w.
TurnOf(r, w) ==
    /\ req[r].pc = "promoting"
    /\ w \in req[r].todo /\ \A p \in req[r].todo : ~Ahead(req[r].places, p, w)

\* Mutant: what was taken for the others is not counted.
StillFitsAlone(r, w) ==
    \A v \in Items(req[r].listed[w]) : AfterRelease(r)[v] + req[r].listed[w][v] <= stock[v]

StillFits(r, w) ==
    \A v \in Items(req[r].listed[w]) : Taken(r)[v] + req[r].listed[w][v] <= stock[v]

\* What w asked for when it was read is held for it; whether it still waits is
\* not looked at again.  A transaction deleted meanwhile aborts the rejection.
PromoteNext(r) ==
    \E w \in Orders :
      /\ TurnOf(r, w) /\ StillFits(r, w)
      /\ txn[w] # "NONE"
      /\ Unlocked(r, {w}, Items(req[r].listed[w]))
      /\ req' = [req EXCEPT ![r] = [req[r] EXCEPT !.todo = @ \ {w}, !.got = @ \cup {w}]]
      /\ UNCHANGED <<stockVars, orderVars, ordered, paidTxns, checkout>>

PassNext(r) ==
    \E w \in Orders :
      /\ TurnOf(r, w) /\ ~StillFits(r, w)
      /\ req' = [req EXCEPT ![r] = [req[r] EXCEPT !.todo = @ \ {w}]]
      /\ UNCHANGED <<stockVars, orderVars, ordered, paidTxns, checkout>>

CommitReject(r) ==
    LET o == req[r].order
        P == req[r].got IN
    /\ Committing(r, "promoting", "QUOTATION_REJECTED")
    /\ req[r].todo = {}
    /\ reserved' = Taken(r)
    /\ resv' = [p \in Orders |->
         IF p \in P THEN "ACTIVE"
         ELSE IF p = o /\ req[r].resv # "NONE" THEN "RELEASED" ELSE resv[p]]
    /\ payment' = [p \in Orders |->
         IF p \in P THEN "PENDING" ELSE IF p = o THEN "CANCELED" ELSE payment[p]]
    /\ status' = [p \in Orders |->
         IF p \in P THEN "AWAITING_PAYMENT"
         ELSE IF p = o THEN "QUOTATION_REJECTED" ELSE status[p]]
    /\ txn' = [p \in Orders |->
         IF p \in P THEN "AWAITING_PAYMENT"
         ELSE IF p = o THEN "QUOTATION_REJECTED" ELSE txn[p]]
    /\ UNCHANGED <<stock, sales, qty, queuedAt, clock>>

\* Mutant: the last unit on the shelf cannot be sold.
ConsumableStrict(q) == \A v \in Items(q) : q[v] < stock[v] /\ q[v] <= reserved[v]

Consumable(q) == \A v \in Items(q) : q[v] <= stock[v] /\ q[v] <= reserved[v]

\* Mutant: the sale is counted per item, not per unit.
ConsumeCountsItems(r) ==
    LET q == req[r].items IN
    /\ req[r].resv = "ACTIVE"
    /\ Consumable(q)
    /\ Unlocked(r, {}, Items(q))
    /\ stock' = [v \in Variants |-> stock[v] - q[v]]
    /\ reserved' = [v \in Variants |-> reserved[v] - q[v]]
    /\ sales' = [v \in Variants |-> IF q[v] = 0 THEN sales[v] ELSE sales[v] + 1]
    /\ resv' = [resv EXCEPT ![req[r].order] = "CONSUMED"]

\* finalizePaidOrder and finalizePayLaterOrder: the units leave the shelf.
Consume(r) ==
    LET q == req[r].items IN
    /\ req[r].resv = "ACTIVE"
    /\ Consumable(q)
    /\ Unlocked(r, {}, Items(q))
    /\ stock' = [v \in Variants |-> stock[v] - q[v]]
    /\ reserved' = [v \in Variants |-> reserved[v] - q[v]]
    /\ sales' = [v \in Variants |-> sales[v] + q[v]]
    /\ resv' = [resv EXCEPT ![req[r].order] = "CONSUMED"]

\* Mutant: a pay-later confirmation marks the payment paid.
ConfirmedPaymentPaid(r) == "PAID"

ConfirmedPayment(r) ==
    IF req[r].order \in PayLaterOrders /\ req[r].payment # "PAID"
    THEN "PENDING" ELSE "PAID"

CommitConfirm(r) ==
    LET o == req[r].order IN
    /\ Committing(r, "read", "CONFIRMED")
    /\ Consume(r)
    /\ payment' = [payment EXCEPT ![o] = ConfirmedPayment(r)]
    /\ SetStatus(o, "CONFIRMED")
    /\ UNCHANGED <<qty, queuedAt, clock>>

\* Mutant: delivery of a pay-later quotation leaves its stock on the shelf.
CommitDeliverUnsold(r) ==
    /\ Committing(r, "read", "DELIVERED")
    /\ SetStatus(req[r].order, "DELIVERED")
    /\ UNCHANGED <<stockVars, resv, payment, qty, queuedAt, clock>>

\* Delivery takes the stock of a pay-later order that still holds it.
CommitDeliver(r) ==
    LET o == req[r].order IN
    /\ Committing(r, "read", "DELIVERED")
    /\ \/ o \in PayLaterOrders /\ Consume(r)
       \/ /\ o \in PayLaterOrders => req[r].resv # "ACTIVE" /\ req[r].status # "AWAITING_PAYMENT"
          /\ UNCHANGED <<stockVars, resv>>
    /\ SetStatus(o, "DELIVERED")
    /\ UNCHANGED <<payment, qty, queuedAt, clock>>

\* A request ends without effect: an error answer (4xx; the database
\* transaction rolls back), a deadlock or time-out in it, or a crash.
Abandon(r) ==
    /\ req[r].pc # "idle"
    /\ req' = [req EXCEPT ![r] = Idle]
    /\ UNCHANGED <<stockVars, orderVars, ordered, paidTxns, checkout>>

-----------------------------------------------------------------------------
(* ComprehensivePaymentService.recordAdminPayment and processGatewayPayment:*)
(* a payment is recorded against an order of any status.  Both refuse an    *)
(* order that has a CONFIRMED PaymentTransaction, then write from what they *)
(* read; the order ends CONFIRMED, or DELIVERED when it was.                *)

BeginPayment(r, o) ==
    /\ req[r].pc = "idle"
    /\ status[o] # "NONE"
    /\ paidTxns[o] = 0
    /\ req' = [req EXCEPT ![r] = [Idle EXCEPT !.pc = "paying", !.order = o,
                                              !.status = status[o]]]
    /\ UNCHANGED <<stockVars, orderVars, ordered, paidTxns, checkout>>

CommitPayment(r) ==
    LET o == req[r].order
        next == IF req[r].status = "DELIVERED" THEN "DELIVERED" ELSE "CONFIRMED" IN
    /\ req[r].pc = "paying"
    /\ Unlocked(r, {o}, {})
    /\ paidTxns' = [paidTxns EXCEPT ![o] = @ + 1]
    /\ status' = [status EXCEPT ![o] = next]
    /\ txn' = [txn EXCEPT ![o] = IF @ = "NONE" THEN @ ELSE next]
    /\ payment' = [payment EXCEPT ![o] = "PAID"]
    /\ req' = [req EXCEPT ![r] = Idle]
    /\ UNCHANGED <<stockVars, resv, qty, queuedAt, clock, ordered, checkout>>

-----------------------------------------------------------------------------
(* Operations of one statement.                                             *)

\* TransactionService.deleteTransaction: the row goes, the order stays.
DeleteTransaction(o) ==
    /\ txn[o] # "NONE"
    /\ \A r \in Requests : o \notin req[r].got
    /\ txn' = [txn EXCEPT ![o] = "NONE"]
    /\ UNCHANGED <<stockVars, status, resv, payment, qty, queuedAt, clock,
                   ordered, paidTxns, req, checkout>>

\* VariantService.restockVariant adds to the stock; it promotes nobody.
Restock(v, n) ==
    /\ stock[v] + n <= MaxStock
    /\ \A r \in Requests : v \notin LockedVariants(r)
    /\ stock' = [stock EXCEPT ![v] = @ + n]
    /\ UNCHANGED <<reserved, sales, orderVars, ordered, paidTxns, req, checkout>>

\* The catalogue's edit forms store an absolute stock.  The database refuses
\* less than what is held (CHECK "reservedStock" <= "stock").
EditStock(v, n) ==
    /\ n # stock[v]
    /\ reserved[v] <= n
    /\ \A r \in Requests : v \notin LockedVariants(r)
    /\ stock' = [stock EXCEPT ![v] = n]
    /\ UNCHANGED <<reserved, sales, orderVars, ordered, paidTxns, req, checkout>>

-----------------------------------------------------------------------------
CommitStatus(r) ==
    \/ CommitApprove(r)
    \/ CommitFallback(r)
    \/ CommitWaitlist(r)
    \/ CommitReject(r)
    \/ CommitConfirm(r)
    \/ CommitDeliver(r)

Next ==
    \/ \E o \in Orders, q \in Quantities : PlaceOrder(o, q)
    \/ \E r \in Requests, o \in Orders :
         \/ \E t \in OrderLifecycleStatus : AdminSetStatus(r, o, t)
         \/ \E q \in Quantities : IssueQuotation(r, o, q)
         \/ AcceptPayLater(r, o)
         \/ RejectQuotation(r, o)
         \/ StripeWebhook(r, o)
         \/ BeginPayment(r, o)
    \/ \E r \in Requests :
         \/ TxRead(r)
         \/ FallShort(r)
         \/ ListWaiting(r) \/ PromoteNext(r) \/ PassNext(r)
         \/ CommitStatus(r)
         \/ CommitPayment(r)
         \/ Abandon(r)
    \/ \E o \in Orders : OpenCheckout(o) \/ CustomerPays(o)
    \/ \E o \in Deletable : DeleteTransaction(o)
    \/ \E v \in Variants :
         \/ \E n \in RestockSizes : Restock(v, n)
         \/ \E n \in EditableStock : EditStock(v, n)

Spec == Init /\ [][Next]_vars

\* Every request ends (updateTransaction has a time-out).  Stripe delivers a
\* completion event again until it is answered 2xx, and the errors that abort
\* the request it starts are transient.
FairSpec ==
    /\ Spec
    /\ \A r \in Requests :
         WF_vars(\/ TxRead(r) \/ FallShort(r)
                 \/ ListWaiting(r) \/ PromoteNext(r) \/ PassNext(r)
                 \/ CommitStatus(r) \/ CommitPayment(r) \/ Abandon(r))
    /\ \A r \in Requests, o \in Orders :
         /\ SF_vars(StripeWebhook(r, o))
         /\ SF_vars(TxRead(r) /\ req[r].order = o /\ req[r].target = "CONFIRMED")
         /\ SF_vars(CommitConfirm(r) /\ req[r].order = o)

-----------------------------------------------------------------------------
(* What holds however requests interleave.                                  *)

TypeOK ==
    /\ stock \in [Variants -> Nat]
    /\ reserved \in [Variants -> Nat]
    /\ sales \in [Variants -> Nat]
    /\ status \in [Orders -> RowStatus]
    /\ txn \in [Orders -> RowStatus]
    /\ resv \in [Orders -> ReservationStatus]
    /\ payment \in [Orders -> PaymentStatus]
    /\ qty \in [Orders -> Quantities]
    /\ ordered \in [Orders -> Quantities]
    /\ queuedAt \in [Orders -> Nat]
    /\ paidTxns \in [Orders -> Nat]
    /\ clock \in Nat
    /\ req \in [Requests -> Request]
    /\ checkout \in [Orders -> {"NONE", "OPEN", "CAPTURED"}]

\* Nothing oversells: no interleaving of approvals, promotions that hold what
\* they read, rejections, confirmations, deliveries and restocks holds more than
\* is on the shelf.  The guarded UPDATEs of reserveStockForOrder and of the two
\* finalizers see to it; the database's CHECK never has to refuse one of them,
\* only a stock edit.
StockCoversReservations == \A v \in Variants : reserved[v] <= stock[v]

\* However requests interleave, the three counters of the stock keep to the
\* discipline of StockLedger: reserveStockForOrder, the releases and the two
\* finalizers hold, give back and sell as one atomic exchange each.
Ledger == INSTANCE StockLedger WITH
    Goods <- Variants, Opening <- InitialStock, Recounts <- EditableStock,
    onShelf <- stock, held <- reserved, sold <- sales
ImplementsStockLedger == Ledger!Spec

\* Order.status and Transaction.status are two columns written by four code
\* paths; as long as the transaction exists they agree.
OrderMirrorsTransaction ==
    \A o \in Orders : txn[o] # "NONE" => status[o] = txn[o]

\* However often an order is quoted, by however many admins at once, it is
\* never quoted for an item it did not have nor for more than was ordered.
QuotedWithinOrdered ==
    \A o \in Orders : /\ Items(qty[o]) = Items(ordered[o])
                      /\ \A v \in Variants : qty[o][v] <= ordered[o][v]
=============================================================================
