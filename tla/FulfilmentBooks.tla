--------------------------- MODULE FulfilmentBooks ---------------------------
(***************************************************************************)
(* The books the shop keeps in three tables (ProductVariant,                *)
(* OrderReservation, Order), what they say when they agree, and what it     *)
(* takes to keep them so.  They agree as long as no commit is disturbed:    *)
(* what its request was checked against, what it has read of its order and, *)
(* for a rejection, of the orders it promotes, is then still so.  PostgreSQL *)
(* does not see to that here (Read Committed, no row is locked by a read),   *)
(* so it is a hypothesis; with one handler it always holds.                 *)
(***************************************************************************)
EXTENDS OrderFulfilment

WithResv(s) == {o \in Orders : resv[o] = s}

\* ProductVariant.reservedStock is exactly the units of the orders whose
\* reservation is ACTIVE: no hold is lost, doubled or left behind by an
\* approval, a promotion, a rejection, a confirmation or a delivery.
ReservedIsSumOfHolds ==
    \A v \in Variants : reserved[v] = Units(WithResv("ACTIVE"), qty, v)

\* Product.salesCount is exactly the units of the orders whose reservation was
\* consumed: each is sold once, at its quoted quantity, whichever of payment,
\* pay-later confirmation and pay-later delivery sold it.
SalesIsSumOfConsumed ==
    \A v \in Variants : sales[v] = Units(WithResv("CONSUMED"), qty, v)

\* What an order's status says of its reservation.  Only a payment recorded by
\* hand (BeginPayment) takes an order out of this discipline.
HoldsFollowStatus ==
    \A o \in Orders :
      /\ status[o] = "AWAITING_PAYMENT" => resv[o] = "ACTIVE"
      /\ status[o] \in {"PENDING_VERIFICATION", "WAITLISTED"} => resv[o] = "NONE"
      /\ paidTxns[o] = 0 =>
           /\ status[o] = "QUOTATION_REJECTED" =>
                resv[o] = "RELEASED" /\ payment[o] = "CANCELED"
           /\ status[o] \in {"CONFIRMED", "DELIVERED"} => resv[o] = "CONSUMED"

\* An order is paid for only once it was: a Payment row says PAID only for a
\* recorded payment or a captured Stripe session.
PaidMeansMoney ==
    \A o \in Orders :
      payment[o] = "PAID" => paidTxns[o] > 0 \/ checkout[o] = "CAPTURED"

\* Order.status moves along ORDER_STATUS_TRANSITIONS, though the transition is
\* checked only before the database transaction; delivery of a pay-later
\* quotation and a recorded payment are the two exceptions.
LifecycleStep(o) ==
    \/ status[o] = "NONE" /\ status'[o] = "PENDING_VERIFICATION"
    \/ status[o] # "NONE" /\ status'[o] \in Transitions[status[o]]
    \/ o \in PayLaterOrders /\ status[o] = "AWAITING_PAYMENT" /\ status'[o] = "DELIVERED"
    \/ paidTxns'[o] > paidTxns[o]
StatusFollowsLifecycle ==
    [][\A o \in Orders : status'[o] # status[o] => LifecycleStep(o)]_vars

\* A waitlisted order keeps its place: verificationQueuedAt, once stamped,
\* does not change however often the order is quoted, waitlisted or promoted.
QueuePlaceIsKept ==
    [][\A o \in Orders : queuedAt[o] # 0 => queuedAt'[o] = queuedAt[o]]_vars

\* A rejection hands its stock on at once, first come first served: an order
\* that waits for one of its variants and is left waiting does not fit
\* afterwards, not even in what those promoted in the same step from behind it
\* in the queue were given.  (As long as the stock and the queue stand still
\* while the rejection works on them: QueueStands.)
Rejected(o) == status[o] = "AWAITING_PAYMENT" /\ status'[o] = "QUOTATION_REJECTED"
Behind(w, W) == {p \in W : status'[p] = "AWAITING_PAYMENT" /\ Ahead(queuedAt, w, p)}
ReleasedStockIsOffered ==
    [][\A o \in Orders : Rejected(o) =>
         LET W == Waiting(o, qty[o]) IN
         \A w \in W :
           \/ status'[w] = "AWAITING_PAYMENT"
           \/ \E v \in Items(qty[w]) :
                reserved'[v] + qty[w][v] > stock[v] + Units(Behind(w, W), qty, v)]_vars

-----------------------------------------------------------------------------
(* What a commit relies on.                                                 *)

\* assertValidStatusTransition would accept the target now, judging by
\* Order.status.
Allowed(o, target) ==
    \/ status[o] # "NONE" /\ target \in Transitions[status[o]]
    \/ o \in PayLaterOrders /\ status[o] = "AWAITING_PAYMENT" /\ target = "DELIVERED"

\* getOrderSnapshot would read again what it has read.
Current(r) ==
    LET o == req[r].order IN
    /\ req[r].status = status[o]
    /\ req[r].resv = resv[o]
    /\ req[r].queuedAt = queuedAt[o]
    /\ ~req[r].quoted => req[r].items = qty[o] /\ req[r].payment = payment[o]

\* The orders a rejection has taken still wait, for what was read.
TakenCurrent(r) ==
    \A w \in req[r].got : status[w] = "WAITLISTED" /\ qty[w] = req[r].listed[w]

\* In this step no commit of a status acts on what is no longer so.
Undisturbed ==
    \A r \in Requests :
      CommitStatus(r) =>
        Allowed(req[r].order, req[r].target) /\ Current(r) /\ TakenCurrent(r)

\* The behaviours without a disturbed commit.
UndisturbedSpec == Init /\ [][Next /\ Undisturbed]_vars

OneHandler == \E r \in Requests : Requests = {r}

\* The two counters are the sums of the rows they stand for.
Books == ReservedIsSumOfHolds /\ SalesIsSumOfConsumed

\* The books agree: the counters with the reservations, the reservations and
\* the payments with the orders' status.
BooksAgree == Books /\ HoldsFollowStatus /\ PaidMeansMoney

\* With any number of requests in flight, books that agree go on agreeing
\* unless a commit acts on what is no longer so: the stale snapshot of an
\* updateTransaction and the stale waiting list of its promotion are the only
\* ways they part.  Payments recorded, orders placed, transactions deleted and
\* stock edited meanwhile do no harm, nor do orders that join the queue, leave
\* it or change in it, unless a rejection promotes them as they were.
OnlyDisturbedCommitsPart ==
    [][BooksAgree /\ ~ BooksAgree' => ~ Undisturbed]_vars

-----------------------------------------------------------------------------
\* recordAdminPayment and processGatewayPayment would find again what they found.
PaymentCurrent(r) ==
    LET o == req[r].order IN
    req[r].status = status[o] /\ status[o] # "NONE" /\ paidTxns[o] = 0

\* In this step no payment is recorded for an order that was delivered, or paid
\* by another request, since it was looked at.
UndisturbedPayment == \A r \in Requests : CommitPayment(r) => PaymentCurrent(r)

\* In this step nobody interferes with a promotion under way: no order joins or
\* changes among those that wait for the variants released, and the stock of
\* the variants these want stays as it is.  (An order may leave.)
QueueStands ==
    \A r \in Requests : req[r].pc = "promoting" /\ req'[r] = req[r] =>
      /\ \A w \in WaitingFor(r)' :
           w \in WaitingFor(r) /\ qty'[w] = qty[w] /\ queuedAt'[w] = queuedAt[w]
      /\ \A v \in Variants : (\E w \in Orders : req[r].listed[w][v] > 0) =>
           stock'[v] = stock[v] /\ reserved'[v] = reserved[v]

\* In this step no order is waitlisted for want of stock that is there by now.
ShortageStands == \A r \in Requests : CommitFallback(r) => ~Fits(req[r].items)

\* The behaviours in which nothing acts on what is no longer so.
Calm == Undisturbed /\ UndisturbedPayment /\ QueueStands /\ ShortageStands
CalmSpec == Init /\ [][Next /\ Calm]_vars

\* As long as all is calm, every request takes effect at one moment, as
\* OrderLife describes it: checks, reads, promotions and commits of requests
\* that overlap, the counters and the two status columns cannot be told from it.
Life == INSTANCE OrderLife WITH
    PayLater <- PayLaterOrders, Opening <- InitialStock,
    shelf <- stock, hold <- resv, place <- queuedAt,
    filed <- {o \in Orders : txn[o] # "NONE"},
    recorded <- {o \in Orders : paidTxns[o] > 0},
    captured <- {o \in Orders : checkout[o] = "CAPTURED"}
ImplementsOrderLife == Life!Spec
=============================================================================
