------------------------ MODULE OrderFulfilmentProofs ------------------------
(***************************************************************************)
(* What is proved of the order workflow for every value of its constants,   *)
(* any number of request handlers included: first what holds however they   *)
(* overlap, then that the books agree as long as no commit is disturbed, and *)
(* that with one handler none is.                                           *)
(***************************************************************************)
EXTENDS FulfilmentBooks, WaitlistProofs

-----------------------------------------------------------------------------
(* Type correctness.                                                        *)

LEMMA IdleType == Idle \in Request
<1>1. NoItems \in Quantities
  BY WaitlistAssumption DEF NoItems, Quantities
<1>2. 1 \in Orders /\ NoItems \in [Variants -> 0..MaxQty]
  BY <1>1, WaitlistAssumption DEF Orders, Quantities
<1>3. /\ [o \in Orders |-> NoItems] \in [Orders -> Quantities]
      /\ [o \in Orders |-> 0] \in [Orders -> Nat]
  BY <1>1
<1> QED
  BY <1>1, <1>2, <1>3
     DEF Idle, Request, OrderLifecycleStatus, RowStatus, ReservationStatus, PaymentStatus

LEMMA MonusType ==
    ASSUME NEW a \in Nat, NEW b \in Nat
    PROVE  Monus(a, b) \in Nat /\ Monus(a, b) <= a
  BY DEF Monus

\* What a handler writes: a request moved to another step keeps its type.
LEMMA CheckType ==
    ASSUME TypeOK, NEW r \in Requests, NEW o \in Orders,
           NEW target \in OrderLifecycleStatus, NEW quoted \in BOOLEAN,
           NEW items \in Quantities, Check(r, o, target, quoted, items)
    PROVE  TypeOK'
<1>1. [Idle EXCEPT !.pc = "checked", !.order = o, !.target = target,
                   !.quoted = quoted, !.items = items] \in Request
  BY IdleType DEF Request
<1>2. req' \in [Requests -> Request]
  BY <1>1 DEF TypeOK, Check
<1> QED
  BY <1>2 DEF TypeOK, Check, stockVars, orderVars

LEMMA NoItemsType == NoItems \in Quantities
  BY WaitlistAssumption DEF NoItems, Quantities

\* The parts a commit writes, whichever commit it is.
LEMMA CommittingType ==
    ASSUME TypeOK, NEW r \in Requests, NEW at, NEW target, Committing(r, at, target)
    PROVE  /\ req' \in [Requests -> Request]
           /\ ordered' \in [Orders -> Quantities]
           /\ paidTxns' \in [Orders -> Nat]
           /\ checkout' \in [Orders -> {"NONE", "OPEN", "CAPTURED"}]
           /\ req[r].order \in Orders
           /\ req[r].items \in Quantities
           /\ req[r].queuedAt \in Nat
           /\ req[r].resv \in ReservationStatus
  BY IdleType DEF TypeOK, Committing, Request

LEMMA SetStatusType ==
    ASSUME TypeOK, NEW o \in Orders, NEW s \in OrderLifecycleStatus, SetStatus(o, s)
    PROVE  status' \in [Orders -> RowStatus] /\ txn' \in [Orders -> RowStatus]
  BY DEF TypeOK, SetStatus, RowStatus

LEMMA StampQueueType ==
    ASSUME TypeOK, NEW r \in Requests, req[r].order \in Orders,
           req[r].queuedAt \in Nat, StampQueue(r)
    PROVE  queuedAt' \in [Orders -> Nat] /\ clock' \in Nat
  BY DEF TypeOK, StampQueue

LEMMA ReleasedType ==
    ASSUME TypeOK, NEW q \in Quantities
    PROVE  Released(q) \in [Variants -> Nat]
  BY QuantityType, MonusType DEF TypeOK, Released

LEMMA ConsumeType ==
    ASSUME TypeOK, NEW r \in Requests, req[r].order \in Orders,
           req[r].items \in Quantities, Consume(r)
    PROVE  /\ stock' \in [Variants -> Nat]
           /\ reserved' \in [Variants -> Nat]
           /\ sales' \in [Variants -> Nat]
           /\ resv' \in [Orders -> ReservationStatus]
<1> DEFINE q == req[r].items
<1>1. ASSUME NEW v \in Variants
      PROVE  q[v] \in Nat /\ q[v] <= stock[v] /\ q[v] <= reserved[v]
  BY QuantityType DEF Consume, Consumable, Items, TypeOK
<1>2. ASSUME NEW v \in Variants
      PROVE  /\ stock[v] - q[v] \in Nat
             /\ reserved[v] - q[v] \in Nat
             /\ sales[v] + q[v] \in Nat
  BY <1>1 DEF TypeOK
<1> QED
  BY <1>2 DEF Consume, TypeOK, ReservationStatus

\* What is reserved as a promotion sees it.
LEMMA TakenType ==
    ASSUME TypeOK, NEW r \in Requests
    PROVE  /\ AfterRelease(r) \in [Variants -> Nat]
           /\ \A v \in Variants : AfterRelease(r)[v] <= reserved[v]
           /\ \A v \in Variants : Units(req[r].got, req[r].listed, v) \in Nat
           /\ Taken(r) \in [Variants -> Nat]
<1>1. req[r].items \in Quantities /\ req[r].got \in SUBSET Orders
  BY DEF TypeOK, Request
<1>2. ASSUME NEW v \in Variants
      PROVE  Released(req[r].items)[v] <= reserved[v]
  BY <1>1, <1>2, QuantityType, MonusType DEF TypeOK, Released
<1>3. /\ AfterRelease(r) \in [Variants -> Nat]
      /\ \A v \in Variants : AfterRelease(r)[v] <= reserved[v]
  BY <1>1, <1>2, ReleasedType DEF AfterRelease, TypeOK
<1>4. \A v \in Variants : Units(req[r].got, req[r].listed, v) \in Nat
  BY <1>1, UnitsType
<1>5. \A v \in Variants : AfterRelease(r)[v] + Units(req[r].got, req[r].listed, v) \in Nat
  BY <1>3, <1>4
<1> QED
  BY <1>3, <1>4, <1>5 DEF Taken

\* The steps of a database transaction under way.
UnderWay(r) == FallShort(r) \/ ListWaiting(r) \/ PromoteNext(r) \/ PassNext(r)

\* They show nothing to others, and keep what the request has read of its order.
LEMMA UnderWayStep ==
    ASSUME TypeOK, NEW r \in Requests, UnderWay(r)
    PROVE  /\ UNCHANGED <<stockVars, orderVars, ordered, paidTxns, checkout>>
           /\ req' = [req EXCEPT ![r] = req'[r]]
           /\ req'[r] \in Request
           /\ req[r].pc \in {"read", "promoting"}
           /\ req'[r].pc \in {"short", "promoting"}
           /\ req'[r].order = req[r].order /\ req'[r].target = req[r].target
           /\ req'[r].quoted = req[r].quoted /\ req'[r].items = req[r].items
           /\ req'[r].status = req[r].status /\ req'[r].resv = req[r].resv
           /\ req'[r].payment = req[r].payment /\ req'[r].queuedAt = req[r].queuedAt
<1>0. req[r] \in Request /\ req \in [Requests -> Request]
  BY DEF TypeOK
<1>1. CASE FallShort(r)
  BY <1>0, <1>1 DEF FallShort, Request
<1>2. CASE ListWaiting(r)
  <2> DEFINE W == WaitingFor(r)
             L == [w \in Orders |-> IF w \in W THEN qty[w] ELSE NoItems]
             A == [w \in Orders |-> IF w \in W THEN queuedAt[w] ELSE 0]
  <2>1. /\ L \in [Orders -> Quantities] /\ A \in [Orders -> Nat] /\ W \in SUBSET Orders
    BY NoItemsType DEF TypeOK, WaitingFor, Waiting
  <2>2. /\ req' = [req EXCEPT ![r] = [req[r] EXCEPT !.pc = "promoting", !.listed = L,
                                                    !.places = A, !.todo = W]]
        /\ req[r].pc = "read"
        /\ UNCHANGED <<stockVars, orderVars, ordered, paidTxns, checkout>>
    BY <1>2 DEF ListWaiting
  <2> HIDE DEF W, L, A
  <2> QED
    BY <1>0, <2>1, <2>2 DEF Request
<1>3. CASE PromoteNext(r) \/ PassNext(r)
  <2>1. PICK w \in Orders :
          /\ \/ req' = [req EXCEPT ![r] = [req[r] EXCEPT !.todo = @ \ {w}, !.got = @ \cup {w}]]
             \/ req' = [req EXCEPT ![r] = [req[r] EXCEPT !.todo = @ \ {w}]]
          /\ req[r].pc = "promoting"
          /\ UNCHANGED <<stockVars, orderVars, ordered, paidTxns, checkout>>
    BY <1>3, Zenon DEF PromoteNext, PassNext, TurnOf
  <2>2. CASE req' = [req EXCEPT ![r] = [req[r] EXCEPT !.todo = @ \ {w}, !.got = @ \cup {w}]]
    BY <1>0, <2>1, <2>2 DEF Request
  <2>3. CASE req' = [req EXCEPT ![r] = [req[r] EXCEPT !.todo = @ \ {w}]]
    BY <1>0, <2>1, <2>3 DEF Request
  <2> QED
    BY <2>1, <2>2, <2>3
<1> QED
  BY <1>1, <1>2, <1>3 DEF UnderWay

\* What a rejection writes: its own order and those it has taken.
LEMMA RejectWrites ==
    ASSUME TypeOK, NEW r \in Requests, CommitReject(r), NEW o, o = req[r].order
    PROVE  /\ Committing(r, "promoting", "QUOTATION_REJECTED")
           /\ o \in Orders /\ req[r].got \in SUBSET Orders
           /\ req' = [req EXCEPT ![r] = Idle]
           /\ reserved' = Taken(r)
           /\ resv' = [p \in Orders |->
                IF p \in req[r].got THEN "ACTIVE"
                ELSE IF p = o /\ req[r].resv # "NONE" THEN "RELEASED" ELSE resv[p]]
           /\ payment' = [p \in Orders |->
                IF p \in req[r].got THEN "PENDING"
                ELSE IF p = o THEN "CANCELED" ELSE payment[p]]
           /\ status' = [p \in Orders |->
                IF p \in req[r].got THEN "AWAITING_PAYMENT"
                ELSE IF p = o THEN "QUOTATION_REJECTED" ELSE status[p]]
           /\ txn' = [p \in Orders |->
                IF p \in req[r].got THEN "AWAITING_PAYMENT"
                ELSE IF p = o THEN "QUOTATION_REJECTED" ELSE txn[p]]
           /\ UNCHANGED <<stock, sales, qty, queuedAt, clock, ordered, paidTxns, checkout>>
  BY DEF CommitReject, Committing, TypeOK, Request

LEMMA TypeInit == Init => TypeOK
  BY IdleType, NoItemsType, FulfilmentAssumption
     DEF Init, TypeOK, RowStatus, ReservationStatus, PaymentStatus

LEMMA TypeNext == TypeOK /\ [Next]_vars => TypeOK'
<1> SUFFICES ASSUME TypeOK, [Next]_vars PROVE TypeOK'
  OBVIOUS
<1> USE DEF stockVars, orderVars
<1>1. ASSUME NEW o \in Orders, NEW q \in Quantities, PlaceOrder(o, q)
      PROVE  TypeOK'
  BY <1>1 DEF PlaceOrder, TypeOK, RowStatus, OrderLifecycleStatus, PaymentStatus
<1>2. ASSUME NEW r \in Requests, NEW o \in Orders, NEW t \in OrderLifecycleStatus,
             AdminSetStatus(r, o, t)
      PROVE  TypeOK'
  BY <1>2, CheckType, NoItemsType DEF AdminSetStatus
<1>3. ASSUME NEW r \in Requests, NEW o \in Orders, NEW q \in Quantities,
             IssueQuotation(r, o, q)
      PROVE  TypeOK'
  BY <1>3, CheckType DEF IssueQuotation, OrderLifecycleStatus
<1>4. ASSUME NEW r \in Requests, NEW o \in Orders,
             AcceptPayLater(r, o) \/ StripeWebhook(r, o)
      PROVE  TypeOK'
  BY <1>4, CheckType, NoItemsType DEF AcceptPayLater, StripeWebhook, OrderLifecycleStatus
<1>5. ASSUME NEW r \in Requests, NEW o \in Orders, RejectQuotation(r, o)
      PROVE  TypeOK'
  BY <1>5, CheckType, NoItemsType DEF RejectQuotation, OrderLifecycleStatus
<1>6. ASSUME NEW r \in Requests, NEW o \in Orders, BeginPayment(r, o)
      PROVE  TypeOK'
  <2>1. [Idle EXCEPT !.pc = "paying", !.order = o, !.status = status[o]] \in Request
    BY IdleType DEF Request, TypeOK
  <2>2. req' \in [Requests -> Request]
    BY <1>6, <2>1 DEF BeginPayment, TypeOK
  <2> QED
    BY <1>6, <2>2 DEF BeginPayment, TypeOK
<1>7. ASSUME NEW r \in Requests, TxRead(r)
      PROVE  TypeOK'
  <2>1. req[r] \in Request /\ req[r].order \in Orders
    BY DEF TypeOK, Request
  <2>2. ASSUME NEW items \in Quantities, NEW pay \in PaymentStatus
        PROVE  [req[r] EXCEPT !.pc = "read", !.items = items,
                   !.status = status[req[r].order], !.resv = resv[req[r].order],
                   !.payment = pay, !.queuedAt = queuedAt[req[r].order]] \in Request
    BY <2>1 DEF TypeOK, Request
  <2>3. /\ (IF req[r].quoted THEN req[r].items ELSE qty[req[r].order]) \in Quantities
        /\ (IF req[r].quoted THEN "PENDING" ELSE payment[req[r].order]) \in PaymentStatus
    BY <2>1 DEF TypeOK, Request, PaymentStatus
  <2>4. PICK new \in Request : req' = [req EXCEPT ![r] = new]
    BY <1>7, <2>2, <2>3, Zenon DEF TxRead
  <2>5. req' \in [Requests -> Request]
    BY <2>4 DEF TypeOK
  <2> QED
    BY <1>7, <2>5 DEF TxRead, TypeOK
<1>8. ASSUME NEW r \in Requests, CommitApprove(r)
      PROVE  TypeOK'
  <2>1. Committing(r, "read", "AWAITING_PAYMENT")
    BY <1>8 DEF CommitApprove
  <2>2. reserved' \in [Variants -> Nat]
    BY <1>8, <2>1, CommittingType, QuantityType DEF CommitApprove, Held, TypeOK
  <2>3. status' \in [Orders -> RowStatus] /\ txn' \in [Orders -> RowStatus]
    BY <1>8, <2>1, CommittingType, SetStatusType DEF CommitApprove, OrderLifecycleStatus
  <2>4. queuedAt' \in [Orders -> Nat] /\ clock' \in Nat
    BY <1>8, <2>1, CommittingType, StampQueueType DEF CommitApprove
  <2> QED
    BY <1>8, <2>1, <2>2, <2>3, <2>4, CommittingType
       DEF CommitApprove, TypeOK, ReservationStatus, PaymentStatus
<1>9. ASSUME NEW r \in Requests, CommitFallback(r)
      PROVE  TypeOK'
  <2>1. Committing(r, "short", "AWAITING_PAYMENT")
    BY <1>9 DEF CommitFallback
  <2>2. status' \in [Orders -> RowStatus] /\ txn' \in [Orders -> RowStatus]
    BY <1>9, <2>1, CommittingType, SetStatusType DEF CommitFallback, OrderLifecycleStatus
  <2>3. queuedAt' \in [Orders -> Nat] /\ clock' \in Nat
    BY <1>9, <2>1, CommittingType, StampQueueType DEF CommitFallback
  <2> QED
    BY <1>9, <2>1, <2>2, <2>3, CommittingType DEF CommitFallback, TypeOK, PaymentStatus
<1>10. ASSUME NEW r \in Requests, CommitWaitlist(r)
       PROVE  TypeOK'
  <2>1. Committing(r, "read", "WAITLISTED")
    BY <1>10 DEF CommitWaitlist
  <2>2. reserved' \in [Variants -> Nat]
    BY <1>10, <2>1, CommittingType, ReleasedType DEF CommitWaitlist, TypeOK
  <2>3. status' \in [Orders -> RowStatus] /\ txn' \in [Orders -> RowStatus]
    BY <1>10, <2>1, CommittingType, SetStatusType DEF CommitWaitlist, OrderLifecycleStatus
  <2>4. queuedAt' \in [Orders -> Nat] /\ clock' \in Nat
    BY <1>10, <2>1, CommittingType, StampQueueType DEF CommitWaitlist
  <2> QED
    BY <1>10, <2>1, <2>2, <2>3, <2>4, CommittingType
       DEF CommitWaitlist, TypeOK, ReservationStatus
<1>11. ASSUME NEW r \in Requests, CommitReject(r)
       PROVE  TypeOK'
  <2>1. /\ resv' \in [Orders -> ReservationStatus]
        /\ payment' \in [Orders -> PaymentStatus]
        /\ status' \in [Orders -> RowStatus]
        /\ txn' \in [Orders -> RowStatus]
    BY <1>11, RejectWrites
       DEF TypeOK, ReservationStatus, PaymentStatus, RowStatus, OrderLifecycleStatus
  <2>2. reserved' \in [Variants -> Nat] /\ req' \in [Requests -> Request]
    BY <1>11, RejectWrites, TakenType, IdleType DEF TypeOK
  <2> QED
    BY <1>11, <2>1, <2>2, RejectWrites DEF TypeOK
<1>12. ASSUME NEW r \in Requests, CommitConfirm(r)
       PROVE  TypeOK'
  <2>1. Committing(r, "read", "CONFIRMED") /\ Consume(r)
    BY <1>12 DEF CommitConfirm
  <2>2. status' \in [Orders -> RowStatus] /\ txn' \in [Orders -> RowStatus]
    BY <1>12, <2>1, CommittingType, SetStatusType DEF CommitConfirm, OrderLifecycleStatus
  <2> QED
    BY <1>12, <2>1, <2>2, CommittingType, ConsumeType
       DEF CommitConfirm, ConfirmedPayment, TypeOK, PaymentStatus
<1>13. ASSUME NEW r \in Requests, CommitDeliver(r)
       PROVE  TypeOK'
  <2>1. Committing(r, "read", "DELIVERED")
    BY <1>13 DEF CommitDeliver
  <2>2. status' \in [Orders -> RowStatus] /\ txn' \in [Orders -> RowStatus]
    BY <1>13, <2>1, CommittingType, SetStatusType DEF CommitDeliver, OrderLifecycleStatus
  <2>3. CASE Consume(r)
    BY <1>13, <2>1, <2>2, <2>3, CommittingType, ConsumeType DEF CommitDeliver, TypeOK
  <2>4. CASE UNCHANGED <<stockVars, resv>>
    BY <1>13, <2>1, <2>2, <2>4, CommittingType DEF CommitDeliver, TypeOK
  <2> QED
    BY <1>13, <2>3, <2>4 DEF CommitDeliver
<1>14. ASSUME NEW r \in Requests, CommitPayment(r)
       PROVE  TypeOK'
  <2>1. req[r].order \in Orders
    BY DEF TypeOK, Request
  <2> QED
    BY <1>14, <2>1, IdleType
       DEF CommitPayment, TypeOK, RowStatus, OrderLifecycleStatus, PaymentStatus
<1>15. ASSUME NEW r \in Requests, Abandon(r)
       PROVE  TypeOK'
  BY <1>15, IdleType DEF Abandon, TypeOK
<1>16. ASSUME NEW o \in Orders, OpenCheckout(o) \/ CustomerPays(o)
       PROVE  TypeOK'
  BY <1>16 DEF OpenCheckout, CustomerPays, TypeOK
<1>17. ASSUME NEW o \in Deletable, DeleteTransaction(o)
       PROVE  TypeOK'
  BY <1>17, FulfilmentAssumption DEF DeleteTransaction, TypeOK, RowStatus
<1>18. ASSUME NEW v \in Variants, NEW n \in RestockSizes, Restock(v, n)
       PROVE  TypeOK'
  BY <1>18, FulfilmentAssumption DEF Restock, TypeOK
<1>19. ASSUME NEW v \in Variants, NEW n \in EditableStock, EditStock(v, n)
       PROVE  TypeOK'
  BY <1>19, FulfilmentAssumption DEF EditStock, TypeOK
<1>20. ASSUME NEW r \in Requests, UnderWay(r)
       PROVE  TypeOK'
  BY <1>20, UnderWayStep DEF TypeOK
<1>21. CASE UNCHANGED vars
  BY <1>21 DEF vars, TypeOK
<1> QED
  BY <1>1, <1>2, <1>3, <1>4, <1>5, <1>6, <1>7, <1>8, <1>9, <1>10, <1>11, <1>12,
     <1>13, <1>14, <1>15, <1>16, <1>17, <1>18, <1>19, <1>20, <1>21
     DEF Next, CommitStatus, UnderWay

\* Every reachable state is well typed: in particular stock, reservedStock and
\* salesCount are natural numbers whatever requests interleave (the guards of
\* finalizePaidOrder and the GREATEST(0, ...) of releaseReservationStock).
THEOREM TypeInvariant == Spec => []TypeOK
  BY TypeInit, TypeNext, PTL DEF Spec

-----------------------------------------------------------------------------
(* What a promotion has taken stays there to be held.                       *)

\* A request moves only by a step of its own, and only UnderWay ends in "short"
\* or "promoting".
Moved(r) ==
    /\ req' = [req EXCEPT ![r] = req'[r]]
    /\ \/ UnderWay(r)
       \/ /\ req'[r].pc \notin {"short", "promoting"}
          /\ req'[r].got = {} \/ (req'[r].got = req[r].got /\ req[r].pc # "promoting")

LEMMA RequestStep ==
    ASSUME TypeOK, [Next]_vars
    PROVE  req' = req \/ \E r \in Requests : Moved(r)
<1>0. req \in [Requests -> Request]
  BY DEF TypeOK
<1>1. ASSUME NEW r \in Requests, NEW n, req' = [req EXCEPT ![r] = n],
             n.pc \notin {"short", "promoting"}, n.got = {}
      PROVE  Moved(r)
  <2>1. req'[r] = n
    BY <1>0, <1>1
  <2> QED
    BY <1>1, <2>1 DEF Moved
<1>2. ASSUME NEW r \in Requests, NEW o \in Orders, NEW t, NEW b, NEW q, Check(r, o, t, b, q)
      PROVE  Moved(r)
  <2> DEFINE n == [Idle EXCEPT !.pc = "checked", !.order = o, !.target = t,
                               !.quoted = b, !.items = q]
  <2>1. req' = [req EXCEPT ![r] = n] /\ n.pc = "checked" /\ n.got = {}
    BY <1>2 DEF Check, Idle
  <2> HIDE DEF n
  <2> QED
    BY <2>1, <1>1
<1>3. ASSUME NEW r \in Requests, NEW o \in Orders,
             \/ \E t \in OrderLifecycleStatus : AdminSetStatus(r, o, t)
             \/ \E q \in Quantities : IssueQuotation(r, o, q)
             \/ AcceptPayLater(r, o)
             \/ RejectQuotation(r, o)
             \/ StripeWebhook(r, o)
      PROVE  Moved(r)
  <2> QED
    BY <1>2, <1>3 DEF AdminSetStatus, IssueQuotation, AcceptPayLater, RejectQuotation,
                      StripeWebhook
<1>4. ASSUME NEW r \in Requests, NEW o \in Orders, BeginPayment(r, o)
      PROVE  Moved(r)
  <2> DEFINE n == [Idle EXCEPT !.pc = "paying", !.order = o, !.status = status[o]]
  <2>1. req' = [req EXCEPT ![r] = n] /\ n.pc = "paying" /\ n.got = {}
    BY <1>4 DEF BeginPayment, Idle
  <2> HIDE DEF n
  <2> QED
    BY <2>1, <1>1
<1>5. ASSUME NEW r \in Requests, TxRead(r)
      PROVE  Moved(r)
  <2>1. /\ req'[r].pc = "read" /\ req' = [req EXCEPT ![r] = req'[r]]
        /\ req'[r].got = req[r].got /\ req[r].pc = "checked"
    BY <1>0, <1>5 DEF TxRead, Request
  <2> QED
    BY <2>1 DEF Moved
<1>6. ASSUME NEW r \in Requests, CommitStatus(r) \/ CommitPayment(r) \/ Abandon(r)
      PROVE  Moved(r)
  <2>1. req' = [req EXCEPT ![r] = Idle] /\ Idle.pc = "idle" /\ Idle.got = {}
    BY <1>6 DEF CommitStatus, CommitApprove, CommitFallback, CommitWaitlist, CommitReject,
                CommitConfirm, CommitDeliver, Committing, CommitPayment, Abandon, Idle
  <2> QED
    BY <2>1, <1>1
<1>7. ASSUME NEW r \in Requests, UnderWay(r)
      PROVE  Moved(r)
  BY <1>7, UnderWayStep DEF Moved
<1>8. ASSUME \/ \E o \in Orders, q \in Quantities : PlaceOrder(o, q)
             \/ \E o \in Orders : OpenCheckout(o) \/ CustomerPays(o)
             \/ \E o \in Deletable : DeleteTransaction(o)
             \/ \E v \in Variants : \/ \E n \in RestockSizes : Restock(v, n)
                                    \/ \E n \in EditableStock : EditStock(v, n)
             \/ UNCHANGED vars
      PROVE  req' = req
  BY <1>8 DEF PlaceOrder, OpenCheckout, CustomerPays, DeleteTransaction, Restock, EditStock,
              vars
<1> QED
  BY <1>3, <1>4, <1>5, <1>6, <1>7, <1>8 DEF Next, UnderWay

\* A transaction goes only by DeleteTransaction, never while it is promoted.
LEMMA TransactionKept ==
    ASSUME TypeOK, [Next]_vars, NEW w \in Orders, txn[w] # "NONE",
           NEW r \in Requests, w \in req[r].got
    PROVE  txn'[w] # "NONE"
<1> USE DEF TypeOK
<1>1. ASSUME NEW o \in Orders, NEW s, s # "NONE", SetStatus(o, s)
      PROVE  txn'[w] # "NONE"
  BY <1>1 DEF SetStatus
<1>2. ASSUME NEW x \in Requests, CommitStatus(x)
      PROVE  txn'[w] # "NONE"
  <2>1. req[x].order \in Orders
    BY DEF Request
  <2>2. CASE CommitReject(x)
    BY <2>2, RejectWrites
  <2> QED
    BY <1>1, <1>2, <2>1, <2>2 DEF CommitStatus, CommitApprove, CommitFallback, CommitWaitlist,
                                  CommitConfirm, CommitDeliver
<1>3. ASSUME NEW x \in Requests, CommitPayment(x)
      PROVE  txn'[w] # "NONE"
  BY <1>3 DEF CommitPayment
<1>4. ASSUME NEW o \in Orders, NEW q \in Quantities, PlaceOrder(o, q)
      PROVE  txn'[w] # "NONE"
  BY <1>4 DEF PlaceOrder
<1>5. ASSUME NEW o \in Deletable, DeleteTransaction(o)
      PROVE  txn'[w] # "NONE"
  BY <1>5 DEF DeleteTransaction
<1>6. ASSUME UNCHANGED txn
      PROVE  txn'[w] # "NONE"
  BY <1>6
<1>7. ASSUME NEW x \in Requests, NEW o \in Orders,
             \/ \E t \in OrderLifecycleStatus : AdminSetStatus(x, o, t)
             \/ \E q \in Quantities : IssueQuotation(x, o, q)
             \/ AcceptPayLater(x, o)
             \/ RejectQuotation(x, o)
             \/ StripeWebhook(x, o)
             \/ BeginPayment(x, o)
      PROVE  txn' = txn
  <2>1. BeginPayment(x, o) \/ \E t, b, q : Check(x, o, t, b, q)
    BY <1>7, Zenon DEF AdminSetStatus, IssueQuotation, AcceptPayLater, RejectQuotation,
                       StripeWebhook
  <2>2. UNCHANGED orderVars
    BY <2>1, Zenon DEF BeginPayment, Check
  <2> QED
    BY <2>2 DEF orderVars
<1>8. ASSUME NEW x \in Requests, UnderWay(x)
      PROVE  txn' = txn
  BY <1>8, UnderWayStep DEF orderVars
<1>9. CASE \/ \E x \in Requests : TxRead(x) \/ Abandon(x)
           \/ \E o \in Orders : OpenCheckout(o) \/ CustomerPays(o)
           \/ \E v \in Variants : \/ \E n \in RestockSizes : Restock(v, n)
                                  \/ \E n \in EditableStock : EditStock(v, n)
           \/ UNCHANGED vars
  BY <1>9 DEF TxRead, Abandon, OpenCheckout, CustomerPays, Restock, EditStock, orderVars, vars
<1> QED
  BY <1>2, <1>3, <1>4, <1>5, <1>6, <1>7, <1>8, <1>9 DEF Next, UnderWay

\* Only a promotion has taken orders, and their transactions are there.
GotInv ==
    \A r \in Requests :
      /\ req[r].pc # "promoting" => req[r].got = {}
      /\ \A w \in req[r].got : txn[w] # "NONE"

\* PromoteNext(r) takes w, if the rest fits w.
LEMMA PromoteStep ==
    ASSUME TypeOK, NEW r \in Requests, PromoteNext(r)
    PROVE  \E w \in Orders :
             /\ TurnOf(r, w) /\ StillFits(r, w) /\ txn[w] # "NONE"
             /\ Unlocked(r, {w}, Items(req[r].listed[w]))
             /\ req[r].pc = "promoting" /\ req'[r].pc = "promoting"
             /\ req'[r].listed = req[r].listed /\ req'[r].places = req[r].places
             /\ req'[r].todo = req[r].todo \ {w} /\ req'[r].got = req[r].got \cup {w}
<1>1. PICK w \in Orders :
        /\ TurnOf(r, w) /\ StillFits(r, w) /\ txn[w] # "NONE"
        /\ Unlocked(r, {w}, Items(req[r].listed[w]))
        /\ req' = [req EXCEPT ![r] = [req[r] EXCEPT !.todo = @ \ {w}, !.got = @ \cup {w}]]
  BY DEF PromoteNext
<1>2. req \in [Requests -> Request] /\ req[r].pc = "promoting"
  BY <1>1 DEF TypeOK, TurnOf
<1> QED
  BY <1>1, <1>2 DEF Request

LEMMA PassStep ==
    ASSUME TypeOK, NEW r \in Requests, PassNext(r)
    PROVE  \E w \in Orders :
             /\ TurnOf(r, w) /\ ~ StillFits(r, w)
             /\ req[r].pc = "promoting" /\ req'[r].pc = "promoting"
             /\ req'[r].listed = req[r].listed /\ req'[r].places = req[r].places
             /\ req'[r].todo = req[r].todo \ {w} /\ req'[r].got = req[r].got
<1>1. PICK w \in Orders :
        /\ TurnOf(r, w) /\ ~ StillFits(r, w)
        /\ req' = [req EXCEPT ![r] = [req[r] EXCEPT !.todo = @ \ {w}]]
  BY DEF PassNext
<1>2. req \in [Requests -> Request] /\ req[r].pc = "promoting"
  BY <1>1 DEF TypeOK, TurnOf
<1> QED
  BY <1>1, <1>2 DEF Request

LEMMA ListStep ==
    ASSUME TypeOK, NEW r \in Requests, ListWaiting(r)
    PROVE  /\ req[r].pc = "read" /\ req'[r].pc = "promoting"
           /\ req'[r].todo = WaitingFor(r) /\ req'[r].got = req[r].got
           /\ req'[r].listed = [w \in Orders |-> IF w \in WaitingFor(r) THEN qty[w] ELSE NoItems]
           /\ req'[r].places = [w \in Orders |-> IF w \in WaitingFor(r) THEN queuedAt[w] ELSE 0]
<1> DEFINE W == WaitingFor(r)
           L == [w \in Orders |-> IF w \in W THEN qty[w] ELSE NoItems]
           A == [w \in Orders |-> IF w \in W THEN queuedAt[w] ELSE 0]
<1>1. /\ req' = [req EXCEPT ![r] = [req[r] EXCEPT !.pc = "promoting", !.listed = L,
                                                  !.places = A, !.todo = W]]
      /\ req[r].pc = "read" /\ req \in [Requests -> Request]
  BY DEF ListWaiting, TypeOK
<1> HIDE DEF W, L, A
<1>2. /\ req[r].pc = "read" /\ req'[r].pc = "promoting"
      /\ req'[r].todo = W /\ req'[r].got = req[r].got
      /\ req'[r].listed = L /\ req'[r].places = A
  BY <1>1 DEF Request
<1> QED
  BY <1>2 DEF W, L, A

LEMMA FallStep ==
    ASSUME TypeOK, NEW r \in Requests, FallShort(r)
    PROVE  req'[r].pc = "short" /\ req'[r].got = req[r].got /\ req[r].pc = "read"
  BY DEF TypeOK, Request, FallShort

LEMMA GotNext == TypeOK /\ GotInv /\ [Next]_vars => GotInv'
<1> SUFFICES ASSUME TypeOK, GotInv, [Next]_vars, TypeOK', NEW r \in Requests
             PROVE  /\ req'[r].pc # "promoting" => req'[r].got = {}
                    /\ \A w \in req'[r].got : txn'[w] # "NONE"
  BY TypeNext DEF GotInv
<1>1. CASE req'[r] = req[r]
  <2>1. \A w \in req[r].got : w \in Orders
    BY DEF TypeOK, Request
  <2> QED
    BY <1>1, <2>1, TransactionKept DEF GotInv
<1>2. CASE Moved(r)
  <2>1. CASE ~ UnderWay(r)
    BY <1>2, <2>1 DEF Moved, GotInv
  <2>2. CASE FallShort(r)
    BY <2>2, FallStep DEF GotInv
  <2>3. CASE ListWaiting(r)
    BY <2>3, ListStep DEF GotInv
  <2>4. CASE PromoteNext(r)
    <3>1. PICK w \in Orders : /\ txn[w] # "NONE"
                              /\ req'[r].pc = "promoting" /\ req'[r].got = req[r].got \cup {w}
      BY <2>4, PromoteStep
    <3>2. txn' = txn
      BY <2>4, UnderWayStep DEF UnderWay, orderVars
    <3> QED
      BY <3>1, <3>2 DEF GotInv
  <2>5. CASE PassNext(r)
    <3>1. txn' = txn
      BY <2>5, UnderWayStep DEF UnderWay, orderVars
    <3> QED
      BY <2>5, <3>1, PassStep DEF GotInv
  <2> QED
    BY <2>1, <2>2, <2>3, <2>4, <2>5 DEF UnderWay
<1> QED
  <2>1. ASSUME NEW x \in Requests, Moved(x), x # r
        PROVE  req'[r] = req[r]
    BY <2>1 DEF Moved, TypeOK
  <2> QED
    BY <1>1, <1>2, <2>1, RequestStep

LEMMA GotInvariant == Spec => []GotInv
<1>1. Init => GotInv
  BY DEF Init, Idle, GotInv
<1> QED
  BY <1>1, GotNext, TypeInvariant, PTL DEF Spec

\* A row is locked by one transaction at a time.
LocksApart ==
    \A r, s \in Requests : r # s => LockedVariants(r) \cap LockedVariants(s) = {}

LEMMA LocksNext == TypeOK /\ GotInv /\ LocksApart /\ [Next]_vars => LocksApart'
<1> SUFFICES ASSUME TypeOK, GotInv, LocksApart, [Next]_vars PROVE LocksApart'
  OBVIOUS
<1>1. CASE req' = req
  BY <1>1 DEF LocksApart, LockedVariants
<1>2. ASSUME NEW r \in Requests, Moved(r)
      PROVE  LocksApart'
  <2>1. ASSUME NEW s \in Requests, s # r
        PROVE  LockedVariants(s)' = LockedVariants(s)
    BY <1>2, <2>1 DEF Moved, TypeOK, LockedVariants
  <2>2. ASSUME \A s \in Requests \ {r} : LockedVariants(r)' \cap LockedVariants(s) = {}
        PROVE  LocksApart'
    BY <2>1, <2>2 DEF LocksApart
  <2>3. CASE req'[r].pc # "promoting"
    <3>1. LockedVariants(r)' = {}
      BY <2>3 DEF LockedVariants
    <3> QED
      BY <2>2, <3>1
  <2>4. CASE ListWaiting(r)
    <3>1. /\ req'[r].resv = req[r].resv /\ req'[r].items = req[r].items
          /\ req'[r].got = {}
      BY <2>4, UnderWayStep, ListStep DEF UnderWay, GotInv
    <3>2. LockedVariants(r)' \subseteq IF req[r].resv = "ACTIVE" THEN Items(req[r].items) ELSE {}
      BY <3>1 DEF LockedVariants, Items
    <3> QED
      BY <2>2, <2>4, <3>2 DEF ListWaiting, Unlocked
  <2>5. CASE PromoteNext(r)
    <3>1. PICK w \in Orders :
            /\ Unlocked(r, {w}, Items(req[r].listed[w])) /\ req[r].pc = "promoting"
            /\ req'[r].listed = req[r].listed /\ req'[r].got = req[r].got \cup {w}
      BY <2>5, PromoteStep
    <3>2. req'[r].resv = req[r].resv /\ req'[r].items = req[r].items
      BY <2>5, UnderWayStep DEF UnderWay
    <3>3. LockedVariants(r)' \subseteq LockedVariants(r) \cup Items(req[r].listed[w])
      BY <3>1, <3>2 DEF LockedVariants, Items
    <3> QED
      BY <2>2, <3>1, <3>3 DEF Unlocked, LocksApart
  <2>6. CASE PassNext(r)
    <3>1. /\ req[r].pc = "promoting"
          /\ req'[r].listed = req[r].listed /\ req'[r].got = req[r].got
      BY <2>6, PassStep
    <3>2. req'[r].resv = req[r].resv /\ req'[r].items = req[r].items
      BY <2>6, UnderWayStep DEF UnderWay
    <3>3. LockedVariants(r)' \subseteq LockedVariants(r)
      BY <3>1, <3>2 DEF LockedVariants
    <3> QED
      BY <2>2, <3>3 DEF LocksApart
  <2>7. CASE FallShort(r)
    BY <2>3, <2>7, FallStep
  <2> QED
    BY <1>2, <2>3, <2>4, <2>5, <2>6, <2>7 DEF Moved, UnderWay
<1> QED
  BY <1>1, <1>2, RequestStep

\* What is locked stands still: no step of another request, no restock and no
\* edit writes a variant that a promotion has released or taken.
LEMMA LockedStand ==
    ASSUME TypeOK, LocksApart, [Next]_vars, NEW r \in Requests, req'[r] = req[r],
           NEW v \in LockedVariants(r)
    PROVE  stock'[v] = stock[v] /\ reserved'[v] = reserved[v]
<1> USE DEF TypeOK
<1>0. v \in Variants /\ req[r].pc = "promoting"
  BY DEF LockedVariants
<1>1. ASSUME NEW x \in Requests, NEW at, NEW t, Committing(x, at, t)
      PROVE  x # r /\ req[x].items \in Quantities
  BY <1>0, <1>1 DEF Committing, Idle, Request
<1>2. ASSUME NEW x \in Requests, x # r, Unlocked(x, {}, Items(req[x].items)),
             req[x].items \in Quantities
      PROVE  req[x].items[v] = 0
  BY <1>0, <1>2, QuantityType DEF Unlocked, Items
<1>3. ASSUME NEW x \in Requests, x # r, req[x].items \in Quantities, Consume(x)
      PROVE  stock'[v] = stock[v] /\ reserved'[v] = reserved[v]
  <2>1. req[x].items[v] = 0
    BY <1>2, <1>3 DEF Consume
  <2> QED
    BY <1>0, <1>3, <2>1 DEF Consume
<1>4. ASSUME NEW x \in Requests, CommitApprove(x)
      PROVE  stock'[v] = stock[v] /\ reserved'[v] = reserved[v]
  <2>1. req[x].items[v] = 0
    BY <1>1, <1>2, <1>4 DEF CommitApprove
  <2> QED
    BY <1>0, <1>4, <2>1 DEF CommitApprove, Held
<1>5. ASSUME NEW x \in Requests, CommitWaitlist(x)
      PROVE  stock'[v] = stock[v] /\ reserved'[v] = reserved[v]
  <2>1. CASE req[x].resv = "ACTIVE"
    <3>1. req[x].items[v] = 0
      BY <1>1, <1>2, <1>5, <2>1 DEF CommitWaitlist
    <3> QED
      BY <1>0, <1>5, <2>1, <3>1 DEF CommitWaitlist, Released, Monus
  <2>2. CASE req[x].resv # "ACTIVE"
    BY <1>5, <2>2 DEF CommitWaitlist
  <2> QED
    BY <2>1, <2>2
<1>6. ASSUME NEW x \in Requests, CommitReject(x)
      PROVE  stock'[v] = stock[v] /\ reserved'[v] = reserved[v]
  <2>1. /\ x # r /\ req[x].items \in Quantities /\ req[x].got \in SUBSET Orders
        /\ req[x].listed \in [Orders -> Quantities] /\ req[x].pc = "promoting"
        /\ reserved' = Taken(x) /\ stock' = stock
    BY <1>1, <1>6, RejectWrites DEF Request, Committing
  <2>2. v \notin LockedVariants(x)
    BY <2>1 DEF LocksApart
  <2>3. \A w \in req[x].got : v \notin Items(req[x].listed[w])
    BY <1>0, <2>1, <2>2 DEF LockedVariants, Items
  <2>4. Units(req[x].got, req[x].listed, v) = 0
    BY <1>0, <2>1, <2>3, UnitsNone
  <2>5. AfterRelease(x)[v] = reserved[v]
    <3>1. CASE req[x].resv = "ACTIVE"
      <4>1. req[x].items[v] = 0
        BY <1>0, <2>1, <2>2, <3>1, QuantityType DEF LockedVariants
      <4> QED
        BY <1>0, <3>1, <4>1 DEF AfterRelease, Released, Monus
    <3>2. CASE req[x].resv # "ACTIVE"
      BY <3>2 DEF AfterRelease
    <3> QED
      BY <3>1, <3>2
  <2> QED
    BY <1>0, <2>1, <2>4, <2>5 DEF Taken
<1>7. ASSUME NEW x \in Requests, CommitConfirm(x)
      PROVE  stock'[v] = stock[v] /\ reserved'[v] = reserved[v]
  BY <1>1, <1>3, <1>7 DEF CommitConfirm
<1>8. ASSUME NEW x \in Requests, CommitDeliver(x)
      PROVE  stock'[v] = stock[v] /\ reserved'[v] = reserved[v]
  BY <1>1, <1>3, <1>8 DEF CommitDeliver, stockVars
<1>9. ASSUME NEW u \in Variants, NEW n, Restock(u, n) \/ EditStock(u, n)
      PROVE  stock'[v] = stock[v] /\ reserved'[v] = reserved[v]
  BY <1>0, <1>9 DEF Restock, EditStock
<1>10. ASSUME UNCHANGED stockVars
       PROVE  stock'[v] = stock[v] /\ reserved'[v] = reserved[v]
  BY <1>10 DEF stockVars
<1>11. ASSUME NEW x \in Requests, NEW o \in Orders,
             \/ \E t \in OrderLifecycleStatus : AdminSetStatus(x, o, t)
             \/ \E q \in Quantities : IssueQuotation(x, o, q)
             \/ AcceptPayLater(x, o)
             \/ RejectQuotation(x, o)
             \/ StripeWebhook(x, o)
             \/ BeginPayment(x, o)
       PROVE  UNCHANGED stockVars
  <2>1. BeginPayment(x, o) \/ \E t, b, q : Check(x, o, t, b, q)
    BY <1>11, Zenon DEF AdminSetStatus, IssueQuotation, AcceptPayLater, RejectQuotation,
                       StripeWebhook
  <2> QED
    BY <2>1, Zenon DEF BeginPayment, Check
<1>12. ASSUME \/ \E x \in Requests : \/ TxRead(x) \/ UnderWay(x) \/ CommitFallback(x)
                                     \/ CommitPayment(x) \/ Abandon(x)
              \/ \E o \in Orders, q \in Quantities : PlaceOrder(o, q)
              \/ \E o \in Orders : OpenCheckout(o) \/ CustomerPays(o)
              \/ \E o \in Deletable : DeleteTransaction(o)
              \/ UNCHANGED vars
       PROVE  UNCHANGED stockVars
  BY <1>12, UnderWayStep
     DEF TxRead, CommitFallback, CommitPayment, Abandon, PlaceOrder, OpenCheckout,
         CustomerPays, DeleteTransaction, stockVars, vars
<1> QED
  BY <1>4, <1>5, <1>6, <1>7, <1>8, <1>9, <1>10, <1>11, <1>12 DEF Next, CommitStatus, UnderWay

\* What a promotion has taken, with all else that is held, is on the shelf.
HoldsFit ==
    \A r \in Requests : req[r].pc = "promoting" =>
      \A v \in Variants :
        (\E w \in req[r].got : req[r].listed[w][v] > 0) => Taken(r)[v] <= stock[v]

LEMMA HoldsFitNext ==
    TypeOK /\ GotInv /\ LocksApart /\ HoldsFit /\ [Next]_vars => HoldsFit'
<1> SUFFICES ASSUME TypeOK, GotInv, LocksApart, HoldsFit, [Next]_vars,
                    NEW r \in Requests, req'[r].pc = "promoting",
                    NEW v \in Variants, NEW u \in req'[r].got, req'[r].listed[u][v] > 0
             PROVE  Taken(r)'[v] <= stock'[v]
  BY DEF HoldsFit
<1>1. CASE req'[r] = req[r]
  <2>1. v \in LockedVariants(r) /\ Taken(r)[v] <= stock[v]
    BY <1>1 DEF LockedVariants, HoldsFit
  <2>2. stock'[v] = stock[v] /\ reserved'[v] = reserved[v]
    BY <1>1, <2>1, LockedStand
  <2>3. AfterRelease(r)'[v] = AfterRelease(r)[v]
    BY <1>1, <2>2 DEF AfterRelease, Released, TypeOK
  <2>4. Taken(r)'[v] = Taken(r)[v]
    BY <1>1, <2>3 DEF Taken
  <2> QED
    BY <2>1, <2>2, <2>4
<1>2. CASE Moved(r)
  <2>1. UnderWay(r)
    BY <1>2 DEF Moved
  <2>2. /\ UNCHANGED <<stock, reserved>>
        /\ req'[r].resv = req[r].resv /\ req'[r].items = req[r].items
    BY <2>1, UnderWayStep DEF stockVars
  <2>3. AfterRelease(r)' = AfterRelease(r)
    BY <2>2 DEF AfterRelease, Released
  <2>4. ~ FallShort(r) /\ ~ ListWaiting(r)
    BY FallStep, ListStep DEF GotInv
  <2>5. CASE PassNext(r)
    <3>1. req'[r].got = req[r].got /\ req'[r].listed = req[r].listed /\ req[r].pc = "promoting"
      BY <2>5, PassStep
    <3> QED
      BY <2>2, <2>3, <3>1 DEF HoldsFit, Taken
  <2>6. CASE PromoteNext(r)
    <3>1. PICK w \in Orders :
            /\ StillFits(r, w) /\ req[r].pc = "promoting"
            /\ req'[r].listed = req[r].listed /\ req'[r].got = req[r].got \cup {w}
      BY <2>6, PromoteStep
    <3>2. CASE w \in req[r].got
      <4>1. req'[r].got = req[r].got
        BY <3>1, <3>2
      <4> QED
        BY <2>2, <2>3, <3>1, <4>1 DEF HoldsFit, Taken
    <3>3. CASE w \notin req[r].got
      <4>1. req[r].got \in SUBSET Orders /\ req[r].listed \in [Orders -> Quantities]
        BY DEF TypeOK, Request
      <4>2. Units(req'[r].got, req'[r].listed, v)
              = Units(req[r].got, req[r].listed, v) + req[r].listed[w][v]
        BY <3>1, <3>3, <4>1, UnitsJoin
      <4>3. /\ Taken(r)[v] = AfterRelease(r)[v] + Units(req[r].got, req[r].listed, v)
            /\ Taken(r)'[v] = AfterRelease(r)[v] + Units(req'[r].got, req'[r].listed, v)
        BY <2>3 DEF Taken
      <4>4. /\ AfterRelease(r)[v] \in Nat /\ Units(req[r].got, req[r].listed, v) \in Nat
            /\ req[r].listed[w][v] \in Nat
        BY <4>1, TakenType, QuantityType
      <4>5. Taken(r)'[v] = Taken(r)[v] + req[r].listed[w][v]
        BY <4>2, <4>3, <4>4
      <4>6. CASE req[r].listed[w][v] > 0
        BY <2>2, <3>1, <4>5, <4>6 DEF StillFits, Items
      <4>7. CASE req[r].listed[w][v] = 0
        <5>1. u \in req[r].got /\ req[r].listed[u][v] > 0
          BY <3>1, <4>7
        <5>2. Taken(r)[v] <= stock[v]
          BY <3>1, <5>1 DEF HoldsFit
        <5> QED
          BY <2>2, <4>3, <4>4, <4>5, <4>7, <5>2
      <4> QED
        BY <4>4, <4>6, <4>7
    <3> QED
      BY <3>2, <3>3
  <2> QED
    BY <2>1, <2>4, <2>5, <2>6 DEF UnderWay
<1> QED
  <2>1. ASSUME NEW x \in Requests, Moved(x), x # r
        PROVE  req'[r] = req[r]
    BY <2>1 DEF Moved, TypeOK
  <2> QED
    BY <1>1, <1>2, <2>1, RequestStep

LEMMA PromotionInvariant == Spec => [](LocksApart /\ HoldsFit)
<1>1. Init => LocksApart /\ HoldsFit
  BY DEF Init, Idle, LocksApart, LockedVariants, HoldsFit
<1> QED
  BY <1>1, LocksNext, HoldsFitNext, GotInvariant, TypeInvariant, PTL DEF Spec

-----------------------------------------------------------------------------
(* No oversell.                                                             *)

LEMMA ReleasedCovered ==
    ASSUME TypeOK, NEW q \in Quantities, NEW v \in Variants
    PROVE  Released(q)[v] <= reserved[v]
  BY QuantityType, MonusType DEF TypeOK, Released

LEMMA ConsumeCovered ==
    ASSUME TypeOK, StockCoversReservations, NEW r \in Requests,
           req[r].items \in Quantities, Consume(r)
    PROVE  StockCoversReservations'
<1> DEFINE q == req[r].items
<1> SUFFICES ASSUME NEW v \in Variants PROVE reserved'[v] <= stock'[v]
  BY DEF StockCoversReservations
<1>1. q[v] \in Nat /\ stock[v] \in Nat /\ reserved[v] \in Nat
  BY QuantityType DEF TypeOK
<1>2. stock'[v] = stock[v] - q[v] /\ reserved'[v] = reserved[v] - q[v]
  BY DEF Consume
<1>3. reserved[v] <= stock[v]
  BY DEF StockCoversReservations
<1> QED
  BY <1>1, <1>2, <1>3

LEMMA CoveredNext ==
    TypeOK /\ HoldsFit /\ StockCoversReservations /\ [Next]_vars => StockCoversReservations'
<1> SUFFICES ASSUME TypeOK, HoldsFit, StockCoversReservations, [Next]_vars
             PROVE  StockCoversReservations'
  OBVIOUS
<1> USE DEF stockVars, orderVars
<1>1. ASSUME UNCHANGED <<stock, reserved>>
      PROVE  StockCoversReservations'
  BY <1>1 DEF StockCoversReservations
<1>2. ASSUME NEW r \in Requests, CommitApprove(r)
      PROVE  StockCoversReservations'
  <2> SUFFICES ASSUME NEW v \in Variants PROVE reserved'[v] <= stock'[v]
    BY DEF StockCoversReservations
  <2>1. req[r].items \in Quantities /\ req[r].items[v] \in Nat
    BY <1>2, CommittingType, QuantityType DEF CommitApprove
  <2>2. stock'[v] = stock[v] /\ reserved'[v] = reserved[v] + req[r].items[v]
    BY <1>2 DEF CommitApprove, Held
  <2>3. CASE v \in Items(req[r].items)
    BY <1>2, <2>2, <2>3 DEF CommitApprove, Fits
  <2>4. CASE v \notin Items(req[r].items)
    BY <2>1, <2>2, <2>4 DEF Items, StockCoversReservations, TypeOK
  <2> QED
    BY <2>3, <2>4
<1>3. ASSUME NEW r \in Requests, CommitWaitlist(r)
      PROVE  StockCoversReservations'
  <2> SUFFICES ASSUME NEW v \in Variants PROVE reserved'[v] <= stock'[v]
    BY DEF StockCoversReservations
  <2>1. req[r].items \in Quantities
    BY <1>3, CommittingType DEF CommitWaitlist
  <2>2. Released(req[r].items)[v] <= reserved[v] /\ Released(req[r].items)[v] \in Nat
    BY <2>1, ReleasedCovered, ReleasedType
  <2>3. reserved'[v] <= reserved[v] /\ reserved'[v] \in Nat
    BY <1>3, <2>2 DEF CommitWaitlist, TypeOK
  <2> QED
    BY <1>3, <2>3 DEF CommitWaitlist, StockCoversReservations, TypeOK
<1>4. ASSUME NEW r \in Requests, CommitReject(r)
      PROVE  StockCoversReservations'
  <2> SUFFICES ASSUME NEW v \in Variants PROVE reserved'[v] <= stock'[v]
    BY DEF StockCoversReservations
  <2>1. /\ reserved' = Taken(r) /\ stock' = stock /\ req[r].pc = "promoting"
        /\ req[r].got \in SUBSET Orders /\ req[r].listed \in [Orders -> Quantities]
    BY <1>4, RejectWrites DEF Committing, TypeOK, Request
  <2>2. CASE \E w \in req[r].got : req[r].listed[w][v] > 0
    BY <2>1, <2>2 DEF HoldsFit
  <2>3. CASE \A w \in req[r].got : v \notin Items(req[r].listed[w])
    <3>1. Units(req[r].got, req[r].listed, v) = 0
      BY <2>1, <2>3, UnitsNone
    <3>2. Taken(r)[v] = AfterRelease(r)[v]
      BY <3>1, TakenType DEF Taken
    <3>3. AfterRelease(r)[v] \in Nat /\ AfterRelease(r)[v] <= reserved[v]
      BY TakenType
    <3> QED
      BY <2>1, <3>2, <3>3 DEF StockCoversReservations, TypeOK
  <2> QED
    BY <2>2, <2>3 DEF Items
<1>5. ASSUME NEW r \in Requests, CommitConfirm(r)
      PROVE  StockCoversReservations'
  BY <1>5, CommittingType, ConsumeCovered DEF CommitConfirm
<1>6. ASSUME NEW r \in Requests, CommitDeliver(r)
      PROVE  StockCoversReservations'
  BY <1>6, <1>1, CommittingType, ConsumeCovered DEF CommitDeliver
<1>7. ASSUME NEW v \in Variants, NEW n \in RestockSizes, Restock(v, n)
      PROVE  StockCoversReservations'
  BY <1>7, FulfilmentAssumption DEF Restock, StockCoversReservations, TypeOK
<1>8. ASSUME NEW r \in Requests, NEW o \in Orders, NEW t, NEW b, NEW q, Check(r, o, t, b, q)
      PROVE  StockCoversReservations'
  BY <1>8, <1>1 DEF Check
<1>9. ASSUME NEW v \in Variants, NEW n \in EditableStock, EditStock(v, n)
      PROVE  StockCoversReservations'
  BY <1>9, FulfilmentAssumption DEF EditStock, StockCoversReservations, TypeOK
<1>10. CASE UNCHANGED vars
  BY <1>10, <1>1 DEF vars
<1>11. CASE Next
  <2>1. ASSUME NEW o \in Orders, NEW q \in Quantities, PlaceOrder(o, q)
        PROVE  StockCoversReservations'
    BY <2>1, <1>1 DEF PlaceOrder
  <2>2. ASSUME NEW r \in Requests, NEW o \in Orders,
               \/ \E t \in OrderLifecycleStatus : AdminSetStatus(r, o, t)
               \/ \E q \in Quantities : IssueQuotation(r, o, q)
               \/ AcceptPayLater(r, o)
               \/ RejectQuotation(r, o)
               \/ StripeWebhook(r, o)
        PROVE  StockCoversReservations'
    BY <2>2, <1>8 DEF AdminSetStatus, IssueQuotation, AcceptPayLater, RejectQuotation,
                      StripeWebhook
  <2>3. ASSUME NEW r \in Requests, NEW o \in Orders, BeginPayment(r, o)
        PROVE  StockCoversReservations'
    BY <2>3, <1>1 DEF BeginPayment
  <2>4. ASSUME NEW r \in Requests,
               TxRead(r) \/ UnderWay(r) \/ CommitFallback(r) \/ CommitPayment(r) \/ Abandon(r)
        PROVE  StockCoversReservations'
    BY <2>4, <1>1, UnderWayStep DEF TxRead, CommitFallback, CommitPayment, Abandon
  <2>5. ASSUME NEW o \in Orders, OpenCheckout(o) \/ CustomerPays(o) \/ DeleteTransaction(o)
        PROVE  StockCoversReservations'
    BY <2>5, <1>1 DEF OpenCheckout, CustomerPays, DeleteTransaction
  <2> QED
    BY <1>11, <1>2, <1>3, <1>4, <1>5, <1>6, <1>7, <1>9, <2>1, <2>2, <2>3, <2>4, <2>5,
       FulfilmentAssumption DEF Next, CommitStatus, UnderWay
<1> QED
  BY <1>10, <1>11

\* However many requests race, and though a promotion takes what it read some
\* steps before, no more units of a variant are ever held than are on the shelf.
THEOREM NoOversell == Spec => []StockCoversReservations
<1>1. Init => StockCoversReservations
  BY FulfilmentAssumption DEF Init, StockCoversReservations
<1> QED
  BY <1>1, CoveredNext, TypeInvariant, PromotionInvariant, PTL DEF Spec

-----------------------------------------------------------------------------
(* The workflow implements the stock ledger.                                *)

\* A hold that grows nowhere past the shelf is an exchange of the ledger.
LEMMA ExchangeStep ==
    ASSUME reserved' \in [Variants -> Nat], UNCHANGED <<stock, sales>>,
           \A v \in Variants : reserved'[v] > reserved[v] => reserved'[v] <= stock[v]
    PROVE  Ledger!Exchange
  BY DEF Ledger!Exchange

\* What a commit gives back never raises a hold.
LEMMA ReleaseStep ==
    ASSUME TypeOK, NEW q \in Quantities, UNCHANGED <<stock, sales>>,
           reserved' = Released(q) \/ reserved' = reserved
    PROVE  Ledger!Exchange
<1>1. \A v \in Variants : Released(q)[v] <= reserved[v] /\ Released(q)[v] \in Nat
  BY ReleasedCovered, ReleasedType
<1>2. reserved' \in [Variants -> Nat]
  BY ReleasedType DEF TypeOK
<1>3. \A v \in Variants : ~ (reserved'[v] > reserved[v])
  BY <1>1 DEF TypeOK
<1> QED
  BY <1>2, <1>3, ExchangeStep

\* Both finalizers sell what they take off the shelf and off the holds.
LEMMA SellStep ==
    ASSUME TypeOK, NEW r \in Requests, req[r].order \in Orders,
           req[r].items \in Quantities, Consume(r)
    PROVE  Ledger!Sell
<1> DEFINE q == req[r].items
<1>1. /\ stock' \in [Variants -> Nat]
      /\ reserved' \in [Variants -> Nat]
      /\ sales' \in [Variants -> Nat]
  BY ConsumeType
<1>2. ASSUME NEW v \in Variants
      PROVE  /\ sales[v] <= sales'[v]
             /\ stock'[v] + sales'[v] = stock[v] + sales[v]
             /\ reserved'[v] + sales'[v] = reserved[v] + sales[v]
  <2>1. /\ q[v] \in Nat /\ stock[v] \in Nat /\ reserved[v] \in Nat /\ sales[v] \in Nat
    BY QuantityType DEF TypeOK
  <2>2. /\ stock'[v] = stock[v] - q[v]
        /\ reserved'[v] = reserved[v] - q[v]
        /\ sales'[v] = sales[v] + q[v]
    BY DEF Consume
  <2> QED
    BY <2>1, <2>2
<1> QED
  BY <1>1, <1>2 DEF Ledger!Sell

LEMMA LedgerNext ==
    ASSUME TypeOK, HoldsFit, [Next]_vars
    PROVE  [Ledger!Next]_(Ledger!ledger)
<1> USE DEF stockVars, orderVars
<1> DEFINE Done == [Ledger!Next]_(Ledger!ledger)
<1>1. ASSUME UNCHANGED stockVars
      PROVE  Done
  BY <1>1 DEF Ledger!ledger
<1>2. ASSUME Ledger!Exchange \/ Ledger!Sell
      PROVE  Done
  BY <1>2 DEF Ledger!Next
<1>3. ASSUME NEW r \in Requests, CommitApprove(r)
      PROVE  Done
  <2>1. req[r].items \in Quantities
    BY <1>3, CommittingType DEF CommitApprove
  <2>2. reserved' \in [Variants -> Nat]
    BY <1>3, <2>1, QuantityType DEF CommitApprove, Held, TypeOK
  <2>3. ASSUME NEW v \in Variants, reserved'[v] > reserved[v]
        PROVE  reserved'[v] <= stock[v]
    <3>1. reserved'[v] = reserved[v] + req[r].items[v]
      BY <1>3 DEF CommitApprove, Held
    <3>2. v \in Items(req[r].items)
      BY <2>1, <2>3, <3>1, QuantityType DEF Items, TypeOK
    <3> QED
      BY <1>3, <3>1, <3>2 DEF CommitApprove, Fits
  <2> QED
    BY <1>2, <1>3, <2>2, <2>3, ExchangeStep DEF CommitApprove
<1>4. ASSUME NEW r \in Requests, CommitWaitlist(r)
      PROVE  Done
  <2>1. req[r].items \in Quantities
    BY <1>4, CommittingType DEF CommitWaitlist
  <2> QED
    BY <1>2, <1>4, <2>1, ReleaseStep DEF CommitWaitlist
<1>5. ASSUME NEW r \in Requests, CommitReject(r)
      PROVE  Done
  <2>1. /\ reserved' = Taken(r) /\ UNCHANGED <<stock, sales>> /\ req[r].pc = "promoting"
        /\ req[r].got \in SUBSET Orders /\ req[r].listed \in [Orders -> Quantities]
    BY <1>5, RejectWrites DEF Committing, TypeOK, Request
  <2>2. reserved' \in [Variants -> Nat]
    BY <2>1, TakenType
  <2>3. ASSUME NEW v \in Variants, reserved'[v] > reserved[v]
        PROVE  reserved'[v] <= stock[v]
    <3>1. CASE \E w \in req[r].got : req[r].listed[w][v] > 0
      BY <2>1, <3>1 DEF HoldsFit
    <3>2. CASE \A w \in req[r].got : v \notin Items(req[r].listed[w])
      <4>1. Units(req[r].got, req[r].listed, v) = 0
        BY <2>1, <3>2, UnitsNone
      <4>2. Taken(r)[v] = AfterRelease(r)[v]
        BY <4>1, TakenType DEF Taken
      <4> QED
        BY <2>1, <2>3, <4>2, TakenType DEF TypeOK
    <3> QED
      BY <3>1, <3>2 DEF Items
  <2> QED
    BY <1>2, <2>1, <2>2, <2>3, ExchangeStep
<1>6. ASSUME NEW r \in Requests, CommitConfirm(r)
      PROVE  Done
  BY <1>2, <1>6, CommittingType, SellStep DEF CommitConfirm
<1>7. ASSUME NEW r \in Requests, CommitDeliver(r)
      PROVE  Done
  BY <1>1, <1>2, <1>7, CommittingType, SellStep DEF CommitDeliver
<1>8. ASSUME NEW v \in Variants, NEW n \in RestockSizes, Restock(v, n)
      PROVE  Done
  <2>1. Ledger!Receive
    BY <1>8, FulfilmentAssumption DEF Restock, Ledger!Receive, TypeOK
  <2> QED
    BY <2>1 DEF Ledger!Next
<1>9. ASSUME NEW v \in Variants, NEW n \in EditableStock, EditStock(v, n)
      PROVE  Done
  <2>1. Ledger!Recount(v)
    BY <1>9 DEF EditStock, Ledger!Recount
  <2> QED
    BY <2>1 DEF Ledger!Next
<1>10. ASSUME NEW r \in Requests, NEW o \in Orders, NEW t, NEW b, NEW q, Check(r, o, t, b, q)
       PROVE  Done
  BY <1>1, <1>10 DEF Check
<1>11. CASE UNCHANGED vars
  BY <1>1, <1>11 DEF vars
<1>12. CASE Next
  <2>1. ASSUME NEW o \in Orders, NEW q \in Quantities, PlaceOrder(o, q)
        PROVE  Done
    BY <1>1, <2>1 DEF PlaceOrder
  <2>2. ASSUME NEW r \in Requests, NEW o \in Orders,
               \/ \E t \in OrderLifecycleStatus : AdminSetStatus(r, o, t)
               \/ \E q \in Quantities : IssueQuotation(r, o, q)
               \/ AcceptPayLater(r, o)
               \/ RejectQuotation(r, o)
               \/ StripeWebhook(r, o)
        PROVE  Done
    BY <1>10, <2>2 DEF AdminSetStatus, IssueQuotation, AcceptPayLater, RejectQuotation,
                       StripeWebhook
  <2>3. ASSUME NEW r \in Requests, NEW o \in Orders, BeginPayment(r, o)
        PROVE  Done
    BY <1>1, <2>3 DEF BeginPayment
  <2>4. ASSUME NEW r \in Requests,
               TxRead(r) \/ UnderWay(r) \/ CommitFallback(r) \/ CommitPayment(r) \/ Abandon(r)
        PROVE  Done
    BY <1>1, <2>4, UnderWayStep DEF TxRead, CommitFallback, CommitPayment, Abandon
  <2>5. ASSUME NEW o \in Orders, OpenCheckout(o) \/ CustomerPays(o) \/ DeleteTransaction(o)
        PROVE  Done
    BY <1>1, <2>5 DEF OpenCheckout, CustomerPays, DeleteTransaction
  <2> QED
    BY <1>12, <1>3, <1>4, <1>5, <1>6, <1>7, <1>8, <1>9, <2>1, <2>2, <2>3, <2>4, <2>5,
       FulfilmentAssumption DEF Next, CommitStatus, UnderWay
<1> QED
  BY <1>11, <1>12

\* For any number of handlers every behaviour of the workflow, seen through
\* stock, reservedStock and salesCount alone, is one of the stock ledger.
THEOREM WorkflowImplementsLedger == Spec => ImplementsStockLedger
<1>1. Init => Ledger!Open
  BY DEF Init, Ledger!Open
<1>2. TypeOK /\ HoldsFit /\ [Next]_vars => [Ledger!Next]_(Ledger!ledger)
  BY LedgerNext
<1> QED
  BY <1>1, <1>2, TypeInvariant, PromotionInvariant, PTL DEF Spec, ImplementsStockLedger, Ledger!Spec

-----------------------------------------------------------------------------
(* The two status columns.                                                  *)

LEMMA MirrorNext == TypeOK /\ OrderMirrorsTransaction /\ [Next]_vars
                      => OrderMirrorsTransaction'
<1> SUFFICES ASSUME TypeOK, OrderMirrorsTransaction, [Next]_vars
             PROVE  OrderMirrorsTransaction'
  OBVIOUS
<1> USE DEF stockVars, orderVars
<1>1. ASSUME UNCHANGED <<status, txn>>
      PROVE  OrderMirrorsTransaction'
  BY <1>1 DEF OrderMirrorsTransaction
<1>2. ASSUME NEW o \in Orders, NEW s, SetStatus(o, s)
      PROVE  OrderMirrorsTransaction'
  BY <1>2 DEF SetStatus, OrderMirrorsTransaction, TypeOK
<1>3. ASSUME NEW o \in Orders, NEW q \in Quantities, PlaceOrder(o, q)
      PROVE  OrderMirrorsTransaction'
  BY <1>3 DEF PlaceOrder, OrderMirrorsTransaction, TypeOK
<1>4. ASSUME NEW r \in Requests, CommitReject(r)
      PROVE  OrderMirrorsTransaction'
  BY <1>4, RejectWrites DEF OrderMirrorsTransaction
<1>5. ASSUME NEW r \in Requests, CommitPayment(r)
      PROVE  OrderMirrorsTransaction'
  <2>1. req[r].order \in Orders
    BY DEF TypeOK, Request
  <2> QED
    BY <1>5, <2>1 DEF CommitPayment, OrderMirrorsTransaction, TypeOK
<1>6. ASSUME NEW r \in Requests, CommitStatus(r)
      PROVE  OrderMirrorsTransaction'
  <2>1. req[r].order \in Orders
    BY DEF TypeOK, Request
  <2> QED
    BY <1>2, <1>4, <1>6, <2>1
       DEF CommitStatus, CommitApprove, CommitFallback, CommitWaitlist, CommitConfirm,
           CommitDeliver
<1>7. ASSUME NEW o \in Deletable, DeleteTransaction(o)
      PROVE  OrderMirrorsTransaction'
  BY <1>7, FulfilmentAssumption DEF DeleteTransaction, OrderMirrorsTransaction, TypeOK
<1>8. ASSUME NEW r \in Requests, NEW o \in Orders,
             \/ \E t \in OrderLifecycleStatus : AdminSetStatus(r, o, t)
             \/ \E q \in Quantities : IssueQuotation(r, o, q)
             \/ AcceptPayLater(r, o)
             \/ RejectQuotation(r, o)
             \/ StripeWebhook(r, o)
             \/ BeginPayment(r, o)
      PROVE  OrderMirrorsTransaction'
  BY <1>8, <1>1 DEF AdminSetStatus, IssueQuotation, AcceptPayLater, RejectQuotation,
                    StripeWebhook, BeginPayment, Check
<1>9. ASSUME NEW r \in Requests, TxRead(r) \/ UnderWay(r) \/ Abandon(r)
      PROVE  OrderMirrorsTransaction'
  BY <1>9, <1>1, UnderWayStep DEF TxRead, Abandon
<1>10. ASSUME NEW o \in Orders, OpenCheckout(o) \/ CustomerPays(o)
       PROVE  OrderMirrorsTransaction'
  BY <1>10, <1>1 DEF OpenCheckout, CustomerPays
<1>11. ASSUME NEW v \in Variants, NEW n, Restock(v, n) \/ EditStock(v, n)
       PROVE  OrderMirrorsTransaction'
  BY <1>11, <1>1 DEF Restock, EditStock
<1>12. CASE UNCHANGED vars
  BY <1>12, <1>1 DEF vars
<1> QED
  BY <1>3, <1>5, <1>6, <1>7, <1>8, <1>9, <1>10, <1>11, <1>12 DEF Next, UnderWay

\* As long as an order's transaction exists, it has the order's status: the
\* admin list (transactions) and the customer's (orders) never disagree.
THEOREM StatusColumnsAgree == Spec => []OrderMirrorsTransaction
<1>1. Init => OrderMirrorsTransaction
  BY DEF Init, OrderMirrorsTransaction
<1> QED
  BY <1>1, MirrorNext, TypeInvariant, PTL DEF Spec

-----------------------------------------------------------------------------
(* Quoted quantities.                                                       *)

\* Quantities q ask for the items of order o, and no more of them than ordered.
Within(q, o) == /\ Items(q) = Items(ordered[o])
                /\ \A v \in Variants : q[v] <= ordered[o][v]

\* The strengthening: what an open database transaction has read, and will
\* write back if it carries a quotation, is within what was ordered too.
QuoteInv ==
    /\ \A o \in Orders : Within(qty[o], o)
    /\ \A r \in Requests : req[r].pc \in {"read", "short"} =>
         status[req[r].order] # "NONE" /\ Within(req[r].items, req[r].order)

\* Steps that leave the orders' quantities, and the open transactions that have
\* read, alone or fewer.
LEMMA QuoteKept ==
    ASSUME TypeOK, QuoteInv, UNCHANGED <<qty, ordered>>,
           \A o \in Orders : status[o] # "NONE" => status'[o] # "NONE",
           \A r \in Requests : req'[r].pc \in {"read", "short"} =>
             req[r].pc \in {"read", "short"} /\ req'[r].order = req[r].order
               /\ req'[r].items = req[r].items
    PROVE  QuoteInv'
<1>1. \A o \in Orders : Within(qty[o], o)'
  BY DEF QuoteInv, Within
<1>2. ASSUME NEW r \in Requests, req'[r].pc \in {"read", "short"}
      PROVE  status'[req'[r].order] # "NONE" /\ Within(req[r].items, req[r].order)'
  BY <1>2 DEF QuoteInv, Within, TypeOK, Request
<1> QED
  BY <1>1, <1>2 DEF QuoteInv, Within

\* A commit that writes back the quantities its request read.
LEMMA QuoteCommit ==
    ASSUME TypeOK, QuoteInv, NEW r \in Requests, req[r].pc \in {"read", "short"},
           UNCHANGED ordered, req' = [req EXCEPT ![r] = Idle],
           qty' = [qty EXCEPT ![req[r].order] = IF req[r].quoted THEN req[r].items ELSE @],
           \A o \in Orders : status[o] # "NONE" => status'[o] # "NONE"
    PROVE  QuoteInv'
<1> DEFINE o == req[r].order
<1>1. o \in Orders /\ Within(req[r].items, o)
  BY DEF QuoteInv, TypeOK, Request
<1>2. ASSUME NEW p \in Orders
      PROVE  Within(qty[p], p)'
  <2>1. qty'[p] = qty[p] \/ (p = o /\ qty'[p] = req[r].items)
    BY <1>1 DEF TypeOK
  <2> QED
    BY <1>1, <2>1 DEF QuoteInv, Within
<1>3. ASSUME NEW x \in Requests, req'[x].pc \in {"read", "short"}
      PROVE  status'[req'[x].order] # "NONE" /\ Within(req[x].items, req[x].order)'
  <2>1. req'[x] = req[x]
    BY <1>3 DEF TypeOK, Idle
  <2> QED
    BY <1>3, <2>1 DEF QuoteInv, Within, TypeOK, Request
<1> QED
  BY <1>2, <1>3 DEF QuoteInv, Within

LEMMA QuoteNext == TypeOK /\ OrderMirrorsTransaction /\ QuoteInv /\ [Next]_vars => QuoteInv'
<1> SUFFICES ASSUME TypeOK, OrderMirrorsTransaction, QuoteInv, [Next]_vars
             PROVE  QuoteInv'
  OBVIOUS
<1> USE DEF stockVars, orderVars
<1>1. ASSUME NEW o \in Orders, NEW q \in Quantities, PlaceOrder(o, q)
      PROVE  QuoteInv'
  <2>1. ASSUME NEW p \in Orders
        PROVE  Within(qty[p], p)' /\ (status[p] # "NONE" => p # o /\ status'[p] # "NONE")
    <3>1. CASE p = o
      BY <1>1, <3>1, QuantityType DEF PlaceOrder, TypeOK, Within
    <3>2. CASE p # o
      BY <1>1, <3>2 DEF PlaceOrder, TypeOK, Within, QuoteInv
    <3> QED
      BY <3>1, <3>2
  <2>2. ASSUME NEW r \in Requests, req'[r].pc \in {"read", "short"}
        PROVE  status'[req'[r].order] # "NONE" /\ Within(req[r].items, req[r].order)'
    <3>1. /\ req' = req
          /\ req[r].order \in Orders /\ req[r].order # o
          /\ status'[req[r].order] # "NONE"
      BY <1>1, <2>1, <2>2 DEF PlaceOrder, QuoteInv, TypeOK, Request
    <3>2. ordered'[req[r].order] = ordered[req[r].order]
      BY <1>1, <3>1 DEF PlaceOrder, TypeOK
    <3> QED
      BY <2>2, <3>1, <3>2 DEF QuoteInv, Within
  <2> QED
    BY <2>1, <2>2 DEF QuoteInv, Within
<1>2. ASSUME NEW r \in Requests, NEW o \in Orders, NEW t, NEW b, NEW q, Check(r, o, t, b, q)
      PROVE  QuoteInv'
  <2>1. \A x \in Requests : req'[x].pc \in {"read", "short"} => req'[x] = req[x]
    BY <1>2 DEF Check, TypeOK, Idle
  <2> QED
    BY <1>2, <2>1, QuoteKept DEF Check
<1>3. ASSUME NEW r \in Requests, NEW o \in Orders,
             \/ \E t \in OrderLifecycleStatus : AdminSetStatus(r, o, t)
             \/ \E q \in Quantities : IssueQuotation(r, o, q)
             \/ AcceptPayLater(r, o)
             \/ RejectQuotation(r, o)
             \/ StripeWebhook(r, o)
      PROVE  QuoteInv'
  BY <1>3, <1>2 DEF AdminSetStatus, IssueQuotation, AcceptPayLater, RejectQuotation,
                    StripeWebhook
<1>4. ASSUME NEW r \in Requests, NEW o \in Orders, BeginPayment(r, o)
      PROVE  QuoteInv'
  <2>1. \A x \in Requests : req'[x].pc \in {"read", "short"} => req'[x] = req[x]
    BY <1>4 DEF BeginPayment, TypeOK, Idle
  <2> QED
    BY <1>4, <2>1, QuoteKept DEF BeginPayment
<1>5. ASSUME NEW r \in Requests, TxRead(r)
      PROVE  QuoteInv'
  <2> DEFINE o == req[r].order
  <2>1. o \in Orders /\ status[o] # "NONE" /\ Within(qty[o], o)
    BY <1>5 DEF TxRead, OrderMirrorsTransaction, QuoteInv, TypeOK, Request
  <2>2. req'[r].order = o
        /\ req'[r].items = IF req[r].quoted THEN req[r].items ELSE qty[o]
    BY <1>5 DEF TxRead, TypeOK, Request
  <2>3. Within(req'[r].items, o)
    <3>1. CASE ~req[r].quoted
      BY <2>1, <2>2, <3>1
    <3>2. CASE req[r].quoted
      <4>1. QuotationAllowed(o, req[r].items)
        BY <1>5, <3>2 DEF TxRead
      <4>2. req[r].items \in Quantities
        BY DEF TypeOK, Request
      <4>3. ASSUME NEW v \in Variants
            PROVE  req[r].items[v] <= ordered[o][v]
        <5>1. req[r].items[v] \in Nat /\ qty[o][v] \in Nat /\ ordered[o][v] \in Nat
          BY <2>1, <4>2, QuantityType DEF TypeOK
        <5>2. qty[o][v] <= ordered[o][v]
          BY <2>1 DEF Within
        <5> QED
          BY <4>1, <5>1, <5>2 DEF QuotationAllowed, Items
      <4>4. Items(req[r].items) = Items(ordered[o])
        BY <2>1, <4>1 DEF QuotationAllowed, Within
      <4> QED
        BY <2>2, <3>2, <4>3, <4>4 DEF Within
    <3> QED
      BY <3>1, <3>2
  <2>4. \A x \in Requests \ {r} : req'[x] = req[x]
    BY <1>5 DEF TxRead, TypeOK
  <2>5. UNCHANGED <<qty, ordered, status>>
    BY <1>5 DEF TxRead
  <2>6. \A p \in Orders : Within(qty[p], p)'
    BY <2>5 DEF QuoteInv, Within
  <2>7. ASSUME NEW x \in Requests, req'[x].pc \in {"read", "short"}
        PROVE  status'[req'[x].order] # "NONE" /\ Within(req[x].items, req[x].order)'
    <3>1. CASE x = r
      BY <2>1, <2>2, <2>3, <2>5, <3>1 DEF Within
    <3>2. CASE x # r
      BY <2>4, <2>5, <2>7, <3>2 DEF QuoteInv, Within
    <3> QED
      BY <3>1, <3>2
  <2> QED
    BY <2>6, <2>7 DEF QuoteInv, Within
<1>6. ASSUME NEW r \in Requests, CommitApprove(r) \/ CommitFallback(r)
      PROVE  QuoteInv'
  <2>1. /\ req[r].pc \in {"read", "short"}
        /\ UNCHANGED ordered
        /\ req' = [req EXCEPT ![r] = Idle]
        /\ qty' = [qty EXCEPT ![req[r].order] = IF req[r].quoted THEN req[r].items ELSE @]
    BY <1>6 DEF CommitApprove, CommitFallback, Committing
  <2>2. \A o \in Orders : status[o] # "NONE" => status'[o] # "NONE"
    BY <1>6 DEF CommitApprove, CommitFallback, SetStatus, TypeOK
  <2> QED
    BY <2>1, <2>2, QuoteCommit
<1>7. ASSUME NEW r \in Requests,
             CommitWaitlist(r) \/ CommitConfirm(r) \/ CommitDeliver(r)
      PROVE  QuoteInv'
  <2>1. /\ req' = [req EXCEPT ![r] = Idle]
        /\ UNCHANGED <<qty, ordered>>
    BY <1>7 DEF CommitWaitlist, CommitConfirm, CommitDeliver, Committing
  <2>2. \A o \in Orders : status[o] # "NONE" => status'[o] # "NONE"
    BY <1>7 DEF CommitWaitlist, CommitConfirm, CommitDeliver, SetStatus, TypeOK
  <2>3. \A x \in Requests : req'[x].pc \in {"read", "short"} => req'[x] = req[x]
    BY <2>1 DEF TypeOK, Idle
  <2> QED
    BY <2>1, <2>2, <2>3, QuoteKept
<1>8. ASSUME NEW r \in Requests, CommitReject(r)
      PROVE  QuoteInv'
  <2>1. /\ req' = [req EXCEPT ![r] = Idle]
        /\ UNCHANGED <<qty, ordered>>
    BY <1>8, RejectWrites
  <2>2. \A o \in Orders : status[o] # "NONE" => status'[o] # "NONE"
    BY <1>8, RejectWrites
  <2>3. \A x \in Requests : req'[x].pc \in {"read", "short"} => req'[x] = req[x]
    BY <2>1 DEF TypeOK, Idle
  <2> QED
    BY <2>1, <2>2, <2>3, QuoteKept
<1>9. ASSUME NEW r \in Requests, CommitPayment(r) \/ Abandon(r)
      PROVE  QuoteInv'
  <2>1. /\ req' = [req EXCEPT ![r] = Idle]
        /\ UNCHANGED <<qty, ordered>>
    BY <1>9 DEF CommitPayment, Abandon
  <2>2. \A o \in Orders : status[o] # "NONE" => status'[o] # "NONE"
    BY <1>9 DEF CommitPayment, Abandon, TypeOK
  <2>3. \A x \in Requests : req'[x].pc \in {"read", "short"} => req'[x] = req[x]
    BY <2>1 DEF TypeOK, Idle
  <2> QED
    BY <2>1, <2>2, <2>3, QuoteKept
<1>10. ASSUME UNCHANGED <<qty, ordered, status, req>>
       PROVE  QuoteInv'
  BY <1>10, QuoteKept
<1>11. ASSUME NEW o \in Orders, OpenCheckout(o) \/ CustomerPays(o) \/ DeleteTransaction(o)
       PROVE  QuoteInv'
  BY <1>11, <1>10 DEF OpenCheckout, CustomerPays, DeleteTransaction
<1>12. ASSUME NEW v \in Variants, NEW n, Restock(v, n) \/ EditStock(v, n)
       PROVE  QuoteInv'
  BY <1>12, <1>10 DEF Restock, EditStock
<1>13. ASSUME NEW r \in Requests, UnderWay(r)
       PROVE  QuoteInv'
  <2>1. \A x \in Requests : req'[x].pc \in {"read", "short"} =>
          req[x].pc \in {"read", "short"} /\ req'[x].order = req[x].order
            /\ req'[x].items = req[x].items
    <3>1. req'[r].pc = "short" => req[r].pc = "read"
      BY <1>13, FallStep, ListStep, PromoteStep, PassStep DEF UnderWay
    <3>2. /\ req' = [req EXCEPT ![r] = req'[r]] /\ req'[r].pc # "read"
          /\ req'[r].order = req[r].order /\ req'[r].items = req[r].items
      BY <1>13, UnderWayStep
    <3> QED
      BY <3>1, <3>2 DEF TypeOK
  <2>2. UNCHANGED <<qty, ordered, status>>
    BY <1>13, UnderWayStep
  <2> QED
    BY <2>1, <2>2, QuoteKept
<1>14. CASE UNCHANGED vars
  BY <1>14, <1>10 DEF vars
<1> QED
  BY <1>1, <1>3, <1>4, <1>5, <1>6, <1>7, <1>8, <1>9, <1>11, <1>12, <1>13, <1>14,
     FulfilmentAssumption DEF Next, CommitStatus, UnderWay

LEMMA QuoteInvariant == Spec => []QuoteInv
<1>1. Init => QuoteInv
  <2> SUFFICES ASSUME Init PROVE QuoteInv
    OBVIOUS
  <2>1. \A o \in Orders : Within(qty[o], o)
    BY NoItemsType, QuantityType DEF Init, Within, NoItems
  <2>2. \A r \in Requests : req[r].pc \notin {"read", "short"}
    BY DEF Init, Idle
  <2> QED
    BY <2>1, <2>2 DEF QuoteInv
<1> QED
  BY <1>1, QuoteNext, TypeInvariant, StatusColumnsAgree, PTL DEF Spec

\* No sequence of quotations, by however many admins at once, asks for an item
\* or a unit that was not ordered.
THEOREM NeverQuotedBeyondOrder == Spec => []QuotedWithinOrdered
<1>1. QuoteInv => QuotedWithinOrdered
  BY DEF QuoteInv, Within, QuotedWithinOrdered
<1> QED
  BY <1>1, QuoteInvariant, PTL

-----------------------------------------------------------------------------
(* What the books rest on, however requests overlap.                        *)

\* What a request asks for stays as it was when it was accepted.
Asked ==
    \A r \in Requests : req[r].pc \in {"checked", "read", "short", "promoting"} =>
      /\ req[r].quoted => req[r].target = "AWAITING_PAYMENT"
      /\ req[r].target = "CONFIRMED" /\ req[r].order \notin PayLaterOrders
           => checkout[req[r].order] = "CAPTURED"

UnplacedHoldsNothing ==
    \A o \in Orders : status[o] = "NONE" => resv[o] = "NONE" /\ queuedAt[o] = 0

BaseInv ==
    /\ TypeOK
    /\ OrderMirrorsTransaction
    /\ Asked
    /\ UnplacedHoldsNothing
    /\ GotInv

LEMMA AllowedCases ==
    ASSUME TypeOK, NEW o \in Orders, NEW t, Allowed(o, t)
    PROVE  /\ status[o] # "NONE"
           /\ t = "AWAITING_PAYMENT" => status[o] \in {"PENDING_VERIFICATION", "WAITLISTED"}
           /\ t = "WAITLISTED" => status[o] = "PENDING_VERIFICATION"
           /\ t \in {"QUOTATION_REJECTED", "CONFIRMED"} => status[o] = "AWAITING_PAYMENT"
           /\ t = "DELIVERED" =>
                \/ status[o] = "CONFIRMED"
                \/ status[o] = "AWAITING_PAYMENT" /\ o \in PayLaterOrders
  BY DEF Allowed, TypeOK, RowStatus, OrderLifecycleStatus, Transitions

\* A step in which at most request r moves, to q, and nothing captured is lost.
LEMMA AskedMoved ==
    ASSUME TypeOK, Asked, NEW r \in Requests, NEW q, req' = [req EXCEPT ![r] = q],
           \A o \in Orders : checkout[o] = "CAPTURED" => checkout'[o] = "CAPTURED",
           q.pc \in {"checked", "read", "short", "promoting"} =>
             /\ q.quoted => q.target = "AWAITING_PAYMENT"
             /\ q.target = "CONFIRMED" /\ q.order \notin PayLaterOrders
                  => checkout'[q.order] = "CAPTURED"
    PROVE  Asked'
<1> SUFFICES ASSUME NEW x \in Requests, req'[x].pc \in {"checked", "read", "short", "promoting"}
             PROVE  /\ req'[x].quoted => req'[x].target = "AWAITING_PAYMENT"
                    /\ req'[x].target = "CONFIRMED" /\ req'[x].order \notin PayLaterOrders
                         => checkout'[req'[x].order] = "CAPTURED"
  BY DEF Asked
<1>1. CASE x = r
  <2>1. req'[x] = q
    BY <1>1 DEF TypeOK
  <2> QED
    BY <2>1
<1>2. CASE x # r
  <2>1. req'[x] = req[x] /\ req[x].order \in Orders
    BY <1>2 DEF TypeOK, Request
  <2> QED
    BY <2>1 DEF Asked
<1> QED
  BY <1>1, <1>2

LEMMA AskedCheck ==
    ASSUME BaseInv, NEW r \in Requests, NEW o \in Orders, NEW t, NEW b \in BOOLEAN, NEW q,
           Check(r, o, t, b, q), b => t = "AWAITING_PAYMENT",
           t = "CONFIRMED" /\ o \notin PayLaterOrders => checkout[o] = "CAPTURED"
    PROVE  Asked'
<1> DEFINE n == [Idle EXCEPT !.pc = "checked", !.order = o, !.target = t,
                             !.quoted = b, !.items = q]
<1>1. n.order = o /\ n.target = t /\ n.quoted = b
  BY DEF Idle
<1>2. req' = [req EXCEPT ![r] = n] /\ checkout' = checkout
  BY DEF Check
<1> HIDE DEF n
<1> QED
  BY <1>1, <1>2, AskedMoved DEF BaseInv

\* A step that leaves every request and every captured payment as it is.
LEMMA AskedKept ==
    ASSUME BaseInv, req' = req,
           \A o \in Orders : checkout[o] = "CAPTURED" => checkout'[o] = "CAPTURED"
    PROVE  Asked'
<1>1. \A r \in Requests : req[r].order \in Orders
  BY DEF BaseInv, TypeOK, Request
<1> QED
  BY <1>1 DEF BaseInv, Asked

LEMMA AskedNext == BaseInv /\ [Next]_vars => Asked'
<1> SUFFICES ASSUME BaseInv, [Next]_vars PROVE Asked'
  OBVIOUS
<1>1. ASSUME NEW r \in Requests, NEW o \in Orders, NEW t \in OrderLifecycleStatus,
             AdminSetStatus(r, o, t)
      PROVE  Asked'
  BY <1>1, AskedCheck DEF AdminSetStatus
<1>2. ASSUME NEW r \in Requests, NEW o \in Orders, NEW q \in Quantities,
             IssueQuotation(r, o, q)
      PROVE  Asked'
  BY <1>2, AskedCheck DEF IssueQuotation
<1>3. ASSUME NEW r \in Requests, NEW o \in Orders,
             AcceptPayLater(r, o) \/ StripeWebhook(r, o) \/ RejectQuotation(r, o)
      PROVE  Asked'
  BY <1>3, AskedCheck DEF AcceptPayLater, StripeWebhook, RejectQuotation
<1>4. ASSUME NEW r \in Requests, NEW o \in Orders, BeginPayment(r, o)
      PROVE  Asked'
  <2> DEFINE n == [Idle EXCEPT !.pc = "paying", !.order = o, !.status = status[o]]
  <2>1. n.pc = "paying"
    BY DEF Idle
  <2>2. req' = [req EXCEPT ![r] = n] /\ checkout' = checkout
    BY <1>4 DEF BeginPayment
  <2> HIDE DEF n
  <2> QED
    BY <2>1, <2>2, AskedMoved DEF BaseInv
<1>5. ASSUME NEW r \in Requests, TxRead(r)
      PROVE  Asked'
  <2>1. /\ req'[r].order = req[r].order /\ req'[r].target = req[r].target
        /\ req'[r].quoted = req[r].quoted /\ req[r].pc = "checked"
    BY <1>5 DEF TxRead, BaseInv, TypeOK, Request
  <2>2. req' = [req EXCEPT ![r] = req'[r]] /\ checkout' = checkout
    BY <1>5 DEF TxRead, BaseInv, TypeOK
  <2>3. /\ req[r].quoted => req[r].target = "AWAITING_PAYMENT"
        /\ req[r].target = "CONFIRMED" /\ req[r].order \notin PayLaterOrders
             => checkout[req[r].order] = "CAPTURED"
    BY <2>1 DEF BaseInv, Asked
  <2> QED
    BY <2>1, <2>2, <2>3, AskedMoved DEF BaseInv
<1>6. ASSUME NEW r \in Requests, CommitStatus(r) \/ CommitPayment(r) \/ Abandon(r)
      PROVE  Asked'
  <2>1. req' = [req EXCEPT ![r] = Idle] /\ checkout' = checkout
    BY <1>6 DEF CommitStatus, CommitApprove, CommitFallback, CommitWaitlist, CommitReject,
                CommitConfirm, CommitDeliver, Committing, CommitPayment, Abandon
  <2>2. Idle.pc = "idle"
    BY DEF Idle
  <2> QED
    BY <2>1, <2>2, AskedMoved DEF BaseInv
<1>7. ASSUME NEW o \in Orders, OpenCheckout(o) \/ CustomerPays(o)
      PROVE  Asked'
  <2>1. req' = req /\ \A p \in Orders : checkout[p] = "CAPTURED" => checkout'[p] = "CAPTURED"
    BY <1>7 DEF OpenCheckout, CustomerPays, BaseInv, TypeOK
  <2> QED
    BY <2>1, AskedKept
<1>8. ASSUME req' = req, checkout' = checkout
      PROVE  Asked'
  BY <1>8, AskedKept
<1>9. ASSUME NEW r \in Requests, UnderWay(r)
      PROVE  Asked'
  <2>1. /\ req'[r].order = req[r].order /\ req'[r].target = req[r].target
        /\ req'[r].quoted = req[r].quoted /\ req[r].pc \in {"read", "promoting"}
        /\ req' = [req EXCEPT ![r] = req'[r]] /\ checkout' = checkout
    BY <1>9, UnderWayStep DEF BaseInv
  <2>2. /\ req[r].quoted => req[r].target = "AWAITING_PAYMENT"
        /\ req[r].target = "CONFIRMED" /\ req[r].order \notin PayLaterOrders
             => checkout[req[r].order] = "CAPTURED"
    BY <2>1 DEF BaseInv, Asked
  <2> QED
    BY <2>1, <2>2, AskedMoved DEF BaseInv
<1>10. CASE \/ \E o \in Orders, q \in Quantities : PlaceOrder(o, q)
            \/ \E o \in Deletable : DeleteTransaction(o)
            \/ \E v \in Variants : \/ \E n \in RestockSizes : Restock(v, n)
                                   \/ \E n \in EditableStock : EditStock(v, n)
            \/ UNCHANGED vars
  BY <1>8, <1>10 DEF PlaceOrder, DeleteTransaction, Restock, EditStock, vars
<1> QED
  BY <1>1, <1>2, <1>3, <1>4, <1>5, <1>6, <1>7, <1>9, <1>10 DEF Next, UnderWay

\* The rows the books are kept in.
bookVars == <<reserved, sales, status, resv, payment, qty, queuedAt, paidTxns>>

\* Only a placement, a commit of a status and a payment write those rows; a
\* payment once captured stays captured.
LEMMA StepCases ==
    ASSUME TypeOK, [Next]_vars
    PROVE  \/ \E o \in Orders, q \in Quantities : PlaceOrder(o, q)
           \/ \E r \in Requests : CommitStatus(r)
           \/ \E r \in Requests : CommitPayment(r)
           \/ /\ UNCHANGED bookVars
              /\ \A o \in Orders : checkout[o] = "CAPTURED" => checkout'[o] = "CAPTURED"
<1> DEFINE Quiet == /\ UNCHANGED bookVars
                    /\ \A o \in Orders : checkout[o] = "CAPTURED" => checkout'[o] = "CAPTURED"
<1>1. ASSUME NEW r \in Requests, NEW o \in Orders,
             \/ \E t \in OrderLifecycleStatus : AdminSetStatus(r, o, t)
             \/ \E q \in Quantities : IssueQuotation(r, o, q)
             \/ AcceptPayLater(r, o)
             \/ RejectQuotation(r, o)
             \/ StripeWebhook(r, o)
             \/ BeginPayment(r, o)
      PROVE  Quiet
  <2>1. BeginPayment(r, o) \/ \E t, b, q : Check(r, o, t, b, q)
    BY <1>1, Zenon DEF AdminSetStatus, IssueQuotation, AcceptPayLater, RejectQuotation,
                       StripeWebhook
  <2>2. UNCHANGED <<stockVars, orderVars, paidTxns, checkout>>
    BY <2>1, Zenon DEF BeginPayment, Check
  <2> QED
    BY <2>2 DEF stockVars, orderVars, bookVars
<1>2. ASSUME NEW r \in Requests, TxRead(r) \/ UnderWay(r) \/ Abandon(r)
      PROVE  Quiet
  <2>1. UNCHANGED <<stockVars, orderVars, paidTxns, checkout>>
    BY <1>2, UnderWayStep DEF TxRead, Abandon
  <2> QED
    BY <2>1 DEF stockVars, orderVars, bookVars
<1>3. ASSUME NEW o \in Orders, OpenCheckout(o) \/ CustomerPays(o)
      PROVE  Quiet
  BY <1>3 DEF OpenCheckout, CustomerPays, stockVars, orderVars, bookVars, TypeOK
<1>4. ASSUME NEW o \in Deletable, DeleteTransaction(o)
      PROVE  Quiet
  BY <1>4 DEF DeleteTransaction, stockVars, bookVars
<1>5. ASSUME NEW v \in Variants, NEW n, Restock(v, n) \/ EditStock(v, n)
      PROVE  Quiet
  BY <1>5 DEF Restock, EditStock, orderVars, bookVars
<1>6. CASE UNCHANGED vars
  BY <1>6 DEF vars, bookVars
<1> QED
  BY <1>1, <1>2, <1>3, <1>4, <1>5, <1>6 DEF Next, UnderWay

\* A commit finds a transaction, so it writes an order that was placed.
LEMMA UnplacedNext == BaseInv /\ [Next]_vars => UnplacedHoldsNothing'
<1> SUFFICES ASSUME BaseInv, [Next]_vars, NEW p \in Orders, status'[p] = "NONE"
             PROVE  resv'[p] = "NONE" /\ queuedAt'[p] = 0
  BY DEF UnplacedHoldsNothing
<1> USE DEF BaseInv, TypeOK, orderVars
<1>1. status[p] = "NONE" => resv[p] = "NONE" /\ queuedAt[p] = 0
  BY DEF UnplacedHoldsNothing
<1>2. ASSUME status'[p] = status[p], resv'[p] = resv[p], queuedAt'[p] = queuedAt[p]
      PROVE  resv'[p] = "NONE" /\ queuedAt'[p] = 0
  BY <1>1, <1>2
<1>3. ASSUME NEW r \in Requests, CommitApprove(r) \/ CommitFallback(r) \/ CommitWaitlist(r)
      PROVE  resv'[p] = "NONE" /\ queuedAt'[p] = 0
  <2>1. req[r].order \in Orders
    BY DEF Request
  <2>2. status'[req[r].order] # "NONE"
    BY <1>3, <2>1 DEF CommitApprove, CommitFallback, CommitWaitlist, SetStatus
  <2>3. p # req[r].order
    BY <2>2
  <2>4. status'[p] = status[p] /\ resv'[p] = resv[p] /\ queuedAt'[p] = queuedAt[p]
    BY <1>3, <2>1, <2>3 DEF CommitApprove, CommitFallback, CommitWaitlist, SetStatus,
                            StampQueue, stockVars
  <2> QED
    BY <1>2, <2>4
<1>4. ASSUME NEW r \in Requests, CommitReject(r)
      PROVE  resv'[p] = "NONE" /\ queuedAt'[p] = 0
  <2>1. p \notin req[r].got /\ p # req[r].order /\ status[p] = "NONE"
    BY <1>4, RejectWrites
  <2>2. resv'[p] = resv[p] /\ queuedAt' = queuedAt
    BY <1>4, <2>1, RejectWrites
  <2> QED
    BY <1>1, <2>1, <2>2
<1>5. ASSUME NEW r \in Requests, CommitConfirm(r) \/ CommitDeliver(r)
      PROVE  resv'[p] = "NONE" /\ queuedAt'[p] = 0
  <2>1. req[r].order \in Orders
    BY DEF Request
  <2>2. status'[req[r].order] # "NONE"
    BY <1>5, <2>1 DEF CommitConfirm, CommitDeliver, SetStatus
  <2>3. p # req[r].order
    BY <2>2
  <2>4. status'[p] = status[p] /\ resv'[p] = resv[p] /\ queuedAt'[p] = queuedAt[p]
    BY <1>5, <2>1, <2>3 DEF CommitConfirm, CommitDeliver, SetStatus, Consume
  <2> QED
    BY <1>2, <2>4
<1>6. ASSUME NEW r \in Requests, CommitPayment(r)
      PROVE  resv'[p] = "NONE" /\ queuedAt'[p] = 0
  <2>1. req[r].order \in Orders
    BY DEF Request
  <2>2. p # req[r].order
    BY <1>6, <2>1 DEF CommitPayment
  <2> QED
    BY <1>2, <1>6, <2>1, <2>2 DEF CommitPayment
<1>7. ASSUME NEW o \in Orders, NEW q \in Quantities, PlaceOrder(o, q)
      PROVE  resv'[p] = "NONE" /\ queuedAt'[p] = 0
  <2>1. p # o
    BY <1>7 DEF PlaceOrder
  <2> QED
    BY <1>2, <1>7, <2>1 DEF PlaceOrder
<1>8. CASE UNCHANGED bookVars
  BY <1>2, <1>8 DEF bookVars
<1> QED
  BY <1>3, <1>4, <1>5, <1>6, <1>7, <1>8, StepCases DEF CommitStatus

LEMMA BaseInvariant == Spec => []BaseInv
<1>1. Init => Asked /\ UnplacedHoldsNothing
  BY DEF Init, Idle, Asked, UnplacedHoldsNothing
<1>2. BaseInv /\ [Next]_vars /\ TypeOK' /\ OrderMirrorsTransaction' /\ GotInv' => BaseInv'
  BY AskedNext, UnplacedNext DEF BaseInv
<1>3. TypeOK /\ OrderMirrorsTransaction /\ Asked /\ UnplacedHoldsNothing /\ GotInv => BaseInv
  BY DEF BaseInv
<1> QED
  BY <1>1, <1>2, <1>3, TypeInvariant, StatusColumnsAgree, GotInvariant, PTL DEF Spec

-----------------------------------------------------------------------------
(* The books.                                                               *)

LEMMA WithResvType == \A s : WithResv(s) \in SUBSET Orders
  BY DEF WithResv

\* Steps that move no stock and no reservation, and change the quantities of
\* orders without one only.
LEMMA BooksKept ==
    ASSUME TypeOK, Books, UNCHANGED <<reserved, sales, resv>>,
           \A o \in Orders : resv[o] \in {"ACTIVE", "CONSUMED"} => qty'[o] = qty[o]
    PROVE  Books'
<1>1. ASSUME NEW s \in {"ACTIVE", "CONSUMED"}, NEW v \in Variants
      PROVE  Units(WithResv(s)', qty', v) = Units(WithResv(s), qty, v)
  <2>1. WithResv(s)' = WithResv(s)
    BY DEF WithResv
  <2>2. \A o \in WithResv(s) : qty'[o] = qty[o]
    BY <1>1 DEF WithResv
  <2> QED
    BY <2>1, <2>2, UnitsSame, WithResvType
<1> QED
  BY <1>1 DEF Books, ReservedIsSumOfHolds, SalesIsSumOfConsumed

\* An approval adds the order to the holds, and its items to reservedStock.
LEMMA BooksApprove ==
    ASSUME TypeOK, Books, NEW o \in Orders, resv[o] = "NONE", NEW q \in Quantities,
           reserved' = Held(q), sales' = sales,
           resv' = [resv EXCEPT ![o] = "ACTIVE"], qty' = [qty EXCEPT ![o] = q]
    PROVE  Books'
<1>1. /\ WithResv("ACTIVE")' = WithResv("ACTIVE") \cup {o}
      /\ o \notin WithResv("ACTIVE") /\ o \notin WithResv("CONSUMED")
      /\ WithResv("CONSUMED")' = WithResv("CONSUMED")
  BY DEF WithResv, TypeOK
<1>2. qty'[o] = q /\ \A x \in Orders \ {o} : qty[x] = qty'[x]
  BY DEF TypeOK
<1>3. ASSUME NEW v \in Variants
      PROVE  reserved'[v] = Units(WithResv("ACTIVE"), qty, v)'
  <2> DEFINE A == WithResv("ACTIVE")
  <2>0. A \in SUBSET Orders /\ o \notin A /\ qty'[o] \in Quantities
        /\ \A x \in A : qty[x] = qty'[x]
    BY <1>1, <1>2, WithResvType
  <2> HIDE DEF A
  <2>1. Units(A \cup {o}, qty', v) = Units(A, qty, v) + qty'[o][v]
    <3>1. Units(A \cup {o}, qty', v) = Units(A, qty', v) + Units({o}, qty', v)
      BY <2>0, UnitsUnion
    <3>2. Units({o}, qty', v) = qty'[o][v]
      BY <2>0, UnitsOne
    <3>3. Units(A, qty, v) = Units(A, qty', v)
      BY <2>0, UnitsSame
    <3> QED
      BY <3>1, <3>2, <3>3
  <2>2. reserved'[v] = reserved[v] + q[v]
    BY DEF Held
  <2> QED
    BY <1>1, <1>2, <2>1, <2>2 DEF A, Books, ReservedIsSumOfHolds
<1>4. ASSUME NEW v \in Variants
      PROVE  sales'[v] = Units(WithResv("CONSUMED"), qty, v)'
  <2> DEFINE C == WithResv("CONSUMED")
  <2>0. C \in SUBSET Orders /\ \A x \in C : qty[x] = qty'[x]
    BY <1>1, <1>2, WithResvType
  <2> HIDE DEF C
  <2>1. Units(C, qty, v) = Units(C, qty', v)
    BY <2>0, UnitsSame
  <2> QED
    BY <1>1, <2>1 DEF C, Books, SalesIsSumOfConsumed
<1> QED
  BY <1>3, <1>4 DEF Books, ReservedIsSumOfHolds, SalesIsSumOfConsumed

\* A sale moves the order from the holds to the sales, with all of its units.
LEMMA BooksConsume ==
    ASSUME TypeOK, Books, NEW r \in Requests, NEW o \in Orders, req[r].order = o,
           resv[o] = "ACTIVE", req[r].items = qty[o], Consume(r), qty' = qty
    PROVE  Books'
<1>1. /\ WithResv("ACTIVE")' = WithResv("ACTIVE") \ {o}
      /\ WithResv("CONSUMED")' = WithResv("CONSUMED") \cup {o}
      /\ o \in WithResv("ACTIVE") /\ o \notin WithResv("CONSUMED")
  BY DEF Consume, WithResv, TypeOK
<1>2. qty[o] \in Quantities
  BY DEF TypeOK
<1> DEFINE A == WithResv("ACTIVE")
           C == WithResv("CONSUMED")
<1>3. /\ A \in SUBSET Orders /\ o \in A
      /\ C \in SUBSET Orders /\ o \notin C
  BY <1>1, WithResvType
<1>4. ASSUME NEW v \in Variants
      PROVE  /\ reserved'[v] = Units(A \ {o}, qty, v)
             /\ sales'[v] = Units(C \cup {o}, qty, v)
  <2>1. reserved[v] = Units(A, qty, v) /\ sales[v] = Units(C, qty, v)
    BY DEF Books, ReservedIsSumOfHolds, SalesIsSumOfConsumed
  <2> HIDE DEF A, C
  <2>2. Units(A \ {o}, qty, v) = Units(A, qty, v) - qty[o][v]
    BY <1>2, <1>3, UnitsRemove
  <2>3. Units(C \cup {o}, qty, v) = Units(C, qty, v) + qty[o][v]
    <3>1. Units(C \cup {o}, qty, v) = Units(C, qty, v) + Units({o}, qty, v)
      BY <1>3, UnitsUnion
    <3>2. Units({o}, qty, v) = qty[o][v]
      BY <1>2, UnitsOne
    <3> QED
      BY <3>1, <3>2
  <2>4. reserved'[v] = reserved[v] - qty[o][v] /\ sales'[v] = sales[v] + qty[o][v]
    BY DEF Consume
  <2> QED
    BY <2>1, <2>2, <2>3, <2>4
<1> QED
  BY <1>1, <1>4 DEF Books, ReservedIsSumOfHolds, SalesIsSumOfConsumed

\* A rejection takes the order out of the holds and puts the promoted ones in.
LEMMA BooksReject ==
    ASSUME TypeOK, Books, NEW o \in Orders, resv[o] = "ACTIVE",
           NEW P \in SUBSET Orders, \A p \in P : resv[p] = "NONE",
           reserved' = [v \in Variants |-> Released(qty[o])[v] + Units(P, qty, v)],
           resv' = [p \in Orders |-> IF p \in P THEN "ACTIVE"
                                     ELSE IF p = o THEN "RELEASED" ELSE resv[p]],
           UNCHANGED <<sales, qty>>
    PROVE  Books'
<1> DEFINE A == WithResv("ACTIVE")
<1>1. /\ WithResv("ACTIVE")' = (A \ {o}) \cup P
      /\ WithResv("CONSUMED")' = WithResv("CONSUMED")
      /\ o \in A /\ (A \ {o}) \cap P = {}
  BY DEF WithResv, TypeOK
<1>2. A \in SUBSET Orders /\ A \ {o} \in SUBSET Orders
  BY WithResvType
<1>3. ASSUME NEW v \in Variants
      PROVE  reserved'[v] = Units(WithResv("ACTIVE"), qty, v)'
  <2>1. Units((A \ {o}) \cup P, qty, v) = Units(A \ {o}, qty, v) + Units(P, qty, v)
    BY <1>1, <1>2, UnitsUnion
  <2>2. qty[o] \in Quantities /\ qty[o][v] \in Nat
    BY QuantityType DEF TypeOK
  <2>3. /\ Units(A \ {o}, qty, v) = Units(A, qty, v) - qty[o][v]
        /\ qty[o][v] <= Units(A, qty, v)
    BY <1>1, <1>2, <2>2, UnitsRemove
  <2>4. reserved[v] = Units(A, qty, v)
    BY DEF Books, ReservedIsSumOfHolds
  <2>5. reserved'[v] = Monus(reserved[v], qty[o][v]) + Units(P, qty, v)
    BY DEF Released
  <2>6. reserved'[v] = Units((A \ {o}) \cup P, qty, v)
    BY <2>1, <2>2, <2>3, <2>4, <2>5 DEF Monus
  <2> QED
    BY <1>1, <2>6
<1> QED
  BY <1>1, <1>3 DEF Books, ReservedIsSumOfHolds, SalesIsSumOfConsumed

-----------------------------------------------------------------------------
(* The steps: books that agree go on agreeing.                              *)

\* What a handler may rely on that commits to target t undisturbed.
LEMMA AtCommit ==
    ASSUME BaseInv, NEW r \in Requests, NEW at, NEW t, Committing(r, at, t),
           at \in {"read", "short", "promoting"},
           Allowed(req[r].order, req[r].target), Current(r)
    PROVE  /\ req[r].order \in Orders
           /\ req[r].items \in Quantities
           /\ Allowed(req[r].order, t)
           /\ req[r].status = status[req[r].order]
           /\ req[r].resv = resv[req[r].order]
           /\ req[r].queuedAt = queuedAt[req[r].order]
           /\ t # "AWAITING_PAYMENT" => /\ ~req[r].quoted
                                        /\ req[r].payment = payment[req[r].order]
           /\ ~req[r].quoted => req[r].items = qty[req[r].order]
           /\ t = "CONFIRMED" /\ req[r].order \notin PayLaterOrders
                => checkout[req[r].order] = "CAPTURED"
           /\ UNCHANGED <<paidTxns, checkout>>
  BY DEF Committing, BaseInv, Asked, Current, TypeOK, Request

LEMMA BooksPlace ==
    ASSUME BaseInv, BooksAgree, NEW o \in Orders, NEW q \in Quantities, PlaceOrder(o, q)
    PROVE  BooksAgree'
<1>1. /\ UNCHANGED <<reserved, sales, resv, paidTxns, checkout>>
      /\ \A p \in Orders \ {o} :
           qty'[p] = qty[p] /\ status'[p] = status[p] /\ payment'[p] = payment[p]
      /\ status'[o] = "PENDING_VERIFICATION" /\ payment'[o] = "PENDING"
      /\ resv[o] = "NONE"
  BY DEF PlaceOrder, stockVars, BaseInv, TypeOK, UnplacedHoldsNothing
<1>2. Books'
  BY <1>1, BooksKept DEF BaseInv, BooksAgree
<1>3. HoldsFollowStatus' /\ PaidMeansMoney'
  BY <1>1 DEF BooksAgree, HoldsFollowStatus, PaidMeansMoney
<1> QED
  BY <1>2, <1>3 DEF BooksAgree

\* A step that writes none of the books.
LEMMA BooksQuiet ==
    ASSUME BaseInv, BooksAgree, UNCHANGED bookVars,
           \A o \in Orders : checkout[o] = "CAPTURED" => checkout'[o] = "CAPTURED"
    PROVE  BooksAgree'
<1>1. UNCHANGED <<reserved, sales, status, resv, payment, qty, paidTxns>>
  BY DEF bookVars
<1>2. Books'
  BY <1>1, BooksKept DEF BaseInv, BooksAgree
<1>3. HoldsFollowStatus' /\ PaidMeansMoney'
  BY <1>1 DEF BooksAgree, HoldsFollowStatus, PaidMeansMoney
<1> QED
  BY <1>2, <1>3 DEF BooksAgree

\* Any other commit than a rejection writes one order: for the others nothing
\* changes.
LEMMA BooksOneOrder ==
    ASSUME TypeOK, BooksAgree, NEW o \in Orders, Books',
           \A p \in Orders \ {o} :
             /\ status'[p] = status[p] /\ resv'[p] = resv[p] /\ payment'[p] = payment[p]
             /\ paidTxns'[p] = paidTxns[p],
           checkout' = checkout,
           status'[o] = "AWAITING_PAYMENT" => resv'[o] = "ACTIVE",
           status'[o] \in {"PENDING_VERIFICATION", "WAITLISTED"} => resv'[o] = "NONE",
           paidTxns'[o] = 0 =>
             /\ status'[o] = "QUOTATION_REJECTED" =>
                  resv'[o] = "RELEASED" /\ payment'[o] = "CANCELED"
             /\ status'[o] \in {"CONFIRMED", "DELIVERED"} => resv'[o] = "CONSUMED",
           payment'[o] = "PAID" => paidTxns'[o] > 0 \/ checkout[o] = "CAPTURED"
    PROVE  BooksAgree'
<1>1. HoldsFollowStatus'
  BY DEF BooksAgree, HoldsFollowStatus
<1>2. PaidMeansMoney'
  BY DEF BooksAgree, PaidMeansMoney
<1> QED
  BY <1>1, <1>2 DEF BooksAgree

\* Approval, and the fallback to the waitlist.
LEMMA ApproveKeepsBooks ==
    ASSUME BaseInv, BooksAgree, NEW r \in Requests, CommitApprove(r) \/ CommitFallback(r),
           Allowed(req[r].order, req[r].target), Current(r)
    PROVE  BooksAgree'
<1> USE DEF BaseInv
<1> DEFINE o == req[r].order
<1>1. \E at \in {"read", "short"} : Committing(r, at, "AWAITING_PAYMENT")
  BY DEF CommitApprove, CommitFallback
<1>2. /\ o \in Orders /\ req[r].items \in Quantities
      /\ Allowed(o, "AWAITING_PAYMENT")
      /\ UNCHANGED <<paidTxns, checkout>>
      /\ ~req[r].quoted => req[r].items = qty[o]
      /\ req[r].queuedAt = queuedAt[o]
  BY <1>1, AtCommit
<1>3. resv[o] = "NONE"
  BY <1>2, AllowedCases DEF BooksAgree, HoldsFollowStatus
<1>4. qty' = [qty EXCEPT ![o] = req[r].items]
  BY <1>2 DEF CommitApprove, CommitFallback, TypeOK
<1>5. /\ status' = [status EXCEPT ![o] = status'[o]]
      /\ queuedAt' = [queuedAt EXCEPT ![o] = queuedAt'[o]]
      /\ payment' = [payment EXCEPT ![o] = payment'[o]]
  BY <1>2 DEF CommitApprove, CommitFallback, SetStatus, StampQueue, TypeOK
<1>6. payment'[o] = "PAID" => payment[o] = "PAID"
  BY <1>2 DEF CommitApprove, CommitFallback, TypeOK
<1>7. CASE CommitApprove(r)
  <2>1. /\ reserved' = Held(req[r].items) /\ sales' = sales
        /\ resv' = [resv EXCEPT ![o] = "ACTIVE"]
        /\ status'[o] = "AWAITING_PAYMENT"
    BY <1>2, <1>7 DEF CommitApprove, SetStatus, TypeOK
  <2>2. Books'
    BY <1>2, <1>3, <1>4, <2>1, BooksApprove DEF BooksAgree
  <2>3. \A p \in Orders \ {o} :
             /\ status'[p] = status[p] /\ resv'[p] = resv[p] /\ payment'[p] = payment[p]
             /\ paidTxns'[p] = paidTxns[p]
    BY <1>2, <1>5, <2>1 DEF TypeOK
  <2>4. resv'[o] = "ACTIVE"
    BY <1>2, <2>1 DEF TypeOK
  <2> QED
    BY <1>2, <1>6, <2>1, <2>2, <2>3, <2>4, BooksOneOrder DEF BooksAgree, PaidMeansMoney
<1>8. CASE CommitFallback(r)
  <2>1. /\ UNCHANGED <<reserved, sales, resv>>
        /\ status'[o] = "WAITLISTED"
    BY <1>2, <1>8 DEF CommitFallback, SetStatus, TypeOK, stockVars
  <2>2. \A p \in Orders : resv[p] \in {"ACTIVE", "CONSUMED"} => qty'[p] = qty[p]
    BY <1>2, <1>3, <1>4 DEF TypeOK
  <2>3. Books'
    BY <2>1, <2>2, BooksKept DEF BooksAgree
  <2>4. \A p \in Orders \ {o} :
             /\ status'[p] = status[p] /\ resv'[p] = resv[p] /\ payment'[p] = payment[p]
             /\ paidTxns'[p] = paidTxns[p]
    BY <1>2, <1>5, <2>1 DEF TypeOK
  <2> QED
    BY <1>2, <1>3, <1>6, <2>1, <2>3, <2>4, BooksOneOrder DEF BooksAgree, PaidMeansMoney
<1> QED
  BY <1>7, <1>8

LEMMA WaitlistKeepsBooks ==
    ASSUME BaseInv, BooksAgree, NEW r \in Requests, CommitWaitlist(r),
           Allowed(req[r].order, req[r].target), Current(r)
    PROVE  BooksAgree'
<1> USE DEF BaseInv
<1> DEFINE o == req[r].order
<1>1. /\ o \in Orders /\ Allowed(o, "WAITLISTED")
      /\ UNCHANGED <<paidTxns, checkout>>
      /\ req[r].resv = resv[o]
  BY AtCommit DEF CommitWaitlist
<1>2. resv[o] = "NONE"
  BY <1>1, AllowedCases DEF BooksAgree, HoldsFollowStatus
<1>3. UNCHANGED <<reserved, sales, resv, qty, payment>>
  BY <1>1, <1>2 DEF CommitWaitlist, TypeOK
<1>4. Books'
  BY <1>3, BooksKept DEF BooksAgree
<1>5. /\ status'[o] = "WAITLISTED"
      /\ \A p \in Orders \ {o} : status'[p] = status[p] /\ queuedAt'[p] = queuedAt[p]
  BY <1>1 DEF CommitWaitlist, SetStatus, StampQueue, TypeOK
<1> QED
  BY <1>1, <1>2, <1>3, <1>4, <1>5, BooksOneOrder DEF BooksAgree, PaidMeansMoney

LEMMA RejectKeepsBooks ==
    ASSUME BaseInv, BooksAgree, NEW r \in Requests, CommitReject(r),
           Allowed(req[r].order, req[r].target), Current(r), TakenCurrent(r)
    PROVE  BooksAgree'
<1> USE DEF BaseInv
<1> DEFINE o == req[r].order
           P == req[r].got
<1>1. /\ o \in Orders /\ Allowed(o, "QUOTATION_REJECTED")
      /\ UNCHANGED <<paidTxns, checkout>>
      /\ req[r].resv = resv[o] /\ req[r].items = qty[o]
  BY AtCommit DEF CommitReject
<1>2. status[o] = "AWAITING_PAYMENT" /\ resv[o] = "ACTIVE"
  BY <1>1, AllowedCases DEF BooksAgree, HoldsFollowStatus
<1>3. /\ P \in SUBSET Orders /\ o \notin P
      /\ \A p \in P : /\ status[p] = "WAITLISTED" /\ resv[p] = "NONE"
                      /\ req[r].listed[p] = qty[p]
  BY <1>2, RejectWrites DEF TakenCurrent, BooksAgree, HoldsFollowStatus
<1>4. /\ reserved' = Taken(r)
      /\ resv' = [p \in Orders |-> IF p \in P THEN "ACTIVE"
                                   ELSE IF p = o THEN "RELEASED" ELSE resv[p]]
      /\ payment' = [p \in Orders |->
           IF p \in P THEN "PENDING" ELSE IF p = o THEN "CANCELED" ELSE payment[p]]
      /\ status' = [p \in Orders |->
           IF p \in P THEN "AWAITING_PAYMENT"
           ELSE IF p = o THEN "QUOTATION_REJECTED" ELSE status[p]]
      /\ UNCHANGED <<sales, qty>>
  BY <1>1, <1>2, RejectWrites
<1>5. Taken(r) = [v \in Variants |-> Released(qty[o])[v] + Units(P, qty, v)]
  <2>1. AfterRelease(r) = Released(qty[o])
    BY <1>1, <1>2 DEF AfterRelease
  <2>2. \A v \in Variants : Units(P, req[r].listed, v) = Units(P, qty, v)
    BY <1>3, UnitsSame
  <2> QED
    BY <2>1, <2>2 DEF Taken
<1>6. \A p \in P : resv[p] = "NONE"
  BY <1>3
<1>7. Books'
  BY <1>1, <1>2, <1>3, <1>4, <1>5, <1>6, BooksReject DEF BooksAgree
<1>8. HoldsFollowStatus'
  BY <1>1, <1>3, <1>4 DEF BooksAgree, HoldsFollowStatus
<1>9. PaidMeansMoney'
  BY <1>1, <1>4 DEF BooksAgree, PaidMeansMoney
<1> QED
  BY <1>7, <1>8, <1>9 DEF BooksAgree

LEMMA ConfirmKeepsBooks ==
    ASSUME BaseInv, BooksAgree, NEW r \in Requests, CommitConfirm(r),
           Allowed(req[r].order, req[r].target), Current(r)
    PROVE  BooksAgree'
<1> USE DEF BaseInv
<1> DEFINE o == req[r].order
<1>1. /\ o \in Orders /\ Allowed(o, "CONFIRMED")
      /\ UNCHANGED <<paidTxns, checkout>>
      /\ req[r].items = qty[o] /\ req[r].payment = payment[o]
      /\ o \notin PayLaterOrders => checkout[o] = "CAPTURED"
  BY AtCommit DEF CommitConfirm
<1>2. resv[o] = "ACTIVE"
  BY <1>1, AllowedCases DEF BooksAgree, HoldsFollowStatus
<1>3. Consume(r) /\ UNCHANGED <<qty, queuedAt>>
  BY DEF CommitConfirm
<1>4. Books'
  BY <1>1, <1>2, <1>3, BooksConsume DEF BooksAgree
<1>5. /\ status'[o] = "CONFIRMED" /\ resv'[o] = "CONSUMED"
      /\ payment'[o] = ConfirmedPayment(r)
      /\ \A p \in Orders \ {o} :
           status'[p] = status[p] /\ resv'[p] = resv[p] /\ payment'[p] = payment[p]
  BY <1>1 DEF CommitConfirm, SetStatus, Consume, TypeOK
<1>6. payment'[o] = "PAID" => paidTxns[o] > 0 \/ checkout[o] = "CAPTURED"
  BY <1>1, <1>5 DEF ConfirmedPayment, BooksAgree, PaidMeansMoney
<1> QED
  BY <1>1, <1>3, <1>4, <1>5, <1>6, BooksOneOrder

LEMMA DeliverKeepsBooks ==
    ASSUME BaseInv, BooksAgree, NEW r \in Requests, CommitDeliver(r),
           Allowed(req[r].order, req[r].target), Current(r)
    PROVE  BooksAgree'
<1> USE DEF BaseInv
<1> DEFINE o == req[r].order
<1>1. /\ o \in Orders /\ Allowed(o, "DELIVERED")
      /\ UNCHANGED <<paidTxns, checkout>>
      /\ req[r].items = qty[o] /\ req[r].resv = resv[o] /\ req[r].status = status[o]
  BY AtCommit DEF CommitDeliver
<1>2. UNCHANGED <<qty, queuedAt, payment>>
  BY DEF CommitDeliver
<1>3. /\ status'[o] = "DELIVERED"
      /\ \A p \in Orders \ {o} : status'[p] = status[p]
  BY <1>1 DEF CommitDeliver, SetStatus, TypeOK
<1>4. payment'[o] = "PAID" => paidTxns[o] > 0 \/ checkout[o] = "CAPTURED"
  BY <1>1, <1>2 DEF BooksAgree, PaidMeansMoney
<1>5. CASE Consume(r)
  <2>1. resv[o] = "ACTIVE"
    BY <1>1, <1>5 DEF Consume
  <2>2. Books'
    BY <1>1, <1>2, <1>5, <2>1, BooksConsume DEF BooksAgree
  <2>3. resv'[o] = "CONSUMED" /\ \A p \in Orders \ {o} : resv'[p] = resv[p]
    BY <1>1, <1>5 DEF Consume, TypeOK
  <2> QED
    BY <1>1, <1>2, <1>3, <1>4, <2>2, <2>3, BooksOneOrder
<1>6. CASE ~Consume(r)
  <2>1. /\ UNCHANGED <<stock, reserved, sales, resv>>
        /\ o \in PayLaterOrders => status[o] # "AWAITING_PAYMENT"
    BY <1>1, <1>6 DEF CommitDeliver, stockVars
  <2>2. status[o] = "CONFIRMED"
    BY <1>1, <2>1, AllowedCases
  <2>3. paidTxns[o] = 0 => resv'[o] = "CONSUMED"
    BY <1>1, <2>1, <2>2 DEF BooksAgree, HoldsFollowStatus
  <2>4. Books'
    BY <1>2, <2>1, BooksKept DEF BooksAgree
  <2> QED
    BY <1>1, <1>2, <1>3, <1>4, <2>1, <2>3, <2>4, BooksOneOrder
<1> QED
  BY <1>5, <1>6

LEMMA PaymentKeepsBooks ==
    ASSUME BaseInv, BooksAgree, NEW r \in Requests, CommitPayment(r)
    PROVE  BooksAgree'
<1> USE DEF BaseInv
<1> DEFINE o == req[r].order
<1>1. /\ o \in Orders
      /\ UNCHANGED <<reserved, sales, resv, qty, queuedAt, checkout>>
  BY DEF CommitPayment, TypeOK, Request, stockVars
<1>2. /\ status'[o] \in {"CONFIRMED", "DELIVERED"}
      /\ paidTxns'[o] = paidTxns[o] + 1 /\ paidTxns[o] \in Nat
      /\ \A p \in Orders \ {o} : /\ status'[p] = status[p] /\ payment'[p] = payment[p]
                                 /\ paidTxns'[p] = paidTxns[p]
  BY <1>1 DEF CommitPayment, TypeOK
<1>3. /\ paidTxns'[o] > 0 /\ paidTxns'[o] # 0
      /\ status'[o] \notin {"NONE", "AWAITING_PAYMENT", "PENDING_VERIFICATION", "WAITLISTED"}
      /\ \A p \in Orders \ {o} :
             /\ status'[p] = status[p] /\ resv'[p] = resv[p] /\ payment'[p] = payment[p]
             /\ paidTxns'[p] = paidTxns[p]
  BY <1>1, <1>2
<1>4. Books'
  BY <1>1, BooksKept DEF BooksAgree
<1> QED
  BY <1>1, <1>3, <1>4, BooksOneOrder

LEMMA BooksNext == BaseInv /\ BooksAgree /\ Undisturbed /\ [Next]_vars => BooksAgree'
<1> SUFFICES ASSUME BaseInv, BooksAgree, Undisturbed, [Next]_vars
             PROVE  BooksAgree'
  OBVIOUS
<1>1. ASSUME NEW o \in Orders, NEW q \in Quantities, PlaceOrder(o, q)
      PROVE  BooksAgree'
  BY <1>1, BooksPlace
<1>2. ASSUME NEW r \in Requests, CommitStatus(r)
      PROVE  BooksAgree'
  <2>1. Allowed(req[r].order, req[r].target) /\ Current(r) /\ TakenCurrent(r)
    BY <1>2 DEF Undisturbed
  <2> QED
    BY <1>2, <2>1, ApproveKeepsBooks, WaitlistKeepsBooks, RejectKeepsBooks,
       ConfirmKeepsBooks, DeliverKeepsBooks DEF CommitStatus
<1>3. ASSUME NEW r \in Requests, CommitPayment(r)
      PROVE  BooksAgree'
  BY <1>3, PaymentKeepsBooks
<1> QED
  BY <1>1, <1>2, <1>3, BooksQuiet, StepCases DEF BaseInv

\* Only a disturbed commit parts the books, however many requests are in flight.
THEOREM OnlyDisturbanceParts == Spec => OnlyDisturbedCommitsPart
<1>1. BaseInv /\ [Next]_vars => [BooksAgree /\ Undisturbed => BooksAgree']_vars
  BY BooksNext
<1> QED
  BY <1>1, BaseInvariant, PTL DEF Spec, OnlyDisturbedCommitsPart

-----------------------------------------------------------------------------
(* Behaviours without disturbed commits.                                    *)

LEMMA UndisturbedIsSpec == UndisturbedSpec => Spec
<1>1. [Next /\ Undisturbed]_vars => [Next]_vars
  OBVIOUS
<1> QED
  BY <1>1, PTL DEF UndisturbedSpec, Spec

LEMMA BooksInvariant == UndisturbedSpec => [](BaseInv /\ BooksAgree)
<1>1. Init => BooksAgree
  <2> SUFFICES ASSUME Init PROVE BooksAgree
    OBVIOUS
  <2>1. Books
    <3>1. WithResv("ACTIVE") = {} /\ WithResv("CONSUMED") = {}
      BY DEF Init, WithResv
    <3>2. \A v \in Variants : Units({}, qty, v) = 0
      <4>1. qty \in [Orders -> Quantities]
        BY NoItemsType DEF Init
      <4> QED
        BY <4>1, UnitsNone
    <3> QED
      BY <3>1, <3>2 DEF Init, Books, ReservedIsSumOfHolds, SalesIsSumOfConsumed
  <2>2. HoldsFollowStatus /\ PaidMeansMoney
    BY DEF Init, HoldsFollowStatus, PaidMeansMoney
  <2> QED
    BY <2>1, <2>2 DEF BooksAgree
<1>2. BaseInv /\ BooksAgree /\ [Next /\ Undisturbed]_vars => BooksAgree'
  <2> SUFFICES ASSUME BaseInv, BooksAgree, UNCHANGED vars PROVE BooksAgree'
    BY BooksNext
  <2> QED
    BY BooksQuiet DEF vars, bookVars
<1> QED
  BY <1>1, <1>2, BaseInvariant, UndisturbedIsSpec, PTL DEF UndisturbedSpec

-----------------------------------------------------------------------------
(* Two properties of undisturbed steps.                                     *)

LEMMA CommitMoves ==
    ASSUME BaseInv, NEW r \in Requests, CommitStatus(r), NEW o \in Orders,
           Allowed(req[r].order, req[r].target), Current(r), TakenCurrent(r)
    PROVE  /\ status'[o] # status[o] => LifecycleStep(o)
           /\ queuedAt[o] # 0 => queuedAt'[o] = queuedAt[o]
<1> USE DEF BaseInv
<1> DEFINE s == req[r].order
<1>1. CASE CommitApprove(r) \/ CommitFallback(r) \/ CommitWaitlist(r)
  <2>1. PICK at \in {"read", "short"}, t \in {"AWAITING_PAYMENT", "WAITLISTED"} :
          Committing(r, at, t) /\ (t = "WAITLISTED" => CommitWaitlist(r))
    BY <1>1 DEF CommitApprove, CommitFallback, CommitWaitlist
  <2>2. s \in Orders /\ Allowed(s, t) /\ req[r].queuedAt = queuedAt[s]
    BY <2>1, AtCommit
  <2>3. status[s] \in {"PENDING_VERIFICATION", "WAITLISTED"}
        /\ (t = "WAITLISTED" => status[s] = "PENDING_VERIFICATION")
    BY <2>2, AllowedCases
  <2>4. /\ StampQueue(r)
        /\ SetStatus(s, "AWAITING_PAYMENT") \/ SetStatus(s, "WAITLISTED")
    BY <1>1 DEF CommitApprove, CommitFallback, CommitWaitlist
  <2>5. queuedAt[o] # 0 => queuedAt'[o] = queuedAt[o]
    BY <2>2, <2>4 DEF StampQueue, TypeOK
  <2>6. status'[o] # status[o] => o = s /\ status'[o] \in Transitions[status[o]]
    BY <2>2, <2>3, <2>4 DEF SetStatus, TypeOK, Transitions, OrderLifecycleStatus
  <2>7. status'[o] # status[o] => LifecycleStep(o)
    BY <2>3, <2>6 DEF LifecycleStep
  <2> QED
    BY <2>5, <2>7
<1>2. CASE CommitReject(r)
  <2>1. s \in Orders /\ Allowed(s, "QUOTATION_REJECTED")
    BY <1>2, AtCommit DEF CommitReject
  <2>2. status[s] = "AWAITING_PAYMENT"
    BY <2>1, AllowedCases
  <2>3. status' = [p \in Orders |->
               IF p \in req[r].got THEN "AWAITING_PAYMENT"
               ELSE IF p = s THEN "QUOTATION_REJECTED" ELSE status[p]]
    BY <1>2, RejectWrites
  <2>4. o \in req[r].got => status[o] = "WAITLISTED"
    BY DEF TakenCurrent
  <2>5. status'[o] # status[o] => LifecycleStep(o)
    BY <2>2, <2>3, <2>4 DEF LifecycleStep, Transitions, OrderLifecycleStatus
  <2>6. queuedAt' = queuedAt
    BY <1>2 DEF CommitReject
  <2> QED
    BY <2>5, <2>6
<1>3. CASE CommitConfirm(r) \/ CommitDeliver(r)
  <2>1. PICK t \in {"CONFIRMED", "DELIVERED"} : Committing(r, "read", t) /\ SetStatus(s, t)
    BY <1>3 DEF CommitConfirm, CommitDeliver
  <2>2. s \in Orders /\ Allowed(s, t)
    BY <2>1, AtCommit
  <2>3. status'[o] # status[o] => o = s /\ status'[o] = t
    BY <2>1, <2>2 DEF SetStatus, TypeOK
  <2>4. status'[o] # status[o] => LifecycleStep(o)
    BY <2>2, <2>3 DEF LifecycleStep, Allowed
  <2>5. queuedAt' = queuedAt
    BY <1>3 DEF CommitConfirm, CommitDeliver
  <2> QED
    BY <2>4, <2>5
<1> QED
  BY <1>1, <1>2, <1>3 DEF CommitStatus

LEMMA UndisturbedStep ==
    BaseInv /\ [Next /\ Undisturbed]_vars =>
      \A o \in Orders : /\ status'[o] # status[o] => LifecycleStep(o)
                        /\ queuedAt[o] # 0 => queuedAt'[o] = queuedAt[o]
<1> SUFFICES ASSUME BaseInv, [Next]_vars, Undisturbed \/ UNCHANGED vars, NEW o \in Orders
             PROVE  /\ status'[o] # status[o] => LifecycleStep(o)
                    /\ queuedAt[o] # 0 => queuedAt'[o] = queuedAt[o]
  OBVIOUS
<1>1. ASSUME NEW p \in Orders, NEW q \in Quantities, PlaceOrder(p, q)
      PROVE  (status'[o] # status[o] => LifecycleStep(o)) /\ queuedAt'[o] = queuedAt[o]
  BY <1>1 DEF PlaceOrder, BaseInv, TypeOK, LifecycleStep
<1>2. ASSUME NEW r \in Requests, CommitStatus(r), Undisturbed
      PROVE  /\ status'[o] # status[o] => LifecycleStep(o)
             /\ queuedAt[o] # 0 => queuedAt'[o] = queuedAt[o]
  <2>1. Allowed(req[r].order, req[r].target) /\ Current(r) /\ TakenCurrent(r)
    BY <1>2 DEF Undisturbed
  <2> QED
    BY <1>2, <2>1, CommitMoves
<1>3. ASSUME NEW r \in Requests, CommitPayment(r)
      PROVE  (status'[o] # status[o] => LifecycleStep(o)) /\ queuedAt'[o] = queuedAt[o]
  BY <1>3 DEF CommitPayment, BaseInv, TypeOK, LifecycleStep
<1>4. CASE UNCHANGED bookVars
  BY <1>4 DEF bookVars
<1>5. CASE UNCHANGED vars
  BY <1>5 DEF vars
<1> QED
  BY <1>1, <1>2, <1>3, <1>4, <1>5, StepCases DEF BaseInv

-----------------------------------------------------------------------------
(* What a rejection does for those that wait.                               *)

\* An order becomes QUOTATION_REJECTED by the commit of a request for it.
LEMMA RejectedBy ==
    ASSUME TypeOK, Next, NEW o \in Orders, Rejected(o)
    PROVE  \E r \in Requests : CommitReject(r) /\ req[r].order = o
<1>1. status[o] = "AWAITING_PAYMENT" /\ status'[o] = "QUOTATION_REJECTED"
  BY DEF Rejected
<1>2. ASSUME NEW p \in Orders, NEW q \in Quantities, PlaceOrder(p, q)
      PROVE  FALSE
  BY <1>1, <1>2 DEF PlaceOrder, TypeOK
<1>3. ASSUME NEW r \in Requests, CommitPayment(r)
      PROVE  FALSE
  BY <1>1, <1>3 DEF CommitPayment, TypeOK
<1>4. ~ UNCHANGED bookVars
  BY <1>1 DEF bookVars
<1>5. ASSUME NEW r \in Requests, CommitStatus(r)
      PROVE  CommitReject(r) /\ req[r].order = o
  <2>1. ASSUME CommitApprove(r) \/ CommitFallback(r) \/ CommitWaitlist(r)
               \/ CommitConfirm(r) \/ CommitDeliver(r)
        PROVE  FALSE
    BY <1>1, <2>1 DEF CommitApprove, CommitFallback, CommitWaitlist, CommitConfirm,
                      CommitDeliver, SetStatus, TypeOK
  <2>2. CommitReject(r)
    BY <1>5, <2>1 DEF CommitStatus
  <2> QED
    BY <1>1, <2>2, RejectWrites
<1> QED
  BY <1>2, <1>3, <1>4, <1>5, StepCases

\* The orders a promotion has read, and those of them taken before w's turn.
Listed(r) == {w \in Orders : Items(req[r].listed[w]) # {}}
Before(r, w) == {p \in req[r].got : Ahead(req[r].places, p, w)}

\* The loop of promoteWaitlistedOrders, half way: it has gone through the queue
\* as far as todo, has taken whom it could, and each of the others did not fit
\* in what those before it had left.  Whoever waits was read, as it is.
ServedInv ==
    \A r \in Requests : req[r].pc = "promoting" =>
      /\ \A w \in WaitingFor(r) : /\ w \in Listed(r)
                                  /\ req[r].listed[w] = qty[w]
                                  /\ req[r].places[w] = queuedAt[w]
      /\ \A w \in Listed(r) : /\ w # req[r].order
                              /\ Items(req[r].listed[w]) \cap Items(req[r].items) # {}
      /\ req[r].got \subseteq Listed(r) /\ req[r].todo \subseteq Listed(r)
      /\ req[r].got \cap req[r].todo = {}
      /\ \A w \in Listed(r) \ req[r].todo : \A x \in req[r].todo : Ahead(req[r].places, w, x)
      /\ \A w \in Listed(r) \ (req[r].todo \cup req[r].got) :
           \E v \in Items(req[r].listed[w]) :
             AfterRelease(r)[v] + Units(Before(r, w), req[r].listed, v) + req[r].listed[w][v]
               > stock[v]

\* As long as the queue stands a promotion keeps what it has found.
LEMMA ServedKept ==
    ASSUME TypeOK, ServedInv, QueueStands \/ UNCHANGED vars, NEW r \in Requests,
           req'[r] = req[r], req[r].pc = "promoting"
    PROVE  /\ \A w \in WaitingFor(r)' : /\ w \in Listed(r)
                                        /\ req[r].listed[w] = qty'[w]
                                        /\ req[r].places[w] = queuedAt'[w]
           /\ \A w \in Listed(r) \ (req[r].todo \cup req[r].got) :
                \E v \in Items(req[r].listed[w]) :
                  AfterRelease(r)'[v] + Units(Before(r, w), req[r].listed, v)
                    + req[r].listed[w][v] > stock'[v]
<1>1. ASSUME NEW w \in WaitingFor(r)'
      PROVE  w \in WaitingFor(r) /\ qty'[w] = qty[w] /\ queuedAt'[w] = queuedAt[w]
  <2>1. CASE QueueStands
    BY <1>1, <2>1 DEF QueueStands
  <2>2. CASE UNCHANGED vars
    BY <1>1, <2>2 DEF vars, WaitingFor, Waiting
  <2> QED
    BY <2>1, <2>2
<1>2. ASSUME NEW w \in Orders, NEW v \in Items(req[r].listed[w])
      PROVE  stock'[v] = stock[v] /\ reserved'[v] = reserved[v]
  <2>1. v \in Variants /\ req[r].listed[w][v] > 0
    BY <1>2 DEF Items
  <2>2. CASE QueueStands
    BY <2>1, <2>2 DEF QueueStands
  <2>3. CASE UNCHANGED vars
    BY <2>3 DEF vars
  <2> QED
    BY <2>2, <2>3
<1>3. ASSUME NEW w \in Orders, NEW v \in Items(req[r].listed[w])
      PROVE  AfterRelease(r)'[v] = AfterRelease(r)[v] /\ stock'[v] = stock[v]
  <2>1. v \in Variants
    BY <1>3 DEF Items
  <2>2. AfterRelease(r)'[v] = AfterRelease(r)[v]
    BY <1>2, <1>3, <2>1 DEF AfterRelease, Released, TypeOK
  <2> QED
    BY <1>2, <1>3, <2>2
<1>4. ASSUME NEW w \in WaitingFor(r)'
      PROVE  /\ w \in Listed(r)
             /\ req[r].listed[w] = qty'[w]
             /\ req[r].places[w] = queuedAt'[w]
  BY <1>1, <1>4 DEF ServedInv
<1>5. ASSUME NEW w \in Listed(r) \ (req[r].todo \cup req[r].got)
      PROVE  \E v \in Items(req[r].listed[w]) :
               AfterRelease(r)'[v] + Units(Before(r, w), req[r].listed, v)
                 + req[r].listed[w][v] > stock'[v]
  <2>1. PICK v \in Items(req[r].listed[w]) :
          AfterRelease(r)[v] + Units(Before(r, w), req[r].listed, v) + req[r].listed[w][v]
            > stock[v]
    BY <1>5 DEF ServedInv
  <2>2. AfterRelease(r)'[v] = AfterRelease(r)[v] /\ stock'[v] = stock[v]
    BY <1>3, <1>5 DEF Listed
  <2> QED
    BY <2>1, <2>2
<1> QED
  BY <1>4, <1>5

\* The turns of the loop.
LEMMA ServedList ==
    ASSUME TypeOK, NEW r \in Requests, req[r].got = {}, ListWaiting(r), NEW W, W = WaitingFor(r)
    PROVE  /\ WaitingFor(r)' = W /\ Listed(r)' = W
           /\ UNCHANGED <<qty, queuedAt>>
           /\ req'[r].got = {} /\ req'[r].todo = W
           /\ \A w \in W : req'[r].listed[w] = qty[w] /\ req'[r].places[w] = queuedAt[w]
           /\ \A w \in W : w # req'[r].order /\ Items(qty[w]) \cap Items(req'[r].items) # {}
<1>1. /\ UNCHANGED <<status, txn, qty, queuedAt>>
      /\ req'[r].order = req[r].order /\ req'[r].items = req[r].items
  BY UnderWayStep DEF UnderWay, orderVars
<1>2. /\ req'[r].todo = W /\ req'[r].got = {}
      /\ req'[r].listed = [w \in Orders |-> IF w \in W THEN qty[w] ELSE NoItems]
      /\ req'[r].places = [w \in Orders |-> IF w \in W THEN queuedAt[w] ELSE 0]
  BY ListStep
<1>3. /\ W \subseteq Orders
      /\ \A w \in W : w # req[r].order /\ Items(qty[w]) \cap Items(req[r].items) # {}
  BY DEF WaitingFor, Waiting
<1>4. WaitingFor(r)' = W
  BY <1>1 DEF WaitingFor, Waiting
<1>5. Listed(r)' = W
  <2>1. Items(NoItems) = {}
    BY DEF Items, NoItems
  <2> QED
    BY <1>2, <1>3, <2>1 DEF Listed
<1> QED
  BY <1>1, <1>2, <1>3, <1>4, <1>5

\* Who has not had its turn stays behind who has, and the rest is as it was.
LEMMA ServedTurn ==
    ASSUME TypeOK, ServedInv, NEW r \in Requests, NEW w \in Orders, TurnOf(r, w)
    PROVE  /\ w \in Listed(r) /\ w \notin req[r].got
           /\ req[r].places \in [Orders -> Nat] /\ Listed(r) \subseteq Orders
           /\ \A u \in Listed(r) \ (req[r].todo \ {w}) : \A x \in req[r].todo \ {w} :
                Ahead(req[r].places, u, x)
           /\ \A u \in Listed(r) \ req[r].todo : ~ Ahead(req[r].places, w, u)
           /\ Before(r, w) = req[r].got
<1>1. /\ req[r].pc = "promoting" /\ w \in req[r].todo
      /\ \A p \in req[r].todo : ~ Ahead(req[r].places, p, w)
  BY DEF TurnOf
<1>2. req[r].places \in [Orders -> Nat] /\ Listed(r) \subseteq Orders
  BY DEF TypeOK, Request, Listed
<1>3. /\ w \in Listed(r) /\ w \notin req[r].got
      /\ req[r].got \subseteq Listed(r) \ req[r].todo
      /\ req[r].todo \subseteq Listed(r)
      /\ \A u \in Listed(r) \ req[r].todo : \A x \in req[r].todo : Ahead(req[r].places, u, x)
  BY <1>1 DEF ServedInv
<1>4. ASSUME NEW x \in req[r].todo \ {w}
      PROVE  Ahead(req[r].places, w, x)
  <2>1. x \in Orders /\ x \in Nat /\ w \in Nat
        /\ req[r].places[x] \in Nat /\ req[r].places[w] \in Nat
    BY <1>2, <1>3, WaitlistAssumption DEF Orders
  <2> QED
    BY <1>1, <1>4, <2>1 DEF Ahead
<1>5. ASSUME NEW u \in Listed(r) \ req[r].todo
      PROVE  ~ Ahead(req[r].places, w, u)
  <2>1. u \in Orders /\ Ahead(req[r].places, u, w)
    BY <1>1, <1>2, <1>3
  <2> QED
    BY <1>2, <2>1, AheadStrict
<1>6. Before(r, w) = req[r].got
  BY <1>1, <1>3 DEF Before
<1> QED
  BY <1>2, <1>3, <1>4, <1>5, <1>6

LEMMA ServedNext ==
    ASSUME BaseInv, ServedInv, [Next /\ QueueStands]_vars
    PROVE  ServedInv'
<1> USE DEF BaseInv
<1>0. [Next]_vars /\ (QueueStands \/ UNCHANGED vars)
  OBVIOUS
<1> DEFINE Served(r) ==
      /\ \A w \in WaitingFor(r) : /\ w \in Listed(r)
                                  /\ req[r].listed[w] = qty[w]
                                  /\ req[r].places[w] = queuedAt[w]
      /\ \A w \in Listed(r) : /\ w # req[r].order
                              /\ Items(req[r].listed[w]) \cap Items(req[r].items) # {}
      /\ req[r].got \subseteq Listed(r) /\ req[r].todo \subseteq Listed(r)
      /\ req[r].got \cap req[r].todo = {}
      /\ \A w \in Listed(r) \ req[r].todo : \A x \in req[r].todo : Ahead(req[r].places, w, x)
      /\ \A w \in Listed(r) \ (req[r].todo \cup req[r].got) :
           \E v \in Items(req[r].listed[w]) :
             AfterRelease(r)[v] + Units(Before(r, w), req[r].listed, v) + req[r].listed[w][v]
               > stock[v]
<1> SUFFICES ASSUME NEW r \in Requests, req'[r].pc = "promoting" PROVE Served(r)'
  BY DEF ServedInv
<1>1. CASE req'[r] = req[r]
  <2>1. Listed(r)' = Listed(r) /\ \A w : Before(r, w)' = Before(r, w)
    BY <1>1 DEF Listed, Before
  <2>2. Served(r)
    BY <1>1 DEF ServedInv
  <2>3. /\ \A w \in WaitingFor(r)' : /\ w \in Listed(r)
                                     /\ req[r].listed[w] = qty'[w]
                                     /\ req[r].places[w] = queuedAt'[w]
        /\ \A w \in Listed(r) \ (req[r].todo \cup req[r].got) :
                \E v \in Items(req[r].listed[w]) :
                  AfterRelease(r)'[v] + Units(Before(r, w), req[r].listed, v)
                    + req[r].listed[w][v] > stock'[v]
    BY <1>0, <1>1, ServedKept
  <2> QED
    BY <1>1, <2>1, <2>2, <2>3
<1>2. CASE ListWaiting(r)
  <2>1. PICK W : W = WaitingFor(r)
    OBVIOUS
  <2>2. req[r].got = {}
    BY <1>2 DEF ListWaiting, GotInv
  <2>3. /\ WaitingFor(r)' = W /\ Listed(r)' = W
        /\ UNCHANGED <<qty, queuedAt>>
        /\ req'[r].got = {} /\ req'[r].todo = W
        /\ \A w \in W : req'[r].listed[w] = qty[w] /\ req'[r].places[w] = queuedAt[w]
        /\ \A w \in W : w # req'[r].order /\ Items(qty[w]) \cap Items(req'[r].items) # {}
    BY <1>2, <2>1, <2>2, ServedList
  <2> QED
    BY <2>3
<1>3. ASSUME NEW w \in Orders, TurnOf(r, w), PromoteNext(r) \/ PassNext(r),
             req'[r].listed = req[r].listed, req'[r].places = req[r].places,
             req'[r].todo = req[r].todo \ {w},
             \/ req'[r].got = req[r].got \cup {w}
             \/ req'[r].got = req[r].got /\ ~ StillFits(r, w)
      PROVE  Served(r)'
  <2>1. /\ UNCHANGED <<status, txn, qty, queuedAt, stock, reserved>>
        /\ req'[r].order = req[r].order /\ req'[r].items = req[r].items
        /\ req'[r].resv = req[r].resv
    BY <1>3, UnderWayStep DEF UnderWay, orderVars, stockVars
  <2>2. /\ WaitingFor(r)' = WaitingFor(r) /\ Listed(r)' = Listed(r)
        /\ AfterRelease(r)' = AfterRelease(r)
    BY <1>3, <2>1 DEF WaitingFor, Waiting, Listed, AfterRelease, Released
  <2>3. Served(r) /\ w \in req[r].todo
    BY <1>3 DEF ServedInv, TurnOf
  <2>4. /\ w \in Listed(r) /\ w \notin req[r].got
        /\ Listed(r) \subseteq Orders
        /\ \A u \in Listed(r) \ (req[r].todo \ {w}) : \A x \in req[r].todo \ {w} :
             Ahead(req[r].places, u, x)
        /\ \A u \in Listed(r) \ req[r].todo : ~ Ahead(req[r].places, w, u)
        /\ Before(r, w) = req[r].got
    BY <1>3, ServedTurn
  <2>5. ASSUME NEW u \in Listed(r) \ req[r].todo
        PROVE  Before(r, u)' = Before(r, u)
    BY <1>3, <2>4, <2>5 DEF Before
  <2>6. ASSUME NEW u \in Listed(r) \ (req'[r].todo \cup req'[r].got)
        PROVE  \E v \in Items(req'[r].listed[u]) :
                 AfterRelease(r)'[v] + Units(Before(r, u)', req'[r].listed, v)
                   + req'[r].listed[u][v] > stock'[v]
    <3>1. CASE u # w
      <4>1. u \in Listed(r) \ (req[r].todo \cup req[r].got)
        BY <1>3, <2>6, <3>1
      <4>2. Before(r, u)' = Before(r, u)
        BY <4>1, <2>5
      <4> QED
        BY <1>3, <2>1, <2>2, <2>3, <4>1, <4>2
    <3>2. CASE u = w
      <4>1. req'[r].got = req[r].got /\ ~ StillFits(r, w)
        BY <1>3, <2>6, <3>2
      <4>2. PICK v \in Items(req[r].listed[w]) : ~ (Taken(r)[v] + req[r].listed[w][v] <= stock[v])
        BY <4>1 DEF StillFits
      <4>3. v \in Variants /\ req[r].listed \in [Orders -> Quantities]
        BY DEF Items, TypeOK, Request
      <4>4. Before(r, w)' = req[r].got
        BY <1>3, <2>4, <4>1 DEF Before
      <4>5. Taken(r)[v] = AfterRelease(r)[v] + Units(req[r].got, req[r].listed, v)
        BY <4>3 DEF Taken
      <4>6. Taken(r)[v] \in Nat /\ req[r].listed[w][v] \in Nat /\ stock[v] \in Nat
        BY <4>3, TakenType, QuantityType DEF TypeOK
      <4>7. Taken(r)[v] + req[r].listed[w][v] > stock[v]
        BY <4>2, <4>6
      <4> QED
        BY <1>3, <2>1, <2>2, <3>2, <4>4, <4>5, <4>7
    <3> QED
      BY <3>1, <3>2
  <2>7. /\ req'[r].got \subseteq Listed(r)' /\ req'[r].todo \subseteq Listed(r)'
        /\ req'[r].got \cap req'[r].todo = {}
    BY <1>3, <2>2, <2>3, <2>4
  <2> QED
    BY <1>3, <2>1, <2>2, <2>3, <2>4, <2>6, <2>7
<1>4. CASE PromoteNext(r)
  BY <1>3, <1>4, PromoteStep
<1>5. CASE PassNext(r)
  BY <1>3, <1>5, PassStep
<1>6. CASE Moved(r)
  <2>1. ~ FallShort(r)
    BY FallStep
  <2> QED
    BY <1>2, <1>4, <1>5, <1>6, <2>1 DEF Moved, UnderWay
<1> QED
  <2>1. ASSUME NEW x \in Requests, Moved(x), x # r
        PROVE  req'[r] = req[r]
    BY <2>1 DEF Moved, TypeOK
  <2> QED
    BY <1>0, <1>1, <1>6, <2>1, RequestStep

\* What the rejection commits is the promotion by the rule, of those that wait
\* at that moment.
LEMMA RejectPromotes ==
    ASSUME BaseInv, HoldsFit, ServedInv, NEW r \in Requests, CommitReject(r),
           TakenCurrent(r)
    PROVE  /\ req[r].got \subseteq WaitingFor(r)
           /\ Promoted(req[r].got, WaitingFor(r), qty, queuedAt, AfterRelease(r), stock)
           /\ reserved' = [v \in Variants |-> AfterRelease(r)[v] + Units(req[r].got, qty, v)]
<1> USE DEF BaseInv
<1> DEFINE P == req[r].got
           W == WaitingFor(r)
<1>1. /\ req[r].pc = "promoting" /\ req[r].todo = {} /\ reserved' = Taken(r)
      /\ P \in SUBSET Orders
  BY RejectWrites DEF CommitReject, Committing
<1>2. /\ \A w \in W : /\ w \in Listed(r) /\ req[r].listed[w] = qty[w]
                      /\ req[r].places[w] = queuedAt[w]
      /\ \A w \in Listed(r) : /\ w # req[r].order
                              /\ Items(req[r].listed[w]) \cap Items(req[r].items) # {}
      /\ P \subseteq Listed(r)
      /\ \A w \in Listed(r) \ P :
           \E v \in Items(req[r].listed[w]) :
             AfterRelease(r)[v] + Units(Before(r, w), req[r].listed, v) + req[r].listed[w][v]
               > stock[v]
  BY <1>1 DEF ServedInv
<1>3. \A w \in P : status[w] = "WAITLISTED" /\ qty[w] = req[r].listed[w] /\ txn[w] # "NONE"
  BY DEF TakenCurrent, GotInv
<1>4. P \subseteq W
  BY <1>1, <1>2, <1>3 DEF WaitingFor, Waiting
<1>5. \A v \in Variants : Units(P, req[r].listed, v) = Units(P, qty, v)
  BY <1>1, <1>3, UnitsSame
<1>6. reserved' = [v \in Variants |-> AfterRelease(r)[v] + Units(P, qty, v)]
  BY <1>1, <1>5 DEF Taken
<1>7. ASSUME NEW p \in P, NEW v \in Items(qty[p])
      PROVE  AfterRelease(r)[v] + Units(P, qty, v) <= stock[v]
  <2>1. v \in Variants /\ req[r].listed[p][v] > 0
    BY <1>3, <1>7 DEF Items
  <2>2. Taken(r)[v] <= stock[v]
    BY <1>1, <1>7, <2>1 DEF HoldsFit
  <2> QED
    BY <1>5, <2>1, <2>2 DEF Taken
<1>8. ASSUME NEW w \in W \ P
      PROVE  \E v \in Items(qty[w]) :
               AfterRelease(r)[v] + Units({p \in P : Ahead(queuedAt, p, w)}, qty, v) + qty[w][v]
                 > stock[v]
  <2> DEFINE A == {p \in P : Ahead(queuedAt, p, w)}
  <2>1. PICK v \in Items(qty[w]) :
          AfterRelease(r)[v] + Units(Before(r, w), req[r].listed, v) + qty[w][v] > stock[v]
    BY <1>2, <1>8
  <2>2. Before(r, w) = A
    BY <1>2, <1>4, <1>8 DEF Before, Ahead
  <2>3. v \in Variants /\ A \in SUBSET Orders /\ \A p \in A : req[r].listed[p] = qty[p]
    BY <1>1, <1>3 DEF Items
  <2> HIDE DEF A
  <2>4. Units(Before(r, w), req[r].listed, v) = Units(A, qty, v)
    BY <2>2, <2>3, UnitsSame
  <2>5. AfterRelease(r)[v] + Units(A, qty, v) + qty[w][v] > stock[v]
    BY <2>1, <2>4
  <2> QED
    BY <2>5 DEF A
<1>9. Promoted(P, W, qty, queuedAt, AfterRelease(r), stock)
  BY <1>7, <1>8 DEF Promoted
<1> QED
  BY <1>4, <1>6, <1>9

\* The rule's second conjunct, read for the stock held after the rejection.
LEMMA RejectOffers ==
    ASSUME BaseInv, HoldsFit, ServedInv, NEW r \in Requests, CommitReject(r),
           Allowed(req[r].order, req[r].target), Current(r), TakenCurrent(r),
           NEW w \in Waiting(req[r].order, qty[req[r].order])
    PROVE  LET W == Waiting(req[r].order, qty[req[r].order]) IN
           \/ status'[w] = "AWAITING_PAYMENT"
           \/ \E v \in Items(qty[w]) :
                reserved'[v] + qty[w][v] > stock[v] + Units(Behind(w, W), qty, v)
<1> USE DEF BaseInv
<1> DEFINE o == req[r].order
           W == WaitingFor(r)
           P == req[r].got
           held == AfterRelease(r)
<1>1. o \in Orders /\ req[r].items = qty[o] /\ req[r].items \in Quantities
  BY AtCommit DEF CommitReject
<1>2. /\ P \subseteq W
      /\ Promoted(P, W, qty, queuedAt, held, stock)
      /\ reserved' = [v \in Variants |-> held[v] + Units(P, qty, v)]
  BY RejectPromotes
<1>3. /\ status' = [p \in Orders |->
              IF p \in P THEN "AWAITING_PAYMENT"
              ELSE IF p = o THEN "QUOTATION_REJECTED" ELSE status[p]]
      /\ W \in SUBSET Orders /\ o \notin W
      /\ \A p \in W : status[p] = "WAITLISTED"
  BY RejectWrites DEF WaitingFor, Waiting
<1> w \in W
  BY <1>1 DEF WaitingFor
<1>4. CASE w \in P
  BY <1>2, <1>3, <1>4
<1>5. CASE w \notin P
  <2> DEFINE A == {p \in P : Ahead(queuedAt, p, w)}
             B == {p \in P : Ahead(queuedAt, w, p)}
  <2>1. PICK v \in Items(qty[w]) : held[v] + Units(A, qty, v) + qty[w][v] > stock[v]
    BY <1>2, <1>5 DEF Promoted
  <2>2. v \in Variants
    BY DEF Items
  <2>3. A \in SUBSET Orders /\ B \in SUBSET Orders /\ A \cap B = {} /\ A \cup B = P
    <3>1. \A p \in P : /\ p \in Nat /\ w \in Nat /\ p # w
                       /\ queuedAt[p] \in Nat /\ queuedAt[w] \in Nat
      BY <1>2, <1>3, <1>5 DEF TypeOK, Orders
    <3>2. \A p \in P : Ahead(queuedAt, p, w) <=> ~ Ahead(queuedAt, w, p)
      BY <3>1 DEF Ahead
    <3> QED
      BY <1>2, <1>3, <3>2
  <2>4. Behind(w, W) = B
    <3>1. \A p \in W : status'[p] = "AWAITING_PAYMENT" <=> p \in P
      BY <1>2, <1>3
    <3> QED
      BY <1>2, <3>1 DEF Behind
  <2>5. Units(P, qty, v) = Units(A, qty, v) + Units(B, qty, v)
    BY <2>3, UnitsUnion
  <2>6. /\ Units(A, qty, v) \in Nat /\ Units(B, qty, v) \in Nat
        /\ qty[w] \in Quantities
    BY <1>3, <2>3, UnitsType DEF TypeOK
  <2>7. qty[w][v] \in Nat /\ stock[v] \in Nat /\ held[v] \in Nat
    BY <2>2, <2>6, QuantityType, TakenType DEF TypeOK
  <2>8. reserved'[v] = held[v] + Units(P, qty, v)
    BY <1>2, <2>2
  <2> HIDE DEF held, A, B
  <2>9. reserved'[v] + qty[w][v] > stock[v] + Units(B, qty, v)
    BY <2>1, <2>5, <2>6, <2>7, <2>8
  <2>10. Behind(w, Waiting(o, qty[o])) = B
    BY <1>1, <2>4 DEF WaitingFor
  <2> QED
    BY <2>9, <2>10
<1> QED
  BY <1>4, <1>5

-----------------------------------------------------------------------------
(* What holds as long as no commit is disturbed, whatever the catalogue, the *)
(* orders, the quantities and the number of requests in flight.             *)

\* reservedStock is the sum of the ACTIVE reservations as long as no commit is
\* disturbed: no hold is lost, doubled or left behind.
THEOREM ReservedStockIsHeld == UndisturbedSpec => []ReservedIsSumOfHolds
<1>1. BooksAgree => ReservedIsSumOfHolds
  BY DEF BooksAgree, Books
<1> QED
  BY <1>1, BooksInvariant, PTL

\* salesCount is the sum of the consumed reservations as long as no commit is
\* disturbed: every order is sold at most once, with every unit it was quoted.
THEOREM SoldOnce == UndisturbedSpec => []SalesIsSumOfConsumed
<1>1. BooksAgree => SalesIsSumOfConsumed
  BY DEF BooksAgree, Books
<1> QED
  BY <1>1, BooksInvariant, PTL

\* The status of an order says what has become of its reservation.
THEOREM StatusTellsReservation == UndisturbedSpec => []HoldsFollowStatus
<1>1. BooksAgree => HoldsFollowStatus
  BY DEF BooksAgree
<1> QED
  BY <1>1, BooksInvariant, PTL

\* No payment is marked PAID for which no money came.
THEOREM NoPaymentWithoutMoney == UndisturbedSpec => []PaidMeansMoney
<1>1. BooksAgree => PaidMeansMoney
  BY DEF BooksAgree
<1> QED
  BY <1>1, BooksInvariant, PTL

\* Order.status moves along the transition table, although the table is looked
\* up before the database transaction.
THEOREM LifecycleIsFollowed == UndisturbedSpec => StatusFollowsLifecycle
<1>1. BaseInv /\ [Next /\ Undisturbed]_vars
        => [\A o \in Orders : status'[o] # status[o] => LifecycleStep(o)]_vars
  BY UndisturbedStep
<1> QED
  BY <1>1, BooksInvariant, PTL DEF UndisturbedSpec, StatusFollowsLifecycle

\* A stamped order keeps its place in the queue for stock.
THEOREM QueueIsFair == UndisturbedSpec => QueuePlaceIsKept
<1>1. BaseInv /\ [Next /\ Undisturbed]_vars
        => [\A o \in Orders : queuedAt[o] # 0 => queuedAt'[o] = queuedAt[o]]_vars
  BY UndisturbedStep
<1> QED
  BY <1>1, BooksInvariant, PTL DEF UndisturbedSpec, QueuePlaceIsKept

\* A rejection hands its stock on first come, first served: as long as the queue
\* and the stock stand still while it works on them, nobody is left waiting who
\* would fit if those promoted from behind gave theirs back.
THEOREM RejectionServesQueue ==
    UndisturbedSpec /\ [][QueueStands]_vars => ReleasedStockIsOffered
<1> DEFINE Offered(o) ==
      LET W == Waiting(o, qty[o]) IN
      \A w \in W :
        \/ status'[w] = "AWAITING_PAYMENT"
        \/ \E v \in Items(qty[w]) :
             reserved'[v] + qty[w][v] > stock[v] + Units(Behind(w, W), qty, v)
<1>1. BaseInv /\ HoldsFit /\ ServedInv /\ [Next /\ Undisturbed]_vars
        => [\A o \in Orders : Rejected(o) => Offered(o)]_vars
  <2> SUFFICES ASSUME BaseInv, HoldsFit, ServedInv, Next, Undisturbed,
                      NEW o \in Orders, Rejected(o)
               PROVE  Offered(o)
    OBVIOUS
  <2>1. PICK r \in Requests : CommitReject(r) /\ req[r].order = o
    BY RejectedBy DEF BaseInv
  <2>2. Allowed(req[r].order, req[r].target) /\ Current(r) /\ TakenCurrent(r)
    BY <2>1 DEF Undisturbed, CommitStatus
  <2> QED
    BY <2>1, <2>2, RejectOffers
<1>2. Init => ServedInv
  BY DEF Init, Idle, ServedInv
<1>3. BaseInv /\ ServedInv /\ [Next /\ QueueStands]_vars => ServedInv'
  BY ServedNext
<1>4. [Next /\ Undisturbed]_vars /\ [QueueStands]_vars => [Next /\ QueueStands]_vars
  OBVIOUS
<1> QED
  BY <1>1, <1>2, <1>3, <1>4, BooksInvariant, PromotionInvariant, UndisturbedIsSpec, PTL
     DEF UndisturbedSpec, ReleasedStockIsOffered

-----------------------------------------------------------------------------
(* With one handler no commit is disturbed.                                 *)

\* A request in flight is still allowed, and what it has read is still so, of
\* its own order and of those it promotes.
Flying == {"checked", "read", "short", "promoting"}
ListCurrent(r) ==
    \A w \in req[r].got \cup req[r].todo :
      status[w] = "WAITLISTED" /\ qty[w] = req[r].listed[w]
InFlight ==
    \A r \in Requests :
      /\ req[r].pc \in Flying => Allowed(req[r].order, req[r].target)
      /\ req[r].pc \in Flying \ {"checked"} => Current(r)
      /\ req[r].pc = "promoting" => ListCurrent(r)
      /\ req[r].pc = "paying" => PaymentCurrent(r)

LEMMA OnlyHandler ==
    ASSUME OneHandler, NEW r \in Requests, NEW x \in Requests
    PROVE  x = r
  BY DEF OneHandler

\* Steps of the handler that leave the order's rows as they are.
LEMMA InFlightMoved ==
    ASSUME OneHandler, TypeOK, NEW r \in Requests,
           req'[r].pc \in Flying => Allowed(req[r].order, req[r].target)',
           req'[r].pc \in Flying \ {"checked"} => Current(r)',
           req'[r].pc = "promoting" => ListCurrent(r)',
           req'[r].pc = "paying" => PaymentCurrent(r)'
    PROVE  InFlight'
  BY OnlyHandler DEF InFlight

LEMMA InFlightCheck ==
    ASSUME OneHandler, BaseInv, NEW r \in Requests, NEW o \in Orders, NEW t,
           NEW b \in BOOLEAN, NEW q, Check(r, o, t, b, q), TransitionAllowed(o, t)
    PROVE  InFlight'
<1>1. Allowed(o, t)
  BY DEF Check, TransitionAllowed, Allowed, BaseInv, OrderMirrorsTransaction
<1>2. req'[r].pc = "checked" /\ req'[r].order = o /\ req'[r].target = t
  BY DEF Check, BaseInv, TypeOK, Idle
<1>3. status' = status
  BY DEF Check, orderVars
<1>4. Allowed(req[r].order, req[r].target)'
  BY <1>1, <1>2, <1>3 DEF Allowed
<1> QED
  BY <1>2, <1>4, InFlightMoved DEF BaseInv, Flying

LEMMA InFlightRead ==
    ASSUME OneHandler, BaseInv, InFlight, NEW r \in Requests, TxRead(r)
    PROVE  InFlight'
<1> DEFINE o == req[r].order
<1>1. /\ req'[r].order = o /\ req'[r].target = req[r].target
      /\ req'[r].quoted = req[r].quoted
      /\ ~req[r].quoted => req'[r].items = qty[o] /\ req'[r].payment = payment[o]
      /\ req'[r].status = status[o] /\ req'[r].resv = resv[o]
      /\ req'[r].queuedAt = queuedAt[o]
      /\ req[r].pc = "checked" /\ req'[r].pc = "read"
  BY DEF TxRead, BaseInv, TypeOK, Request
<1>2. UNCHANGED <<status, resv, payment, qty, queuedAt>>
  BY DEF TxRead, orderVars
<1>3. Allowed(o, req[r].target)
  BY <1>1 DEF InFlight, Flying
<1>4. Allowed(req[r].order, req[r].target)'
  BY <1>1, <1>2, <1>3 DEF Allowed
<1>5. Current(r)'
  BY <1>1, <1>2 DEF Current
<1> QED
  BY <1>1, <1>4, <1>5, InFlightMoved DEF BaseInv

LEMMA InFlightUnderWay ==
    ASSUME OneHandler, BaseInv, InFlight, NEW r \in Requests, UnderWay(r)
    PROVE  InFlight'
<1> USE DEF BaseInv
<1>1. /\ req'[r].order = req[r].order /\ req'[r].target = req[r].target
      /\ req'[r].quoted = req[r].quoted /\ req'[r].items = req[r].items
      /\ req'[r].status = req[r].status /\ req'[r].resv = req[r].resv
      /\ req'[r].payment = req[r].payment /\ req'[r].queuedAt = req[r].queuedAt
      /\ req[r].pc \in {"read", "promoting"} /\ req'[r].pc \in {"short", "promoting"}
      /\ UNCHANGED orderVars
  BY UnderWayStep
<1>2. Allowed(req[r].order, req[r].target) /\ Current(r)
  BY <1>1 DEF InFlight, Flying
<1>3. Allowed(req[r].order, req[r].target)'
  BY <1>1, <1>2 DEF Allowed, orderVars
<1>4. Current(r)'
  BY <1>1, <1>2 DEF Current, orderVars
<1>5. ASSUME req'[r].pc = "promoting"
      PROVE  ListCurrent(r)'
  <2>1. CASE ListWaiting(r)
    <3>1. /\ req'[r].todo = WaitingFor(r) /\ req'[r].got = {}
          /\ req'[r].listed = [w \in Orders |-> IF w \in WaitingFor(r) THEN qty[w] ELSE NoItems]
      BY <2>1, ListStep DEF GotInv
    <3>2. \A w \in WaitingFor(r) : w \in Orders /\ status[w] = "WAITLISTED"
      BY DEF WaitingFor, Waiting
    <3> QED
      BY <1>1, <3>1, <3>2 DEF ListCurrent, orderVars
  <2>2. CASE PromoteNext(r) \/ PassNext(r)
    <3>1. PICK w \in Orders :
            /\ TurnOf(r, w) /\ req[r].pc = "promoting" /\ req'[r].listed = req[r].listed
            /\ req'[r].todo = req[r].todo \ {w}
            /\ req'[r].got = req[r].got \cup {w} \/ req'[r].got = req[r].got
      BY <2>2, PromoteStep, PassStep
    <3>2. req'[r].got \cup req'[r].todo \subseteq req[r].got \cup req[r].todo
      BY <3>1 DEF TurnOf
    <3>3. ListCurrent(r)
      BY <3>1 DEF InFlight
    <3> QED
      BY <1>1, <3>1, <3>2, <3>3 DEF ListCurrent, orderVars
  <2> QED
    BY <1>5, <2>1, <2>2, FallStep DEF UnderWay
<1> QED
  BY <1>1, <1>3, <1>4, <1>5, InFlightMoved

\* Steps that write nothing a request in flight relies on.
LEMMA InFlightKept ==
    ASSUME BaseInv, InFlight, req' = req,
           \A o \in Orders : status[o] # "NONE" =>
             /\ status'[o] = status[o] /\ resv'[o] = resv[o] /\ qty'[o] = qty[o]
             /\ payment'[o] = payment[o] /\ queuedAt'[o] = queuedAt[o]
             /\ paidTxns'[o] = paidTxns[o]
    PROVE  InFlight'
<1>1. ASSUME NEW r \in Requests, req[r].pc \in Flying
      PROVE  /\ Allowed(req[r].order, req[r].target)'
             /\ req[r].pc # "checked" => Current(r)'
  <2>1. req[r].order \in Orders /\ Allowed(req[r].order, req[r].target)
    BY <1>1 DEF BaseInv, TypeOK, Request, InFlight
  <2>2. status[req[r].order] # "NONE"
    BY <2>1, AllowedCases DEF BaseInv
  <2>3. Allowed(req[r].order, req[r].target)'
    BY <2>1, <2>2 DEF Allowed
  <2>4. req[r].pc # "checked" => Current(r)'
    BY <1>1, <2>1, <2>2 DEF InFlight, Current
  <2> QED
    BY <2>3, <2>4
<1>2. ASSUME NEW r \in Requests, req[r].pc = "paying"
      PROVE  PaymentCurrent(r)'
  <2>1. req[r].order \in Orders /\ PaymentCurrent(r)
    BY <1>2 DEF BaseInv, TypeOK, Request, InFlight
  <2> QED
    BY <2>1 DEF PaymentCurrent
<1>3. ASSUME NEW r \in Requests, req[r].pc = "promoting"
      PROVE  ListCurrent(r)'
  <2>1. req[r].got \cup req[r].todo \subseteq Orders /\ ListCurrent(r)
    BY <1>3 DEF BaseInv, TypeOK, Request, InFlight
  <2> QED
    BY <2>1 DEF ListCurrent
<1> QED
  BY <1>1, <1>2, <1>3 DEF InFlight

LEMMA InFlightNext ==
    ASSUME OneHandler, BaseInv, InFlight, [Next]_vars
    PROVE  InFlight'
<1>1. ASSUME NEW o \in Orders, NEW q \in Quantities, PlaceOrder(o, q)
      PROVE  InFlight'
  BY <1>1, InFlightKept DEF PlaceOrder, BaseInv, TypeOK
<1>2. ASSUME NEW r \in Requests, NEW o \in Orders, NEW t \in OrderLifecycleStatus,
             AdminSetStatus(r, o, t)
      PROVE  InFlight'
  BY <1>2, InFlightCheck DEF AdminSetStatus
<1>3. ASSUME NEW r \in Requests, NEW o \in Orders, NEW q \in Quantities,
             IssueQuotation(r, o, q)
      PROVE  InFlight'
  <2>1. TransitionAllowed(o, "AWAITING_PAYMENT")
    BY <1>3 DEF IssueQuotation, TransitionAllowed, Transitions, OrderLifecycleStatus
  <2> QED
    BY <1>3, <2>1, InFlightCheck DEF IssueQuotation
<1>4. ASSUME NEW r \in Requests, NEW o \in Orders,
             AcceptPayLater(r, o) \/ StripeWebhook(r, o) \/ RejectQuotation(r, o)
      PROVE  InFlight'
  <2>1. TransitionAllowed(o, "CONFIRMED") /\ TransitionAllowed(o, "QUOTATION_REJECTED")
    BY <1>4 DEF AcceptPayLater, StripeWebhook, RejectQuotation, TransitionAllowed,
                Transitions, OrderLifecycleStatus
  <2> QED
    BY <1>4, <2>1, InFlightCheck DEF AcceptPayLater, StripeWebhook, RejectQuotation
<1>5. ASSUME NEW r \in Requests, NEW o \in Orders, BeginPayment(r, o)
      PROVE  InFlight'
  <2>1. /\ req'[r].pc = "paying" /\ req'[r].order = o /\ req'[r].status = status[o]
        /\ status[o] # "NONE" /\ paidTxns[o] = 0
    BY <1>5 DEF BeginPayment, BaseInv, TypeOK, Idle
  <2>2. UNCHANGED <<status, paidTxns>>
    BY <1>5 DEF BeginPayment, orderVars
  <2>3. PaymentCurrent(r)'
    BY <2>1, <2>2 DEF PaymentCurrent
  <2> QED
    BY <2>1, <2>3, InFlightMoved DEF BaseInv, Flying
<1>6. ASSUME NEW r \in Requests, TxRead(r) \/ UnderWay(r)
      PROVE  InFlight'
  BY <1>6, InFlightRead, InFlightUnderWay
<1>7. ASSUME NEW r \in Requests, CommitStatus(r) \/ CommitPayment(r) \/ Abandon(r)
      PROVE  InFlight'
  <2>1. req' = [req EXCEPT ![r] = Idle]
    BY <1>7 DEF CommitStatus, CommitApprove, CommitFallback, CommitWaitlist, CommitReject,
                CommitConfirm, CommitDeliver, Committing, CommitPayment, Abandon
  <2>2. req'[r].pc = "idle"
    BY <2>1 DEF BaseInv, TypeOK, Idle
  <2> QED
    BY <2>2, InFlightMoved DEF BaseInv, Flying
<1>8. ASSUME UNCHANGED <<req, status, resv, payment, qty, queuedAt, paidTxns>>
      PROVE  InFlight'
  BY <1>8, InFlightKept
<1>9. CASE \/ \E o \in Orders : OpenCheckout(o) \/ CustomerPays(o)
           \/ \E o \in Deletable : DeleteTransaction(o)
           \/ \E v \in Variants : \/ \E n \in RestockSizes : Restock(v, n)
                                  \/ \E n \in EditableStock : EditStock(v, n)
           \/ UNCHANGED vars
  BY <1>8, <1>9 DEF OpenCheckout, CustomerPays, DeleteTransaction, Restock, EditStock,
                    orderVars, vars
<1> QED
  BY <1>1, <1>2, <1>3, <1>4, <1>5, <1>6, <1>7, <1>9 DEF Next, UnderWay

\* With one handler no request acts on what is no longer so.
LEMMA OneHandlerStep ==
    ASSUME OneHandler PROVE Spec => [][Next /\ Undisturbed /\ UndisturbedPayment]_vars
<1>1. Init => InFlight
  BY DEF Init, Idle, InFlight, Flying
<1>2. BaseInv /\ InFlight /\ [Next]_vars => InFlight'
  BY InFlightNext
<1>3. BaseInv /\ InFlight => Undisturbed
  <2> SUFFICES ASSUME BaseInv, InFlight, NEW r \in Requests, CommitStatus(r)
               PROVE  Allowed(req[r].order, req[r].target) /\ Current(r) /\ TakenCurrent(r)
    BY DEF Undisturbed
  <2>1. req[r].pc \in Flying \ {"checked"}
    BY DEF CommitStatus, CommitApprove, CommitFallback, CommitWaitlist, CommitReject,
           CommitConfirm, CommitDeliver, Committing, Flying
  <2>2. TakenCurrent(r)
    BY DEF BaseInv, GotInv, InFlight, ListCurrent, TakenCurrent
  <2> QED
    BY <2>1, <2>2 DEF InFlight
<1>4. InFlight => UndisturbedPayment
  BY DEF InFlight, UndisturbedPayment, CommitPayment
<1>5. BaseInv /\ InFlight /\ [Next]_vars => [Next /\ Undisturbed /\ UndisturbedPayment]_vars
  BY <1>3, <1>4
<1> QED
  BY <1>1, <1>2, <1>5, BaseInvariant, PTL DEF Spec

\* So every behaviour of one handler is one without a disturbed commit, and all
\* of the above holds of it.
THEOREM OneHandlerIsUndisturbed ==
    ASSUME OneHandler PROVE Spec => UndisturbedSpec
<1>1. [Next /\ Undisturbed /\ UndisturbedPayment]_vars => [Next /\ Undisturbed]_vars
  OBVIOUS
<1> QED
  BY <1>1, OneHandlerStep, PTL DEF Spec, UndisturbedSpec

\* So with one handler the three tables agree and the lifecycle and the queue
\* are kept, with no hypothesis on the steps; and a rejection serves the queue if
\* nobody fills or counts the shelf just then.
COROLLARY OneHandlerKeepsBooks ==
    ASSUME OneHandler
    PROVE  Spec => /\ []ReservedIsSumOfHolds /\ []SalesIsSumOfConsumed
                   /\ []HoldsFollowStatus /\ []PaidMeansMoney
                   /\ StatusFollowsLifecycle /\ QueuePlaceIsKept
                   /\ [][QueueStands]_vars => ReleasedStockIsOffered
  BY OneHandlerIsUndisturbed, ReservedStockIsHeld, SoldOnce, StatusTellsReservation,
     NoPaymentWithoutMoney, LifecycleIsFollowed, QueueIsFair, RejectionServesQueue, PTL

-----------------------------------------------------------------------------
(* Every request takes effect at one moment: the refinement of OrderLife.   *)

\* The operators of OrderLife are those of Waitlist, and what it derives is
\* what the tables store.
LEMMA LifeOperators ==
    /\ Life!Orders = Orders /\ Life!Quantities = Quantities /\ Life!NoItems = NoItems
    /\ \A q : Life!Items(q) = Items(q)
    /\ \A S, q, v : Life!Units(S, q, v) = Units(S, q, v)
    /\ Life!Holding = WithResv("ACTIVE")
<1>1. Life!Orders = Orders
  BY DEF Life!Orders, Orders
<1>2. \A q : Life!Items(q) = Items(q)
  BY DEF Life!Items, Items
<1>3. \A S, q, v : Life!Units(S, q, v) = Units(S, q, v)
  <2>1. \A S, q, v : Life!UnitSet(S, q, v) = UnitSet(S, q, v)
    BY DEF Life!UnitSet, UnitSet
  <2>2. \A T : Life!Cardinality(T) = Cardinality(T)
    BY Zenon DEF Life!Cardinality, Cardinality
  <2> QED
    BY <2>1, <2>2 DEF Life!Units, Units
<1>4. Life!Quantities = Quantities /\ Life!NoItems = NoItems
  BY DEF Life!Quantities, Quantities, Life!NoItems, NoItems
<1>5. Life!Holding = WithResv("ACTIVE")
  BY <1>1 DEF Life!Holding, WithResv
<1> QED
  BY <1>1, <1>2, <1>3, <1>4, <1>5

LEMMA LifePromoted ==
    ASSUME NEW P, NEW W, NEW q, NEW at, NEW h, NEW s
    PROVE  Life!Promoted(P, W, q, at, h, s) <=> Promoted(P, W, q, at, h, s)
<1>1. \A p, w : Life!Ahead(at, p, w) <=> Ahead(at, p, w)
  BY DEF Life!Ahead, Ahead
<1> QED
  BY <1>1, LifeOperators DEF Life!Promoted, Promoted

\* Stamps are given out in order; an order waits, or may be paid for, only once
\* it has one.
Stamps ==
    /\ \A o \in Orders : queuedAt[o] <= clock
    /\ \A o \in Orders : status[o] \in {"WAITLISTED", "AWAITING_PAYMENT"} => queuedAt[o] # 0
    /\ \A o \in Orders : checkout[o] # "NONE" => queuedAt[o] # 0 /\ o \notin PayLaterOrders

\* A commit that stamps its order, undisturbed.
LEMMA StampStep ==
    ASSUME TypeOK, Stamps, NEW r \in Requests, req[r].order \in Orders,
           req[r].queuedAt = queuedAt[req[r].order], StampQueue(r)
    PROVE  /\ queuedAt'[req[r].order] # 0
           /\ \A o \in Orders : queuedAt'[o] <= clock'
           /\ \A o \in Orders : queuedAt[o] # 0 => queuedAt'[o] # 0
           /\ Life!TakesPlace(req[r].order)
<1> DEFINE o == req[r].order
<1>1. queuedAt \in [Orders -> Nat] /\ clock \in Nat /\ \A p \in Orders : queuedAt[p] <= clock
  BY DEF TypeOK, Stamps
<1>2. CASE queuedAt[o] # 0
  <2>1. queuedAt' = [queuedAt EXCEPT ![o] = queuedAt[o]] /\ clock' = clock
    BY <1>2 DEF StampQueue
  <2>2. queuedAt' = queuedAt
    BY <1>1, <2>1
  <2> QED
    BY <1>1, <1>2, <2>1, <2>2 DEF Life!TakesPlace
<1>3. CASE queuedAt[o] = 0
  <2>1. queuedAt' = [queuedAt EXCEPT ![o] = clock + 1] /\ clock' = clock + 1
    BY <1>3 DEF StampQueue
  <2>2. queuedAt'[o] = clock + 1
    BY <1>1, <2>1
  <2>3. queuedAt' = [queuedAt EXCEPT ![o] = queuedAt'[o]]
    BY <2>1, <2>2
  <2>4. \A p \in Orders : queuedAt[p] < queuedAt'[o]
    BY <1>1, <2>2
  <2>5. Life!TakesPlace(o)
    BY <1>3, <2>3, <2>4, LifeOperators DEF Life!TakesPlace
  <2>6. \A p \in Orders : queuedAt'[p] <= clock' /\ (queuedAt[p] # 0 => queuedAt'[p] # 0)
    BY <1>1, <2>1
  <2> QED
    BY <1>1, <2>2, <2>5, <2>6
<1> QED
  BY <1>2, <1>3

LEMMA StampsCommit ==
    ASSUME BaseInv, Stamps, NEW r \in Requests, CommitStatus(r),
           Allowed(req[r].order, req[r].target), Current(r), TakenCurrent(r)
    PROVE  Stamps'
<1> USE DEF BaseInv
<1> DEFINE o == req[r].order
<1>1. CASE CommitApprove(r) \/ CommitFallback(r) \/ CommitWaitlist(r)
  <2>1. PICK t \in OrderLifecycleStatus, at \in {"read", "short"} : Committing(r, at, t)
    BY <1>1 DEF CommitApprove, CommitFallback, CommitWaitlist, OrderLifecycleStatus
  <2>2. o \in Orders /\ req[r].queuedAt = queuedAt[o] /\ checkout' = checkout
    BY <2>1, AtCommit
  <2>3. /\ StampQueue(r)
        /\ SetStatus(o, "AWAITING_PAYMENT") \/ SetStatus(o, "WAITLISTED")
    BY <1>1 DEF CommitApprove, CommitFallback, CommitWaitlist
  <2>4. \A p \in Orders \ {o} : status'[p] = status[p]
    BY <2>2, <2>3 DEF SetStatus, TypeOK
  <2> QED
    BY <2>2, <2>3, <2>4, StampStep DEF Stamps
<1>2. CASE CommitReject(r)
  <2>1. /\ status' = [p \in Orders |->
               IF p \in req[r].got THEN "AWAITING_PAYMENT"
               ELSE IF p = o THEN "QUOTATION_REJECTED" ELSE status[p]]
        /\ UNCHANGED <<queuedAt, clock, checkout>>
    BY <1>2, RejectWrites
  <2>2. \A p \in req[r].got : status[p] = "WAITLISTED"
    BY DEF TakenCurrent
  <2> QED
    BY <2>1, <2>2 DEF Stamps
<1>3. CASE CommitConfirm(r) \/ CommitDeliver(r)
  <2>1. UNCHANGED <<queuedAt, clock, checkout>>
    BY <1>3 DEF CommitConfirm, CommitDeliver, Committing
  <2>2. SetStatus(o, "CONFIRMED") \/ SetStatus(o, "DELIVERED")
    BY <1>3 DEF CommitConfirm, CommitDeliver
  <2> QED
    BY <2>1, <2>2 DEF SetStatus, Stamps, TypeOK
<1> QED
  BY <1>1, <1>2, <1>3 DEF CommitStatus

\* Only a commit of a status stamps; a Stripe session is opened for a quotation.
LEMMA StampsNext ==
    ASSUME BaseInv, Stamps, [Next /\ Undisturbed]_vars
    PROVE  Stamps'
<1> USE DEF BaseInv
<1>1. ASSUME NEW r \in Requests, CommitStatus(r), Undisturbed
      PROVE  Stamps'
  BY <1>1, StampsCommit DEF Undisturbed
<1>2. ASSUME NEW o \in Orders, OpenCheckout(o) \/ CustomerPays(o)
      PROVE  Stamps'
  <2>1. UNCHANGED <<status, queuedAt, clock>>
    BY <1>2 DEF OpenCheckout, CustomerPays, orderVars
  <2>2. \/ status[o] = "AWAITING_PAYMENT" /\ o \notin PayLaterOrders
        \/ checkout[o] # "NONE"
    BY <1>2 DEF OpenCheckout, CustomerPays, OrderMirrorsTransaction
  <2>3. \A p \in Orders \ {o} : checkout'[p] = checkout[p]
    BY <1>2 DEF OpenCheckout, CustomerPays, TypeOK
  <2> QED
    BY <2>1, <2>2, <2>3 DEF Stamps
<1>3. ASSUME UNCHANGED <<queuedAt, clock, checkout>>,
             \A p \in Orders : status'[p] \in {"WAITLISTED", "AWAITING_PAYMENT"}
                                => status'[p] = status[p]
      PROVE  Stamps'
  BY <1>3 DEF Stamps
<1>4. ASSUME NEW o \in Orders, NEW q \in Quantities, PlaceOrder(o, q)
      PROVE  Stamps'
  BY <1>3, <1>4 DEF PlaceOrder, TypeOK
<1>5. ASSUME NEW r \in Requests, CommitPayment(r)
      PROVE  Stamps'
  BY <1>3, <1>5 DEF CommitPayment, TypeOK
<1>6. ASSUME UNCHANGED <<status, queuedAt, clock, checkout>>
      PROVE  Stamps'
  BY <1>6 DEF Stamps
<1>7. ASSUME NEW r \in Requests, NEW o \in Orders,
             \/ \E t \in OrderLifecycleStatus : AdminSetStatus(r, o, t)
             \/ \E q \in Quantities : IssueQuotation(r, o, q)
             \/ AcceptPayLater(r, o)
             \/ RejectQuotation(r, o)
             \/ StripeWebhook(r, o)
             \/ BeginPayment(r, o)
      PROVE  Stamps'
  <2>1. BeginPayment(r, o) \/ \E t, b, q : Check(r, o, t, b, q)
    BY <1>7, Zenon DEF AdminSetStatus, IssueQuotation, AcceptPayLater, RejectQuotation,
                       StripeWebhook
  <2>2. UNCHANGED <<orderVars, checkout>>
    BY <2>1, Zenon DEF BeginPayment, Check
  <2> QED
    BY <2>2, <1>6 DEF orderVars
<1>8. ASSUME NEW r \in Requests, TxRead(r) \/ UnderWay(r) \/ Abandon(r)
      PROVE  Stamps'
  BY <1>6, <1>8, UnderWayStep DEF TxRead, Abandon, orderVars
<1>9. CASE \/ \E o \in Deletable : DeleteTransaction(o)
           \/ \E v \in Variants : \/ \E n \in RestockSizes : Restock(v, n)
                                  \/ \E n \in EditableStock : EditStock(v, n)
           \/ UNCHANGED vars
  BY <1>6, <1>9 DEF DeleteTransaction, Restock, EditStock, orderVars, vars
<1> QED
  BY <1>1, <1>2, <1>4, <1>5, <1>7, <1>8, <1>9 DEF Next, UnderWay

\* What the refinement rests on.
LifeInv ==
    /\ BaseInv
    /\ BooksAgree
    /\ QuoteInv
    /\ Stamps
    /\ HoldsFit
    /\ ServedInv

\* The filed orders, as OrderLife is instantiated.
Filed == {o \in Orders : txn[o] # "NONE"}
Recorded == {o \in Orders : paidTxns[o] > 0}
Captured == {o \in Orders : checkout[o] = "CAPTURED"}

\* What OrderLife calls room is the guard of the UPDATE.
LEMMA RoomIsFits ==
    ASSUME LifeInv, NEW q \in Quantities
    PROVE  Life!Room(Life!Holding, q) <=> Fits(q)
<1>1. ASSUME NEW v \in Variants
      PROVE  reserved[v] = Units(WithResv("ACTIVE"), qty, v)
  BY DEF LifeInv, BooksAgree, Books, ReservedIsSumOfHolds
<1>2. \A v \in Items(q) : v \in Variants
  BY DEF Items
<1> QED
  BY <1>1, <1>2, LifeOperators DEF Life!Room, Fits

\* A commit that writes its order's two columns leaves the filed orders as they
\* are.
LEMMA FiledKept ==
    ASSUME TypeOK, NEW o \in Orders, txn[o] # "NONE", NEW s, s # "NONE", SetStatus(o, s)
    PROVE  Filed' = Filed
  BY DEF SetStatus, Filed, TypeOK

LEMMA LifePlace ==
    ASSUME LifeInv, NEW o \in Orders, NEW q \in Quantities, PlaceOrder(o, q)
    PROVE  Life!Place(o, q)
<1>1. Filed' = Filed \cup {o}
  BY DEF LifeInv, BaseInv, TypeOK, PlaceOrder, Filed
<1>2. UNCHANGED <<stock, resv, queuedAt, paidTxns, checkout>>
  BY DEF PlaceOrder, stockVars
<1> QED
  BY <1>1, <1>2 DEF PlaceOrder, Life!Place, Filed

LEMMA LifeQuote ==
    ASSUME LifeInv, NEW r \in Requests, CommitApprove(r) \/ CommitFallback(r),
           Allowed(req[r].order, req[r].target), Current(r),
           CommitFallback(r) => ~ Fits(req[r].items)
    PROVE  Life!Quote(req[r].order, req[r].items)
<1> USE DEF LifeInv, BaseInv
<1> DEFINE o == req[r].order
           q == req[r].items
<1>1. /\ o \in Orders /\ q \in Quantities /\ Allowed(o, "AWAITING_PAYMENT")
      /\ req[r].queuedAt = queuedAt[o] /\ (~ req[r].quoted => q = qty[o])
      /\ UNCHANGED <<paidTxns, checkout>>
  BY AtCommit DEF CommitApprove, CommitFallback
<1>2. status[o] \in {"PENDING_VERIFICATION", "WAITLISTED"}
  BY <1>1, AllowedCases
<1>3. txn[o] # "NONE" /\ req[r].pc \in {"read", "short"} /\ UNCHANGED ordered
  BY DEF CommitApprove, CommitFallback, Committing
<1>4. Items(q) = Items(ordered[o]) /\ \A v \in Variants : q[v] <= ordered[o][v]
  BY <1>3 DEF QuoteInv, Within
<1>5. qty' = [qty EXCEPT ![o] = q]
  BY <1>1 DEF CommitApprove, CommitFallback, TypeOK
<1>6. Life!TakesPlace(o)
  BY <1>1, StampStep DEF CommitApprove, CommitFallback
<1>7. stock' = stock
  BY DEF CommitApprove, CommitFallback, stockVars
<1>8. Filed' = Filed
  BY <1>1, <1>3, FiledKept DEF CommitApprove, CommitFallback
<1>9. \/ /\ Life!Room(Life!Holding, q)
         /\ status' = [status EXCEPT ![o] = "AWAITING_PAYMENT"]
         /\ resv' = [resv EXCEPT ![o] = "ACTIVE"]
      \/ /\ ~ Life!Room(Life!Holding, q)
         /\ status' = [status EXCEPT ![o] = "WAITLISTED"]
         /\ resv' = resv
  BY <1>1, RoomIsFits DEF CommitApprove, CommitFallback, SetStatus
<1> HIDE DEF o, q
<1>10. o \in Filed
  BY <1>1, <1>3 DEF Filed, o
<1>11. Life!Quote(o, q)
  BY <1>1, <1>2, <1>3, <1>4, <1>5, <1>6, <1>7, <1>8, <1>9, <1>10, LifeOperators
     DEF Life!Quote, Filed
<1> QED
  BY <1>11 DEF o, q

LEMMA LifeWait ==
    ASSUME LifeInv, NEW r \in Requests, CommitWaitlist(r),
           Allowed(req[r].order, req[r].target), Current(r)
    PROVE  Life!Wait(req[r].order)
<1> USE DEF LifeInv, BaseInv
<1> DEFINE o == req[r].order
<1>1. /\ o \in Orders /\ Allowed(o, "WAITLISTED") /\ req[r].resv = resv[o]
      /\ req[r].queuedAt = queuedAt[o] /\ UNCHANGED <<paidTxns, checkout>>
  BY AtCommit DEF CommitWaitlist
<1>2. status[o] = "PENDING_VERIFICATION"
  BY <1>1, AllowedCases
<1>3. resv[o] = "NONE"
  BY <1>1, <1>2 DEF BooksAgree, HoldsFollowStatus
<1>4. resv' = resv
  BY <1>1, <1>3 DEF CommitWaitlist, TypeOK
<1>5. txn[o] # "NONE" /\ UNCHANGED <<ordered, qty, stock>>
  BY DEF CommitWaitlist, Committing
<1>6. Life!TakesPlace(o)
  BY <1>1, StampStep DEF CommitWaitlist
<1>7. Filed' = Filed /\ status' = [status EXCEPT ![o] = "WAITLISTED"]
  BY <1>1, <1>5, FiledKept DEF CommitWaitlist, SetStatus
<1> QED
  BY <1>1, <1>2, <1>4, <1>5, <1>6, <1>7 DEF Life!Wait, Filed

LEMMA LifeSell ==
    ASSUME LifeInv, NEW r \in Requests, req[r].order \in Orders, Consume(r),
           req[r].resv = resv[req[r].order], req[r].items = qty[req[r].order]
    PROVE  Life!Sell(req[r].order)
<1> USE DEF LifeInv, BaseInv
<1> DEFINE o == req[r].order
<1>1. resv[o] = "ACTIVE" /\ Consumable(qty[o]) /\ qty[o] \in Quantities
      /\ stock' = [v \in Variants |-> stock[v] - qty[o][v]]
      /\ resv' = [resv EXCEPT ![o] = "CONSUMED"]
  BY DEF Consume, TypeOK
<1>2. ASSUME NEW v \in Variants
      PROVE  qty[o][v] <= stock[v]
  <2>1. qty[o][v] \in Nat /\ stock[v] \in Nat
    BY <1>1, QuantityType DEF TypeOK
  <2> QED
    BY <1>1, <2>1 DEF Consumable, Items
<1> QED
  BY <1>1, <1>2 DEF Life!Sell

\* What is held once o gives back what it holds.
LEMMA HeldWithout ==
    ASSUME LifeInv, NEW o \in Orders, resv[o] = "ACTIVE"
    PROVE  Released(qty[o]) = [v \in Variants |-> Units(WithResv("ACTIVE") \ {o}, qty, v)]
<1> USE DEF LifeInv, BaseInv
<1>1. ASSUME NEW v \in Variants
      PROVE  Monus(reserved[v], qty[o][v]) = Units(WithResv("ACTIVE") \ {o}, qty, v)
  <2>1. o \in WithResv("ACTIVE") /\ WithResv("ACTIVE") \in SUBSET Orders
        /\ qty[o] \in Quantities
    BY DEF WithResv, TypeOK
  <2>2. /\ Units(WithResv("ACTIVE") \ {o}, qty, v)
             = Units(WithResv("ACTIVE"), qty, v) - qty[o][v]
        /\ qty[o][v] <= Units(WithResv("ACTIVE"), qty, v)
    BY <2>1, UnitsRemove
  <2>3. reserved[v] = Units(WithResv("ACTIVE"), qty, v)
    BY DEF BooksAgree, Books, ReservedIsSumOfHolds
  <2> QED
    BY <2>2, <2>3 DEF Monus
<1> QED
  BY <1>1 DEF Released

LEMMA LifeReject ==
    ASSUME LifeInv, NEW r \in Requests, CommitReject(r),
           Allowed(req[r].order, req[r].target), Current(r), TakenCurrent(r)
    PROVE  Life!Reject(req[r].order)
<1> USE DEF LifeInv, BaseInv
<1> DEFINE o == req[r].order
           P == req[r].got
           W == Waiting(o, qty[o])
           kept == [v \in Variants |-> Units(WithResv("ACTIVE") \ {o}, qty, v)]
<1>1. /\ o \in Orders /\ Allowed(o, "QUOTATION_REJECTED") /\ req[r].resv = resv[o]
      /\ req[r].items = qty[o] /\ UNCHANGED <<paidTxns, checkout>>
  BY AtCommit DEF CommitReject
<1>2. status[o] = "AWAITING_PAYMENT" /\ resv[o] = "ACTIVE"
  BY <1>1, AllowedCases DEF BooksAgree, HoldsFollowStatus
<1>3. txn[o] # "NONE" /\ UNCHANGED <<ordered, qty, stock, queuedAt>>
  BY DEF CommitReject, Committing
<1>4. AfterRelease(r) = kept /\ WaitingFor(r) = W
  BY <1>1, <1>2, HeldWithout DEF AfterRelease, WaitingFor
<1>5. P \in SUBSET W /\ Promoted(P, W, qty, queuedAt, kept, stock)
  <2> HIDE DEF kept, W
  <2> QED
    BY <1>4, RejectPromotes
<1>6. /\ status' = [p \in Orders |->
           IF p \in P THEN "AWAITING_PAYMENT"
           ELSE IF p = o THEN "QUOTATION_REJECTED" ELSE status[p]]
      /\ txn' = [p \in Orders |->
           IF p \in P THEN "AWAITING_PAYMENT"
           ELSE IF p = o THEN "QUOTATION_REJECTED" ELSE txn[p]]
      /\ resv' = [p \in Orders |->
           IF p \in P THEN "ACTIVE" ELSE IF p = o THEN "RELEASED" ELSE resv[p]]
  BY <1>1, <1>2, RejectWrites
<1>7. Filed' = Filed
  BY <1>1, <1>3, <1>6 DEF Filed, GotInv
<1>8. W = {w \in Filed \ {o} : /\ status[w] = "WAITLISTED"
                               /\ Life!Items(qty[w]) \cap Life!Items(qty[o]) # {}}
  BY LifeOperators DEF Waiting, Filed
<1>9. Life!Promoted(P, W, qty, queuedAt, kept, stock)
  BY <1>5, LifePromoted
<1>10. kept = [v \in Variants |-> Life!Units(Life!Holding \ {o}, qty, v)]
  BY LifeOperators
<1>11. o \in Filed
  BY <1>1, <1>3 DEF Filed
<1> HIDE DEF o, P, W, kept
<1>12. Life!Reject(o)
  BY <1>1, <1>2, <1>3, <1>5, <1>6, <1>7, <1>8, <1>9, <1>10, <1>11, LifeOperators
     DEF Life!Reject, Filed
<1> QED
  BY <1>12 DEF o

LEMMA LifeConfirm ==
    ASSUME LifeInv, NEW r \in Requests, CommitConfirm(r),
           Allowed(req[r].order, req[r].target), Current(r)
    PROVE  Life!Confirm(req[r].order)
<1> USE DEF LifeInv, BaseInv
<1> DEFINE o == req[r].order
<1>1. /\ o \in Orders /\ Allowed(o, "CONFIRMED") /\ req[r].resv = resv[o]
      /\ req[r].items = qty[o] /\ UNCHANGED <<paidTxns, checkout>>
      /\ o \notin PayLaterOrders => checkout[o] = "CAPTURED"
  BY AtCommit DEF CommitConfirm
<1>2. status[o] = "AWAITING_PAYMENT"
  BY <1>1, AllowedCases
<1>3. txn[o] # "NONE" /\ UNCHANGED <<ordered, qty, queuedAt>>
  BY DEF CommitConfirm, Committing
<1>4. Life!Sell(o)
  BY <1>1, LifeSell DEF CommitConfirm
<1>5. Filed' = Filed /\ status' = [status EXCEPT ![o] = "CONFIRMED"]
  BY <1>1, <1>3, FiledKept DEF CommitConfirm, SetStatus
<1> QED
  BY <1>1, <1>2, <1>3, <1>4, <1>5 DEF Life!Confirm, Filed

LEMMA LifeDeliver ==
    ASSUME LifeInv, NEW r \in Requests, CommitDeliver(r),
           Allowed(req[r].order, req[r].target), Current(r)
    PROVE  Life!Deliver(req[r].order)
<1> USE DEF LifeInv, BaseInv
<1> DEFINE o == req[r].order
<1>1. /\ o \in Orders /\ Allowed(o, "DELIVERED") /\ req[r].resv = resv[o]
      /\ req[r].items = qty[o] /\ UNCHANGED <<paidTxns, checkout>>
  BY AtCommit DEF CommitDeliver
<1>2. \/ status[o] = "CONFIRMED"
      \/ status[o] = "AWAITING_PAYMENT" /\ o \in PayLaterOrders
  BY <1>1, AllowedCases
<1>3. txn[o] # "NONE" /\ UNCHANGED <<ordered, qty, queuedAt>>
  BY DEF CommitDeliver, Committing
<1>4. \/ o \in PayLaterOrders /\ Life!Sell(o)
      \/ ~ (o \in PayLaterOrders /\ resv[o] = "ACTIVE") /\ UNCHANGED <<stock, resv>>
  BY <1>1, LifeSell DEF CommitDeliver, stockVars
<1>5. Filed' = Filed /\ status' = [status EXCEPT ![o] = "DELIVERED"]
  BY <1>1, <1>3, FiledKept DEF CommitDeliver, SetStatus
<1> QED
  BY <1>1, <1>2, <1>3, <1>4, <1>5 DEF Life!Deliver, Filed

LEMMA LifeRecord ==
    ASSUME LifeInv, NEW r \in Requests, CommitPayment(r), PaymentCurrent(r),
           NEW o \in Orders, o = req[r].order
    PROVE  Life!Record(o)
<1> USE DEF LifeInv, BaseInv
<1>1. status[o] # "NONE" /\ paidTxns[o] = 0 /\ req[r].status = status[o]
  BY DEF PaymentCurrent
<1>2. paidTxns' = [paidTxns EXCEPT ![o] = 1]
  BY <1>1 DEF CommitPayment, TypeOK
<1>3. o \notin Recorded /\ Recorded' = Recorded \cup {o}
  BY <1>1, <1>2 DEF Recorded, TypeOK
<1>4. Filed' = Filed
  BY <1>1 DEF CommitPayment, Filed, TypeOK
<1>5. status' = [status EXCEPT ![o] = IF status[o] = "DELIVERED" THEN status[o] ELSE "CONFIRMED"]
  BY <1>1 DEF CommitPayment
<1>6. UNCHANGED <<stock, resv, qty, ordered, queuedAt, checkout>>
  BY DEF CommitPayment, stockVars
<1> QED
  BY <1>1, <1>3, <1>4, <1>5, <1>6 DEF Life!Record, Recorded, Filed

\* A step that only moves requests, or opens a Stripe session, is none of the
\* order's life.
LEMMA LifeQuiet ==
    ASSUME UNCHANGED <<stock, status, resv, qty, ordered, queuedAt, txn, paidTxns>>,
           Captured' = Captured
    PROVE  UNCHANGED Life!life
<1>1. Filed' = Filed /\ Recorded' = Recorded
  BY DEF Filed, Recorded
<1> QED
  BY <1>1 DEF Life!life, Filed, Recorded, Captured

LEMMA LifeCapture ==
    ASSUME LifeInv, NEW o \in Orders, CustomerPays(o)
    PROVE  Life!Capture(o)
<1>1. checkout \in [Orders -> {"NONE", "OPEN", "CAPTURED"}]
  BY DEF LifeInv, BaseInv, TypeOK
<1>2. checkout[o] = "OPEN" /\ checkout' = [checkout EXCEPT ![o] = "CAPTURED"]
  BY DEF CustomerPays
<1>3. Captured' = Captured \cup {o}
  BY <1>1, <1>2 DEF Captured
<1>4. queuedAt[o] # 0 /\ o \notin PayLaterOrders
  BY <1>2 DEF LifeInv, Stamps
<1>5. UNCHANGED <<stock, status, resv, qty, ordered, queuedAt, txn, paidTxns>>
  BY DEF CustomerPays, stockVars, orderVars
<1>6. Filed' = Filed /\ Recorded' = Recorded
  BY <1>5 DEF Filed, Recorded
<1> QED
  BY <1>3, <1>4, <1>5, <1>6 DEF Life!Capture, Filed, Recorded, Captured

LEMMA LifeWithdraw ==
    ASSUME LifeInv, NEW o \in Orders, DeleteTransaction(o)
    PROVE  Life!Withdraw(o)
<1>1. Filed' = Filed \ {o}
  BY DEF LifeInv, BaseInv, TypeOK, DeleteTransaction, Filed
<1>2. UNCHANGED <<stock, status, resv, qty, ordered, queuedAt, paidTxns, checkout>>
  BY DEF DeleteTransaction, stockVars
<1> QED
  BY <1>1, <1>2 DEF Life!Withdraw, Filed

LEMMA LifeStock ==
    ASSUME TypeOK, TypeOK', NEW v \in Variants, NEW n, Restock(v, n) \/ EditStock(v, n)
    PROVE  Life!Stock(v)
<1>1. UNCHANGED <<status, resv, qty, ordered, queuedAt, txn, paidTxns, checkout>>
  BY DEF Restock, EditStock, orderVars
<1>2. stock' = [stock EXCEPT ![v] = stock'[v]] /\ stock'[v] \in Nat
  BY DEF Restock, EditStock, TypeOK
<1> QED
  BY <1>1, <1>2 DEF Life!Stock

\* A commit is one step of the order's life.
LEMMA LifeCommit ==
    ASSUME LifeInv, NEW r \in Requests, CommitStatus(r), Undisturbed, ShortageStands
    PROVE  Life!Next
<1> DEFINE o == req[r].order
<1>1. /\ Allowed(o, req[r].target) /\ Current(r) /\ TakenCurrent(r)
      /\ CommitFallback(r) => ~ Fits(req[r].items)
  BY DEF Undisturbed, ShortageStands
<1>2. o \in Orders /\ req[r].items \in Quantities
  BY DEF LifeInv, BaseInv, TypeOK, Request
<1>3. Life!Quote(o, req[r].items) \/ Life!Wait(o) \/ Life!Reject(o) \/ Life!Confirm(o)
        \/ Life!Deliver(o)
  BY <1>1, LifeQuote, LifeWait, LifeReject, LifeConfirm, LifeDeliver DEF CommitStatus
<1> QED
  BY <1>2, <1>3, LifeOperators DEF Life!Next

LEMMA LifeNext ==
    LifeInv /\ [Next /\ Calm]_vars => [Life!Next]_(Life!life)
<1> SUFFICES ASSUME LifeInv, [Next /\ Calm]_vars
             PROVE  Life!Next \/ UNCHANGED Life!life
  OBVIOUS
<1>1. TypeOK /\ TypeOK'
  BY TypeNext DEF LifeInv, BaseInv
<1>2. ASSUME NEW o \in Orders, NEW q \in Quantities, PlaceOrder(o, q)
      PROVE  Life!Next
  BY <1>2, LifePlace, LifeOperators DEF Life!Next
<1>3. ASSUME NEW r \in Requests, CommitStatus(r), Calm
      PROVE  Life!Next
  BY <1>3, LifeCommit DEF Calm
<1>4. ASSUME NEW r \in Requests, CommitPayment(r), Calm
      PROVE  Life!Next
  <2>1. PICK o \in Orders : o = req[r].order
    BY <1>1 DEF TypeOK, Request
  <2>2. Life!Record(o)
    BY <1>4, <2>1, LifeRecord DEF Calm, UndisturbedPayment
  <2> QED
    BY <2>2, LifeOperators DEF Life!Next
<1>5. ASSUME NEW r \in Requests, NEW o \in Orders,
             \/ \E t \in OrderLifecycleStatus : AdminSetStatus(r, o, t)
             \/ \E q \in Quantities : IssueQuotation(r, o, q)
             \/ AcceptPayLater(r, o)
             \/ RejectQuotation(r, o)
             \/ StripeWebhook(r, o)
             \/ BeginPayment(r, o)
      PROVE  UNCHANGED Life!life
  <2>1. BeginPayment(r, o) \/ \E t, b, q : Check(r, o, t, b, q)
    BY <1>5, Zenon DEF AdminSetStatus, IssueQuotation, AcceptPayLater, RejectQuotation,
                       StripeWebhook
  <2>2. UNCHANGED <<stockVars, orderVars, ordered, paidTxns, checkout>>
    BY <2>1, Zenon DEF BeginPayment, Check
  <2> QED
    BY <2>2, LifeQuiet DEF stockVars, orderVars, Captured
<1>6. ASSUME NEW r \in Requests, TxRead(r) \/ UnderWay(r) \/ Abandon(r)
      PROVE  UNCHANGED Life!life
  <2>1. UNCHANGED <<stockVars, orderVars, ordered, paidTxns, checkout>>
    BY <1>1, <1>6, UnderWayStep DEF TxRead, Abandon
  <2> QED
    BY <2>1, LifeQuiet DEF stockVars, orderVars, Captured
<1>7. ASSUME NEW o \in Orders, OpenCheckout(o)
      PROVE  UNCHANGED Life!life
  <2>1. UNCHANGED <<stockVars, orderVars, ordered, paidTxns>>
    BY <1>7 DEF OpenCheckout
  <2>2. Captured' = Captured
    BY <1>1, <1>7 DEF OpenCheckout, Captured, TypeOK
  <2> QED
    BY <2>1, <2>2, LifeQuiet DEF stockVars, orderVars
<1>8. ASSUME NEW o \in Orders, CustomerPays(o)
      PROVE  Life!Next
  BY <1>8, LifeCapture, LifeOperators DEF Life!Next
<1>9. ASSUME NEW o \in Deletable, DeleteTransaction(o)
      PROVE  Life!Next
  BY <1>9, LifeWithdraw, LifeOperators, FulfilmentAssumption DEF Life!Next
<1>10. ASSUME NEW v \in Variants, NEW n, Restock(v, n) \/ EditStock(v, n)
       PROVE  Life!Next
  BY <1>1, <1>10, LifeStock DEF Life!Next
<1>11. CASE UNCHANGED vars
  BY <1>11, LifeQuiet DEF vars, Captured
<1> QED
  BY <1>2, <1>3, <1>4, <1>5, <1>6, <1>7, <1>8, <1>9, <1>10, <1>11 DEF Next, UnderWay

LEMMA LifeInit == Init => Life!Open
<1> SUFFICES ASSUME Init PROVE Life!Open
  OBVIOUS
<1>1. Filed = {} /\ Recorded = {} /\ Captured = {}
  BY DEF Init, Filed, Recorded, Captured
<1> QED
  BY <1>1, LifeOperators DEF Init, Life!Open, Filed, Recorded, Captured

LEMMA CalmIsUndisturbed == CalmSpec => UndisturbedSpec
<1>1. [Next /\ Calm]_vars => [Next /\ Undisturbed]_vars
  BY DEF Calm
<1> QED
  BY <1>1, PTL DEF CalmSpec, UndisturbedSpec

LEMMA LifeInvariant == CalmSpec => []LifeInv
<1>1. Init => Stamps /\ ServedInv
  BY DEF Init, Idle, Stamps, ServedInv
<1>2. BaseInv /\ Stamps /\ [Next /\ Calm]_vars => Stamps'
  BY StampsNext DEF Calm
<1>3. BaseInv /\ ServedInv /\ [Next /\ Calm]_vars => ServedInv'
  BY ServedNext DEF Calm
<1>4. BaseInv /\ BooksAgree /\ QuoteInv /\ Stamps /\ HoldsFit /\ ServedInv => LifeInv
  BY DEF LifeInv
<1> QED
  BY <1>1, <1>2, <1>3, <1>4, BooksInvariant, QuoteInvariant, PromotionInvariant,
     UndisturbedIsSpec, CalmIsUndisturbed, PTL DEF CalmSpec

\* Requests overlap, read early and write late, and keep two counters and two
\* status columns besides; as long as nothing acts on what is no longer so none
\* of that can be seen: every behaviour is one in which each order changes at one
\* moment, judged by what then is.
THEOREM CalmImplementsOrderLife == CalmSpec => ImplementsOrderLife
<1> QED
  BY LifeInit, LifeInvariant, LifeNext, PTL DEF CalmSpec, Life!Spec, ImplementsOrderLife

\* With one handler only the shelf can change under a request's hands; as long as
\* nobody fills or counts it while a promotion or a fallback is under way, the
\* workflow implements the order's life as it stands.
COROLLARY OneHandlerImplementsOrderLife ==
    ASSUME OneHandler
    PROVE  Spec /\ [][QueueStands /\ ShortageStands]_vars => ImplementsOrderLife
<1>1. [Next /\ Undisturbed /\ UndisturbedPayment]_vars /\ [QueueStands /\ ShortageStands]_vars
        => [Next /\ Calm]_vars
  BY DEF Calm
<1> QED
  BY <1>1, OneHandlerStep, CalmImplementsOrderLife, PTL DEF Spec, CalmSpec
=============================================================================
