------------------------------ MODULE Billing ------------------------------
(***************************************************************************)
(* Invoices and recorded payments.  An invoice is made by the job a delivery *)
(* leaves behind, by the customer's first look at it, or by a recorded       *)
(* payment; all three take their number from one yearly counter.             *)
(*                                                                           *)
(* The row lock on the counter is held from the increment to the commit, so  *)
(* an increment, the insertion after it and the commit are one step; so are  *)
(* the statements of a payment from its last read to its commit.  The model  *)
(* stays within one year.                                                    *)
(***************************************************************************)
EXTENDS Naturals

CONSTANTS
    Orders,
    PayLater,       \* orders of dealers who pay 30 days after delivery
    Calls,          \* bound: invoice requests and delivery jobs at once
    Payments        \* payments to record

ASSUME PayLaterAssumption == PayLater \subseteq Orders

Attempts == 3       \* of ensureInvoiceRecord

VARIABLES
    status,         \* status[o]: Order.status, "OPEN" before CONFIRMED
    counter,        \* InvoiceCounter.sequence
    number,         \* number[o]: the number of the order's invoice, 0 without one
    paid,           \* paid[o]: its paymentStatus is PAID, not PAYMENT_DUE
    listed,         \* listed[o]: the payments connected to it
    call,           \* call[c]: what ensureInvoiceForOrder is to do next
    pay,            \* pay[p]: how far payment p has come
    lost            \* lost[o]: a delivery job of o failed, or died with the process

invoices == <<counter, number, paid, listed>>
vars == <<status, invoices, call, pay, lost>>

Idle == [at |-> "idle"]
Call == {Idle} \cup [at : {"order", "find", "attempt", "create"}, order : Orders,
                     job : BOOLEAN, tries : 0..Attempts-1]

Fresh == [at |-> "new"]
Pay == {Fresh} \cup [at : {"checked", "holds", "found", "missing", "recorded", "failed"},
                     order : Orders, delivered : BOOLEAN]

Init ==
    /\ status = [o \in Orders |-> "OPEN"]
    /\ counter = 0
    /\ number = [o \in Orders |-> 0]
    /\ paid = [o \in Orders |-> FALSE]
    /\ listed = [o \in Orders |-> {}]
    /\ call = [c \in Calls |-> Idle]
    /\ pay = [p \in Payments |-> Fresh]
    /\ lost = [o \in Orders |-> FALSE]

Invoiced(o) == number[o] # 0

\* The order's row is locked from a payment's first write to its commit.
Locked(o) == \E p \in Payments : pay[p].at \in {"holds", "found", "missing"} /\ pay[p].order = o

-----------------------------------------------------------------------------
\* The order is confirmed: by Stripe, or on credit.
Confirm(o) ==
    /\ status[o] = "OPEN" /\ ~ Locked(o)
    /\ status' = [status EXCEPT ![o] = "CONFIRMED"]
    /\ UNCHANGED <<invoices, call, pay, lost>>

\* The delivery commits; the invoice is left to a job nobody awaits.
Deliver(c, o) ==
    /\ status[o] = "CONFIRMED" /\ ~ Locked(o) /\ call[c] = Idle
    /\ status' = [status EXCEPT ![o] = "DELIVERED"]
    /\ call' = [call EXCEPT ![c] = [at |-> "order", order |-> o, job |-> TRUE, tries |-> 0]]
    /\ UNCHANGED <<invoices, pay, lost>>

\* getInvoiceByOrder, downloadInvoiceByOrder.
View(c, o) ==
    /\ call[c] = Idle
    /\ call' = [call EXCEPT ![c] = [at |-> "order", order |-> o, job |-> FALSE, tries |-> 0]]
    /\ UNCHANGED <<status, invoices, pay, lost>>

\* Mutant: DELIVERED is missing from the statuses that may be invoiced.
EligibleConfirmedOnly(o) == Invoiced(o) \/ status[o] = "CONFIRMED"

\* isInvoiceEligibleFromOrder.
Eligible(o) == Invoiced(o) \/ status[o] \in {"CONFIRMED", "DELIVERED"}

Return(c) == call' = [call EXCEPT ![c] = Idle]
Retry(r) == [at |-> "attempt", order |-> r.order, job |-> r.job, tries |-> r.tries + 1]
GoOn(c, at) == call' = [call EXCEPT ![c].at = at]

ReadOrder(c) ==
    /\ call[c].at = "order"
    /\ IF Eligible(call[c].order) THEN GoOn(c, "find") ELSE Return(c)
    /\ UNCHANGED <<status, invoices, pay, lost>>

FindInvoice(c) ==
    /\ call[c].at = "find"
    /\ IF Invoiced(call[c].order) THEN Return(c) ELSE GoOn(c, "attempt")
    /\ UNCHANGED <<status, invoices, pay, lost>>

\* Mutant: an attempt does not look for an invoice first.
AttemptBlindly(c) ==
    /\ call[c].at = "attempt"
    /\ GoOn(c, "create")
    /\ UNCHANGED <<status, invoices, pay, lost>>

\* ensureInvoiceRecord: a new database transaction looks again.
Attempt(c) ==
    /\ call[c].at = "attempt"
    /\ IF Invoiced(call[c].order) THEN Return(c) ELSE GoOn(c, "create")
    /\ UNCHANGED <<status, invoices, pay, lost>>

\* The next number goes to the invoice of o.
Number(o) ==
    /\ counter' = counter + 1
    /\ number' = [number EXCEPT ![o] = counter + 1]

\* Mutant: the invoice is upserted, so the terms of the later request win.
CreateOrReplace(c) ==
    LET o == call[c].order IN
    /\ call[c].at = "create"
    /\ IF Invoiced(o) THEN UNCHANGED <<counter, number>> ELSE Number(o)
    /\ paid' = [paid EXCEPT ![o] = ~ (call[c].job /\ o \in PayLater)]
    /\ Return(c)
    /\ UNCHANGED <<status, listed, pay, lost>>

\* Mutant: the counter is not part of the transaction that is rolled back.
CreateWastesNumbers(c) ==
    LET o == call[c].order IN
    /\ call[c].at = "create" /\ call[c].tries < Attempts - 1
    /\ IF Invoiced(o)
       THEN /\ call' = [call EXCEPT ![c] = Retry(@)]
            /\ counter' = counter + 1
            /\ UNCHANGED <<number, paid>>
       ELSE /\ Number(o)
            /\ paid' = [paid EXCEPT ![o] = ~ (call[c].job /\ o \in PayLater)]
            /\ Return(c)
    /\ UNCHANGED <<status, listed, pay, lost>>

\* An order has one invoice: the insertion may conflict, and is then retried.
Create(c) ==
    LET o == call[c].order IN
    /\ call[c].at = "create"
    /\ \/ /\ ~ Invoiced(o)
          /\ Number(o)
          /\ paid' = [paid EXCEPT ![o] = ~ (call[c].job /\ o \in PayLater)]
          /\ Return(c)
       \/ /\ Invoiced(o)
          /\ IF call[c].tries < Attempts - 1
             THEN call' = [call EXCEPT ![c] = Retry(@)]
             ELSE Return(c)
          /\ UNCHANGED <<counter, number, paid>>
    /\ UNCHANGED <<status, listed, pay, lost>>

\* Any other error ends the request: a statement or the time limit of the
\* database transaction.  The error of a job is logged and forgotten.
Fail(c) ==
    /\ call[c].at # "idle"
    /\ Return(c)
    /\ lost' = [lost EXCEPT ![call[c].order] = @ \/ call[c].job]
    /\ UNCHANGED <<status, invoices, pay>>

-----------------------------------------------------------------------------
(* recordAdminPayment, processGatewayPayment: one database transaction.     *)

Recorded(o) == {p \in Payments : pay[p].at = "recorded" /\ pay[p].order = o}

\* No payment of the order is CONFIRMED yet.
CheckPayment(p, o) ==
    /\ pay[p] = Fresh /\ Recorded(o) = {}
    /\ pay' = [pay EXCEPT ![p] = [at |-> "checked", order |-> o,
                                  delivered |-> status[o] = "DELIVERED"]]
    /\ UNCHANGED <<status, invoices, call, lost>>

\* order.update waits for the payment or delivery that holds the row.
LockOrder(p) ==
    /\ pay[p].at = "checked" /\ ~ Locked(pay[p].order)
    /\ pay' = [pay EXCEPT ![p].at = "holds"]
    /\ UNCHANGED <<status, invoices, call, lost>>

\* regenerateInvoiceAfterPayment looks for the invoice.
ReadInvoice(p) ==
    /\ pay[p].at = "holds"
    /\ pay' = [pay EXCEPT ![p].at = IF Invoiced(pay[p].order) THEN "found" ELSE "missing"]
    /\ UNCHANGED <<status, invoices, call, lost>>

\* The commit, with the order's status as it was when the payment was checked.
SetPaid(p) ==
    /\ pay' = [pay EXCEPT ![p].at = "recorded"]
    /\ status' = [status EXCEPT ![pay[p].order] =
                    IF pay[p].delivered THEN "DELIVERED" ELSE "CONFIRMED"]
    /\ paid' = [paid EXCEPT ![pay[p].order] = TRUE]
    /\ listed' = [listed EXCEPT ![pay[p].order] = @ \cup {p}]

\* It marks the invoice that is there, or makes one.
CommitPayment(p) ==
    /\ \/ pay[p].at = "found" /\ UNCHANGED <<counter, number>>
       \/ pay[p].at = "missing" /\ ~ Invoiced(pay[p].order) /\ Number(pay[p].order)
    /\ SetPaid(p)
    /\ UNCHANGED <<call, lost>>

\* A statement fails, or another invoice came first: everything is rolled back.
AbortPayment(p) ==
    /\ pay[p].at \in {"checked", "holds", "found", "missing"}
    /\ pay' = [pay EXCEPT ![p].at = "failed"]
    /\ UNCHANGED <<status, invoices, call, lost>>

\* The process dies: open transactions are rolled back, jobs are forgotten.
Crash ==
    /\ call' = [c \in Calls |-> Idle]
    /\ pay' = [p \in Payments |->
                 IF pay[p].at \in {"new", "recorded"} THEN pay[p] ELSE [pay[p] EXCEPT !.at = "failed"]]
    /\ lost' = [o \in Orders |->
                  lost[o] \/ \E c \in Calls : call[c] # Idle /\ call[c].job /\ call[c].order = o]
    /\ UNCHANGED <<status, invoices>>

-----------------------------------------------------------------------------
Ensure(c) == ReadOrder(c) \/ FindInvoice(c) \/ Attempt(c) \/ Create(c)

Next ==
    \/ \E o \in Orders : Confirm(o)
    \/ \E c \in Calls :
         \/ \E o \in Orders : Deliver(c, o) \/ View(c, o)
         \/ Ensure(c) \/ Fail(c)
    \/ \E p \in Payments :
         \/ \E o \in Orders : CheckPayment(p, o)
         \/ LockOrder(p) \/ ReadInvoice(p) \/ CommitPayment(p) \/ AbortPayment(p)
    \/ Crash

\* A request or a job that is running goes on, or fails.
Spec == Init /\ [][Next]_vars /\ \A c \in Calls : WF_vars(Ensure(c) \/ Fail(c))

-----------------------------------------------------------------------------
TypeOK ==
    /\ status \in [Orders -> {"OPEN", "CONFIRMED", "DELIVERED"}]
    /\ counter \in Nat
    /\ number \in [Orders -> Nat]
    /\ paid \in [Orders -> BOOLEAN]
    /\ listed \in [Orders -> SUBSET Payments]
    /\ call \in [Calls -> Call]
    /\ pay \in [Payments -> Pay]
    /\ lost \in [Orders -> BOOLEAN]

\* Whatever conflicts and is rolled back, invoice numbers run from 1 without a
\* gap and no two orders share one.
NumbersAreGapless ==
    /\ {number[o] : o \in {x \in Orders : Invoiced(x)}} = 1..counter
    /\ \A o1, o2 \in Orders : Invoiced(o1) /\ number[o1] = number[o2] => o1 = o2

\* A payment once recorded is on an invoice that says PAID, whichever of the
\* payment, the delivery's job and the customer's look made the invoice.
RecordedIsInvoiced ==
    \A p \in Payments : pay[p].at = "recorded" =>
      LET o == pay[p].order IN Invoiced(o) /\ paid[o] /\ p \in listed[o]

\* A request for an invoice conflicts at most once: the retry finds the invoice
\* and the third attempt, the last one, is never needed.
OneRetryIsEnough == \A c \in Calls : call[c] # Idle => call[c].tries <= 1

\* A delivered order is invoiced unless the delivery's job fails or dies with
\* the process: no conflict, lost race or order of steps leaves it without one.
DeliveredIsInvoiced ==
    \A o \in Orders : status[o] = "DELIVERED" ~> Invoiced(o) \/ lost[o]

=============================================================================
