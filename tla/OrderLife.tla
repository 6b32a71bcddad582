----------------------------- MODULE OrderLife -----------------------------
(***************************************************************************)
(* What the shop promises about an order: every change of its life happens   *)
(* at one moment and is decided by what is then so.  No request, no counter *)
(* and no second status column are in sight; how much is held is simply     *)
(* what the orders hold.  OrderFulfilment implements it as long as nothing   *)
(* acts on what is no longer so (CalmSpec of FulfilmentBooks).               *)
(***************************************************************************)
EXTENDS Waitlist

CONSTANTS
    PayLater,       \* orders on credit
    Opening         \* units of each variant on the shelf at the start

VARIABLES
    shelf,          \* shelf[v]: units on the shelf, held or not
    status,         \* status[o]: the order's status, "NONE" before it is placed
    hold,           \* hold[o]: "NONE", "ACTIVE", "RELEASED", "CONSUMED"
    qty,            \* qty[o]: the quantities last quoted
    ordered,        \* ordered[o]: the quantities first ordered
    place,          \* place[o]: its place in the queue for stock, 0 before it has one
    filed,          \* orders that can still be worked on
    recorded,       \* orders with a payment recorded by hand
    captured        \* orders paid through Stripe

life == <<shelf, status, hold, qty, ordered, place, filed, recorded, captured>>

Holding == {o \in Orders : hold[o] = "ACTIVE"}

\* What is on the shelf suffices for the orders of S and for q.
Room(S, q) == \A v \in Items(q) : Units(S, qty, v) + q[v] <= shelf[v]

Open ==
    /\ shelf = [v \in Variants |-> Opening]
    /\ status = [o \in Orders |-> "NONE"]
    /\ hold = [o \in Orders |-> "NONE"]
    /\ qty = [o \in Orders |-> NoItems]
    /\ ordered = qty
    /\ place = [o \in Orders |-> 0]
    /\ filed = {} /\ recorded = {} /\ captured = {}

Place(o, q) ==
    /\ status[o] = "NONE"
    /\ status' = [status EXCEPT ![o] = "PENDING_VERIFICATION"]
    /\ qty' = [qty EXCEPT ![o] = q]
    /\ ordered' = [ordered EXCEPT ![o] = q]
    /\ filed' = filed \cup {o}
    /\ UNCHANGED <<shelf, hold, place, recorded, captured>>

\* An order is put behind all others, once.
TakesPlace(o) ==
    \/ place[o] # 0 /\ place' = place
    \/ /\ place[o] = 0
       /\ place' = [place EXCEPT ![o] = place'[o]]
       /\ \A p \in Orders : place[p] < place'[o]

\* The customer is quoted at most what was ordered.  If the shelf has room it
\* is held and may be paid for, if not the order waits: neither is a choice.
Quote(o, q) ==
    /\ o \in filed /\ status[o] \in {"PENDING_VERIFICATION", "WAITLISTED"}
    /\ Items(q) = Items(ordered[o]) /\ \A v \in Variants : q[v] <= ordered[o][v]
    /\ qty' = [qty EXCEPT ![o] = q]
    /\ \/ /\ Room(Holding, q)
          /\ status' = [status EXCEPT ![o] = "AWAITING_PAYMENT"]
          /\ hold' = [hold EXCEPT ![o] = "ACTIVE"]
       \/ /\ ~ Room(Holding, q)
          /\ status' = [status EXCEPT ![o] = "WAITLISTED"]
          /\ hold' = hold
    /\ TakesPlace(o)
    /\ UNCHANGED <<shelf, ordered, filed, recorded, captured>>

Wait(o) ==
    /\ o \in filed /\ status[o] = "PENDING_VERIFICATION"
    /\ status' = [status EXCEPT ![o] = "WAITLISTED"]
    /\ TakesPlace(o)
    /\ UNCHANGED <<shelf, hold, qty, ordered, filed, recorded, captured>>

\* What a rejected order held goes at the same moment to those that wait for
\* one of its variants, by the rule of promotion.
Reject(o) ==
    LET kept == Holding \ {o}
        W == {w \in filed \ {o} : /\ status[w] = "WAITLISTED"
                                  /\ Items(qty[w]) \cap Items(qty[o]) # {}} IN
    /\ o \in filed /\ status[o] = "AWAITING_PAYMENT"
    /\ \E P \in SUBSET W :
         /\ Promoted(P, W, qty, place, [v \in Variants |-> Units(kept, qty, v)], shelf)
         /\ status' = [p \in Orders |->
              IF p \in P THEN "AWAITING_PAYMENT"
              ELSE IF p = o THEN "QUOTATION_REJECTED" ELSE status[p]]
         /\ hold' = [p \in Orders |->
              IF p \in P THEN "ACTIVE" ELSE IF p = o THEN "RELEASED" ELSE hold[p]]
    /\ UNCHANGED <<shelf, qty, ordered, place, filed, recorded, captured>>

\* What an order holds leaves the shelf.
Sell(o) ==
    /\ hold[o] = "ACTIVE"
    /\ \A v \in Variants : qty[o][v] <= shelf[v]
    /\ shelf' = [v \in Variants |-> shelf[v] - qty[o][v]]
    /\ hold' = [hold EXCEPT ![o] = "CONSUMED"]

\* Only what is paid for, or bought on credit, is confirmed.
Confirm(o) ==
    /\ o \in filed /\ status[o] = "AWAITING_PAYMENT"
    /\ o \in PayLater \cup captured
    /\ Sell(o)
    /\ status' = [status EXCEPT ![o] = "CONFIRMED"]
    /\ UNCHANGED <<qty, ordered, place, filed, recorded, captured>>

\* Credit is sold at the delivery if it was not before.
Deliver(o) ==
    /\ o \in filed
    /\ \/ status[o] = "CONFIRMED"
       \/ status[o] = "AWAITING_PAYMENT" /\ o \in PayLater
    /\ \/ o \in PayLater /\ Sell(o)
       \/ ~ (o \in PayLater /\ hold[o] = "ACTIVE") /\ UNCHANGED <<shelf, hold>>
    /\ status' = [status EXCEPT ![o] = "DELIVERED"]
    /\ UNCHANGED <<qty, ordered, place, filed, recorded, captured>>

\* A payment recorded by hand, once, confirms whatever there is.
Record(o) ==
    /\ status[o] # "NONE" /\ o \notin recorded
    /\ recorded' = recorded \cup {o}
    /\ status' = [status EXCEPT ![o] = IF @ = "DELIVERED" THEN @ ELSE "CONFIRMED"]
    /\ UNCHANGED <<shelf, hold, qty, ordered, place, filed, captured>>

\* Stripe captures only what was once quoted, and not on credit.
Capture(o) ==
    /\ place[o] # 0 /\ o \notin PayLater
    /\ captured' = captured \cup {o}
    /\ UNCHANGED <<shelf, status, hold, qty, ordered, place, filed, recorded>>

Withdraw(o) ==
    /\ filed' = filed \ {o}
    /\ UNCHANGED <<shelf, status, hold, qty, ordered, place, recorded, captured>>

\* The shelf of one variant is filled or counted.
Stock(v) ==
    /\ shelf' = [shelf EXCEPT ![v] = shelf'[v]] /\ shelf'[v] \in Nat
    /\ UNCHANGED <<status, hold, qty, ordered, place, filed, recorded, captured>>

Next ==
    \/ \E o \in Orders :
         \/ \E q \in Quantities : Place(o, q) \/ Quote(o, q)
         \/ Wait(o) \/ Reject(o) \/ Confirm(o) \/ Deliver(o)
         \/ Record(o) \/ Capture(o) \/ Withdraw(o)
    \/ \E v \in Variants : Stock(v)

Spec == Open /\ [][Next]_life
=============================================================================
