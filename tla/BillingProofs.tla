--------------------------- MODULE BillingProofs ---------------------------
(***************************************************************************)
(* What is proved of Billing, for any number of orders, payments and         *)
(* requests: numbering without gaps, payments on their invoices, and the     *)
(* retry that is enough.                                                     *)
(***************************************************************************)
EXTENDS Billing, TLAPS

\* A request that has conflicted is about to find the invoice it conflicted with.
ConflictInv ==
    \A c \in Calls : call[c].at # "idle" /\ call[c].tries # 0 =>
      call[c].tries = 1 /\ call[c].at = "attempt" /\ Invoiced(call[c].order)

\* A payment that found an invoice will still find it when it commits.
FoundInv == \A p \in Payments : pay[p].at = "found" => Invoiced(pay[p].order)

BillingInv == TypeOK /\ NumbersAreGapless /\ RecordedIsInvoiced /\ ConflictInv /\ FoundInv

-----------------------------------------------------------------------------
\* What a request, and a payment, carries.
LEMMA CallForm ==
    ASSUME NEW c \in Call
    PROVE  /\ c.at = "idle" <=> c = Idle
           /\ c.at # "idle" =>
                c \in [at : {"order", "find", "attempt", "create"}, order : Orders,
                       job : BOOLEAN, tries : 0..Attempts-1]
<1>1. CASE c = Idle
  BY <1>1 DEF Idle
<1>2. CASE c \in [at : {"order", "find", "attempt", "create"}, order : Orders,
                  job : BOOLEAN, tries : 0..Attempts-1]
  BY <1>2 DEF Idle
<1> QED
  BY <1>1, <1>2 DEF Call

LEMMA RetryForm ==
    ASSUME NEW r \in [at : {"order", "find", "attempt", "create"}, order : Orders,
                      job : BOOLEAN, tries : 0..Attempts-1],
           r.tries = 0
    PROVE  Retry(r) \in Call /\ Retry(r).tries = 1 /\ Retry(r).at = "attempt"
           /\ Retry(r).order = r.order
  BY DEF Retry, Call, Attempts

LEMMA PayForm ==
    ASSUME NEW p \in Pay
    PROVE  p.at # "new" =>
             p \in [at : {"checked", "holds", "found", "missing", "recorded", "failed"},
                    order : Orders, delivered : BOOLEAN]
  BY DEF Pay, Fresh

LEMMA IdleForm == Idle \in Call /\ Idle.at = "idle"
  BY DEF Idle, Call

LEMMA FreshForm == Fresh \in Pay /\ Fresh.at = "new"
  BY DEF Fresh, Pay

LEMMA BillingInit == Init => BillingInv
<1> SUFFICES ASSUME Init PROVE BillingInv
  OBVIOUS
<1>1. TypeOK
  BY IdleForm, FreshForm DEF Init, TypeOK
<1>2. NumbersAreGapless
  <2>1. {x \in Orders : Invoiced(x)} = {} /\ 1..counter = {}
    BY DEF Init, Invoiced
  <2> QED
    BY <2>1 DEF NumbersAreGapless
<1>3. RecordedIsInvoiced /\ ConflictInv /\ FoundInv
  BY IdleForm, FreshForm DEF Init, RecordedIsInvoiced, ConflictInv, FoundInv
<1> QED
  BY <1>1, <1>2, <1>3 DEF BillingInv

-----------------------------------------------------------------------------
\* Taking the next number for an order that has none.
LEMMA NumberKeeps ==
    ASSUME TypeOK, NumbersAreGapless, NEW o \in Orders, ~ Invoiced(o), Number(o)
    PROVE  /\ counter' \in Nat /\ number' \in [Orders -> Nat]
           /\ Invoiced(o)' /\ \A x \in Orders : x # o => number'[x] = number[x]
           /\ NumbersAreGapless'
<1>1. /\ counter \in Nat /\ counter' = counter + 1 /\ number \in [Orders -> Nat]
      /\ number'[o] = counter + 1 /\ number' \in [Orders -> Nat]
      /\ \A x \in Orders : x # o => number'[x] = number[x]
  BY DEF Number, TypeOK
<1>2. \A x \in Orders : Invoiced(x) => number[x] \in 1..counter
  BY DEF NumbersAreGapless
<1>3. \A n \in 1..counter : \E x \in Orders : Invoiced(x) /\ number[x] = n
  BY DEF NumbersAreGapless
<1>4. {number'[x] : x \in {y \in Orders : Invoiced(y)'}} = 1..counter'
  <2>1. ASSUME NEW x \in Orders, number'[x] # 0 PROVE number'[x] \in 1..counter'
    <3>1. CASE x = o
      BY <1>1, <3>1
    <3>2. CASE x # o
      BY <1>1, <1>2, <2>1, <3>2 DEF Invoiced
    <3> QED
      BY <3>1, <3>2
  <2>2. ASSUME NEW n \in 1..counter' PROVE \E x \in Orders : number'[x] # 0 /\ number'[x] = n
    <3>1. CASE n = counter + 1
      BY <1>1, <3>1
    <3>2. CASE n # counter + 1
      <4>1. n \in 1..counter
        BY <1>1, <2>2, <3>2
      <4>2. PICK x \in Orders : Invoiced(x) /\ number[x] = n
        BY <1>3, <4>1
      <4>3. x # o
        BY <4>2
      <4> QED
        BY <1>1, <4>1, <4>2, <4>3
    <3> QED
      BY <3>1, <3>2
  <2> QED
    BY <2>1, <2>2 DEF Invoiced
<1>5. \A x, y \in Orders : number'[x] # 0 /\ number'[x] = number'[y] => x = y
  <2> SUFFICES ASSUME NEW x \in Orders, NEW y \in Orders, x # y,
                      number'[x] # 0, number'[x] = number'[y]
               PROVE  FALSE
    OBVIOUS
  <2>1. CASE x # o /\ y # o
    BY <1>1, <2>1 DEF NumbersAreGapless, Invoiced
  <2>2. ASSUME NEW z \in Orders, z # o PROVE number'[z] # counter + 1
    <3>1. number'[z] = number[z]
      BY <1>1, <2>2
    <3>2. CASE Invoiced(z)
      BY <1>1, <1>2, <3>1, <3>2
    <3>3. CASE ~ Invoiced(z)
      BY <1>1, <3>1, <3>3 DEF Invoiced
    <3> QED
      BY <3>2, <3>3
  <2> QED
    BY <1>1, <2>1, <2>2
<1>6. NumbersAreGapless'
  BY <1>4, <1>5 DEF NumbersAreGapless, Invoiced
<1> QED
  BY <1>1, <1>6 DEF Invoiced

\* A step that leaves invoices and payments alone keeps what only they decide.
LEMMA OnlyCalls ==
    ASSUME BillingInv, UNCHANGED <<invoices, pay>>,
           status' \in [Orders -> {"OPEN", "CONFIRMED", "DELIVERED"}],
           lost' \in [Orders -> BOOLEAN], call' \in [Calls -> Call], ConflictInv'
    PROVE  BillingInv'
<1>1. /\ counter' = counter /\ number' = number /\ paid' = paid /\ listed' = listed
      /\ pay' = pay
  BY DEF invoices
<1>2. TypeOK'
  BY <1>1 DEF BillingInv, TypeOK
<1>3. NumbersAreGapless' /\ RecordedIsInvoiced' /\ FoundInv'
  BY <1>1 DEF BillingInv, NumbersAreGapless, RecordedIsInvoiced, FoundInv, Invoiced
<1> QED
  BY <1>2, <1>3 DEF BillingInv

\* Request c goes on to r, and every invoice that was there is there.
LEMMA CallsKept ==
    ASSUME BillingInv, NEW c \in Calls, NEW r \in Call, call' = [call EXCEPT ![c] = r],
           \A o \in Orders : Invoiced(o) => Invoiced(o)',
           (r.at # "idle" /\ r.tries # 0)
             => r.tries = 1 /\ r.at = "attempt" /\ Invoiced(r.order)'
    PROVE  call' \in [Calls -> Call] /\ ConflictInv'
<1>1. call \in [Calls -> Call]
  BY DEF BillingInv, TypeOK
<1>2. call' \in [Calls -> Call]
  BY <1>1
<1>3. ASSUME NEW d \in Calls, call'[d].at # "idle", call'[d].tries # 0
      PROVE  call'[d].tries = 1 /\ call'[d].at = "attempt" /\ number'[call'[d].order] # 0
  <2>1. CASE d = c
    BY <1>1, <1>3, <2>1 DEF Invoiced
  <2>2. CASE d # c
    <3>1. call'[d] = call[d] /\ call[d] \in Call
      BY <1>1, <2>2
    <3>2. call[d].order \in Orders
      BY <1>3, <3>1, CallForm
    <3> QED
      BY <1>3, <3>1, <3>2 DEF BillingInv, ConflictInv, Invoiced
  <2> QED
    BY <2>1, <2>2
<1> QED
  BY <1>2, <1>3 DEF ConflictInv, Invoiced

-----------------------------------------------------------------------------
(* Requests for an invoice.                                                 *)

LEMMA ReadStepKeeps ==
    ASSUME BillingInv, NEW c \in Calls, ReadOrder(c) \/ FindInvoice(c) \/ Attempt(c)
    PROVE  BillingInv'
<1>1. UNCHANGED <<invoices, pay>> /\ status' = status /\ lost' = lost
  BY DEF ReadOrder, FindInvoice, Attempt
<1>2. number' = number
  BY <1>1 DEF invoices
<1>3. call[c] \in Call /\ call[c].at \in {"order", "find", "attempt"}
  BY DEF ReadOrder, FindInvoice, Attempt, BillingInv, TypeOK
<1>4. call[c] \in [at : {"order", "find", "attempt", "create"}, order : Orders,
                   job : BOOLEAN, tries : 0..Attempts-1]
  BY <1>3, CallForm
<1>5. \/ Return(c)
      \/ /\ \E at \in {"find", "attempt", "create"} : GoOn(c, at)
         /\ call[c].tries = 0
  <2>1. call[c].tries # 0 => call[c].at = "attempt" /\ Invoiced(call[c].order)
    BY <1>3 DEF BillingInv, ConflictInv
  <2> QED
    BY <2>1 DEF ReadOrder, FindInvoice, Attempt
<1>6. call' \in [Calls -> Call] /\ ConflictInv'
  <2>1. CASE Return(c)
    BY <1>2, <2>1, IdleForm, CallsKept DEF Return, Invoiced
  <2>2. CASE (\E at \in {"find", "attempt", "create"} : GoOn(c, at)) /\ call[c].tries = 0
    <3>1. PICK at \in {"find", "attempt", "create"} : GoOn(c, at)
      BY <2>2
    <3> DEFINE r == [call[c] EXCEPT !.at = at]
    <3>2. r \in Call /\ r.tries = 0
      BY <1>4, <2>2 DEF Call
    <3>3. call' = [call EXCEPT ![c] = r]
      BY <3>1 DEF GoOn
    <3> HIDE DEF r
    <3> QED
      BY <1>2, <3>2, <3>3, CallsKept DEF Invoiced
  <2> QED
    BY <1>5, <2>1, <2>2
<1> QED
  BY <1>1, <1>6, OnlyCalls DEF BillingInv, TypeOK

LEMMA CreateKeeps ==
    ASSUME BillingInv, NEW c \in Calls, Create(c)
    PROVE  BillingInv'
<1> DEFINE o == call[c].order
<1>1. /\ call[c] \in [at : {"order", "find", "attempt", "create"}, order : Orders,
                      job : BOOLEAN, tries : 0..Attempts-1]
      /\ call[c].tries = 0
  <2>1. call[c] \in Call /\ call[c].at = "create"
    BY DEF Create, BillingInv, TypeOK
  <2> QED
    BY <2>1, CallForm DEF BillingInv, ConflictInv
<1>2. /\ o \in Orders
      /\ status' = status /\ listed' = listed /\ pay' = pay /\ lost' = lost
  BY <1>1 DEF Create
<1>3. CASE /\ ~ Invoiced(o)
           /\ Number(o)
           /\ paid' = [paid EXCEPT ![o] = ~ (call[c].job /\ o \in PayLater)]
           /\ Return(c)
  <2> HIDE DEF o
  <2>1. /\ counter' \in Nat /\ number' \in [Orders -> Nat]
        /\ number'[o] # 0 /\ \A x \in Orders : x # o => number'[x] = number[x]
        /\ NumbersAreGapless'
    BY <1>2, <1>3, NumberKeeps DEF BillingInv, Invoiced
  <2>2. paid' \in [Orders -> BOOLEAN] /\ \A x \in Orders : x # o => paid'[x] = paid[x]
    <3> DEFINE b == ~ (call[c].job /\ o \in PayLater)
    <3>1. b \in BOOLEAN /\ paid' = [paid EXCEPT ![o] = b]
      BY <1>3
    <3> HIDE DEF b
    <3> QED
      BY <1>2, <3>1 DEF BillingInv, TypeOK
  <2>3. \A x \in Orders : Invoiced(x) => x # o /\ Invoiced(x)'
    BY <1>3, <2>1 DEF Invoiced
  <2>4. call' \in [Calls -> Call] /\ ConflictInv'
    BY <1>3, <2>3, IdleForm, CallsKept DEF Return
  <2>5. RecordedIsInvoiced'
    <3> SUFFICES ASSUME NEW p \in Payments, pay[p].at = "recorded"
                 PROVE  /\ number'[pay[p].order] # 0 /\ paid'[pay[p].order]
                        /\ p \in listed[pay[p].order]
      BY <1>2 DEF RecordedIsInvoiced, Invoiced
    <3>1. pay[p].order \in Orders
      BY PayForm DEF BillingInv, TypeOK
    <3>2. Invoiced(pay[p].order) /\ paid[pay[p].order] /\ p \in listed[pay[p].order]
      BY DEF BillingInv, RecordedIsInvoiced
    <3> QED
      BY <2>2, <2>3, <3>1, <3>2 DEF Invoiced
  <2>6. FoundInv'
    <3> SUFFICES ASSUME NEW p \in Payments, pay[p].at = "found"
                 PROVE  number'[pay[p].order] # 0
      BY <1>2 DEF FoundInv, Invoiced
    <3>1. pay[p].order \in Orders
      BY PayForm DEF BillingInv, TypeOK
    <3> QED
      BY <2>3, <3>1 DEF BillingInv, FoundInv, Invoiced
  <2> QED
    BY <1>2, <2>1, <2>2, <2>4, <2>5, <2>6 DEF BillingInv, TypeOK
<1>4. CASE /\ Invoiced(o)
           /\ call' = [call EXCEPT ![c] = Retry(call[c])]
           /\ UNCHANGED <<counter, number, paid>>
  <2> DEFINE r == Retry(call[c])
  <2>1. r \in Call /\ r.tries = 1 /\ r.at = "attempt" /\ r.order = o
    BY <1>1, RetryForm
  <2>2. call' = [call EXCEPT ![c] = r]
    BY <1>4
  <2> HIDE DEF r, o
  <2>3. call' \in [Calls -> Call] /\ ConflictInv'
    BY <1>4, <2>1, <2>2, CallsKept DEF Invoiced
  <2> QED
    BY <1>2, <1>4, <2>3, OnlyCalls DEF BillingInv, TypeOK, invoices
<1> QED
  BY <1>1, <1>3, <1>4 DEF Create, Attempts

\* View, and the job that Deliver leaves.
LEMMA StartKeeps ==
    ASSUME BillingInv, NEW c \in Calls, NEW o \in Orders, Deliver(c, o) \/ View(c, o)
    PROVE  BillingInv'
<1>1. PICK job \in BOOLEAN :
        call' = [call EXCEPT ![c] = [at |-> "order", order |-> o, job |-> job, tries |-> 0]]
  BY DEF Deliver, View
<1> DEFINE r == [at |-> "order", order |-> o, job |-> job, tries |-> 0]
<1>2. r \in Call /\ r.tries = 0
  BY DEF Call, Attempts
<1>3. call' = [call EXCEPT ![c] = r]
  BY <1>1
<1> HIDE DEF r
<1>4. UNCHANGED <<invoices, pay>> /\ lost' = lost /\ number' = number
  BY DEF Deliver, View, invoices
<1>5. status' \in [Orders -> {"OPEN", "CONFIRMED", "DELIVERED"}]
  BY DEF Deliver, View, BillingInv, TypeOK
<1>6. call' \in [Calls -> Call] /\ ConflictInv'
  BY <1>2, <1>3, <1>4, CallsKept DEF Invoiced
<1> QED
  BY <1>4, <1>5, <1>6, OnlyCalls DEF BillingInv, TypeOK

LEMMA FailKeeps ==
    ASSUME BillingInv, NEW c \in Calls, Fail(c)
    PROVE  BillingInv'
<1>1. UNCHANGED <<invoices, pay>> /\ status' = status /\ number' = number
  BY DEF Fail, invoices
<1>2. call[c].order \in Orders /\ call[c].job \in BOOLEAN
  BY CallForm DEF Fail, BillingInv, TypeOK
<1>3. lost' \in [Orders -> BOOLEAN]
  <2> DEFINE b == lost[call[c].order] \/ call[c].job
  <2>1. b \in BOOLEAN /\ lost' = [lost EXCEPT ![call[c].order] = b]
    BY DEF Fail
  <2> HIDE DEF b
  <2> QED
    BY <1>2, <2>1 DEF BillingInv, TypeOK
<1>4. call' \in [Calls -> Call] /\ ConflictInv'
  BY <1>1, IdleForm, CallsKept DEF Fail, Return, Invoiced
<1> QED
  BY <1>1, <1>3, <1>4, OnlyCalls DEF BillingInv, TypeOK

LEMMA ConfirmKeeps ==
    ASSUME BillingInv, NEW o \in Orders, Confirm(o)
    PROVE  BillingInv'
<1>1. UNCHANGED <<invoices, pay>> /\ lost' = lost /\ number' = number /\ call' = call
  BY DEF Confirm, invoices
<1>2. status' \in [Orders -> {"OPEN", "CONFIRMED", "DELIVERED"}]
  BY DEF Confirm, BillingInv, TypeOK
<1>3. ConflictInv'
  BY <1>1 DEF BillingInv, ConflictInv, Invoiced
<1> QED
  BY <1>1, <1>2, <1>3, OnlyCalls DEF BillingInv, TypeOK

-----------------------------------------------------------------------------
(* Recorded payments.                                                       *)

\* Payment p goes on to r without being recorded.
LEMMA PayStepKeeps ==
    ASSUME BillingInv, NEW p \in Payments, NEW r \in Pay, r.at # "recorded",
           pay[p].at # "recorded", pay' = [pay EXCEPT ![p] = r],
           r.at = "found" => Invoiced(r.order),
           UNCHANGED <<status, invoices, call, lost>>
    PROVE  BillingInv'
<1>1. /\ counter' = counter /\ number' = number /\ paid' = paid /\ listed' = listed
      /\ status' = status /\ call' = call /\ lost' = lost
  BY DEF invoices
<1>2. /\ pay' \in [Payments -> Pay] /\ pay'[p] = r
      /\ \A q \in Payments : q # p => pay'[q] = pay[q]
  BY DEF BillingInv, TypeOK
<1>3. RecordedIsInvoiced'
  BY <1>1, <1>2 DEF BillingInv, RecordedIsInvoiced, Invoiced
<1>4. FoundInv'
  BY <1>1, <1>2 DEF BillingInv, FoundInv, Invoiced
<1>5. NumbersAreGapless' /\ ConflictInv'
  BY <1>1 DEF BillingInv, NumbersAreGapless, ConflictInv, Invoiced
<1> QED
  BY <1>1, <1>2, <1>3, <1>4, <1>5 DEF BillingInv, TypeOK

LEMMA CheckPaymentKeeps ==
    ASSUME BillingInv, NEW p \in Payments, NEW o \in Orders, CheckPayment(p, o)
    PROVE  BillingInv'
<1> DEFINE r == [at |-> "checked", order |-> o, delivered |-> status[o] = "DELIVERED"]
<1>1. r \in Pay /\ r.at = "checked"
  BY DEF Pay
<1>2. /\ pay' = [pay EXCEPT ![p] = r] /\ pay[p].at # "recorded"
      /\ UNCHANGED <<status, invoices, call, lost>>
  BY FreshForm DEF CheckPayment
<1> HIDE DEF r
<1> QED
  BY <1>1, <1>2, PayStepKeeps

LEMMA PaymentGoesOnKeeps ==
    ASSUME BillingInv, NEW p \in Payments,
           LockOrder(p) \/ ReadInvoice(p) \/ AbortPayment(p)
    PROVE  BillingInv'
<1>1. /\ pay[p] \in Pay /\ pay[p].at \in {"checked", "holds", "found", "missing"}
      /\ UNCHANGED <<status, invoices, call, lost>>
  BY DEF LockOrder, ReadInvoice, AbortPayment, BillingInv, TypeOK
<1>2. PICK at \in {"holds", "found", "missing", "failed"} :
        /\ pay' = [pay EXCEPT ![p].at = at]
        /\ at = "found" => Invoiced(pay[p].order)
  BY DEF LockOrder, ReadInvoice, AbortPayment
<1> DEFINE r == [pay[p] EXCEPT !.at = at]
<1>3. r \in Pay /\ r.at = at /\ r.order = pay[p].order
  BY <1>1, PayForm DEF Pay
<1>4. pay' = [pay EXCEPT ![p] = r]
  BY <1>2
<1> HIDE DEF r
<1> QED
  BY <1>1, <1>2, <1>3, <1>4, PayStepKeeps

LEMMA CommitPaymentKeeps ==
    ASSUME BillingInv, NEW p \in Payments, CommitPayment(p)
    PROVE  BillingInv'
<1> DEFINE o == pay[p].order
           r == [pay[p] EXCEPT !.at = "recorded"]
<1>1. /\ pay[p].at \in {"found", "missing"} /\ pay[p] \in Pay
      /\ UNCHANGED <<call, lost>>
  BY DEF CommitPayment, BillingInv, TypeOK
<1>2. o \in Orders /\ r \in Pay /\ r.at = "recorded" /\ r.order = o
  BY <1>1, PayForm DEF Pay
<1>3. /\ pay' = [pay EXCEPT ![p] = r]
      /\ paid' = [paid EXCEPT ![o] = TRUE]
      /\ listed' = [listed EXCEPT ![o] = @ \cup {p}]
      /\ status' = [status EXCEPT ![o] = IF pay[p].delivered THEN "DELIVERED" ELSE "CONFIRMED"]
  BY DEF CommitPayment, SetPaid
<1>4. \/ Invoiced(o) /\ UNCHANGED <<counter, number>>
      \/ ~ Invoiced(o) /\ Number(o)
  BY DEF CommitPayment, BillingInv, FoundInv
<1> HIDE DEF o, r
<1>5. /\ counter' \in Nat /\ number' \in [Orders -> Nat] /\ number'[o] # 0
      /\ \A x \in Orders : x # o => number'[x] = number[x]
      /\ NumbersAreGapless'
  <2>1. CASE Invoiced(o) /\ UNCHANGED <<counter, number>>
    BY <2>1 DEF BillingInv, TypeOK, NumbersAreGapless, Invoiced
  <2>2. CASE ~ Invoiced(o) /\ Number(o)
    BY <1>2, <2>2, NumberKeeps DEF BillingInv, Invoiced
  <2> QED
    BY <1>4, <2>1, <2>2
<1>6. /\ pay' \in [Payments -> Pay] /\ pay'[p] = r
      /\ \A q \in Payments : q # p => pay'[q] = pay[q]
  BY <1>2, <1>3 DEF BillingInv, TypeOK
<1>7. /\ paid' \in [Orders -> BOOLEAN] /\ paid'[o]
      /\ \A x \in Orders : x # o => paid'[x] = paid[x]
  BY <1>2, <1>3 DEF BillingInv, TypeOK
<1>8. /\ listed' \in [Orders -> SUBSET Payments] /\ p \in listed'[o]
      /\ \A x \in Orders : listed[x] \subseteq listed'[x]
  BY <1>2, <1>3 DEF BillingInv, TypeOK
<1>9. TypeOK'
  BY <1>1, <1>2, <1>3, <1>5, <1>6, <1>7, <1>8 DEF BillingInv, TypeOK
<1>10. \A x \in Orders : number[x] # 0 => number'[x] # 0
  BY <1>5
<1>11. RecordedIsInvoiced'
  <2> SUFFICES ASSUME NEW q \in Payments, pay'[q].at = "recorded"
               PROVE  /\ number'[pay'[q].order] # 0 /\ paid'[pay'[q].order]
                      /\ q \in listed'[pay'[q].order]
    BY DEF RecordedIsInvoiced, Invoiced
  <2>1. CASE q = p
    BY <1>2, <1>5, <1>6, <1>7, <1>8, <2>1
  <2>2. CASE q # p
    <3>1. pay'[q] = pay[q] /\ pay[q].order \in Orders
      BY <1>6, <2>2, PayForm DEF BillingInv, TypeOK
    <3>2. /\ number[pay[q].order] # 0 /\ paid[pay[q].order]
          /\ q \in listed[pay[q].order]
      BY <3>1 DEF BillingInv, RecordedIsInvoiced, Invoiced
    <3> QED
      BY <1>7, <1>8, <1>10, <3>1, <3>2
  <2> QED
    BY <2>1, <2>2
<1>12. FoundInv'
  <2> SUFFICES ASSUME NEW q \in Payments, pay'[q].at = "found"
               PROVE  number'[pay'[q].order] # 0
    BY DEF FoundInv, Invoiced
  <2>1. q # p /\ pay'[q] = pay[q]
    BY <1>2, <1>6
  <2>2. pay[q].order \in Orders /\ number[pay[q].order] # 0
    BY <2>1, PayForm DEF BillingInv, TypeOK, FoundInv, Invoiced
  <2> QED
    BY <1>10, <2>1, <2>2
<1>13. ConflictInv'
  <2> SUFFICES ASSUME NEW c \in Calls, call[c].at # "idle", call[c].tries # 0
               PROVE  /\ call[c].tries = 1 /\ call[c].at = "attempt"
                      /\ number'[call[c].order] # 0
    BY <1>1 DEF ConflictInv, Invoiced
  <2>1. call[c].order \in Orders
    BY CallForm DEF BillingInv, TypeOK
  <2> QED
    BY <1>10, <2>1 DEF BillingInv, ConflictInv, Invoiced
<1> QED
  BY <1>5, <1>9, <1>11, <1>12, <1>13 DEF BillingInv

LEMMA CrashKeeps ==
    ASSUME BillingInv, Crash
    PROVE  BillingInv'
<1>1. /\ counter' = counter /\ number' = number /\ paid' = paid /\ listed' = listed
      /\ status' = status
  BY DEF Crash, invoices
<1>2. call' = [c \in Calls |-> Idle] /\ call' \in [Calls -> Call] /\ ConflictInv'
  BY IdleForm DEF Crash, ConflictInv
<1>3. \A p \in Payments :
        /\ pay'[p] \in Pay
        /\ pay'[p].at \in {"recorded", "found"} => pay'[p] = pay[p] /\ pay[p].at = "recorded"
  <2> TAKE p \in Payments
  <2>1. CASE pay[p].at \in {"new", "recorded"}
    BY <2>1 DEF Crash, BillingInv, TypeOK
  <2>2. CASE pay[p].at \notin {"new", "recorded"}
    <3>1. pay'[p] = [pay[p] EXCEPT !.at = "failed"]
      BY <2>2 DEF Crash
    <3>2. pay[p] \in [at : {"checked", "holds", "found", "missing", "recorded", "failed"},
                      order : Orders, delivered : BOOLEAN]
      BY <2>2, PayForm DEF BillingInv, TypeOK
    <3> QED
      BY <3>1, <3>2 DEF Pay
  <2> QED
    BY <2>1, <2>2
<1>4. RecordedIsInvoiced' /\ FoundInv'
  BY <1>1, <1>3 DEF BillingInv, RecordedIsInvoiced, FoundInv, Invoiced
<1>5. NumbersAreGapless'
  BY <1>1 DEF BillingInv, NumbersAreGapless, Invoiced
<1>6. pay' \in [Payments -> Pay]
  BY <1>3 DEF Crash
<1>7. lost' \in [Orders -> BOOLEAN]
  BY DEF Crash, BillingInv, TypeOK
<1> QED
  BY <1>1, <1>2, <1>4, <1>5, <1>6, <1>7 DEF BillingInv, TypeOK

-----------------------------------------------------------------------------
LEMMA BillingNext == BillingInv /\ [Next]_vars => BillingInv'
<1> SUFFICES ASSUME BillingInv, [Next]_vars PROVE BillingInv'
  OBVIOUS
<1>1. CASE \E o \in Orders : Confirm(o)
  BY <1>1, ConfirmKeeps
<1>2. ASSUME NEW c \in Calls,
             (\E o \in Orders : Deliver(c, o) \/ View(c, o)) \/ Ensure(c) \/ Fail(c)
      PROVE  BillingInv'
  BY <1>2, StartKeeps, ReadStepKeeps, CreateKeeps, FailKeeps DEF Ensure
<1>3. ASSUME NEW p \in Payments,
             \/ \E o \in Orders : CheckPayment(p, o)
             \/ LockOrder(p) \/ ReadInvoice(p) \/ CommitPayment(p) \/ AbortPayment(p)
      PROVE  BillingInv'
  BY <1>3, CheckPaymentKeeps, PaymentGoesOnKeeps, CommitPaymentKeeps
<1>4. CASE Crash
  BY <1>4, CrashKeeps
<1>5. CASE UNCHANGED vars
  BY <1>5 DEF vars, invoices, BillingInv, TypeOK, NumbersAreGapless, RecordedIsInvoiced,
     ConflictInv, FoundInv, Invoiced
<1> QED
  BY <1>1, <1>2, <1>3, <1>4, <1>5 DEF Next

LEMMA BillingInvHolds == Spec => []BillingInv
  BY BillingInit, BillingNext, PTL DEF Spec

\* Type correctness, for any number of orders, requests and payments.
THEOREM BillingTypes == Spec => []TypeOK
<1>1. BillingInv => TypeOK
  BY DEF BillingInv
<1> QED
  BY <1>1, BillingInvHolds, PTL

\* Invoice numbers run without gaps and are not shared, whatever conflicts.
THEOREM GaplessNumbering == Spec => []NumbersAreGapless
<1>1. BillingInv => NumbersAreGapless
  BY DEF BillingInv
<1> QED
  BY <1>1, BillingInvHolds, PTL

\* Every recorded payment is on an invoice that says PAID.
THEOREM PaymentsAreInvoiced == Spec => []RecordedIsInvoiced
<1>1. BillingInv => RecordedIsInvoiced
  BY DEF BillingInv
<1> QED
  BY <1>1, BillingInvHolds, PTL

\* No request for an invoice conflicts twice.
THEOREM RetriesSuffice == Spec => []OneRetryIsEnough
<1>1. BillingInv => OneRetryIsEnough
  <2> SUFFICES ASSUME BillingInv, NEW c \in Calls, call[c] # Idle PROVE call[c].tries <= 1
    BY DEF OneRetryIsEnough
  <2>1. call[c].at # "idle" /\ call[c].tries \in 0..Attempts-1
    BY CallForm DEF BillingInv, TypeOK
  <2>2. CASE call[c].tries = 0
    BY <2>2
  <2>3. CASE call[c].tries # 0
    BY <2>1, <2>3 DEF BillingInv, ConflictInv
  <2> QED
    BY <2>2, <2>3
<1> QED
  BY <1>1, BillingInvHolds, PTL
=============================================================================
