------------------------------ MODULE Checkout ------------------------------
(***************************************************************************)
(* One customer's cart, from several tabs, and its conversion to an order.   *)
(*                                                                          *)
(* A CLICK (add to cart, place order) is a mutation with one idempotency key *)
(* that the client sends again after a server error or a lost answer; each   *)
(* TRY of it passes idempotencyGuard and then runs the handler as separate  *)
(* database statements.  A cart is abstracted to the units of one variant,  *)
(* the total of an order to its units (prices do not change meanwhile).     *)
(***************************************************************************)
EXTENDS Naturals

CONSTANTS
    MaxClicks,      \* bound: clicks of the customer
    MaxTries,       \* 1 + MAX_RETRIES_FOR_MUTATION
    MaxCarts,       \* bound: Cart rows
    OldUnits,       \* units in the customer's cart at the start; 0: no cart
    Tabs,           \* tabs of the customer; each has one mutation in flight
    AddSizes,       \* units an addition may ask for
    Edits           \* units the cart page may set a line to; 0 removes it

Clicks == 1..MaxClicks
Tries == 1..MaxTries
Carts == 1..MaxCarts
Attempts == Clicks \X Tries

ASSUME CheckoutAssumption ==
    /\ MaxClicks \in Nat /\ MaxTries \in Nat \ {0} /\ MaxCarts \in Nat
    /\ OldUnits \in Nat /\ (OldUnits > 0 => MaxCarts > 0)
    /\ AddSizes \subseteq Nat \ {0}
    /\ Edits \subseteq Nat

VARIABLES
    cart,       \* cart[c]: Cart.status, "NONE" when there is no such row
    line,       \* line[c]: its CartItem: the attempt that made the row, units
    orders,     \* Order rows: the attempt, the cart and the units of each
    stored,     \* the attempts that have written their effect into them
    shown,      \* the totals a cart page may show: those the cart has had
    keys,       \* the clicks whose idempotency key is in Redis
    click,      \* click[i]: the click as the client knows it
    att         \* att[x]: what attempt x = <<i, k>>, the k-th try of i, is doing

db == <<cart, line, orders, stored, shown>>
vars == <<cart, line, orders, stored, shown, keys, click, att>>

NoRow == <<0, 0>>
OldRow == <<0, 1>>                      \* the item there at the start
NoLine == [row |-> NoRow, units |-> 0]
Line == [row : Attempts \cup {NoRow, OldRow}, units : Nat]

\* units: what an addition adds, or the total an order is sent with.
Click == [kind : {"add", "order"}, tab : Tabs \cup {"none"}, units : Nat,
          state : {"none", "sent", "success", "failure"}, tries : 0..MaxTries]
NoClick == [kind |-> "add", tab |-> "none", units |-> 0, state |-> "none", tries |-> 0]

Running == {"find", "create", "cart", "line", "draft", "written"}
Attempt == [pc     : {"none", "sent", "closing", "over"} \cup Running,
            cart   : Carts \cup {0},
            line   : Line,                  \* the item, or the draft, as read
            answer : {"none", "ok", "refused", "error"}]
NoAttempt == [pc |-> "none", cart |-> 0, line |-> NoLine, answer |-> "none"]

Init ==
    /\ cart = [c \in Carts |-> IF c = 1 /\ OldUnits > 0 THEN "ACTIVE" ELSE "NONE"]
    /\ line = [c \in Carts |-> IF c = 1 /\ OldUnits > 0
                               THEN [row |-> OldRow, units |-> OldUnits] ELSE NoLine]
    /\ orders = {}
    /\ stored = {}
    /\ shown = IF OldUnits > 0 THEN {OldUnits} ELSE {}
    /\ keys = {}
    /\ click = [i \in Clicks |-> NoClick]
    /\ att = [x \in Attempts |-> NoAttempt]

-----------------------------------------------------------------------------
(* The client: ApiSlice.ts.                                                 *)

Active == {c \in Carts : cart[c] = "ACTIVE"}
\* findFirst ACTIVE by updatedAt desc; nothing updates an ACTIVE cart's row.
IsNewest(c) == c \in Active /\ \A d \in Active : d <= c

Total == {line[c].units : c \in {d \in Carts : IsNewest(d)}} \ {0}

Send(i, k) == att' = [att EXCEPT ![<<i, k>>].pc = "sent"]

Press(i, t, kind, n) ==
    /\ click[i].state = "none"
    /\ \A j \in Clicks : j < i => click[j].state # "none"
    /\ \A j \in Clicks : click[j].tab = t => click[j].state # "sent"
    /\ click' = [click EXCEPT ![i] = [kind |-> kind, tab |-> t, units |-> n,
                                      state |-> "sent", tries |-> 1]]
    /\ Send(i, 1)
    /\ UNCHANGED <<db, keys>>

ClickAdd(i, t, n) == Press(i, t, "add", n)

\* handleInitiateCheckout, PICKUP: expectedTotal is the total on the page, which
\* may have been read when the cart was another.
ClickPickup(i, t) == \E n \in shown : Press(i, t, "order", n)

\* handleInitiateCheckout, DELIVERY: the summary is fetched once more after the
\* customer has confirmed, and its total is sent whatever the page showed.
ClickDelivery(i, t) == \E n \in Total : Press(i, t, "order", n)

Settle(i, state) ==
    /\ click' = [click EXCEPT ![i].state = state]
    /\ UNCHANGED <<db, keys, att>>

\* isRetryableError: the same request, key included, is sent once more.
Retry(i) ==
    /\ click[i].tries < MaxTries
    /\ click' = [click EXCEPT ![i].tries = @ + 1]
    /\ Send(i, click[i].tries + 1)
    /\ UNCHANGED <<db, keys>>

Failed(i) == Retry(i) \/ (click[i].tries = MaxTries /\ Settle(i, "failure"))

LastTry(i) == <<i, click[i].tries>>

Receive(i) ==
    /\ click[i].state = "sent"
    /\ \/ att[LastTry(i)].answer = "ok" /\ Settle(i, "success")
       \/ att[LastTry(i)].answer = "refused" /\ Settle(i, "failure")
       \/ att[LastTry(i)].answer = "error" /\ Failed(i)

\* FETCH_ERROR: the connection breaks before an answer came, whatever the
\* server is doing or has done.
LoseConnection(i) == click[i].state = "sent" /\ Failed(i)

-----------------------------------------------------------------------------
(* The server: idempotencyGuard, then the handler.                          *)

Move(x, pc) == att' = [att EXCEPT ![x].pc = pc]
At(x, c) == att' = [att EXCEPT ![x].cart = c, ![x].pc = "cart"]

\* The handler ends; after a status >= 400 the finish listener is yet to run.
Answer(x, a) == att' = [att EXCEPT ![x] =
    [NoAttempt EXCEPT !.pc = IF a \in {"refused", "error"} THEN "closing" ELSE "over",
                      !.answer = a]]

\* Mutant: SET without NX.
GuardOverwrites(x) ==
    /\ att[x].pc = "sent"
    /\ keys' = keys \cup {x[1]}
    /\ Move(x, "find")
    /\ UNCHANGED <<db, click>>

\* SET NX: the second of two tries with one key is answered 409, and its end
\* does not touch the key.
Guard(x) ==
    /\ att[x].pc = "sent"
    /\ keys' = keys \cup {x[1]}
    /\ IF x[1] \in keys
       THEN att' = [att EXCEPT ![x].answer = "refused", ![x].pc = "over"]
       ELSE Move(x, "find")
    /\ UNCHANGED <<db, click>>

\* Mutant: the key is deleted when the connection closes, not when a failed
\* response finishes.
ReleaseKeyOnClose(x) ==
    /\ att[x].pc \in Running \cup {"closing"}
    /\ keys' \in {keys, keys \ {x[1]}}
    /\ Move(x, "over")
    /\ UNCHANGED <<db, click>>

\* res.on("finish"): DEL for a status >= 400.  Best effort: Redis may fail, and
\* the event is not emitted when the client has gone.
ReleaseKey(x) ==
    /\ att[x].pc = "closing"
    /\ keys' \in {keys, keys \ {x[1]}}
    /\ Move(x, "over")
    /\ UNCHANGED <<db, click>>

\* The key expires after 120 s: later than any try or network delay of its
\* click (a database transaction here ends after 20 s).
Expire(i) ==
    /\ i \in keys
    /\ click[i].state # "sent"
    /\ \A k \in Tries : att[<<i, k>>].pc \in {"none", "over"}
    /\ keys' = keys \ {i}
    /\ UNCHANGED <<db, click, att>>

Kind(x) == click[x[1]].kind
Wanted(x) == click[x[1]].units

\* getOrCreateCart.  An order from no cart or an empty one is refused.
FindCart(x) ==
    /\ att[x].pc = "find"
    /\ \/ Active = {} /\ Move(x, "create")
       \/ \E c \in Carts :
            /\ IsNewest(c)
            /\ IF Kind(x) = "order" /\ line[c].units = 0
               THEN Answer(x, "refused")
               ELSE At(x, c)
    /\ UNCHANGED <<db, keys, click>>

CreateCart(x) ==
    \E c \in Carts :
      /\ att[x].pc = "create"
      /\ cart[c] = "NONE" /\ \A d \in Carts : d < c => cart[d] # "NONE"
      /\ cart' = [cart EXCEPT ![c] = "ACTIVE"]
      /\ IF Kind(x) = "order"
         THEN Answer(x, "refused")
         ELSE At(x, c)
      /\ UNCHANGED <<line, orders, stored, shown, keys, click>>

\* addToCart: findCartItem, then an update of the row it found or a create,
\* which fails when another attempt has created one (cartId, variantId unique).
ReadLine(x) ==
    /\ att[x].pc = "cart" /\ Kind(x) = "add"
    /\ att' = [att EXCEPT ![x].line = line[att[x].cart], ![x].pc = "line"]
    /\ UNCHANGED <<db, keys, click>>

WriteLine(x) ==
    LET c == att[x].cart
        read == att[x].line IN
    /\ att[x].pc = "line"
    /\ IF line[c].row = read.row
       THEN /\ line' = [line EXCEPT ![c] =
                 [row |-> IF read.row = NoRow THEN x ELSE read.row,
                  units |-> read.units + Wanted(x)]]
            /\ stored' = stored \cup {x}
            /\ Move(x, "written")
       ELSE UNCHANGED <<line, stored>> /\ Answer(x, "error")
    /\ UNCHANGED <<cart, orders, keys, click>>
    /\ shown' = shown \cup Total'

\* Mutant: the total is not compared with the one the order was sent with.
DraftAnyTotal(x) ==
    LET c == att[x].cart IN
    /\ att[x].pc = "cart" /\ Kind(x) = "order"
    /\ IF cart[c] # "ACTIVE" \/ line[c].units = 0
       THEN Answer(x, "refused")
       ELSE att' = [att EXCEPT ![x].line = line[c], ![x].pc = "draft"]
    /\ UNCHANGED <<db, keys, click>>

\* buildCheckoutOrderDraft reads the cart outside the database transaction:
\* it must be active, not empty, and of the total the order was sent with.
Draft(x) ==
    LET c == att[x].cart IN
    /\ att[x].pc = "cart" /\ Kind(x) = "order"
    /\ IF cart[c] # "ACTIVE" \/ line[c].units = 0 \/ line[c].units # Wanted(x)
       THEN Answer(x, "refused")
       ELSE att' = [att EXCEPT ![x].line = line[c], ![x].pc = "draft"]
    /\ UNCHANGED <<db, keys, click>>

\* createOrder, from the draft: the order is created, every item the cart now
\* has is deleted, and the cart is converted, whatever its status is.
PlaceOrder(x) ==
    LET c == att[x].cart IN
    /\ att[x].pc = "draft"
    /\ orders' = orders \cup {[by |-> x, cart |-> c, units |-> att[x].line.units]}
    /\ line' = [line EXCEPT ![c] = NoLine]
    /\ cart' = [cart EXCEPT ![c] = "CONVERTED"]
    /\ stored' = stored \cup {x}
    /\ shown' = shown \cup Total'
    /\ Move(x, "written")
    /\ UNCHANGED <<keys, click>>

\* logCartEvent (ADD, CHECKOUT_COMPLETED) is awaited before the answer.
Respond(x) ==
    /\ att[x].pc = "written"
    /\ Answer(x, "ok")
    /\ UNCHANGED <<db, keys, click>>

\* A statement fails, the last cart event included: 500.
Fail(x) ==
    /\ att[x].pc \in Running
    /\ Answer(x, "error")
    /\ UNCHANGED <<db, keys, click>>

\* The process dies: no answer, and no finish event.
Crash(x) ==
    /\ att[x].pc \in Running
    /\ Answer(x, "none")
    /\ UNCHANGED <<db, keys, click>>

\* The cart page sets the units of an item or removes it, by the item's id and
\* whatever the cart's status is.
EditLine(c, n) ==
    /\ line[c].row # NoRow
    /\ line' = [line EXCEPT ![c] = IF n = 0 THEN NoLine ELSE [@ EXCEPT !.units = n]]
    /\ UNCHANGED <<cart, orders, stored, keys, click, att>>
    /\ shown' = shown \cup Total'

-----------------------------------------------------------------------------
Server(x) ==
    \/ Guard(x) \/ FindCart(x) \/ CreateCart(x)
    \/ ReadLine(x) \/ WriteLine(x)
    \/ Draft(x) \/ PlaceOrder(x)
    \/ Respond(x) \/ Fail(x) \/ Crash(x) \/ ReleaseKey(x)

Next ==
    \/ \E i \in Clicks :
         \/ \E t \in Tabs : \/ ClickPickup(i, t) \/ ClickDelivery(i, t)
                             \/ \E n \in AddSizes : ClickAdd(i, t, n)
         \/ Receive(i)
         \/ LoseConnection(i)
         \/ Expire(i)
    \/ \E x \in Attempts : Server(x)
    \/ \E c \in Carts, n \in Edits : EditLine(c, n)

Spec == Init /\ [][Next]_vars

-----------------------------------------------------------------------------
TypeOK ==
    /\ cart \in [Carts -> {"NONE", "ACTIVE", "CONVERTED"}]
    /\ line \in [Carts -> Line]
    /\ orders \subseteq [by : Attempts, cart : Carts, units : Nat]
    /\ stored \subseteq Attempts
    /\ shown \subseteq Nat
    /\ keys \subseteq Clicks
    /\ click \in [Clicks -> Click]
    /\ att \in [Attempts -> Attempt]

\* However often a click is sent again, and however the tries overlap in the
\* server, it does not turn one cart into two orders.
OneOrderPerClickAndCart ==
    \A p, q \in orders : p.by[1] = q.by[1] /\ p.cart = q.cart => p = q

\* The guard lets a click take effect twice in one case only: a try that had
\* stored its effect was answered with an error (its last cart event failed).
\* Lost answers, broken connections, slow tries and crashes do not do it.
TwiceOnlyAfterError ==
    \A i \in Clicks : \A j, k \in Tries :
      j < k /\ <<i, j>> \in stored /\ <<i, k>> \in stored
        => att[<<i, j>>].answer = "error" \/ att[<<i, k>>].answer = "error"

\* A customer who is told that the order was placed has one, of the total it was
\* sent with: a pickup's was on the page, a delivery's was fetched after the
\* customer had confirmed and may never have been shown.
ConfirmedOrderExists ==
    \A i \in Clicks :
      click[i].kind = "order" /\ click[i].state = "success" =>
        \E p \in orders : p.by[1] = i /\ p.units = click[i].units

=============================================================================
