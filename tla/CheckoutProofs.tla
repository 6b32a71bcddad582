--------------------------- MODULE CheckoutProofs ---------------------------
(***************************************************************************)
(* What is proved of Checkout, for any number of clicks, tries, carts, tabs. *)
(***************************************************************************)
EXTENDS Checkout, TLAPS

\* Attempt x holds its click's key: it is in the handler, or its failed answer
\* is out and the finish listener has not run.
Busy(x) == att[x].pc \in Running \cup {"closing"}

\* One try of a click holds the key at a time, and the key is there.
KeyInv ==
    /\ \A x \in Attempts : Busy(x) => x[1] \in keys
    /\ \A x, y \in Attempts : x[1] = y[1] /\ Busy(x) /\ Busy(y) => x = y

\* What the client has not sent has not started, and nothing is sent again.
SentInv ==
    /\ \A x \in Attempts :
         /\ att[x].pc \in {"none", "sent"} => x \notin stored /\ att[x].answer = "none"
         /\ att[x].pc \in Running => att[x].answer = "none"
    /\ \A x \in Attempts : x[2] > click[x[1]].tries => att[x].pc = "none"
    /\ \A i \in Clicks : /\ click[i].state = "none" => click[i].tries = 0
                         /\ click[i].state = "sent" => click[i].tries # 0

\* Nothing of click i will reach the server any more.
Quiet(i) ==
    /\ click[i].state \notin {"none", "sent"}
    /\ \A x \in Attempts : x[1] = i => att[x].pc \in {"none", "over"}

\* After an effect that was not answered with an error the key stays until
\* nothing of its click is left to come.
StoredInv ==
    \A x \in Attempts :
      x \in stored /\ att[x].answer # "error" =>
        /\ \A y \in Attempts : y[1] = x[1] /\ Busy(y) => y = x
        /\ x[1] \in keys \/ Quiet(x[1])

TwiceInv ==
    \A x, y \in Attempts :
      x[1] = y[1] /\ x \in stored /\ y \in stored /\ x # y
        => att[x].answer = "error" \/ att[y].answer = "error"

\* A converted cart's orders are no longer those of an attempt under way.
OrderInv ==
    /\ \A p \in orders : cart[p.cart] = "CONVERTED"
    /\ \A x \in Attempts :
         att[x].pc \in {"cart", "line", "draft"} =>
           /\ att[x].cart \in Carts
           /\ \A p \in orders : p.by[1] = x[1] => p.cart # att[x].cart

Unwritten == {"find", "create", "cart", "line", "draft"}

\* What an attempt does follows from its click's kind, it stores its effect at
\* most once, and an effect of an order click is an order of the total sent.
AgreedInv ==
    \A x \in Attempts :
      /\ att[x].pc = "line" => Kind(x) = "add"
      /\ att[x].pc = "draft" => Kind(x) = "order" /\ att[x].line.units = Wanted(x)
      /\ att[x].pc = "written" => x \in stored
      /\ att[x].answer = "ok" => x \in stored
      /\ att[x].pc \in Unwritten => x \notin stored
      /\ att[x].pc = "closing" => att[x].answer = "error" \/ x \notin stored
      /\ x \in stored /\ Kind(x) = "order" =>
           \E p \in orders : p.by = x /\ p.units = Wanted(x)

ToldInv ==
    \A i \in Clicks : click[i].state = "success" =>
      \E x \in Attempts : x[1] = i /\ att[x].answer = "ok"

CheckoutInv == /\ TypeOK /\ KeyInv /\ SentInv /\ StoredInv /\ TwiceInv
               /\ OrderInv /\ OneOrderPerClickAndCart /\ AgreedInv /\ ToldInv

-----------------------------------------------------------------------------
LEMMA PairType == \A i \in Clicks, k \in Tries :
                    <<i, k>> \in Attempts /\ <<i, k>>[1] = i /\ <<i, k>>[2] = k
  BY DEF Attempts

LEMMA AttemptType == \A x \in Attempts : /\ x[1] \in Clicks /\ x[2] \in Tries
                                         /\ x = <<x[1], x[2]>>
  BY DEF Attempts

\* What a page that reads the carts anew may show.
LEMMA TotalType ==
    ASSUME line' \in [Carts -> Line], shown \subseteq Nat, shown' = shown \cup Total'
    PROVE  shown' \subseteq Nat
<1>1. \A c \in Carts : line'[c].units \in Nat
  BY DEF Line
<1> QED
  BY <1>1 DEF Total

LEMMA CheckoutInit == Init => CheckoutInv
<1> SUFFICES ASSUME Init PROVE CheckoutInv
  OBVIOUS
<1>1. NoAttempt \in Attempt /\ NoClick \in Click /\ NoLine \in Line
  BY CheckoutAssumption DEF NoAttempt, Attempt, NoClick, Click, NoLine, Line, Running
<1>2. OldUnits > 0 => [row |-> OldRow, units |-> OldUnits] \in Line
  BY CheckoutAssumption DEF Line
<1>3. TypeOK
  BY <1>1, <1>2, CheckoutAssumption DEF Init, TypeOK
<1>4. KeyInv /\ SentInv /\ StoredInv /\ TwiceInv /\ AgreedInv /\ ToldInv
  BY AttemptType
     DEF Init, KeyInv, SentInv, StoredInv, TwiceInv, AgreedInv, ToldInv, Busy, Running,
         Unwritten, NoAttempt, NoClick
<1>5. OrderInv /\ OneOrderPerClickAndCart
  BY DEF Init, OrderInv, OneOrderPerClickAndCart, NoAttempt
<1> QED
  BY <1>3, <1>4, <1>5 DEF CheckoutInv

-----------------------------------------------------------------------------
(* The client's steps.                                                      *)

\* Sending a try that was never sent changes none of the server's facts.
LEMMA SendKeeps ==
    ASSUME CheckoutInv, NEW i \in Clicks, NEW k \in Tries, Send(i, k),
           click[i].tries < k, click[i].state \in {"none", "sent"},
           NEW new \in Click, click' = [click EXCEPT ![i] = new],
           new.state = "sent", new.tries = k, 
           click[i].state = "sent" => new.kind = click[i].kind /\ new.units = click[i].units,
           UNCHANGED <<db, keys>>
    PROVE  CheckoutInv'
<1> DEFINE x == <<i, k>>
<1>1. x \in Attempts /\ x[1] = i /\ x[2] = k
  BY PairType
<1>2. att[x].pc = "none" /\ x \notin stored /\ att[x].answer = "none"
  BY <1>1 DEF CheckoutInv, SentInv, TypeOK, Click
<1>3. att' = [att EXCEPT ![x].pc = "sent"]
  BY DEF Send
<1>4. \A y \in Attempts : y[1] = i /\ click[i].state = "none" => att[y].pc = "none"
  BY AttemptType DEF CheckoutInv, SentInv, TypeOK, Click, Tries
<1> HIDE DEF x
<1>5. att[x] \in Attempt /\ att'[x] = [att[x] EXCEPT !.pc = "sent"]
      /\ \A y \in Attempts : y # x => att'[y] = att[y]
  BY <1>1, <1>3 DEF CheckoutInv, TypeOK
<1>6. /\ att'[x].pc = "sent" /\ att'[x].answer = att[x].answer
      /\ stored' = stored /\ orders' = orders /\ cart' = cart /\ keys' = keys
  BY <1>5 DEF Attempt, db
<1>7. \A y \in Attempts : Busy(y)' <=> Busy(y)
  BY <1>2, <1>5, <1>6 DEF Busy, Running
<1>8. TypeOK'
  <2>1. att'[x] \in Attempt
    BY <1>5 DEF Attempt
  <2> QED
    BY <1>1, <1>3, <2>1 DEF CheckoutInv, TypeOK, db
<1>9. KeyInv'
  BY <1>7 DEF CheckoutInv, KeyInv
<1>10. SentInv'
  <2>1. /\ click'[i] = new /\ new.tries = k /\ new.state = "sent"
        /\ \A j \in Clicks : j # i => click'[j] = click[j]
    BY DEF CheckoutInv, TypeOK
  <2>2. ASSUME NEW y \in Attempts, y[2] > click'[y[1]].tries
        PROVE  att'[y].pc = "none"
    <3>1. y # x
      BY <1>1, <2>1, <2>2 DEF Tries
    <3>2. y[2] > click[y[1]].tries
      BY <2>1, <2>2, AttemptType DEF CheckoutInv, TypeOK, Click, Tries
    <3> QED
      BY <1>5, <3>1, <3>2 DEF CheckoutInv, SentInv
  <2>3. \A j \in Clicks : /\ click'[j].state = "none" => click'[j].tries = 0
                          /\ click'[j].state = "sent" => click'[j].tries # 0
    BY <2>1 DEF CheckoutInv, SentInv, Tries
  <2>4. \A y \in Attempts :
          /\ att'[y].pc \in {"none", "sent"} => y \notin stored /\ att'[y].answer = "none"
          /\ att'[y].pc \in Running => att'[y].answer = "none"
    BY <1>2, <1>5, <1>6 DEF CheckoutInv, SentInv, Running
  <2> QED
    BY <1>6, <2>2, <2>3, <2>4 DEF SentInv
<1>11. StoredInv'
  <2> SUFFICES ASSUME NEW y \in Attempts, y \in stored', att'[y].answer # "error"
               PROVE  /\ \A z \in Attempts : z[1] = y[1] /\ Busy(z)' => z = y
                      /\ y[1] \in keys \/ Quiet(y[1])'
    BY DEF StoredInv, db
  <2>1. y \in stored /\ att[y].answer # "error" /\ y # x
    BY <1>2, <1>5, <1>6
  <2>2. CASE y[1] # i
    BY <1>1, <1>5, <1>7, <2>1, <2>2, AttemptType DEF CheckoutInv, StoredInv, Quiet, TypeOK
  <2>3. CASE y[1] = i
    <3>1. ~Quiet(i)
      BY DEF Quiet
    <3> QED
      BY <1>7, <2>1, <2>3, <3>1 DEF CheckoutInv, StoredInv
  <2> QED
    BY <2>2, <2>3
<1>12. TwiceInv'
  BY <1>2, <1>5, <1>6 DEF CheckoutInv, TwiceInv
<1>13. OrderInv' /\ OneOrderPerClickAndCart'
  <2>1. orders' = orders /\ cart' = cart
    BY <1>6
  <2>2. \A y \in Attempts : att'[y].pc \in {"cart", "line", "draft"} => att'[y] = att[y]
    BY <1>5, <1>6
  <2> QED
    BY <2>1, <2>2 DEF CheckoutInv, OrderInv, OneOrderPerClickAndCart
<1>14. AgreedInv'
  <2>1. ASSUME NEW y \in Attempts, att'[y].pc # "none", att'[y].pc # "sent"
        PROVE  att'[y] = att[y] /\ Kind(y)' = Kind(y) /\ Wanted(y)' = Wanted(y)
    <3>1. y # x /\ att'[y] = att[y]
      BY <1>5, <1>6, <2>1
    <3>2. y[1] = i => click[i].state = "sent"
      BY <1>4, <2>1, <3>1
    <3> QED
      BY <3>1, <3>2, AttemptType DEF Kind, Wanted, CheckoutInv, TypeOK
  <2>2. orders' = orders /\ stored' = stored
    BY <1>6
  <2>3. ASSUME NEW y \in Attempts, att'[y].pc \in {"none", "sent"}
        PROVE  y \notin stored' /\ att'[y].answer = "none"
    BY <1>2, <1>5, <1>6, <2>3 DEF CheckoutInv, SentInv
  <2> QED
    BY <2>1, <2>2, <2>3 DEF CheckoutInv, AgreedInv, Unwritten
<1>15. ToldInv'
  BY <1>2, <1>5, <1>6 DEF CheckoutInv, ToldInv, TypeOK
<1> QED
  BY <1>8, <1>9, <1>10, <1>11, <1>12, <1>13, <1>14, <1>15 DEF CheckoutInv

\* The client settles a click: nothing but its state changes.
LEMMA SettleKeeps ==
    ASSUME CheckoutInv, NEW i \in Clicks, NEW state \in {"success", "failure"},
           Settle(i, state), click[i].state = "sent",
           state = "success" => \E x \in Attempts : x[1] = i /\ att[x].answer = "ok"
    PROVE  CheckoutInv'
<1>1. /\ click' = [click EXCEPT ![i].state = state]
      /\ UNCHANGED <<cart, line, orders, stored, shown, keys, att>>
  BY DEF Settle, db
<1>2. /\ click[i] \in Click /\ click'[i] = [click[i] EXCEPT !.state = state]
      /\ \A j \in Clicks : j # i => click'[j] = click[j]
  BY <1>1 DEF CheckoutInv, TypeOK
<1>3. /\ click'[i].state = state /\ click'[i].tries = click[i].tries
      /\ click'[i].kind = click[i].kind /\ click'[i].units = click[i].units
      /\ click'[i] \in Click
  BY <1>2 DEF Click
<1>4. TypeOK'
  BY <1>1, <1>2, <1>3 DEF CheckoutInv, TypeOK
<1>5. \A j \in Clicks : /\ Quiet(j) => Quiet(j)'
                        /\ click'[j].tries = click[j].tries
                        /\ click'[j].kind = click[j].kind
                        /\ click'[j].units = click[j].units
  BY <1>1, <1>2, <1>3 DEF Quiet
<1>6. KeyInv' /\ TwiceInv' /\ OrderInv' /\ OneOrderPerClickAndCart'
  BY <1>1 DEF CheckoutInv, KeyInv, TwiceInv, OrderInv, OneOrderPerClickAndCart, Busy
<1>7. SentInv' /\ StoredInv' /\ AgreedInv'
  BY <1>1, <1>2, <1>3, <1>5, AttemptType
     DEF CheckoutInv, SentInv, StoredInv, AgreedInv, Busy, Kind, Wanted
<1>8. ToldInv'
  BY <1>1, <1>2, <1>3 DEF CheckoutInv, ToldInv
<1> QED
  BY <1>4, <1>6, <1>7, <1>8 DEF CheckoutInv
-----------------------------------------------------------------------------
(* The server's steps.                                                      *)

\* A step of an attempt inside the handler, seen by the facts about keys,
\* answers and effects: it may store the attempt's effect.
LEMMA HandlerStep ==
    ASSUME CheckoutInv, NEW x \in Attempts, att[x].pc \in Running,
           NEW new \in Attempt, att' = [att EXCEPT ![x] = new],
           new.pc \in Running \cup {"closing", "over"},
           new.pc \in Running => new.answer = "none",
           stored' = stored \/ stored' = stored \cup {x},
           UNCHANGED <<keys, click>>
    PROVE  /\ KeyInv' /\ SentInv' /\ StoredInv' /\ TwiceInv' /\ ToldInv'
           /\ att' \in [Attempts -> Attempt] /\ stored' \subseteq Attempts
<1>1. /\ att'[x] = new /\ Busy(x) /\ x[1] \in keys /\ att[x].answer = "none"
      /\ \A y \in Attempts : y # x => att'[y] = att[y]
  BY DEF CheckoutInv, TypeOK, KeyInv, SentInv, Busy
<1>2. \A y \in Attempts : Busy(y)' => Busy(y)
  BY <1>1 DEF Busy
<1>3. \A y \in Attempts : y[1] = x[1] /\ y # x =>
        ~Busy(y) /\ (y \in stored => att[y].answer = "error")
  BY <1>1 DEF CheckoutInv, KeyInv, StoredInv
<1>4. KeyInv'
  BY <1>2 DEF CheckoutInv, KeyInv
<1>5. SentInv'
  BY <1>1 DEF CheckoutInv, SentInv, Running
<1>6. StoredInv'
  <2> SUFFICES ASSUME NEW y \in Attempts, y \in stored', att'[y].answer # "error"
               PROVE  /\ \A z \in Attempts : z[1] = y[1] /\ Busy(z)' => z = y
                      /\ y[1] \in keys \/ Quiet(y[1])'
    BY DEF StoredInv
  <2>1. CASE y = x
    BY <1>1, <1>2, <1>3, <2>1
  <2>2. CASE y # x
    <3>1. y \in stored /\ att[y].answer # "error" /\ y[1] # x[1]
      BY <1>1, <1>3, <2>2
    <3>2. Quiet(y[1]) => Quiet(y[1])'
      BY <1>1, <3>1 DEF Quiet
    <3> QED
      BY <1>2, <3>1, <3>2 DEF CheckoutInv, StoredInv
  <2> QED
    BY <2>1, <2>2
<1>7. TwiceInv'
  <2> SUFFICES ASSUME NEW y \in Attempts, NEW z \in Attempts, y[1] = z[1], y # z,
                      y \in stored', z \in stored'
               PROVE  att'[y].answer = "error" \/ att'[z].answer = "error"
    BY DEF TwiceInv
  <2> QED
    BY <1>1, <1>3 DEF CheckoutInv, TwiceInv
<1>8. ToldInv'
  BY <1>1 DEF CheckoutInv, ToldInv
<1>9. att' \in [Attempts -> Attempt] /\ stored' \subseteq Attempts
  BY DEF CheckoutInv, TypeOK
<1> QED
  BY <1>4, <1>5, <1>6, <1>7, <1>8, <1>9

\* What an answer makes of an attempt.
LEMMA AnswerType ==
    ASSUME NEW a \in {"none", "ok", "refused", "error"}
    PROVE  LET new == [NoAttempt EXCEPT
                         !.pc = IF a \in {"refused", "error"} THEN "closing" ELSE "over",
                         !.answer = a]
           IN /\ new \in Attempt /\ new.pc \in {"closing", "over"} /\ new.answer = a
              /\ new.pc = "closing" => a \in {"refused", "error"}
  BY DEF NoAttempt, Attempt, NoLine, Line

\* An attempt that ends in an answer with no new effect.
LEMMA AnswerKeeps ==
    ASSUME CheckoutInv, NEW x \in Attempts, att[x].pc \in Running,
           NEW a \in {"none", "ok", "refused", "error"}, Answer(x, a),
           a = "ok" => x \in stored,
           a = "refused" => x \notin stored,
           UNCHANGED <<line, orders, stored, keys, click>>, shown' \subseteq Nat,
           cart' \in [Carts -> {"NONE", "ACTIVE", "CONVERTED"}],
           \A c \in Carts : cart[c] = "CONVERTED" => cart'[c] = "CONVERTED"
    PROVE  CheckoutInv'
<1> DEFINE new == [NoAttempt EXCEPT
                     !.pc = IF a \in {"refused", "error"} THEN "closing" ELSE "over",
                     !.answer = a]
<1>1. /\ new \in Attempt /\ new.pc \in {"closing", "over"} /\ new.answer = a
      /\ new.pc = "closing" => a \in {"refused", "error"}
  BY AnswerType
<1>2. att' = [att EXCEPT ![x] = new]
  BY DEF Answer
<1> HIDE DEF new
<1>3. /\ KeyInv' /\ SentInv' /\ StoredInv' /\ TwiceInv' /\ ToldInv'
      /\ att' \in [Attempts -> Attempt] /\ stored' \subseteq Attempts
  <2>1. new.pc \notin Running
    BY <1>1 DEF Running
  <2> QED
    BY <1>1, <1>2, <2>1, HandlerStep
<1>4. att'[x] = new /\ \A y \in Attempts : y # x => att'[y] = att[y]
  BY <1>2 DEF CheckoutInv, TypeOK
<1>5. TypeOK'
  BY <1>3 DEF CheckoutInv, TypeOK
<1>6. OrderInv' /\ OneOrderPerClickAndCart'
  <2>1. \A p \in orders : p.cart \in Carts
    BY DEF CheckoutInv, TypeOK
  <2> QED
    BY <1>1, <1>4, <2>1 DEF CheckoutInv, OrderInv, OneOrderPerClickAndCart
<1>7. AgreedInv'
  BY <1>1, <1>4 DEF CheckoutInv, AgreedInv, Kind, Wanted, Unwritten
<1> QED
  BY <1>3, <1>5, <1>6, <1>7 DEF CheckoutInv
\* The first read of the handler: a cart that is ACTIVE is no order's.
LEMMA AtKeeps ==
    ASSUME CheckoutInv, NEW x \in Attempts, att[x].pc \in {"find", "create"},
           NEW c \in Carts, At(x, c), cart[c] # "CONVERTED",
           UNCHANGED <<line, orders, stored, shown, keys, click>>,
           cart' \in [Carts -> {"NONE", "ACTIVE", "CONVERTED"}],
           \A d \in Carts : cart[d] = "CONVERTED" => cart'[d] = "CONVERTED"
    PROVE  CheckoutInv'
<1> DEFINE new == [att[x] EXCEPT !.cart = c, !.pc = "cart"]
<1>1. /\ new \in Attempt /\ new.pc = "cart" /\ new.cart = c /\ new.answer = "none"
  BY DEF CheckoutInv, TypeOK, SentInv, Attempt, Running
<1>2. att' = [att EXCEPT ![x] = new]
  BY DEF At
<1> HIDE DEF new
<1>3. /\ KeyInv' /\ SentInv' /\ StoredInv' /\ TwiceInv' /\ ToldInv'
      /\ att' \in [Attempts -> Attempt] /\ stored' \subseteq Attempts
  BY <1>1, <1>2, HandlerStep DEF Running
<1>4. att'[x] = new /\ \A y \in Attempts : y # x => att'[y] = att[y]
  BY <1>2 DEF CheckoutInv, TypeOK
<1>5. TypeOK'
  BY <1>3 DEF CheckoutInv, TypeOK
<1>6. OrderInv' /\ OneOrderPerClickAndCart'
  <2>1. \A p \in orders : p.cart \in Carts /\ p.cart # c
    BY DEF CheckoutInv, TypeOK, OrderInv
  <2> QED
    BY <1>1, <1>4, <2>1 DEF CheckoutInv, OrderInv, OneOrderPerClickAndCart
<1>7. AgreedInv'
  BY <1>1, <1>4 DEF CheckoutInv, AgreedInv, Kind, Wanted, Unwritten
<1> QED
  BY <1>3, <1>5, <1>6, <1>7 DEF CheckoutInv

\* An attempt's step that stores nothing keeps AgreedInv if its own part holds.
LEMMA AgreedStep ==
    ASSUME AgreedInv, NEW x \in Attempts,
           UNCHANGED <<stored, orders, click>>,
           \A y \in Attempts : y # x => att'[y] = att[y],
           /\ att'[x].pc = "line" => Kind(x) = "add"
           /\ att'[x].pc = "draft" => Kind(x) = "order" /\ att'[x].line.units = Wanted(x)
           /\ att'[x].pc = "written" => x \in stored
           /\ att'[x].answer = "ok" => x \in stored
           /\ att'[x].pc \in Unwritten => x \notin stored
           /\ att'[x].pc = "closing" => att'[x].answer = "error" \/ x \notin stored
    PROVE  AgreedInv'
  BY DEF AgreedInv, Kind, Wanted

\* A read of the item or the draft.
LEMMA ReadKeeps ==
    ASSUME CheckoutInv, NEW x \in Attempts, att[x].pc = "cart",
           NEW l \in Line, NEW pc \in {"line", "draft"},
           att' = [att EXCEPT ![x].line = l, ![x].pc = pc],
           pc = "line" => Kind(x) = "add",
           pc = "draft" => Kind(x) = "order" /\ l.units = Wanted(x),
           UNCHANGED <<db, keys, click>>
    PROVE  CheckoutInv'
<1> DEFINE new == [att[x] EXCEPT !.line = l, !.pc = pc]
<1>1. /\ new \in Attempt /\ new.pc = pc /\ new.cart = att[x].cart
      /\ new.line = l /\ new.answer = "none"
  BY DEF CheckoutInv, TypeOK, SentInv, Attempt, Running
<1>2. att' = [att EXCEPT ![x] = new]
  BY DEF CheckoutInv, TypeOK
<1> HIDE DEF new
<1>3. /\ KeyInv' /\ SentInv' /\ StoredInv' /\ TwiceInv' /\ ToldInv'
      /\ att' \in [Attempts -> Attempt] /\ stored' \subseteq Attempts
  <2>1. stored' = stored
    BY DEF db
  <2> QED
    BY <1>1, <1>2, <2>1, HandlerStep DEF Running
<1>4. att'[x] = new /\ \A y \in Attempts : y # x => att'[y] = att[y]
  BY <1>2 DEF CheckoutInv, TypeOK
<1>5. TypeOK'
  BY <1>3 DEF CheckoutInv, TypeOK, db
<1>6. /\ cart' = cart /\ orders' = orders /\ stored' = stored /\ click' = click
  BY DEF db
<1>7. OrderInv' /\ OneOrderPerClickAndCart'
  <2>1. /\ new.cart \in Carts
        /\ \A p \in orders : p.by[1] = x[1] => p.cart # new.cart
    BY <1>1 DEF CheckoutInv, OrderInv
  <2>2. OneOrderPerClickAndCart'
    BY <1>6 DEF CheckoutInv, OneOrderPerClickAndCart
  <2>3. OrderInv'
    BY <1>4, <1>6, <2>1 DEF CheckoutInv, OrderInv
  <2> QED
    BY <2>2, <2>3
<1>8. AgreedInv'
  <2>3. /\ att'[x].pc = "line" => Kind(x) = "add"
        /\ att'[x].pc = "draft" => Kind(x) = "order" /\ att'[x].line.units = Wanted(x)
        /\ att'[x].pc \notin {"written", "closing"} /\ att'[x].answer # "ok"
        /\ x \notin stored
    BY <1>1, <1>4 DEF CheckoutInv, AgreedInv, Unwritten
  <2> QED
    BY <1>4, <1>6, <2>3, AgreedStep DEF CheckoutInv
<1> QED
  BY <1>3, <1>5, <1>7, <1>8 DEF CheckoutInv

LEMMA MoveType ==
    ASSUME CheckoutInv, NEW x \in Attempts, NEW pc \in Running \cup {"closing", "over"},
           Move(x, pc)
    PROVE  LET new == [att[x] EXCEPT !.pc = pc]
           IN /\ att' = [att EXCEPT ![x] = new] /\ new \in Attempt /\ att'[x] = new
              /\ new.pc = pc /\ new.answer = att[x].answer
              /\ new.cart = att[x].cart /\ new.line = att[x].line
  BY DEF CheckoutInv, TypeOK, Move, Attempt

LEMMA GuardKeeps ==
    ASSUME CheckoutInv, NEW x \in Attempts, Guard(x)
    PROVE  CheckoutInv'
<1>1. /\ att[x].pc = "sent" /\ att[x].answer = "none" /\ x \notin stored /\ x[1] \in Clicks
      /\ UNCHANGED <<cart, line, orders, stored, shown, click>>
  BY AttemptType DEF Guard, CheckoutInv, SentInv, db
<1>2. CASE x[1] \in keys
  <2> DEFINE new == [att[x] EXCEPT !.answer = "refused", !.pc = "over"]
  <2>1. att' = [att EXCEPT ![x] = new] /\ keys' = keys
    BY <1>2 DEF Guard, CheckoutInv, TypeOK
  <2>2. new \in Attempt /\ new.pc = "over" /\ new.answer = "refused"
    BY DEF CheckoutInv, TypeOK, Attempt
  <2> HIDE DEF new
  <2>3. att'[x] = new /\ \A y \in Attempts : y # x => att'[y] = att[y]
    BY <2>1 DEF CheckoutInv, TypeOK
  <2>4. \A y \in Attempts : Busy(y)' <=> Busy(y)
    BY <1>1, <2>2, <2>3 DEF Busy, Running
  <2>5. \A i \in Clicks : Quiet(i) => Quiet(i)'
    BY <1>1, <2>2, <2>3 DEF Quiet
  <2>6. TypeOK'
    BY <1>1, <2>1, <2>2 DEF CheckoutInv, TypeOK
  <2>7. KeyInv' /\ SentInv' /\ TwiceInv' /\ ToldInv'
    BY <1>1, <2>1, <2>2, <2>3, <2>4
       DEF CheckoutInv, KeyInv, SentInv, TwiceInv, ToldInv, Running
  <2>8. StoredInv'
    BY <1>1, <2>1, <2>3, <2>4, <2>5, AttemptType DEF CheckoutInv, StoredInv
  <2>9. OrderInv' /\ OneOrderPerClickAndCart' /\ AgreedInv'
    BY <1>1, <2>2, <2>3
       DEF CheckoutInv, OrderInv, OneOrderPerClickAndCart, AgreedInv, Kind, Wanted, Unwritten
  <2> QED
    BY <2>6, <2>7, <2>8, <2>9 DEF CheckoutInv
<1>3. CASE x[1] \notin keys
  <2> DEFINE new == [att[x] EXCEPT !.pc = "find"]
  <2>1. att' = [att EXCEPT ![x] = new] /\ keys' = keys \cup {x[1]}
    BY <1>3 DEF Guard, Move, CheckoutInv, TypeOK
  <2>2. new \in Attempt /\ new.pc = "find" /\ new.answer = "none"
    BY <1>1 DEF CheckoutInv, TypeOK, Attempt, Running
  <2> HIDE DEF new
  <2>3. att'[x] = new /\ \A y \in Attempts : y # x => att'[y] = att[y]
    BY <2>1 DEF CheckoutInv, TypeOK
  <2>4. \A y \in Attempts : y[1] = x[1] => ~Busy(y)
    BY <1>3 DEF CheckoutInv, KeyInv
  <2>5. ~Quiet(x[1])
    BY <1>1 DEF Quiet
  <2>6. \A i \in Clicks : i # x[1] /\ Quiet(i) => Quiet(i)'
    BY <1>1, <2>3 DEF Quiet
  <2>7. TypeOK'
    BY <1>1, <2>1, <2>2 DEF CheckoutInv, TypeOK
  <2>8. KeyInv'
    BY <2>1, <2>3, <2>4 DEF CheckoutInv, KeyInv, Busy
  <2>9. SentInv' /\ TwiceInv' /\ ToldInv'
    BY <1>1, <2>2, <2>3 DEF CheckoutInv, SentInv, TwiceInv, ToldInv
  <2>10. StoredInv'
    <3>1. \A y \in Attempts : y[1] = x[1] /\ y \in stored => att[y].answer = "error"
      BY <1>3, <2>5 DEF CheckoutInv, StoredInv
    <3> QED
      BY <1>1, <2>1, <2>3, <2>6, <3>1, AttemptType DEF CheckoutInv, StoredInv, Busy
  <2>11. OrderInv' /\ OneOrderPerClickAndCart' /\ AgreedInv'
    BY <1>1, <2>2, <2>3
       DEF CheckoutInv, OrderInv, OneOrderPerClickAndCart, AgreedInv, Kind, Wanted, Unwritten
  <2> QED
    BY <2>7, <2>8, <2>9, <2>10, <2>11 DEF CheckoutInv
<1> QED
  BY <1>2, <1>3

LEMMA WriteLineKeeps ==
    ASSUME CheckoutInv, NEW x \in Attempts, WriteLine(x)
    PROVE  CheckoutInv'
<1> DEFINE c == att[x].cart
           read == att[x].line
<1>1. /\ att[x].pc = "line" /\ att[x].pc \in Running /\ x \notin stored
      /\ c \in Carts /\ read \in Line /\ Kind(x) = "add" /\ Wanted(x) \in Nat
      /\ UNCHANGED <<cart, orders, keys, click>> /\ shown' = shown \cup Total'
  BY AttemptType DEF WriteLine, Running, Unwritten, CheckoutInv, TypeOK, OrderInv,
                     AgreedInv, Attempt, Kind, Wanted, Click
<1>2. CASE line[c].row = read.row
  <2>1. /\ line' = [line EXCEPT ![c] =
                      [row |-> IF read.row = NoRow THEN x ELSE read.row,
                       units |-> read.units + Wanted(x)]]
        /\ stored' = stored \cup {x} /\ Move(x, "written")
    BY <1>2 DEF WriteLine
  <2> DEFINE new == [att[x] EXCEPT !.pc = "written"]
  <2>2. /\ att' = [att EXCEPT ![x] = new] /\ new \in Attempt /\ att'[x] = new
        /\ new.pc = "written" /\ new.answer = "none"
        /\ \A y \in Attempts : y # x => att'[y] = att[y]
    <3>1. "written" \in Running
      BY DEF Running
    <3> QED
      BY <1>1, <2>1, MoveType, <3>1 DEF CheckoutInv, SentInv, TypeOK
  <2> HIDE DEF new
  <2>3. /\ KeyInv' /\ SentInv' /\ StoredInv' /\ TwiceInv' /\ ToldInv'
        /\ att' \in [Attempts -> Attempt] /\ stored' \subseteq Attempts
    BY <1>1, <2>1, <2>2, HandlerStep DEF Running
  <2>4. line' \in [Carts -> Line]
    <3>1. [row |-> IF read.row = NoRow THEN x ELSE read.row,
           units |-> read.units + Wanted(x)] \in Line
      BY <1>1 DEF Line
    <3> QED
      BY <1>1, <2>1, <3>1 DEF CheckoutInv, TypeOK
  <2>5. TypeOK'
    BY <1>1, <2>3, <2>4, TotalType DEF CheckoutInv, TypeOK
  <2>6. OrderInv' /\ OneOrderPerClickAndCart'
    BY <1>1, <2>2 DEF CheckoutInv, OrderInv, OneOrderPerClickAndCart
  <2>7. AgreedInv'
    BY <1>1, <2>1, <2>2 DEF CheckoutInv, AgreedInv, Kind, Wanted, Unwritten
  <2> QED
    BY <2>3, <2>5, <2>6, <2>7 DEF CheckoutInv
<1>3. CASE line[c].row # read.row
  <2>1. UNCHANGED <<line, stored>> /\ Answer(x, "error")
    BY <1>3 DEF WriteLine
  <2>2. shown' \subseteq Nat
    BY <1>1, <2>1, TotalType DEF CheckoutInv, TypeOK
  <2> QED
    BY <1>1, <2>1, <2>2, AnswerKeeps DEF CheckoutInv, TypeOK
<1> QED
  BY <1>2, <1>3

LEMMA PlaceOrderKeeps ==
    ASSUME CheckoutInv, NEW x \in Attempts, PlaceOrder(x)
    PROVE  CheckoutInv'
<1> DEFINE c == att[x].cart
           new == [att[x] EXCEPT !.pc = "written"]
           o == [by |-> x, cart |-> c, units |-> att[x].line.units]
<1>1. /\ att[x].pc = "draft" /\ att[x].pc \in Running /\ x \notin stored
      /\ c \in Carts /\ Kind(x) = "order" /\ att[x].line.units = Wanted(x)
      /\ att[x].line.units \in Nat
      /\ \A p \in orders : p.by[1] = x[1] => p.cart # c
  BY DEF PlaceOrder, Running, Unwritten, CheckoutInv, TypeOK, OrderInv, AgreedInv,
         Attempt, Line
<1>2. /\ orders' = orders \cup {o} /\ line' = [line EXCEPT ![c] = NoLine]
      /\ cart' = [cart EXCEPT ![c] = "CONVERTED"] /\ stored' = stored \cup {x}
      /\ Move(x, "written") /\ UNCHANGED <<keys, click>>
      /\ shown' = shown \cup Total'
  BY DEF PlaceOrder
<1>3. /\ att' = [att EXCEPT ![x] = new] /\ new \in Attempt /\ att'[x] = new
      /\ new.pc = "written" /\ new.answer = "none"
      /\ \A y \in Attempts : y # x => att'[y] = att[y]
  <2>1. "written" \in Running
    BY DEF Running
  <2> QED
    BY <1>1, <1>2, MoveType, <2>1 DEF CheckoutInv, SentInv, TypeOK
<1>4. o.by = x /\ o.cart = c /\ o.units = Wanted(x)
      /\ o \in [by : Attempts, cart : Carts, units : Nat]
  BY <1>1
<1>5. /\ cart'[c] = "CONVERTED" /\ cart' \in [Carts -> {"NONE", "ACTIVE", "CONVERTED"}]
      /\ \A d \in Carts : cart[d] = "CONVERTED" => cart'[d] = "CONVERTED"
  BY <1>1, <1>2 DEF CheckoutInv, TypeOK
<1>6. line' \in [Carts -> Line]
  BY <1>2 DEF CheckoutInv, TypeOK, NoLine, Line
<1> HIDE DEF new, o, c
<1>7. /\ KeyInv' /\ SentInv' /\ StoredInv' /\ TwiceInv' /\ ToldInv'
      /\ att' \in [Attempts -> Attempt] /\ stored' \subseteq Attempts
  BY <1>1, <1>2, <1>3, HandlerStep DEF Running
<1>8. TypeOK'
  BY <1>2, <1>4, <1>5, <1>6, <1>7, TotalType DEF CheckoutInv, TypeOK
<1>9. OrderInv'
  <2>1. \A p \in orders' : cart'[p.cart] = "CONVERTED"
    BY <1>2, <1>4, <1>5 DEF CheckoutInv, TypeOK, OrderInv
  <2>2. ASSUME NEW y \in Attempts, att'[y].pc \in {"cart", "line", "draft"}
        PROVE  /\ att'[y].cart \in Carts
               /\ \A p \in orders' : p.by[1] = y[1] => p.cart # att'[y].cart
    <3>1. y # x /\ att'[y] = att[y]
      BY <1>3, <2>2
    <3>2. y[1] # x[1]
      BY <1>1, <2>2, <3>1 DEF CheckoutInv, KeyInv, Busy, Running
    <3> QED
      BY <1>2, <1>4, <2>2, <3>1, <3>2 DEF CheckoutInv, OrderInv
  <2> QED
    BY <2>1, <2>2 DEF OrderInv
<1>10. OneOrderPerClickAndCart'
  BY <1>1, <1>2, <1>4 DEF CheckoutInv, OneOrderPerClickAndCart
<1>11. AgreedInv'
  <2> SUFFICES ASSUME NEW y \in Attempts
               PROVE  /\ att'[y].pc = "line" => Kind(y) = "add"
                      /\ att'[y].pc = "draft" =>
                           Kind(y) = "order" /\ att'[y].line.units = Wanted(y)
                      /\ att'[y].pc = "written" => y \in stored'
                      /\ att'[y].answer = "ok" => y \in stored'
                      /\ att'[y].pc \in Unwritten => y \notin stored'
                      /\ att'[y].pc = "closing" =>
                           att'[y].answer = "error" \/ y \notin stored'
                      /\ y \in stored' /\ Kind(y) = "order" =>
                           \E p \in orders' : p.by = y /\ p.units = Wanted(y)
    BY <1>2 DEF AgreedInv, Kind, Wanted
  <2>1. CASE y = x
    BY <1>2, <1>3, <1>4, <2>1 DEF Unwritten
  <2>2. CASE y # x
    BY <1>2, <1>3, <2>2 DEF CheckoutInv, AgreedInv
  <2> QED
    BY <2>1, <2>2
<1> QED
  BY <1>7, <1>8, <1>9, <1>10, <1>11 DEF CheckoutInv

\* The key may go: what was stored under it was answered with an error.
LEMMA ReleaseKeyKeeps ==
    ASSUME CheckoutInv, NEW x \in Attempts, ReleaseKey(x)
    PROVE  CheckoutInv'
<1> DEFINE new == [att[x] EXCEPT !.pc = "over"]
<1>1. /\ att[x].pc = "closing" /\ Busy(x) /\ x[1] \in keys
      /\ keys' \in {keys, keys \ {x[1]}} /\ Move(x, "over")
      /\ UNCHANGED <<cart, line, orders, stored, shown, click>>
      /\ att[x].answer = "error" \/ x \notin stored
  BY DEF ReleaseKey, db, Busy, CheckoutInv, KeyInv, AgreedInv
<1>2. /\ att' = [att EXCEPT ![x] = new] /\ new \in Attempt /\ att'[x] = new
      /\ new.pc = "over" /\ new.answer = att[x].answer
      /\ \A y \in Attempts : y # x => att'[y] = att[y]
  BY <1>1, MoveType DEF CheckoutInv, TypeOK
<1> HIDE DEF new
<1>3. ~Busy(x)' /\ \A y \in Attempts : Busy(y)' => Busy(y)
  BY <1>2 DEF Busy, Running
<1>4. TypeOK'
  BY <1>1, <1>2 DEF CheckoutInv, TypeOK
<1>5. KeyInv'
  BY <1>1, <1>3, AttemptType DEF CheckoutInv, KeyInv
<1>6. SentInv' /\ TwiceInv' /\ ToldInv'
  BY <1>1, <1>2 DEF CheckoutInv, SentInv, TwiceInv, ToldInv, Running
<1>7. StoredInv'
  <2> SUFFICES ASSUME NEW y \in Attempts, y \in stored, att'[y].answer # "error"
               PROVE  /\ \A z \in Attempts : z[1] = y[1] /\ Busy(z)' => z = y
                      /\ y[1] \in keys' \/ Quiet(y[1])'
    BY <1>1 DEF StoredInv
  <2>1. y # x /\ att'[y] = att[y]
    BY <1>1, <1>2
  <2>2. /\ \A z \in Attempts : z[1] = y[1] /\ Busy(z) => z = y
        /\ y[1] \in keys \/ Quiet(y[1])
    BY <2>1 DEF CheckoutInv, StoredInv
  <2>3. y[1] # x[1]
    BY <1>1, <2>1, <2>2
  <2>4. Quiet(y[1]) => Quiet(y[1])'
    BY <1>1, <1>2, <2>3 DEF Quiet
  <2> QED
    BY <1>1, <1>3, <2>2, <2>3, <2>4
<1>8. OrderInv' /\ OneOrderPerClickAndCart'
  BY <1>1, <1>2 DEF CheckoutInv, OrderInv, OneOrderPerClickAndCart
<1>9. AgreedInv'
  BY <1>1, <1>2 DEF CheckoutInv, AgreedInv, Kind, Wanted, Unwritten
<1> QED
  BY <1>4, <1>5, <1>6, <1>7, <1>8, <1>9 DEF CheckoutInv

LEMMA ExpireKeeps ==
    ASSUME CheckoutInv, NEW i \in Clicks, Expire(i)
    PROVE  CheckoutInv'
<1>1. /\ keys' = keys \ {i} /\ click[i].state # "sent"
      /\ \A k \in Tries : att[<<i, k>>].pc \in {"none", "over"}
      /\ UNCHANGED <<cart, line, orders, stored, shown, click, att>>
  BY DEF Expire, db
<1>2. \A x \in Attempts : x[1] = i => att[x].pc \in {"none", "over"}
  <2> TAKE x \in Attempts
  <2> HAVE x[1] = i
  <2>1. x = <<i, x[2]>> /\ x[2] \in Tries
    BY AttemptType
  <2> QED
    BY <1>1, <2>1
<1>3. \A x \in Attempts : x[1] = i => ~Busy(x)
  BY <1>2 DEF Busy, Running
<1>4. TypeOK' /\ SentInv' /\ TwiceInv' /\ ToldInv' /\ OrderInv'
      /\ OneOrderPerClickAndCart' /\ AgreedInv'
  BY <1>1 DEF CheckoutInv, TypeOK, SentInv, TwiceInv, ToldInv, OrderInv,
              OneOrderPerClickAndCart, AgreedInv, Kind, Wanted
<1>5. KeyInv'
  BY <1>1, <1>3 DEF CheckoutInv, KeyInv, Busy
<1>6. StoredInv'
  <2>1. ASSUME NEW x \in Attempts, x \in stored PROVE click[x[1]].state # "none"
    BY <2>1, AttemptType DEF CheckoutInv, SentInv, TypeOK, Click, Tries
  <2>2. \A x \in Attempts : x \in stored /\ x[1] = i => Quiet(i)
    BY <1>1, <1>2, <2>1 DEF Quiet
  <2> QED
    BY <1>1, <1>3, <2>2 DEF CheckoutInv, StoredInv, Busy, Quiet
<1> QED
  BY <1>4, <1>5, <1>6 DEF CheckoutInv

LEMMA EditLineKeeps ==
    ASSUME CheckoutInv, NEW c \in Carts, NEW n \in Edits, EditLine(c, n)
    PROVE  CheckoutInv'
<1>1. /\ line' = [line EXCEPT ![c] = IF n = 0 THEN NoLine ELSE [@ EXCEPT !.units = n]]
      /\ UNCHANGED <<cart, orders, stored, keys, click, att>>
      /\ shown' = shown \cup Total'
  BY DEF EditLine
<1>2. line' \in [Carts -> Line]
  <2>1. NoLine \in Line /\ [line[c] EXCEPT !.units = n] \in Line
    BY CheckoutAssumption DEF CheckoutInv, TypeOK, NoLine, Line
  <2> QED
    BY <1>1, <2>1 DEF CheckoutInv, TypeOK
<1>3. TypeOK'
  BY <1>1, <1>2, TotalType DEF CheckoutInv, TypeOK
<1> QED
  BY <1>1, <1>3 DEF CheckoutInv, KeyInv, SentInv, StoredInv, TwiceInv, OrderInv,
     OneOrderPerClickAndCart, AgreedInv, ToldInv, Busy, Quiet, Kind, Wanted

\* Every step of the handler.
LEMMA ServerKeeps ==
    ASSUME CheckoutInv, NEW x \in Attempts, Server(x)
    PROVE  CheckoutInv'
<1>1. CASE Guard(x)
  BY <1>1, GuardKeeps
<1>2. CASE FindCart(x)
  <2>1. /\ att[x].pc = "find" /\ att[x].pc \in Running /\ x \notin stored
        /\ UNCHANGED <<cart, line, orders, stored, shown, keys, click>>
    BY <1>2 DEF FindCart, Running, Unwritten, CheckoutInv, AgreedInv, db
  <2>2. cart' \in [Carts -> {"NONE", "ACTIVE", "CONVERTED"}] /\ shown' \subseteq Nat
    BY <2>1 DEF CheckoutInv, TypeOK
  <2>3. CASE Move(x, "create")
    <3> DEFINE new == [att[x] EXCEPT !.pc = "create"]
    <3>1. "create" \in Running
      BY DEF Running
    <3>2. /\ att' = [att EXCEPT ![x] = new] /\ new \in Attempt /\ att'[x] = new
          /\ new.pc = "create" /\ new.answer = "none"
          /\ \A y \in Attempts : y # x => att'[y] = att[y]
      BY <2>1, <2>3, <3>1, MoveType DEF CheckoutInv, SentInv, TypeOK
    <3> HIDE DEF new
    <3>3. /\ KeyInv' /\ SentInv' /\ StoredInv' /\ TwiceInv' /\ ToldInv'
          /\ att' \in [Attempts -> Attempt] /\ stored' \subseteq Attempts
      BY <2>1, <3>1, <3>2, HandlerStep
    <3>4. TypeOK'
      BY <2>1, <3>3 DEF CheckoutInv, TypeOK
    <3>5. OrderInv' /\ OneOrderPerClickAndCart'
      BY <2>1, <3>2 DEF CheckoutInv, OrderInv, OneOrderPerClickAndCart
    <3>6. AgreedInv'
      BY <2>1, <3>2, AgreedStep DEF CheckoutInv
    <3> QED
      BY <3>3, <3>4, <3>5, <3>6 DEF CheckoutInv
  <2>4. CASE \E c \in Carts : /\ IsNewest(c)
                              /\ Answer(x, "refused") \/ At(x, c)
    <3>1. PICK c \in Carts : IsNewest(c) /\ (Answer(x, "refused") \/ At(x, c))
      BY <2>4
    <3>2. cart[c] # "CONVERTED"
      BY <3>1 DEF IsNewest, Active
    <3>3. CASE Answer(x, "refused")
      BY <2>1, <2>2, <3>3, AnswerKeeps
    <3>4. CASE At(x, c)
      BY <2>1, <2>2, <3>2, <3>4, AtKeeps
    <3> QED
      BY <3>1, <3>3, <3>4
  <2> QED
    BY <1>2, <2>3, <2>4 DEF FindCart
<1>3. CASE CreateCart(x)
  <2>1. PICK c \in Carts :
          /\ att[x].pc = "create" /\ cart[c] = "NONE"
          /\ cart' = [cart EXCEPT ![c] = "ACTIVE"]
          /\ Answer(x, "refused") \/ At(x, c)
          /\ UNCHANGED <<line, orders, stored, shown, keys, click>>
    BY <1>3 DEF CreateCart
  <2>2. /\ cart' \in [Carts -> {"NONE", "ACTIVE", "CONVERTED"}]
        /\ \A d \in Carts : cart[d] = "CONVERTED" => cart'[d] = "CONVERTED"
        /\ shown' \subseteq Nat
    BY <2>1 DEF CheckoutInv, TypeOK
  <2>3. att[x].pc \in Running /\ x \notin stored
    BY <2>1 DEF Running, Unwritten, CheckoutInv, AgreedInv
  <2>4. CASE Answer(x, "refused")
    BY <2>1, <2>2, <2>3, <2>4, AnswerKeeps
  <2>5. CASE At(x, c)
    BY <2>1, <2>2, <2>5, AtKeeps
  <2> QED
    BY <2>1, <2>4, <2>5
<1>4. CASE ReadLine(x)
  <2>1. /\ att[x].pc = "cart" /\ Kind(x) = "add" /\ line[att[x].cart] \in Line
        /\ att' = [att EXCEPT ![x].line = line[att[x].cart], ![x].pc = "line"]
        /\ UNCHANGED <<db, keys, click>>
    BY <1>4 DEF ReadLine, CheckoutInv, TypeOK, OrderInv
  <2> QED
    BY <2>1, ReadKeeps
<1>5. CASE WriteLine(x)
  BY <1>5, WriteLineKeeps
<1>6. CASE Draft(x)
  <2> DEFINE c == att[x].cart
  <2>1. /\ att[x].pc = "cart" /\ att[x].pc \in Running /\ Kind(x) = "order"
        /\ c \in Carts /\ line[c] \in Line /\ x \notin stored
        /\ UNCHANGED <<db, keys, click>>
    BY <1>6 DEF Draft, Running, Unwritten, CheckoutInv, TypeOK, OrderInv, AgreedInv
  <2>2. CASE Answer(x, "refused")
    <3>1. /\ UNCHANGED <<cart, line, orders, stored, shown, keys, click>>
          /\ cart' \in [Carts -> {"NONE", "ACTIVE", "CONVERTED"}] /\ shown' \subseteq Nat
      BY <2>1 DEF db, CheckoutInv, TypeOK
    <3> QED
      BY <2>1, <2>2, <3>1, AnswerKeeps
  <2>3. CASE /\ line[c].units = Wanted(x)
             /\ att' = [att EXCEPT ![x].line = line[c], ![x].pc = "draft"]
    BY <2>1, <2>3, ReadKeeps
  <2> QED
    BY <1>6, <2>2, <2>3 DEF Draft
<1>7. CASE PlaceOrder(x)
  BY <1>7, PlaceOrderKeeps
<1>8. ASSUME NEW a \in {"none", "ok", "error"}, Answer(x, a), att[x].pc \in Running,
             a = "ok" => x \in stored, UNCHANGED <<db, keys, click>>
      PROVE  CheckoutInv'
  <2>1. /\ UNCHANGED <<cart, line, orders, stored, shown, keys, click>>
        /\ cart' \in [Carts -> {"NONE", "ACTIVE", "CONVERTED"}] /\ shown' \subseteq Nat
    BY <1>8 DEF db, CheckoutInv, TypeOK
  <2> QED
    BY <1>8, <2>1, AnswerKeeps
<1>9. CASE Respond(x)
  <2>1. att[x].pc \in Running /\ x \in stored
    BY <1>9 DEF Respond, Running, CheckoutInv, AgreedInv
  <2> QED
    BY <1>8, <1>9, <2>1 DEF Respond
<1>10. CASE Fail(x) \/ Crash(x)
  BY <1>8, <1>10 DEF Fail, Crash
<1>11. CASE ReleaseKey(x)
  BY <1>11, ReleaseKeyKeeps
<1> QED
  BY <1>1, <1>2, <1>3, <1>4, <1>5, <1>6, <1>7, <1>9, <1>10, <1>11 DEF Server

LEMMA PressKeeps ==
    ASSUME CheckoutInv, NEW i \in Clicks, NEW t \in Tabs, NEW kind \in {"add", "order"},
           NEW n \in Nat, Press(i, t, kind, n)
    PROVE  CheckoutInv'
<1> DEFINE new == [kind |-> kind, tab |-> t, units |-> n, state |-> "sent", tries |-> 1]
<1>1. /\ click[i].state = "none" /\ click[i].tries = 0
      /\ click' = [click EXCEPT ![i] = new] /\ Send(i, 1)
      /\ UNCHANGED <<db, keys>>
  BY DEF Press, CheckoutInv, SentInv
<1>2. 1 \in Tries /\ new \in Click /\ new.state = "sent" /\ new.tries = 1
  BY CheckoutAssumption DEF Tries, Click
<1> HIDE DEF new
<1>3. click[i].tries < 1 /\ click[i].state \in {"none", "sent"} /\ click[i].state # "sent"
  BY <1>1
<1> QED
  BY <1>1, <1>2, <1>3, SendKeeps

LEMMA FailedKeeps ==
    ASSUME CheckoutInv, NEW i \in Clicks, click[i].state = "sent", Failed(i)
    PROVE  CheckoutInv'
<1>1. CASE Settle(i, "failure")
  BY <1>1, SettleKeeps
<1>2. CASE Retry(i)
  <2> DEFINE k == click[i].tries + 1
             new == [click[i] EXCEPT !.tries = k]
  <2>1. /\ click[i].tries < MaxTries /\ Send(i, k) /\ UNCHANGED <<db, keys>>
        /\ click' = [click EXCEPT ![i] = new]
    BY <1>2 DEF Retry, CheckoutInv, TypeOK
  <2>2. /\ click[i] \in Click /\ click[i].tries \in 0..MaxTries
        /\ k \in Tries /\ click[i].tries < k
    BY <2>1, CheckoutAssumption DEF CheckoutInv, TypeOK, Click, Tries
  <2>3. /\ new \in Click /\ new.state = "sent" /\ new.tries = k
        /\ new.kind = click[i].kind /\ new.units = click[i].units
    BY <2>2 DEF Click, Tries
  <2> HIDE DEF new, k
  <2> QED
    BY <2>1, <2>2, <2>3, SendKeeps
<1> QED
  BY <1>1, <1>2 DEF Failed

LEMMA CheckoutNext == CheckoutInv /\ [Next]_vars => CheckoutInv'
<1> SUFFICES ASSUME CheckoutInv, [Next]_vars PROVE CheckoutInv'
  OBVIOUS
<1>1. ASSUME NEW i \in Clicks, NEW t \in Tabs, ClickPickup(i, t) \/ ClickDelivery(i, t)
      PROVE  CheckoutInv'
  <2>1. \A c \in Carts : line[c].units \in Nat
    BY DEF CheckoutInv, TypeOK, Line
  <2>2. shown \subseteq Nat /\ Total \subseteq Nat
    BY <2>1 DEF Total, CheckoutInv, TypeOK
  <2>3. PICK n \in Nat : Press(i, t, "order", n)
    BY <1>1, <2>2 DEF ClickPickup, ClickDelivery
  <2> QED
    BY <2>3, PressKeeps
<1>2. ASSUME NEW i \in Clicks, NEW t \in Tabs, NEW n \in AddSizes, ClickAdd(i, t, n)
      PROVE  CheckoutInv'
  BY <1>2, PressKeeps, CheckoutAssumption DEF ClickAdd
<1>3. ASSUME NEW i \in Clicks, Receive(i)
      PROVE  CheckoutInv'
  <2>1. CASE att[LastTry(i)].answer = "ok" /\ Settle(i, "success")
    <3>1. click[i].tries \in Tries
      <4>1. click[i].tries \in 0..MaxTries
        BY DEF CheckoutInv, TypeOK, Click
      <4>2. click[i].tries # 0
        BY <1>3 DEF Receive, CheckoutInv, SentInv
      <4> QED
        BY <4>1, <4>2, CheckoutAssumption DEF Tries
    <3>2. LastTry(i) \in Attempts /\ LastTry(i)[1] = i
      BY <3>1, PairType DEF LastTry
    <3> QED
      BY <1>3, <2>1, <3>2, SettleKeeps DEF Receive
  <2>2. CASE Settle(i, "failure")
    BY <1>3, <2>2, SettleKeeps DEF Receive
  <2>3. CASE Failed(i)
    BY <1>3, <2>3, FailedKeeps DEF Receive
  <2> QED
    BY <1>3, <2>1, <2>2, <2>3 DEF Receive
<1>4. ASSUME NEW i \in Clicks, LoseConnection(i)
      PROVE  CheckoutInv'
  BY <1>4, FailedKeeps DEF LoseConnection
<1>5. CASE UNCHANGED vars
  <2>1. UNCHANGED <<cart, line, orders, stored, shown, keys, click, att>>
    BY <1>5 DEF vars, db
  <2>2. TypeOK' /\ KeyInv' /\ SentInv' /\ StoredInv'
    BY <2>1 DEF CheckoutInv, TypeOK, KeyInv, SentInv, StoredInv, Busy, Quiet
  <2>3. TwiceInv' /\ OrderInv' /\ OneOrderPerClickAndCart' /\ AgreedInv' /\ ToldInv'
    BY <2>1 DEF CheckoutInv, TwiceInv, OrderInv, OneOrderPerClickAndCart, AgreedInv,
       ToldInv, Kind, Wanted
  <2> QED
    BY <2>2, <2>3 DEF CheckoutInv
<1> QED
  BY <1>1, <1>2, <1>3, <1>4, <1>5, ExpireKeeps, ServerKeeps, EditLineKeeps DEF Next

LEMMA CheckoutInvariant == Spec => []CheckoutInv
  BY CheckoutInit, CheckoutNext, PTL DEF Spec

-----------------------------------------------------------------------------
\* Every state of the checkout is of the declared type.
THEOREM CheckoutTypes == Spec => []TypeOK
<1>1. CheckoutInv => TypeOK
  BY DEF CheckoutInv
<1> QED
  BY <1>1, CheckoutInvariant, PTL

\* One click does not turn one cart into two orders (idempotencyGuard and
\* createOrderFromCart), however its tries overlap.
THEOREM OneOrderPerClick == Spec => []OneOrderPerClickAndCart
<1>1. CheckoutInv => OneOrderPerClickAndCart
  BY DEF CheckoutInv
<1> QED
  BY <1>1, CheckoutInvariant, PTL

\* A click takes effect twice only after a stored effect was answered with an
\* error (idempotencyGuard, logCartEvent).
THEOREM EffectTwiceOnlyAfterError == Spec => []TwiceOnlyAfterError
<1>1. CheckoutInv => TwiceOnlyAfterError
  <2> SUFFICES ASSUME CheckoutInv, NEW i \in Clicks, NEW j \in Tries, NEW k \in Tries,
                      j < k, <<i, j>> \in stored, <<i, k>> \in stored
               PROVE  att[<<i, j>>].answer = "error" \/ att[<<i, k>>].answer = "error"
    BY DEF TwiceOnlyAfterError
  <2>1. <<i, j>> # <<i, k>>
    BY DEF Tries
  <2> QED
    BY <2>1, PairType DEF CheckoutInv, TwiceInv
<1> QED
  BY <1>1, CheckoutInvariant, PTL

\* An order the customer is told of exists and is of the total it was sent with
\* (handleInitiateCheckout, createOrderFromCart, createOrder).
THEOREM ConfirmationIsTrue == Spec => []ConfirmedOrderExists
<1>1. CheckoutInv => ConfirmedOrderExists
  <2> SUFFICES ASSUME CheckoutInv, NEW i \in Clicks, click[i].kind = "order",
                      click[i].state = "success"
               PROVE  \E p \in orders : p.by[1] = i /\ p.units = click[i].units
    BY DEF ConfirmedOrderExists
  <2>1. PICK x \in Attempts : x[1] = i /\ att[x].answer = "ok"
    BY DEF CheckoutInv, ToldInv
  <2> QED
    BY <2>1 DEF CheckoutInv, AgreedInv, Kind, Wanted
<1> QED
  BY <1>1, CheckoutInvariant, PTL
=============================================================================
