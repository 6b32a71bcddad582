------------------------ MODULE PromotionLoopProofs ------------------------
(***************************************************************************)
(* The loop of promoteWaitlistedOrders computes the rule Waitlist!Promoted,  *)
(* for any number of variants and orders, any stock and any queue.          *)
(***************************************************************************)
EXTENDS PromotionLoop, WaitlistProofs

Fits(P, o, v) == held[v] + Units(P, qty, v) + qty[o][v] <= shelf[v]

Handled == Orders \ (todo \cup {current})

LoopType ==
    /\ shelf \in [Variants -> Nat]
    /\ held \in [Variants -> Nat]
    /\ qty \in [Orders -> Quantities]
    /\ queuedAt \in [Orders -> Nat]
    /\ reserved \in [Variants -> Int]
    /\ todo \in SUBSET Orders
    /\ current \in Orders \cup {0}
    /\ got \in SUBSET Variants
    /\ failed \in BOOLEAN
    /\ promoted \in SUBSET Orders

\* Where the loop stands.
Progress ==
    /\ current \notin todo
    /\ current = 0 => got = {} /\ ~ failed
    /\ current # 0 => got \subseteq Items(qty[current])
    /\ promoted \subseteq Handled

\* The orders not taken yet come after all that were, and the current one after
\* all that are handled.
InOrder ==
    /\ \A o \in Orders \ todo, w \in todo : Ahead(queuedAt, o, w)
    /\ current # 0 => \A p \in Handled : Ahead(queuedAt, p, current)

\* What is reserved beyond what was held: the promoted orders' units and the
\* items the current order got.
Accounted ==
    \A v \in Variants :
      reserved[v] = held[v] + Units(promoted, qty, v) + (IF v \in got THEN qty[current][v] ELSE 0)

\* What was reserved fits on the shelf, item by item.
GotFits ==
    /\ current # 0 => \A v \in got : Fits(promoted, current, v)
    /\ failed => \E v \in Items(qty[current]) : ~ Fits(promoted, current, v)
    /\ \A p \in promoted : \A v \in Items(qty[p]) : held[v] + Units(promoted, qty, v) <= shelf[v]

\* Each order handled and not promoted did not fit behind those ahead of it.
SkippedDidNotFit ==
    \A w \in Handled \ promoted : \E v \in Items(qty[w]) :
      ~ Fits({p \in promoted : Ahead(queuedAt, p, w)}, w, v)

\* A set that obeys the rule agrees with the loop on every order handled.
RuleAgrees ==
    \A P \in SUBSET Orders :
      Promoted(P, Orders, qty, queuedAt, held, shelf) => P \cap Handled = promoted

LoopInv ==
    LoopType /\ Progress /\ InOrder /\ Accounted /\ GotFits /\ SkippedDidNotFit /\ RuleAgrees

-----------------------------------------------------------------------------
LEMMA OrderNumbers == 0 \notin Orders
  BY DEF Orders

LEMMA LoopInit == Init => LoopInv
<1> SUFFICES ASSUME Init PROVE LoopInv
  OBVIOUS
<1>1. LoopType
  <2>1. shelf \in [Variants -> Nat] /\ held \in [Variants -> Nat]
    BY DEF Init
  <2>2. queuedAt \in [Orders -> Nat]
    BY DEF Init
  <2>3. reserved \in [Variants -> Int]
    BY <2>1 DEF Init
  <2>4. qty \in [Orders -> Quantities]
    BY DEF Init
  <2> QED
    BY <2>1, <2>2, <2>3, <2>4 DEF Init, LoopType
<1>2. Handled = {}
  BY DEF Init, Handled
<1>3. Progress /\ InOrder
  BY <1>2, OrderNumbers DEF Init, Progress, InOrder
<1>4. \A v \in Variants : Units(promoted, qty, v) = 0
  <2> TAKE v \in Variants
  <2>1. promoted \in SUBSET Orders /\ qty \in [Orders -> Quantities]
    BY DEF Init
  <2>2. \A o \in promoted : v \notin Items(qty[o])
    BY DEF Init
  <2> QED
    BY <2>1, <2>2, UnitsNone
<1>5. Accounted
  BY <1>1, <1>4 DEF Init, Accounted, LoopType
<1>6. GotFits /\ SkippedDidNotFit /\ RuleAgrees
  BY <1>2 DEF Init, GotFits, SkippedDidNotFit, RuleAgrees
<1> QED
  BY <1>1, <1>3, <1>5, <1>6 DEF LoopInv

-----------------------------------------------------------------------------
\* Steps that promote nobody and finish with no order.
LEMMA SameHandled ==
    ASSUME LoopInv, UNCHANGED <<input, promoted>>, Handled' = Handled
    PROVE  /\ SkippedDidNotFit' /\ RuleAgrees'
           /\ \A P, o, v : Fits(P, o, v)' <=> Fits(P, o, v)
<1>1. shelf' = shelf /\ held' = held /\ qty' = qty /\ queuedAt' = queuedAt /\ promoted' = promoted
  BY DEF input
<1>2. \A P, o, v : Fits(P, o, v)' <=> Fits(P, o, v)
  BY <1>1 DEF Fits
<1>3. SkippedDidNotFit'
  BY <1>1 DEF LoopInv, SkippedDidNotFit, Fits
<1>4. RuleAgrees'
  BY <1>1 DEF LoopInv, RuleAgrees
<1> QED
  BY <1>2, <1>3, <1>4

LEMMA TakeOrderKeeps ==
    ASSUME LoopInv, NEW o \in Orders, TakeOrder(o)
    PROVE  LoopInv'
<1>1. /\ current = 0 /\ o \in todo /\ current' = o /\ got' = {} /\ todo' = todo \ {o}
      /\ UNCHANGED <<input, promoted>> /\ reserved' = reserved /\ failed' = failed
      /\ shelf' = shelf /\ held' = held /\ qty' = qty /\ queuedAt' = queuedAt
      /\ promoted' = promoted
  BY DEF TakeOrder, input
<1>2. LoopType /\ Progress /\ o # 0 /\ o \in Orders
  BY OrderNumbers DEF LoopInv
<1>3. LoopType'
  BY <1>1, <1>2 DEF LoopType
<1>4. Handled' = Handled
  BY <1>1, <1>2, OrderNumbers DEF Handled, LoopType
<1>5. Progress'
  BY <1>1, <1>2, <1>4 DEF Progress
<1>6. InOrder'
  <2>1. ASSUME NEW x \in Orders \ todo', NEW w \in todo'
        PROVE  Ahead(queuedAt, x, w)
    <3>1. CASE x = o
      BY <1>1, <2>1, <3>1 DEF TakeOrder, TakesFirst
    <3>2. CASE x # o
      BY <1>1, <2>1, <3>2 DEF LoopInv, InOrder
    <3> QED
      BY <3>1, <3>2
  <2>2. \A x \in Handled : Ahead(queuedAt, x, o)
    BY <1>1 DEF LoopInv, InOrder, Handled
  <2>3. \A x, w : Ahead(queuedAt', x, w) <=> Ahead(queuedAt, x, w)
    BY <1>1
  <2> QED
    BY <1>1, <1>4, <2>1, <2>2, <2>3 DEF InOrder
<1>7. Accounted'
  BY <1>1, <1>2 DEF LoopInv, Accounted, Progress
<1>8. SkippedDidNotFit' /\ RuleAgrees'
  BY <1>1, <1>4, SameHandled
<1>9. GotFits'
  BY <1>1, <1>2 DEF LoopInv, GotFits, Progress
<1> QED
  BY <1>3, <1>5, <1>6, <1>7, <1>8, <1>9 DEF LoopInv

\* ReserveItem, ReserveFails, UndoItem: the current order stays current.
LEMMA ItemStepKeeps ==
    ASSUME LoopInv, NEW v \in Variants, ReserveItem(v) \/ ReserveFails(v) \/ UndoItem(v)
    PROVE  LoopInv'
<1>1. /\ UNCHANGED <<input, promoted>> /\ todo' = todo /\ current' = current
      /\ shelf' = shelf /\ held' = held /\ qty' = qty /\ queuedAt' = queuedAt
      /\ promoted' = promoted
  BY DEF ReserveItem, ReserveFails, UndoItem, input
<1>2. /\ LoopType /\ Progress /\ Accounted /\ GotFits /\ current # 0 /\ current \in Orders
      /\ Items(qty[current]) \subseteq Variants
  <2>1. current # 0
    BY DEF LoopInv, Progress, ReserveItem, ReserveFails, UndoItem
  <2> QED
    BY <2>1 DEF LoopInv, LoopType, Items
<1>3. \A u \in Variants : /\ qty[current][u] \in Nat /\ Units(promoted, qty, u) \in Nat
                         /\ held[u] \in Nat /\ shelf[u] \in Nat
  BY <1>2, QuantityType, UnitsType DEF LoopType
<1>4. /\ reserved' \in [Variants -> Int]
      /\ got' \in SUBSET Variants /\ failed' \in BOOLEAN
      /\ got' \subseteq Items(qty[current])
  <2>1. got \subseteq Items(qty[current]) /\ qty[current][v] \in Int
    BY <1>2, <1>3 DEF Progress
  <2>2. CASE ReserveItem(v)
    <3>1. /\ v \in Items(qty[current]) /\ got' = got \cup {v} /\ failed' = failed
          /\ reserved' = [reserved EXCEPT ![v] = @ + qty[current][v]]
      BY <2>2 DEF ReserveItem
    <3> QED
      BY <1>2, <2>1, <3>1 DEF LoopType
  <2>3. CASE ReserveFails(v)
    BY <1>2, <2>1, <2>3 DEF ReserveFails, LoopType
  <2>4. CASE UndoItem(v)
    <3>1. /\ got' = got \ {v} /\ failed' = failed
          /\ reserved' = [reserved EXCEPT ![v] = reserved[v] - qty[current][v]]
      BY <2>4 DEF UndoItem, Undone
    <3> QED
      BY <1>2, <2>1, <3>1 DEF LoopType
  <2> QED
    BY <2>2, <2>3, <2>4
<1>5. LoopType' /\ Handled' = Handled /\ Progress' /\ InOrder'
  BY <1>1, <1>2, <1>4 DEF LoopInv, LoopType, Handled, Progress, InOrder
<1>6. Accounted'
  <2> SUFFICES ASSUME NEW u \in Variants
               PROVE  reserved'[u] = held[u] + Units(promoted, qty, u)
                                     + (IF u \in got' THEN qty[current][u] ELSE 0)
    BY <1>1 DEF Accounted
  <2>1. reserved[u] = held[u] + Units(promoted, qty, u)
                      + (IF u \in got THEN qty[current][u] ELSE 0)
    BY <1>2 DEF Accounted
  <2>2. CASE ReserveItem(v)
    <3>1. v \notin got /\ got' = got \cup {v}
          /\ reserved' = [reserved EXCEPT ![v] = @ + qty[current][v]]
      BY <2>2 DEF ReserveItem
    <3> QED
      BY <1>2, <1>3, <2>1, <3>1 DEF LoopType
  <2>3. CASE ReserveFails(v)
    BY <2>1, <2>3 DEF ReserveFails
  <2>4. CASE UndoItem(v)
    <3>1. v \in got /\ got' = got \ {v}
          /\ reserved' = [reserved EXCEPT ![v] = reserved[v] - qty[current][v]]
      BY <2>4 DEF UndoItem, Undone
    <3> QED
      BY <1>2, <1>3, <2>1, <3>1 DEF LoopType
  <2> QED
    BY <2>2, <2>3, <2>4
<1>7. SkippedDidNotFit' /\ RuleAgrees'
  BY <1>1, <1>5, SameHandled
<1>8. GotFits'
  <2>1. \A u \in got' : Fits(promoted, current, u)
    <3>1. CASE ReserveItem(v)
      <4>1. /\ v \notin got /\ got' = got \cup {v}
            /\ reserved[v] + qty[current][v] <= shelf[v]
        BY <3>1 DEF ReserveItem
      <4>2. reserved[v] = held[v] + Units(promoted, qty, v)
        BY <1>2, <1>3, <4>1 DEF Accounted
      <4> QED
        BY <1>2, <4>1, <4>2 DEF GotFits, Fits
    <3>2. CASE ReserveFails(v) \/ UndoItem(v)
      BY <1>2, <3>2 DEF ReserveFails, UndoItem, GotFits
    <3> QED
      BY <3>1, <3>2
  <2>2. ASSUME failed' PROVE \E u \in Items(qty[current]) : ~ Fits(promoted, current, u)
    <3>1. CASE ReserveFails(v)
      <4>1. /\ v \in Items(qty[current]) /\ v \notin got
            /\ reserved[v] + qty[current][v] > shelf[v]
        BY <3>1 DEF ReserveFails
      <4>2. reserved[v] = held[v] + Units(promoted, qty, v)
        BY <1>2, <1>3, <4>1 DEF Accounted
      <4>3. ~ Fits(promoted, current, v)
        BY <1>3, <4>1, <4>2 DEF Fits
      <4> QED
        BY <4>1, <4>3
    <3>2. CASE ReserveItem(v) \/ UndoItem(v)
      BY <1>2, <2>2, <3>2 DEF ReserveItem, UndoItem, GotFits
    <3> QED
      BY <3>1, <3>2
  <2> QED
    BY <1>1, <1>2, <2>1, <2>2 DEF GotFits, Fits
<1> QED
  BY <1>5, <1>6, <1>7, <1>8 DEF LoopInv

-----------------------------------------------------------------------------
\* What a step that finishes with the current order o starts from.
LEMMA Finishing ==
    ASSUME LoopInv, NEW o \in Orders, o = current
    PROVE  /\ o \notin Handled /\ o \notin promoted /\ o # 0
           /\ qty \in [Orders -> Quantities] /\ qty[o] \in Quantities
           /\ promoted \in SUBSET Orders /\ promoted \cup {o} \in SUBSET Orders
           /\ {p \in promoted : Ahead(queuedAt, p, o)} = promoted
           /\ \A w \in Handled : ~ Ahead(queuedAt, o, w)
           /\ \A P \in SUBSET Orders :
                Promoted(P, Orders, qty, queuedAt, held, shelf)
                  => {p \in P : Ahead(queuedAt, p, o)} = promoted
           /\ \A v \in Variants :
                Units(promoted \cup {o}, qty, v) = Units(promoted, qty, v) + qty[o][v]
           /\ \A v \in Variants : /\ held[v] \in Nat /\ shelf[v] \in Nat /\ qty[o][v] \in Nat
                                  /\ Units(promoted, qty, v) \in Nat
<1>1. LoopType /\ Progress /\ InOrder /\ RuleAgrees /\ o # 0
  BY OrderNumbers DEF LoopInv
<1>2. /\ qty \in [Orders -> Quantities] /\ qty[o] \in Quantities
      /\ promoted \in SUBSET Orders /\ promoted \cup {o} \in SUBSET Orders
      /\ o \notin Handled /\ promoted \subseteq Handled /\ o \notin promoted
  BY <1>1 DEF LoopType, Progress, Handled
<1>3. \A p \in Handled : Ahead(queuedAt, p, o)
  BY <1>1 DEF InOrder
<1>4. \A w \in Handled : ~ Ahead(queuedAt, o, w)
  BY <1>1, <1>3, AheadStrict DEF LoopType, Handled
<1>5. \A p \in todo : ~ Ahead(queuedAt, p, o)
  <2> TAKE p \in todo
  <2>1. p \in Orders /\ o \in Orders \ todo
    BY <1>1 DEF LoopType, Progress
  <2>2. Ahead(queuedAt, o, p)
    BY <1>1, <2>1 DEF InOrder
  <2> QED
    BY <1>1, <2>1, <2>2, AheadStrict DEF LoopType
<1>6. {p \in promoted : Ahead(queuedAt, p, o)} = promoted
  BY <1>2, <1>3
<1>7. ~ Ahead(queuedAt, o, o)
  BY <1>1, AheadStrict DEF LoopType
<1>8. ASSUME NEW P \in SUBSET Orders,
             Promoted(P, Orders, qty, queuedAt, held, shelf)
      PROVE  {p \in P : Ahead(queuedAt, p, o)} = promoted
  <2>1. P \cap Handled = promoted
    BY <1>1, <1>8 DEF RuleAgrees
  <2>2. \A p \in P : Ahead(queuedAt, p, o) => p \in Handled
    BY <1>5, <1>7 DEF Handled
  <2> QED
    BY <1>3, <2>1, <2>2
<1>9. \A v \in Variants :
        Units(promoted \cup {o}, qty, v) = Units(promoted, qty, v) + qty[o][v]
  <2> TAKE v \in Variants
  <2>1. Units({o}, qty, v) = qty[o][v]
    BY <1>2, UnitsOne
  <2>2. promoted \cap {o} = {}
    BY <1>2
  <2>3. Units(promoted \cup {o}, qty, v) = Units(promoted, qty, v) + Units({o}, qty, v)
    BY <1>2, <2>2, UnitsUnion
  <2> QED
    BY <2>1, <2>3
<1>10. \A v \in Variants : /\ held[v] \in Nat /\ shelf[v] \in Nat /\ qty[o][v] \in Nat
                           /\ Units(promoted, qty, v) \in Nat
  BY <1>1, <1>2, QuantityType, UnitsType DEF LoopType
<1> QED
  BY <1>1, <1>2, <1>4, <1>6, <1>8, <1>9, <1>10

LEMMA SkipOrderKeeps ==
    ASSUME LoopInv, SkipOrder
    PROVE  LoopInv'
<1>1. /\ failed /\ got = {} /\ failed' = FALSE /\ current' = 0 /\ got' = got /\ todo' = todo
      /\ reserved' = reserved /\ promoted' = promoted
      /\ shelf' = shelf /\ held' = held /\ qty' = qty /\ queuedAt' = queuedAt
  BY DEF SkipOrder, input
<1>2. PICK o \in Orders : o = current
  BY <1>1 DEF LoopInv, LoopType, Progress
<1>3. Handled' = Handled \cup {o}
  BY <1>1, <1>2, OrderNumbers DEF LoopInv, LoopType, Progress, Handled
<1>4. LoopType' /\ Progress' /\ InOrder' /\ Accounted'
  <2>1. LoopType' /\ InOrder'
    BY <1>1 DEF LoopInv, LoopType, InOrder
  <2>2. Progress'
    BY <1>1, <1>2, <1>3, OrderNumbers DEF LoopInv, LoopType, Progress
  <2>3. Accounted'
    BY <1>1 DEF LoopInv, Accounted
  <2> QED
    BY <2>1, <2>2, <2>3
<1>5. GotFits'
  BY <1>1 DEF LoopInv, GotFits
<1>6. PICK v \in Items(qty[o]) : ~ Fits(promoted, o, v)
  BY <1>1, <1>2 DEF LoopInv, GotFits
<1>7. v \in Variants
  BY DEF Items
<1>8. SkippedDidNotFit'
  <2> SUFFICES ASSUME NEW w \in Handled \cup {o}, w \notin promoted
               PROVE  \E u \in Items(qty[w]) :
                        ~ Fits({p \in promoted : Ahead(queuedAt, p, w)}, w, u)
    BY <1>1, <1>3 DEF SkippedDidNotFit, Fits
  <2>1. CASE w = o
    <3>1. {p \in promoted : Ahead(queuedAt, p, o)} = promoted
      BY <1>2, Finishing
    <3>2. ~ Fits({p \in promoted : Ahead(queuedAt, p, o)}, o, v)
      BY <1>6, <3>1
    <3> QED
      BY <1>6, <2>1, <3>2
  <2>2. CASE w # o
    BY <2>2 DEF LoopInv, SkippedDidNotFit
  <2> QED
    BY <2>1, <2>2
<1>9. RuleAgrees'
  <2> SUFFICES ASSUME NEW P \in SUBSET Orders,
                      Promoted(P, Orders, qty, queuedAt, held, shelf)
               PROVE  P \cap (Handled \cup {o}) = promoted
    BY <1>1, <1>3 DEF RuleAgrees
  <2>1. P \cap Handled = promoted
    BY DEF LoopInv, RuleAgrees
  <2>2. ASSUME o \in P PROVE FALSE
    <3>1. held[v] + Units(P, qty, v) <= shelf[v]
      BY <1>6, <2>2 DEF Promoted
    <3>2. promoted \cup {o} \in SUBSET P
      BY <2>1, <2>2
    <3>3. Units(promoted \cup {o}, qty, v) <= Units(P, qty, v)
      BY <3>2, UnitsMonotone
    <3>4. /\ held[v] \in Nat /\ shelf[v] \in Nat /\ qty[o][v] \in Nat
          /\ Units(promoted, qty, v) \in Nat
          /\ Units(promoted \cup {o}, qty, v) = Units(promoted, qty, v) + qty[o][v]
      BY <1>2, <1>7, Finishing
    <3>5. Units(P, qty, v) \in Nat
      BY UnitsType
    <3> QED
      BY <1>6, <3>1, <3>3, <3>4, <3>5 DEF Fits
  <2> QED
    BY <2>1, <2>2
<1> QED
  BY <1>4, <1>5, <1>8, <1>9 DEF LoopInv

LEMMA PromoteOrderKeeps ==
    ASSUME LoopInv, PromoteOrder
    PROVE  LoopInv'
<1>1. /\ current # 0 /\ ~ failed /\ got = Items(qty[current]) /\ current' = 0 /\ got' = {}
      /\ promoted' = promoted \cup {current} /\ todo' = todo
      /\ reserved' = reserved /\ failed' = failed
      /\ shelf' = shelf /\ held' = held /\ qty' = qty /\ queuedAt' = queuedAt
  BY DEF PromoteOrder, input
<1>2. PICK o \in Orders : o = current
  BY <1>1 DEF LoopInv, LoopType
<1>3. Handled' = Handled \cup {o}
  BY <1>1, <1>2, OrderNumbers DEF LoopInv, LoopType, Progress, Handled
<1>4. promoted' = promoted \cup {o} /\ promoted \subseteq Handled /\ promoted' \in SUBSET Orders
  BY <1>1, <1>2 DEF LoopInv, LoopType, Progress
<1>5. LoopType' /\ Progress' /\ InOrder'
  <2>1. LoopType' /\ InOrder'
    BY <1>1, <1>4 DEF LoopInv, LoopType, InOrder
  <2>2. Progress'
    BY <1>1, <1>2, <1>3, <1>4, OrderNumbers DEF LoopInv, LoopType, Progress
  <2> QED
    BY <2>1, <2>2
<1>6. Accounted'
  <2> SUFFICES ASSUME NEW v \in Variants
               PROVE  reserved[v] = held[v] + Units(promoted \cup {o}, qty, v) + 0
    BY <1>1, <1>4 DEF Accounted
  <2>1. reserved[v] = held[v] + Units(promoted, qty, v) + (IF v \in got THEN qty[o][v] ELSE 0)
    BY <1>2 DEF LoopInv, Accounted
  <2>2. v \notin got => qty[o][v] = 0
    <3>1. qty[o][v] \in Nat
      BY <1>2, Finishing
    <3>2. v \notin got => ~ (qty[o][v] > 0)
      BY <1>1, <1>2 DEF Items
    <3> QED
      BY <3>1, <3>2
  <2> QED
    BY <1>2, <2>1, <2>2, Finishing
<1>7. \A v \in Items(qty[o]) : v \in Variants /\ Fits(promoted, o, v)
  BY <1>1, <1>2 DEF LoopInv, GotFits, Items
<1>8. GotFits'
  <2> SUFFICES ASSUME NEW p \in promoted \cup {o}, NEW v \in Items(qty[p])
               PROVE  held[v] + Units(promoted \cup {o}, qty, v) <= shelf[v]
    BY <1>1, <1>4 DEF GotFits
  <2>1. v \in Variants
    BY DEF Items
  <2>2. /\ Units(promoted \cup {o}, qty, v) = Units(promoted, qty, v) + qty[o][v]
        /\ held[v] \in Nat /\ shelf[v] \in Nat /\ qty[o][v] \in Nat
        /\ Units(promoted, qty, v) \in Nat
    BY <1>2, <2>1, Finishing
  <2>3. CASE v \in Items(qty[o])
    BY <1>7, <2>2, <2>3 DEF Fits
  <2>4. CASE v \notin Items(qty[o])
    <3>1. qty[o][v] = 0 /\ p \in promoted
      BY <2>1, <2>2, <2>4 DEF Items
    <3>2. held[v] + Units(promoted, qty, v) <= shelf[v]
      BY <3>1 DEF LoopInv, GotFits
    <3> QED
      BY <2>2, <3>1, <3>2
  <2> QED
    BY <2>3, <2>4
<1>9. SkippedDidNotFit'
  <2> SUFFICES ASSUME NEW w \in Handled \cup {o}, w \notin promoted \cup {o}
               PROVE  \E u \in Items(qty[w]) :
                        ~ Fits({p \in promoted \cup {o} : Ahead(queuedAt, p, w)}, w, u)
    BY <1>1, <1>3, <1>4 DEF SkippedDidNotFit, Fits
  <2>1. w \in Handled \ promoted
    OBVIOUS
  <2>2. {p \in promoted \cup {o} : Ahead(queuedAt, p, w)}
          = {p \in promoted : Ahead(queuedAt, p, w)}
    BY <1>2, <2>1, Finishing
  <2>3. \E u \in Items(qty[w]) : ~ Fits({p \in promoted : Ahead(queuedAt, p, w)}, w, u)
    BY <2>1 DEF LoopInv, SkippedDidNotFit
  <2> QED
    BY <2>2, <2>3
<1>10. RuleAgrees'
  <2> SUFFICES ASSUME NEW P \in SUBSET Orders,
                      Promoted(P, Orders, qty, queuedAt, held, shelf)
               PROVE  P \cap (Handled \cup {o}) = promoted \cup {o}
    BY <1>1, <1>3, <1>4 DEF RuleAgrees
  <2>1. P \cap Handled = promoted
    BY DEF LoopInv, RuleAgrees
  <2>2. ASSUME o \notin P PROVE FALSE
    <3>1. PICK v \in Items(qty[o]) :
            held[v] + Units({p \in P : Ahead(queuedAt, p, o)}, qty, v) + qty[o][v] > shelf[v]
      BY <2>2 DEF Promoted
    <3>2. {p \in P : Ahead(queuedAt, p, o)} = promoted
      BY <1>2, Finishing
    <3>3. held[v] + Units(promoted, qty, v) + qty[o][v] > shelf[v]
      BY <3>1, <3>2
    <3>4. v \in Variants /\ held[v] + Units(promoted, qty, v) + qty[o][v] <= shelf[v]
      BY <1>7 DEF Fits
    <3>5. /\ held[v] \in Nat /\ shelf[v] \in Nat /\ qty[o][v] \in Nat
          /\ Units(promoted, qty, v) \in Nat
      BY <1>2, <3>4, Finishing
    <3> QED
      BY <3>3, <3>4, <3>5
  <2> QED
    BY <2>1, <2>2
<1> QED
  BY <1>5, <1>6, <1>8, <1>9, <1>10 DEF LoopInv

-----------------------------------------------------------------------------
LEMMA LoopNext == LoopInv /\ [Next]_vars => LoopInv'
<1> SUFFICES ASSUME LoopInv, [Next]_vars PROVE LoopInv'
  OBVIOUS
<1>1. CASE \E o \in Orders : TakeOrder(o)
  BY <1>1, TakeOrderKeeps
<1>2. CASE \E v \in Variants : ReserveItem(v) \/ ReserveFails(v) \/ UndoItem(v)
  BY <1>2, ItemStepKeeps
<1>3. CASE SkipOrder
  BY <1>3, SkipOrderKeeps
<1>4. CASE PromoteOrder
  BY <1>4, PromoteOrderKeeps
<1>5. CASE UNCHANGED vars
  <2>1. /\ shelf' = shelf /\ held' = held /\ qty' = qty /\ queuedAt' = queuedAt
        /\ reserved' = reserved /\ todo' = todo /\ current' = current /\ got' = got
        /\ failed' = failed /\ promoted' = promoted
    BY <1>5 DEF vars
  <2>2. LoopType' /\ Progress' /\ InOrder' /\ Accounted'
    BY <2>1 DEF LoopInv, LoopType, Progress, InOrder, Accounted, Handled
  <2>3. GotFits' /\ SkippedDidNotFit' /\ RuleAgrees'
    BY <2>1 DEF LoopInv, GotFits, SkippedDidNotFit, RuleAgrees, Handled, Fits
  <2> QED
    BY <2>2, <2>3 DEF LoopInv
<1> QED
  BY <1>1, <1>2, <1>3, <1>4, <1>5 DEF Next

LEMMA LoopInvHolds == Spec => []LoopInv
  BY LoopInit, LoopNext, PTL DEF Spec

\* Between two orders exactly the promoted orders' units were added: an order
\* that is skipped leaves nothing reserved.
THEOREM NothingLeftReserved == Spec => []ReservedForPromoted
<1>1. LoopInv => ReservedForPromoted
  <2> SUFFICES ASSUME LoopInv, current = 0, NEW v \in Variants
               PROVE  reserved[v] = held[v] + Units(promoted, qty, v)
    BY DEF ReservedForPromoted
  <2>1. v \notin got
    BY DEF LoopInv, Progress
  <2>2. reserved[v] = held[v] + Units(promoted, qty, v) + 0
    BY <2>1 DEF LoopInv, Accounted
  <2>3. held[v] \in Nat /\ Units(promoted, qty, v) \in Nat
    BY UnitsType DEF LoopInv, LoopType
  <2> QED
    BY <2>2, <2>3
<1> QED
  BY <1>1, LoopInvHolds, PTL

\* The loop promotes the orders the rule names, and the rule names one set.
THEOREM LoopImplementsRule == Spec => []LoopComputesRule
<1>1. LoopInv => LoopComputesRule
  <2> SUFFICES ASSUME LoopInv, todo = {}, current = 0, NEW P \in SUBSET Orders
               PROVE  Promoted(P, Orders, qty, queuedAt, held, shelf) <=> P = promoted
    BY DEF LoopComputesRule, Done
  <2>1. Handled = Orders
    BY OrderNumbers DEF Handled
  <2>2. ASSUME Promoted(P, Orders, qty, queuedAt, held, shelf) PROVE P = promoted
    BY <2>1, <2>2 DEF LoopInv, RuleAgrees
  <2>3. Promoted(promoted, Orders, qty, queuedAt, held, shelf)
    <3>1. \A p \in promoted : \A v \in Items(qty[p]) :
            held[v] + Units(promoted, qty, v) <= shelf[v]
      BY DEF LoopInv, GotFits
    <3>2. ASSUME NEW w \in Orders \ promoted
          PROVE  \E v \in Items(qty[w]) :
                   held[v] + Units({p \in promoted : Ahead(queuedAt, p, w)}, qty, v) + qty[w][v]
                     > shelf[v]
      <4> DEFINE S == {p \in promoted : Ahead(queuedAt, p, w)}
      <4>1. PICK v \in Items(qty[w]) : ~ Fits(S, w, v)
        BY <2>1, <3>2 DEF LoopInv, SkippedDidNotFit
      <4>2. v \in Variants /\ S \in SUBSET Orders
        BY DEF Items, LoopInv, LoopType
      <4>3. /\ held[v] \in Nat /\ shelf[v] \in Nat /\ qty[w][v] \in Nat
            /\ Units(S, qty, v) \in Nat
        BY <4>2, QuantityType, UnitsType DEF LoopInv, LoopType
      <4> HIDE DEF S
      <4>4. held[v] + Units(S, qty, v) + qty[w][v] > shelf[v]
        BY <4>1, <4>3 DEF Fits
      <4> QED
        BY <4>4 DEF S
    <3> QED
      BY <3>1, <3>2 DEF Promoted
  <2> QED
    BY <2>2, <2>3
<1> QED
  BY <1>1, LoopInvHolds, PTL
=============================================================================
