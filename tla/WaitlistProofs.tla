--------------------------- MODULE WaitlistProofs ---------------------------
(***************************************************************************)
(* How units of stock add up.  Units is a cardinality, so these facts are    *)
(* about disjoint unions of finite sets and need no induction.              *)
(***************************************************************************)
EXTENDS Waitlist, FiniteSetTheorems, WellFoundedInduction, TLAPS

\* Units counts something finite.
LEMMA UnitsType ==
    ASSUME NEW S \in SUBSET Orders, NEW q, NEW v
    PROVE  IsFiniteSet(UnitSet(S, q, v)) /\ Units(S, q, v) \in Nat
<1>1. IsFiniteSet(Orders) /\ IsFiniteSet(1..MaxQty)
  BY FS_Interval, WaitlistAssumption DEF Orders
<1>2. IsFiniteSet(S)
  BY <1>1, FS_Subset
<1>3. IsFiniteSet(S \X (1..MaxQty))
  BY <1>1, <1>2, FS_Product
<1>4. UnitSet(S, q, v) \subseteq S \X (1..MaxQty)
  BY DEF UnitSet
<1>5. IsFiniteSet(UnitSet(S, q, v))
  BY <1>3, <1>4, FS_Subset
<1> QED
  BY <1>5, FS_CardinalityType DEF Units

LEMMA QuantityType ==
    ASSUME NEW q \in Quantities, NEW v \in Variants
    PROVE  q[v] \in Nat /\ q[v] <= MaxQty
  BY WaitlistAssumption DEF Quantities

\* Orders without an item of v have no unit of v.
LEMMA UnitsNone ==
    ASSUME NEW S \in SUBSET Orders, NEW q \in [Orders -> Quantities], NEW v \in Variants,
           \A o \in S : v \notin Items(q[o])
    PROVE  Units(S, q, v) = 0
<1>1. ASSUME NEW u \in UnitSet(S, q, v)
      PROVE  FALSE
  <2>1. u[1] \in S /\ u[2] \in 1..MaxQty /\ u[2] <= q[u[1]][v]
    BY <1>1 DEF UnitSet
  <2>2. q[u[1]][v] \in Nat
    BY <2>1, QuantityType
  <2>3. q[u[1]][v] = 0
    BY <2>1, <2>2 DEF Items
  <2> QED
    BY <2>1, <2>3
<1>2. UnitSet(S, q, v) = {}
  BY <1>1
<1> QED
  BY <1>2, FS_EmptySet DEF Units

\* Orders that agree on their quantities have as many units.
LEMMA UnitsSame ==
    ASSUME NEW S \in SUBSET Orders, NEW p, NEW q, NEW v \in Variants,
           \A o \in S : p[o] = q[o]
    PROVE  Units(S, p, v) = Units(S, q, v)
<1>1. UnitSet(S, p, v) = UnitSet(S, q, v)
  BY DEF UnitSet
<1> QED
  BY <1>1 DEF Units

\* The units of two sets of orders that share none add up.
LEMMA UnitsUnion ==
    ASSUME NEW S \in SUBSET Orders, NEW T \in SUBSET Orders, S \cap T = {},
           NEW q, NEW v
    PROVE  Units(S \cup T, q, v) = Units(S, q, v) + Units(T, q, v)
<1> DEFINE A == UnitSet(S, q, v)
           B == UnitSet(T, q, v)
<1>1. IsFiniteSet(A) /\ IsFiniteSet(B) /\ Cardinality(A) \in Nat /\ Cardinality(B) \in Nat
  BY UnitsType DEF Units
<1>2. A \cap B = {}
  BY DEF UnitSet
<1>3. UnitSet(S \cup T, q, v) = A \cup B
  BY DEF UnitSet
<1> HIDE DEF A, B
<1>4. Cardinality(A \cup B) = Cardinality(A) + Cardinality(B) - Cardinality(A \cap B)
  BY <1>1, FS_Union
<1>5. Cardinality(A \cap B) = 0
  BY <1>2, FS_EmptySet
<1>6. Cardinality(A \cup B) = Cardinality(A) + Cardinality(B)
  BY <1>1, <1>4, <1>5
<1> QED
  BY <1>3, <1>6 DEF Units, A, B

\* One order has the units its item says.
LEMMA UnitsOne ==
    ASSUME NEW o \in Orders, NEW q, q[o] \in Quantities, NEW v \in Variants
    PROVE  Units({o}, q, v) = q[o][v]
<1> DEFINE n == q[o][v]
<1>1. n \in Nat /\ n <= MaxQty /\ MaxQty \in Nat
  BY QuantityType, WaitlistAssumption
<1>2. UnitSet({o}, q, v) = {o} \X (1..n)
  BY <1>1 DEF UnitSet
<1> HIDE DEF n
<1>3. IsFiniteSet(1..n) /\ Cardinality(1..n) = IF 1 > n THEN 0 ELSE n - 1 + 1
  BY <1>1, FS_Interval
<1>4. Cardinality(1..n) = n
  BY <1>1, <1>3
<1>5. IsFiniteSet({o}) /\ Cardinality({o}) = 1
  BY FS_Singleton
<1>6. Cardinality({o} \X (1..n)) = Cardinality({o}) * Cardinality(1..n)
  BY <1>3, <1>5, FS_Product
<1>7. Cardinality({o} \X (1..n)) = n
  BY <1>1, <1>4, <1>5, <1>6
<1>8. Units({o}, q, v) = n
  BY <1>2, <1>7 DEF Units
<1> QED
  BY <1>8 DEF n

\* An order that joins brings its units, whatever it was quoted before.
LEMMA UnitsAdd ==
    ASSUME NEW S \in SUBSET Orders, NEW o \in Orders, o \notin S, NEW p, NEW q,
           q[o] \in Quantities, \A x \in S : p[x] = q[x], NEW v \in Variants
    PROVE  Units(S \cup {o}, q, v) = Units(S, p, v) + q[o][v]
<1>1. Units(S \cup {o}, q, v) = Units(S, q, v) + Units({o}, q, v)
  BY UnitsUnion
<1>2. Units({o}, q, v) = q[o][v]
  BY UnitsOne
<1>3. Units(S, p, v) = Units(S, q, v)
  BY UnitsSame
<1> QED
  BY <1>1, <1>2, <1>3

\* The same, of one vector of quantities.
LEMMA UnitsJoin ==
    ASSUME NEW S \in SUBSET Orders, NEW o \in Orders, o \notin S,
           NEW q \in [Orders -> Quantities], NEW v \in Variants
    PROVE  Units(S \cup {o}, q, v) = Units(S, q, v) + q[o][v]
<1>1. Units(S \cup {o}, q, v) = Units(S, q, v) + Units({o}, q, v)
  BY UnitsUnion
<1>2. q[o] \in Quantities
  OBVIOUS
<1>3. Units({o}, q, v) = q[o][v]
  BY <1>2, UnitsOne
<1> QED
  BY <1>1, <1>3

\* An order that leaves takes its units.
LEMMA UnitsRemove ==
    ASSUME NEW S \in SUBSET Orders, NEW o \in S, NEW q, q[o] \in Quantities,
           NEW v \in Variants
    PROVE  /\ Units(S \ {o}, q, v) = Units(S, q, v) - q[o][v]
           /\ q[o][v] <= Units(S, q, v)
<1>1. Units((S \ {o}) \cup {o}, q, v) = Units(S \ {o}, q, v) + q[o][v]
  BY UnitsAdd
<1>2. Units(S, q, v) = Units(S \ {o}, q, v) + q[o][v]
  <2>1. (S \ {o}) \cup {o} = S
    OBVIOUS
  <2> QED
    BY <1>1, <2>1
<1>3. Units(S \ {o}, q, v) \in Nat
  BY UnitsType
<1>4. q[o][v] \in Nat
  BY QuantityType
<1> QED
  BY <1>2, <1>3, <1>4

\* More orders have no fewer units.
LEMMA UnitsMonotone ==
    ASSUME NEW T \in SUBSET Orders, NEW S \in SUBSET T, NEW q, NEW v
    PROVE  Units(S, q, v) <= Units(T, q, v)
<1>1. Units(S \cup (T \ S), q, v) = Units(S, q, v) + Units(T \ S, q, v)
  BY UnitsUnion
<1>2. S \cup (T \ S) = T
  OBVIOUS
<1>3. Units(T, q, v) = Units(S, q, v) + Units(T \ S, q, v)
  BY <1>1, <1>2
<1>4. Units(S, q, v) \in Nat /\ Units(T \ S, q, v) \in Nat
  BY UnitsType
<1> QED
  BY <1>3, <1>4

-----------------------------------------------------------------------------
(* The queue, and the rule of promotion.                                    *)

\* The order of the queue is strict.
LEMMA AheadStrict ==
    ASSUME NEW at \in [Orders -> Nat], NEW o \in Orders, NEW w \in Orders, Ahead(at, o, w)
    PROVE  o # w /\ ~ Ahead(at, w, o)
<1>1. at[o] \in Nat /\ at[w] \in Nat /\ o \in Nat /\ w \in Nat
  BY WaitlistAssumption DEF Orders
<1> QED
  BY <1>1 DEF Ahead

LEMMA LeastNatural ==
    ASSUME NEW T \in SUBSET Nat, T # {}
    PROVE  \E n \in T : \A m \in T : n <= m
<1> DEFINE R == OpToRel(<, Nat)
<1>1. IsWellFoundedOn(R, Nat)
  BY NatLessThanWellFounded
<1>2. PICK n \in T : \A m \in T : <<m, n>> \notin R
  <2> HIDE DEF R
  <2> QED
    BY <1>1, WFMin
<1>3. \A m \in T : ~ (m < n)
  BY <1>2 DEF OpToRel
<1> QED
  BY <1>3

\* A queue that is not empty has a first order, and only one.
LEMMA FirstInQueue ==
    ASSUME NEW at \in [Orders -> Nat], NEW S \in SUBSET Orders, S # {}
    PROVE  \E w \in S : \A p \in S \ {w} : Ahead(at, w, p) /\ ~ Ahead(at, p, w)
<1>1. \A o \in Orders : at[o] \in Nat /\ o \in Nat
  BY DEF Orders
<1>2. PICK n \in {at[p] : p \in S} : \A m \in {at[p] : p \in S} : n <= m
  <2>1. {at[p] : p \in S} \in SUBSET Nat /\ {at[p] : p \in S} # {}
    BY <1>1
  <2> QED
    BY <2>1, LeastNatural
<1> DEFINE T == {p \in S : at[p] = n}
<1>3. PICK w \in T : \A p \in T : w <= p
  <2>1. T \in SUBSET Nat /\ T # {}
    BY <1>1, <1>2
  <2> QED
    BY <2>1, LeastNatural
<1>4. ASSUME NEW p \in S \ {w}
      PROVE  Ahead(at, w, p)
  <2>1. w \in S /\ at[w] = n /\ n <= at[p] /\ at[p] \in Nat /\ p \in Nat /\ w \in Nat
    BY <1>1, <1>2, <1>3, <1>4
  <2>2. at[p] = n => w <= p
    BY <1>3, <1>4
  <2> QED
    BY <2>1, <2>2, <1>4 DEF Ahead
<1> QED
  BY <1>3, <1>4, AheadStrict

\* The rule never names two sets: where two that satisfy it first differ, the
\* order that only one of them has would have fitted in the other.
LEMMA PromotionUnique ==
    ASSUME NEW W \in SUBSET Orders, NEW q \in [Orders -> Quantities],
           NEW at \in [Orders -> Nat], NEW held \in [Variants -> Nat],
           NEW shelf \in [Variants -> Nat],
           NEW P \in SUBSET W, Promoted(P, W, q, at, held, shelf),
           NEW Q \in SUBSET W, Promoted(Q, W, q, at, held, shelf)
    PROVE  P = Q
<1>1. ASSUME NEW A \in SUBSET W, Promoted(A, W, q, at, held, shelf),
             NEW B \in SUBSET W, Promoted(B, W, q, at, held, shelf),
             NEW w \in A \ B,
             \A x \in Orders : Ahead(at, x, w) => (x \in A <=> x \in B)
      PROVE  FALSE
  <2> DEFINE S == {x \in B : Ahead(at, x, w)}
  <2>1. PICK v \in Items(q[w]) : held[v] + Units(S, q, v) + q[w][v] > shelf[v]
    BY <1>1 DEF Promoted
  <2>2. held[v] + Units(A, q, v) <= shelf[v]
    BY <1>1 DEF Promoted
  <2>3. S \cup {w} \subseteq A /\ w \notin S /\ S \in SUBSET Orders /\ v \in Variants
    BY <1>1, AheadStrict DEF Items
  <2> HIDE DEF S
  <2>4. Units(S \cup {w}, q, v) = Units(S, q, v) + q[w][v]
    <3>1. w \in Orders /\ q[w] \in Quantities
      OBVIOUS
    <3> QED
      BY <2>3, <3>1, UnitsJoin
  <2>5. Units(S \cup {w}, q, v) <= Units(A, q, v)
    BY <2>3, UnitsMonotone
  <2>6. /\ held[v] \in Nat /\ shelf[v] \in Nat /\ q[w][v] \in Nat
        /\ Units(S, q, v) \in Nat /\ Units(A, q, v) \in Nat
    BY <2>3, UnitsType, QuantityType
  <2> QED
    BY <2>1, <2>2, <2>4, <2>5, <2>6
<1>2. ASSUME P # Q
      PROVE  FALSE
  <2> DEFINE D == (P \ Q) \cup (Q \ P)
  <2>1. D \in SUBSET Orders /\ D # {}
    BY <1>2
  <2>2. PICK w \in D : \A x \in D \ {w} : ~ Ahead(at, x, w)
    BY <2>1, FirstInQueue
  <2>3. \A x \in Orders : Ahead(at, x, w) => (x \in P <=> x \in Q)
    BY <2>1, <2>2, AheadStrict
  <2>4. CASE w \in P \ Q
    BY <2>3, <2>4, <1>1
  <2>5. CASE w \in Q \ P
    BY <2>3, <2>5, <1>1
  <2> QED
    BY <2>2, <2>4, <2>5
<1> QED
  BY <1>2

\* What is held once w is promoted.
WithOrder(held, q, w) == [v \in Variants |-> held[v] + q[w][v]]

\* The first order of a queue, and what the rule says of the others, give what
\* it says of all: it is promoted if it fits, and its units are then held.
LEMMA PromotionFirst ==
    ASSUME NEW W \in SUBSET Orders, NEW q \in [Orders -> Quantities],
           NEW at \in [Orders -> Nat], NEW held \in [Variants -> Nat],
           NEW shelf \in [Variants -> Nat],
           NEW w \in W, \A p \in W \ {w} : Ahead(at, w, p) /\ ~ Ahead(at, p, w),
           \A v \in Items(q[w]) : WithOrder(held, q, w)[v] <= shelf[v],
           NEW R \in SUBSET (W \ {w}),
           Promoted(R, W \ {w}, q, at, WithOrder(held, q, w), shelf)
    PROVE  Promoted(R \cup {w}, W, q, at, held, shelf)
<1> DEFINE P == R \cup {w}
           got == WithOrder(held, q, w)
<1>1. w \in Orders /\ q[w] \in Quantities /\ w \notin R /\ R \in SUBSET Orders
  OBVIOUS
<1>2. \A v \in Variants : /\ held[v] \in Nat /\ shelf[v] \in Nat /\ q[w][v] \in Nat
                         /\ got[v] = held[v] + q[w][v]
  BY <1>1, QuantityType DEF WithOrder
<1>3. ASSUME NEW S \in SUBSET R, NEW v \in Variants
      PROVE  Units(S \cup {w}, q, v) = Units(S, q, v) + q[w][v] /\ Units(S, q, v) \in Nat
  <2>1. S \in SUBSET Orders /\ w \notin S
    BY <1>1
  <2>2. S \cap {w} = {} /\ {w} \in SUBSET Orders
    BY <1>1, <2>1
  <2>3. Units(S \cup {w}, q, v) = Units(S, q, v) + Units({w}, q, v)
    BY <2>1, <2>2, UnitsUnion
  <2>4. Units({w}, q, v) = q[w][v]
    BY <1>1, UnitsOne
  <2> QED
    BY <2>1, <2>3, <2>4, UnitsType
<1>4. ASSUME NEW p \in P, NEW v \in Items(q[p])
      PROVE  held[v] + Units(P, q, v) <= shelf[v]
  <2>1. v \in Variants
    BY DEF Items
  <2>2. Units(P, q, v) = Units(R, q, v) + q[w][v] /\ Units(R, q, v) \in Nat
    BY <2>1, <1>3
  <2>3. CASE \E x \in R : v \in Items(q[x])
    <3>1. got[v] + Units(R, q, v) <= shelf[v]
      BY <2>3 DEF Promoted
    <3> QED
      BY <3>1, <2>1, <2>2, <1>2
  <2>4. CASE \A x \in R : v \notin Items(q[x])
    <3>1. Units(R, q, v) = 0
      BY <2>1, <2>4, <1>1, UnitsNone
    <3>2. p = w
      BY <2>4
    <3> QED
      BY <3>1, <3>2, <2>1, <2>2, <1>2
  <2> QED
    BY <2>3, <2>4
<1>5. ASSUME NEW x \in W \ P
      PROVE  \E v \in Items(q[x]) :
               held[v] + Units({p \in P : Ahead(at, p, x)}, q, v) + q[x][v] > shelf[v]
  <2> DEFINE S == {p \in R : Ahead(at, p, x)}
  <2>1. PICK v \in Items(q[x]) : got[v] + Units(S, q, v) + q[x][v] > shelf[v]
    BY DEF Promoted
  <2>2. {p \in P : Ahead(at, p, x)} = S \cup {w}
    OBVIOUS
  <2>3. v \in Variants /\ S \in SUBSET R
    BY DEF Items
  <2> HIDE DEF S
  <2>4. Units(S \cup {w}, q, v) = Units(S, q, v) + q[w][v] /\ Units(S, q, v) \in Nat
    BY <1>3, <2>3
  <2>5. q[x][v] \in Nat
    <3>1. q[x] \in Quantities
      OBVIOUS
    <3> QED
      BY <3>1, <2>3, QuantityType
  <2>6. held[v] + Units(S \cup {w}, q, v) + q[x][v] > shelf[v]
    BY <2>1, <2>3, <2>4, <2>5, <1>2
  <2> QED
    BY <2>2, <2>6
<1> QED
  BY <1>4, <1>5 DEF Promoted

\* An order that does not fit, and is first, changes nothing for the others.
LEMMA PromotionSkipped ==
    ASSUME NEW W \in SUBSET Orders, NEW q \in [Orders -> Quantities],
           NEW at \in [Orders -> Nat], NEW held \in [Variants -> Nat],
           NEW shelf \in [Variants -> Nat],
           NEW w \in W, \A p \in W \ {w} : Ahead(at, w, p) /\ ~ Ahead(at, p, w),
           NEW v \in Items(q[w]), ~ (WithOrder(held, q, w)[v] <= shelf[v]),
           NEW P \in SUBSET (W \ {w}), Promoted(P, W \ {w}, q, at, held, shelf)
    PROVE  Promoted(P, W, q, at, held, shelf)
<1>1. v \in Variants /\ q[w] \in Quantities
  BY DEF Items
<1>2. held[v] \in Nat /\ shelf[v] \in Nat /\ q[w][v] \in Nat
  BY <1>1, QuantityType
<1>3. {p \in P : Ahead(at, p, w)} = {}
  OBVIOUS
<1>4. Units({}, q, v) = 0
  BY <1>1, UnitsNone
<1>5. held[v] + Units({}, q, v) + q[w][v] > shelf[v]
  BY <1>1, <1>2, <1>4 DEF WithOrder
<1>6. held[v] + Units({p \in P : Ahead(at, p, w)}, q, v) + q[w][v] > shelf[v]
  BY <1>3, <1>5
<1> QED
  BY <1>6 DEF Promoted

\* Whoever waits and however little is free, the rule of promotion names exactly
\* one set of orders: a rejection is never held up by its promotion, and has
\* one outcome.  The argument is an induction on the queue, as the absence of a
\* shortest queue without an answer.
THEOREM PromotionIsDetermined ==
    ASSUME NEW W \in SUBSET Orders, NEW q \in [Orders -> Quantities],
           NEW at \in [Orders -> Nat], NEW held \in [Variants -> Nat],
           NEW shelf \in [Variants -> Nat]
    PROVE  \E P \in SUBSET W : \A Q \in SUBSET W :
             Promoted(Q, W, q, at, held, shelf) <=> Q = P
<1> DEFINE Answered(V, h) == \E P \in SUBSET V : Promoted(P, V, q, at, h, shelf)
           Bad == {n \in Nat : \E V \in SUBSET Orders, h \in [Variants -> Nat] :
                                 Cardinality(V) = n /\ ~ Answered(V, h)}
<1>1. \A V \in SUBSET Orders : IsFiniteSet(V) /\ Cardinality(V) \in Nat
  <2>1. IsFiniteSet(Orders)
    BY FS_Interval, WaitlistAssumption DEF Orders
  <2> QED
    BY <2>1, FS_Subset, FS_CardinalityType
<1>2. ASSUME Bad # {}
      PROVE  FALSE
  <2>1. PICK n \in Bad : \A m \in Bad : n <= m
    <3>1. Bad \in SUBSET Nat
      OBVIOUS
    <3> HIDE DEF Bad
    <3> QED
      BY <1>2, <3>1, LeastNatural
  <2>2. PICK V \in SUBSET Orders, h \in [Variants -> Nat] :
          Cardinality(V) = n /\ ~ Answered(V, h)
    BY <2>1
  <2>3. V # {}
    <3>1. Promoted({}, {}, q, at, h, shelf)
      BY DEF Promoted
    <3> QED
      BY <2>2, <3>1
  <2>4. PICK w \in V : \A p \in V \ {w} : Ahead(at, w, p) /\ ~ Ahead(at, p, w)
    BY <2>3, FirstInQueue
  <2>5. Cardinality(V \ {w}) = n - 1 /\ V \ {w} \in SUBSET Orders
    BY <1>1, <2>2, <2>4, FS_RemoveElement
  <2>6. ASSUME NEW g \in [Variants -> Nat]
        PROVE  Answered(V \ {w}, g)
    <3> HIDE DEF Answered
    <3>1. n - 1 \in Nat /\ n \in Nat
      BY <1>1, <2>5
    <3>2. n - 1 \notin Bad
      <4> HIDE DEF Bad
      <4> QED
        BY <2>1, <3>1
    <3> QED
      BY <2>5, <3>1, <3>2
  <2>7. WithOrder(h, q, w) \in [Variants -> Nat]
    <3>1. q[w] \in Quantities
      BY <2>2, <2>4
    <3>2. \A v \in Variants : h[v] \in Nat /\ q[w][v] \in Nat
      BY <3>1, <2>2, QuantityType
    <3> QED
      BY <3>2 DEF WithOrder
  <2>8. CASE \A v \in Items(q[w]) : WithOrder(h, q, w)[v] <= shelf[v]
    <3>1. PICK R \in SUBSET (V \ {w}) :
            Promoted(R, V \ {w}, q, at, WithOrder(h, q, w), shelf)
      BY <2>6, <2>7
    <3>2. Promoted(R \cup {w}, V, q, at, h, shelf)
      BY <2>2, <2>4, <2>8, <3>1, PromotionFirst
    <3> QED
      BY <2>2, <2>4, <3>1, <3>2
  <2>9. CASE \E v \in Items(q[w]) : ~ (WithOrder(h, q, w)[v] <= shelf[v])
    <3>1. PICK P \in SUBSET (V \ {w}) : Promoted(P, V \ {w}, q, at, h, shelf)
      BY <2>2, <2>6
    <3>2. Promoted(P, V, q, at, h, shelf)
      BY <2>2, <2>4, <2>9, <3>1, PromotionSkipped
    <3> QED
      BY <2>2, <3>1, <3>2
  <2> QED
    BY <2>8, <2>9
<1>3. PICK P \in SUBSET W : Promoted(P, W, q, at, held, shelf)
  BY <1>1, <1>2
<1>4. \A Q \in SUBSET W : Promoted(Q, W, q, at, held, shelf) => Q = P
  BY <1>3, PromotionUnique
<1> QED
  BY <1>3, <1>4
=============================================================================
