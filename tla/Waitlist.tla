------------------------------ MODULE Waitlist ------------------------------
(***************************************************************************)
(* Quantities of stock, and the rule by which stock that becomes free goes   *)
(* to waitlisted orders.  No state: OrderFulfilment uses these operators on  *)
(* its own, and PromotionLoop shows that the code's loop computes the rule.  *)
(***************************************************************************)
EXTENDS Naturals, FiniteSets

CONSTANTS
    Variants,       \* product variants, the unit of stock
    MaxOrders,      \* bound: orders ever placed
    MaxQty          \* bound: units of one variant in an order

ASSUME WaitlistAssumption ==
    /\ IsFiniteSet(Variants)
    /\ MaxOrders \in Nat \ {0}
    /\ MaxQty \in Nat \ {0}

\* An order is numbered by its place in orderDate order.
Orders == 1..MaxOrders

\* The items of an order: q[v] units of variant v, none when 0.
Quantities == [Variants -> 0..MaxQty]
NoItems == [v \in Variants |-> 0]
Items(q) == {v \in Variants : q[v] > 0}

\* Units of variant v in the orders of S, whose quantities are q: each is a pair
\* <<o, i>> where i numbers one of o's units (so counting needs no recursion).
UnitSet(S, q, v) == {u \in S \X (1..MaxQty) : u[2] <= q[u[1]][v]}
Units(S, q, v) == Cardinality(UnitSet(S, q, v))

\* The sort of promoteWaitlistedOrders: verificationQueuedAt, then orderDate.
Ahead(at, p, w) == at[p] < at[w] \/ (at[p] = at[w] /\ p < w)

\* P are the orders promoted among the waiting ones, W, when `held` units of
\* `shelf` are taken: they fit, and each of the others did not fit in what
\* those promoted before it had left.
Promoted(P, W, q, at, held, shelf) ==
    /\ \A p \in P : \A v \in Items(q[p]) : held[v] + Units(P, q, v) <= shelf[v]
    /\ \A w \in W \ P : \E v \in Items(q[w]) :
         held[v] + Units({p \in P : Ahead(at, p, w)}, q, v) + q[w][v] > shelf[v]
=============================================================================
