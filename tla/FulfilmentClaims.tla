-------------------------- MODULE FulfilmentClaims --------------------------
(***************************************************************************)
(* A sentence of the repository about the life of an order, stated as a      *)
(* property of OrderFulfilment, which does not have it: a run finds the      *)
(* counterexample described in the README.                                   *)
(***************************************************************************)
EXTENDS OrderFulfilment

\* order.service.ts, accepting a quotation: "Stock is already reserved (set
\* when admin issued the quotation)."  The stock reserved covers at least the
\* orders that await payment.  Two requests that both read one quotation's
\* reservation as ACTIVE, two rejections or a rejection and a wait, release it
\* twice, the second time out of another order's hold.
AwaitingPaymentIsReserved ==
    \A v \in Variants :
      Units({o \in Orders : status[o] = "AWAITING_PAYMENT"}, qty, v) <= reserved[v]
=============================================================================
