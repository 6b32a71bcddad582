-------------------------- MODULE SerialFulfilment --------------------------
(***************************************************************************)
(* OrderFulfilment when status requests and payments do not overlap: there   *)
(* is one request handler, so nothing writes an order between a request's    *)
(* check and its commit.  Placing orders, paying at Stripe, deleting         *)
(* transactions, restocks and stock edits still fall between its steps.     *)
(* This is the setting the code is written for.                             *)
(***************************************************************************)
EXTENDS FulfilmentBooks

ASSUME SerialAssumption == OneHandler

\* A customer whose money Stripe captured while the quotation stood does not
\* wait for ever: the order is confirmed (or someone closed or deleted it).
CapturedPaymentIsAnswered ==
    \A o \in Orders :
      checkout[o] = "CAPTURED" /\ txn[o] = "AWAITING_PAYMENT"
        ~> txn[o] # "AWAITING_PAYMENT"
=============================================================================
