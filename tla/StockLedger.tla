---------------------------- MODULE StockLedger ----------------------------
(***************************************************************************)
(* What the shop promises about its stock, with no order, status or request *)
(* in sight: units on the shelf are held, given back or sold; only units on *)
(* the shelf are held, only held units are sold, and nothing but a restock  *)
(* or a recount, of no less than is held, changes the shelf otherwise.       *)
(* OrderFulfilment implements it.                                            *)
(***************************************************************************)
EXTENDS Naturals

CONSTANTS
    Goods,          \* what is stocked
    Opening,        \* units of each at the start
    Recounts        \* quantities a recount of the shelf may store

VARIABLES
    onShelf,        \* onShelf[g]: units on the shelf, held or not
    held,           \* held[g]: those of them promised to somebody
    sold            \* sold[g]: units that left the shelf for somebody

ledger == <<onShelf, held, sold>>

Open ==
    /\ onShelf = [g \in Goods |-> Opening]
    /\ held = [g \in Goods |-> 0]
    /\ sold = [g \in Goods |-> 0]

\* Units are given back, held, or both at once: given back by one and held for
\* the next.  A hold that grows ends within what is on the shelf.
Exchange ==
    /\ held' \in [Goods -> Nat]
    /\ \A g \in Goods : held'[g] > held[g] => held'[g] <= onShelf[g]
    /\ UNCHANGED <<onShelf, sold>>

\* Held units leave the shelf: of each good as many as are counted as sold.
Sell ==
    /\ onShelf' \in [Goods -> Nat] /\ held' \in [Goods -> Nat] /\ sold' \in [Goods -> Nat]
    /\ \A g \in Goods :
         /\ sold[g] <= sold'[g]
         /\ onShelf'[g] + sold'[g] = onShelf[g] + sold[g]
         /\ held'[g] + sold'[g] = held[g] + sold[g]

Receive ==
    /\ onShelf' \in [Goods -> Nat]
    /\ \A g \in Goods : onShelf[g] <= onShelf'[g]
    /\ UNCHANGED <<held, sold>>

Recount(g) ==
    /\ \E n \in Recounts : held[g] <= n /\ onShelf' = [onShelf EXCEPT ![g] = n]
    /\ UNCHANGED <<held, sold>>

Next == Exchange \/ Sell \/ Receive \/ \E g \in Goods : Recount(g)

Spec == Open /\ [][Next]_ledger
=============================================================================
