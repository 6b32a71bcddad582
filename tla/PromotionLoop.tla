---------------------------- MODULE PromotionLoop ----------------------------
(***************************************************************************)
(* promoteWaitlistedOrders and reserveStockForOrder statement by statement:  *)
(* the waitlisted orders are taken one by one, each item is reserved by one  *)
(* guarded UPDATE, and the first that fails undoes the order's earlier ones. *)
(* OrderFulfilment promotes by the rule Waitlist!Promoted in one step; the   *)
(* invariants show the loop computes that rule and nothing else.             *)
(***************************************************************************)
EXTENDS Waitlist

CONSTANTS
    MaxShelf,       \* bound: stock of a variant
    MaxHeld,        \* bound: reservedStock of a variant at the start
    MaxStamp        \* bound: distinct verificationQueuedAt stamps

VARIABLES
    shelf,          \* shelf[v]: stock, constant
    held,           \* held[v]: reservedStock when the promotion starts
    qty,            \* qty[o]: items of waiting order o
    queuedAt,       \* queuedAt[o]: its verificationQueuedAt
    reserved,       \* reserved[v]: reservedStock now
    todo,           \* orders not yet taken
    current,        \* the order being reserved, 0 between two
    got,            \* its items reserved so far
    failed,         \* one of its UPDATEs changed no row
    promoted        \* orders promoted so far

vars == <<shelf, held, qty, queuedAt, reserved, todo, current, got, failed, promoted>>
input == <<shelf, held, qty, queuedAt>>

Init ==
    /\ shelf \in [Variants -> 0..MaxShelf]
    /\ held \in [Variants -> 0..MaxHeld]
    /\ qty \in [Orders -> Quantities \ {NoItems}]
    /\ queuedAt \in [Orders -> 1..MaxStamp]
    /\ reserved = held
    /\ todo = Orders
    /\ current = 0
    /\ got = {}
    /\ failed = FALSE
    /\ promoted = {}

\* Mutant: the newest waiting order goes first.
TakesLast(o) == \A p \in todo \ {o} : Ahead(queuedAt, p, o)

\* The order findMany's orderBy puts first.
TakesFirst(o) == \A p \in todo \ {o} : Ahead(queuedAt, o, p)

TakeOrder(o) ==
    /\ current = 0
    /\ o \in todo /\ TakesFirst(o)
    /\ current' = o
    /\ got' = {}
    /\ todo' = todo \ {o}
    /\ UNCHANGED <<input, reserved, failed, promoted>>

\* UPDATE ... SET reservedStock = reservedStock + q WHERE stock - reservedStock >= q
ReserveItem(v) ==
    /\ current # 0 /\ ~failed
    /\ v \in Items(qty[current]) \ got
    /\ reserved[v] + qty[current][v] <= shelf[v]
    /\ reserved' = [reserved EXCEPT ![v] = @ + qty[current][v]]
    /\ got' = got \cup {v}
    /\ UNCHANGED <<input, todo, current, failed, promoted>>

ReserveFails(v) ==
    /\ current # 0 /\ ~failed
    /\ v \in Items(qty[current]) \ got
    /\ reserved[v] + qty[current][v] > shelf[v]
    /\ failed' = TRUE
    /\ UNCHANGED <<input, reserved, todo, current, got, promoted>>

\* Mutant: an undo gives back one unit, whatever was taken.
UndoneByOne(v) == reserved[v] - 1

Undone(v) == reserved[v] - qty[current][v]      \* never below 0: it was added

UndoItem(v) ==
    /\ failed
    /\ v \in got
    /\ reserved' = [reserved EXCEPT ![v] = Undone(v)]
    /\ got' = got \ {v}
    /\ UNCHANGED <<input, todo, current, failed, promoted>>

SkipOrder ==
    /\ failed /\ got = {}
    /\ failed' = FALSE
    /\ current' = 0
    /\ UNCHANGED <<input, reserved, todo, got, promoted>>

PromoteOrder ==
    /\ current # 0 /\ ~failed
    /\ got = Items(qty[current])
    /\ promoted' = promoted \cup {current}
    /\ current' = 0
    /\ got' = {}
    /\ UNCHANGED <<input, reserved, todo, failed>>

Next ==
    \/ \E o \in Orders : TakeOrder(o)
    \/ \E v \in Variants : ReserveItem(v) \/ ReserveFails(v) \/ UndoItem(v)
    \/ SkipOrder
    \/ PromoteOrder

Spec == Init /\ [][Next]_vars

Done == todo = {} /\ current = 0

\* The loop promotes the orders the rule names, and the rule names no others.
LoopComputesRule ==
    Done => \A P \in SUBSET Orders :
              Promoted(P, Orders, qty, queuedAt, held, shelf) <=> P = promoted

\* A skipped order leaves nothing reserved, not even the items that did fit:
\* between two orders exactly the promoted orders' units were added.
ReservedForPromoted ==
    current = 0 =>
      \A v \in Variants : reserved[v] = held[v] + Units(promoted, qty, v)
=============================================================================
