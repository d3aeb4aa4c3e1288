-------------------------------- MODULE Stock --------------------------------
(***************************************************************************)
(* Warehouse stock, src/server/catalog/stock.service.ts.  A shelf maps a   *)
(* product to the two columns the functions move; `want` is an order's     *)
(* lines, the quantity of each product (0 for one it does not contain).    *)
(* Products and variants are alike here; a product that does not track     *)
(* inventory is never on the shelf.                                        *)
(***************************************************************************)
EXTENDS Integers

CONSTANT Products    \* the stock-tracked products and variants

Shelf == [Products -> [onHand : Nat, reserved : Nat]]

\* GREATEST(0, n) of the UPDATE statements.
AtLeastZero(n) == IF n < 0 THEN 0 ELSE n

\* The WHERE clause of `take`, for every line: one line short fails the call,
\* and the caller's transaction rolls the lines already taken back.
CanReserve(shelf, want) ==
    \A p \in Products : shelf[p].onHand - shelf[p].reserved >= want[p]

\* Mistaken variant: an order of single units is taken for one that holds none.
HoldsSeveralUnits(want) == \E p \in Products : want[p] > 1

\* What reserveStock returns: something was actually held.
HoldsStock(want) == \E p \in Products : want[p] > 0

ReserveStock(shelf, want) ==
    [p \in Products |->
        [shelf[p] EXCEPT !.reserved = @ + want[p]]]

\* Mistaken variants: the floor forgotten; one unit given back per line.
ReleaseWithoutFloor(shelf, want) ==
    [p \in Products |-> [shelf[p] EXCEPT !.reserved = @ - want[p]]]

ReleaseOnePerLine(shelf, want) ==
    [p \in Products |->
        [shelf[p] EXCEPT !.reserved = IF want[p] > 0 THEN AtLeastZero(@ - 1) ELSE @]]

ReleaseStock(shelf, want) ==
    [p \in Products |->
        [shelf[p] EXCEPT !.reserved = AtLeastZero(@ - want[p])]]

\* Mistaken variant: the goods leave, their reservation stays.
ConsumeOnHandOnly(shelf, want) ==
    [p \in Products |-> [shelf[p] EXCEPT !.onHand = AtLeastZero(@ - want[p])]]

ConsumeStock(shelf, want) ==
    [p \in Products |->
        [onHand   |-> AtLeastZero(shelf[p].onHand - want[p]),
         reserved |-> AtLeastZero(shelf[p].reserved - want[p])]]

(***************************************************************************)
(* adjustStock and reconcileStock.  Both read the row, refuse a figure     *)
(* below what is reserved, and then write; whatever moved in between, the  *)
(* CHECK (stockReserved <= stockOnHand) of the table decides at the write. *)
(* An adjustment adds to the present figure, a count replaces it, so both  *)
(* are a write of some figure that still covers the reservations.          *)
(***************************************************************************)
CanRecount(shelf, p, n) == n >= shelf[p].reserved

Recount(shelf, p, n) == [shelf EXCEPT ![p].onHand = n]
=============================================================================
