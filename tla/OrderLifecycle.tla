--------------------------- MODULE OrderLifecycle ---------------------------
(***************************************************************************)
(* What the portal promises of an order, with no mention of who moves it   *)
(* or how: it is placed once, moves only along the lifecycle table, and    *)
(* the stock it holds moves with it, in the same step, exactly once.  The  *)
(* exception is named: an order may be written over by somebody who acted  *)
(* on what it was before.                                                  *)
(***************************************************************************)
EXTENDS OrderStatus

CONSTANTS
    Null,      \* the status of an order not yet placed
    Orders

VARIABLES
    status,
    stockState,
    overwritten    \* the orders that have been written over

\* The stock state of an order in stock state st once it becomes `to`.
StockAfter(st, to) ==
    IF st # "RESERVED" THEN st
    ELSE IF to = "DISPATCHED" THEN "CONSUMED"
    ELSE IF to \in {"REJECTED", "CANCELLED"} THEN "RELEASED"
    ELSE st

Place(o) ==
    /\ status[o] = Null
    /\ \E st \in {"PENDING_APPROVAL", "APPROVED"} :
          status' = [status EXCEPT ![o] = st]
    /\ \E st \in {"NONE", "RESERVED"} :
          stockState' = [stockState EXCEPT ![o] = st]
    /\ UNCHANGED overwritten

Move(o, to) ==
    /\ status[o] # Null
    /\ CanTransition(status[o], to)
    /\ status' = [status EXCEPT ![o] = to]
    /\ stockState' = [stockState EXCEPT ![o] = StockAfter(@, to)]
    /\ UNCHANGED overwritten

\* It may then be left in any status, off the table, and its stock given back
\* or consumed again; stock once given back is still never taken again.
Overwrite(o, to) ==
    /\ status[o] # Null
    /\ overwritten' = overwritten \cup {o}
    /\ status' = [status EXCEPT ![o] = to]
    /\ \E st \in {stockState[o], "CONSUMED", "RELEASED"} :
          stockState' = [stockState EXCEPT ![o] = st]

Init ==
    /\ status = [o \in Orders |-> Null]
    /\ stockState = [o \in Orders |-> "NONE"]
    /\ overwritten = {}

Next ==
    \E o \in Orders :
        Place(o) \/ \E to \in OrderStatuses : Move(o, to) \/ Overwrite(o, to)

Spec == Init /\ [][Next]_<<status, stockState, overwritten>>
=============================================================================
