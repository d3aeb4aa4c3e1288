---------------------------- MODULE OrderStatus ----------------------------
(***************************************************************************)
(* The order lifecycle table of src/server/orders/order-status.ts: pure    *)
(* data and predicates, shared by every component that moves an order.     *)
(***************************************************************************)
EXTENDS Integers

OrderStatuses ==
    {"DRAFT", "PENDING_APPROVAL", "CHANGES_REQUESTED", "APPROVED",
     "PROCESSING", "DISPATCHED", "DELIVERED", "REJECTED", "CANCELLED"}

\* The edges of the lifecycle, as pairs <<from, to>>.
TRANSITIONS ==
    UNION { {"DRAFT"} \X {"PENDING_APPROVAL", "APPROVED", "CANCELLED"},
            {"PENDING_APPROVAL"} \X
                {"APPROVED", "CHANGES_REQUESTED", "REJECTED", "CANCELLED"},
            {"CHANGES_REQUESTED"} \X
                {"PENDING_APPROVAL", "REJECTED", "CANCELLED"},
            {"APPROVED"} \X {"PROCESSING", "CANCELLED"},
            {"PROCESSING"} \X {"DISPATCHED", "CHANGES_REQUESTED", "CANCELLED"},
            {"DISPATCHED"} \X {"DELIVERED"} }

\* assertTransition refuses a move to the present status as well, but no
\* status is its own successor in the table.
CanTransition(from, to) == <<from, to>> \in TRANSITIONS

TERMINAL_STATUSES == {"DELIVERED", "REJECTED", "CANCELLED"}

\* Placement's threshold test; Null stands for an account that approves
\* everything automatically.  An order exactly on the threshold is within it.
RequiresApproval(total, threshold, Null) ==
    threshold # Null /\ total > threshold
=============================================================================
