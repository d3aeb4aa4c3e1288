------------------------------- MODULE Orders -------------------------------
(***************************************************************************)
(* The life of an order after checkout: the status route, the approval     *)
(* steps and the warehouse stock an order holds.  Its labels are module    *)
(* Labels.                                                                 *)
(*                                                                         *)
(* Every operation of the server has the same shape.  It reads the rows it *)
(* needs outside any transaction, checks them, and then writes in one      *)
(* transaction (withTenantScope).  The database runs READ COMMITTED with   *)
(* row versioning: a read never waits and returns the last committed row,  *)
(* an UPDATE waits for the row lock, and nothing compares a row with what  *)
(* was read before.  A request is therefore two or three steps of a        *)
(* handler, between which other requests commit:                           *)
(*   - the reads, after which the handler carries what it saw,             *)
(*   - for a decision, the write of the step row, which stays locked and   *)
(*     unseen by others, with the read of the other steps,                 *)
(*   - the commit.                                                         *)
(* The commit of the status route reads nothing it acts on, but for the    *)
(* open approval request; it is one step.                                  *)
(*                                                                         *)
(* Requests on one order may overlap like any others, and a commit may     *)
(* then act on a reading that no longer holds.  The variable `overwritten` *)
(* is history, not state of the server: the orders on which one has.       *)
(***************************************************************************)
EXTENDS OrderStatus, ApprovalEngine, Stock, Functions

CONSTANTS
    Users,           \* the people who call the portal
    RoleOf,          \* the portal role of each user
    Granted,         \* the effective permissions of each user
    Sees,            \* the orders visible to each user
    Orders,          \* the order rows that may come to exist
    Placer,          \* the user who places each order
    Want,            \* each order's lines, as quantities per product
    OverThreshold,   \* orders above the plain account threshold, no rules
    Steps,           \* the approval steps that may come to exist
    Plan,            \* the steps each order's matching rules plan
    Tier,            \* the tier of each step
    Addressee,       \* the approver each step is addressed to
    OnHand,          \* the shelf when the first order is placed
    MaxOnHand,       \* bound on what a recount writes
    Handlers         \* server request slots: the requests in flight at once

Permission == {"APPROVAL_ACT", "ORDER_CREATE", "ORDER_CANCEL", "ORDER_MANAGE"}

StockState == {"NONE", "RESERVED", "CONSUMED", "RELEASED"}

RequestStatus == RequestOutcome \cup {"NONE", "CANCELLED"}

Tiers == {Tier[s] : s \in Steps}

ASSUME OrdersAssumption ==
    /\ RoleOf \in [Users -> Roles]
    /\ Granted \in [Users -> SUBSET Permission]
    /\ Sees \in [Users -> SUBSET Orders]
    /\ Placer \in [Orders -> Users]
    /\ Want \in [Orders -> [Products -> Nat]]
    /\ OverThreshold \subseteq Orders
    /\ Plan \in [Orders -> SUBSET Steps]
    /\ \A o \in Orders, r \in Orders : o # r => Plan[o] \cap Plan[r] = {}
    /\ \A o \in OverThreshold : Plan[o] = {}
    /\ Tier \in [Steps -> Nat]
    /\ Addressee \in [Steps -> [approverRole : Roles \cup {Null},
                                approverUser : Users \cup {Null}]]
    /\ OnHand \in [Products -> Nat]
    /\ MaxOnHand \in Nat
    /\ Null \notin Users
    /\ Null \notin Orders
    /\ Null \notin Steps
    /\ Null \notin OrderStatuses
    /\ Null \notin StockState
    /\ Null \notin RequestOutcome
    /\ Null \notin Nat

VARIABLES
    status,       \* orders.status; Null until the order is placed
    stockState,   \* orders.stockState
    approvedBy,   \* orders.approvedById
    dispatched,   \* orders.dispatchedAt has been set
    request,      \* approval_requests: the status and current tier, per order
    stepStatus,   \* approval_steps.status
    shelf,        \* products.stockOnHand and products.stockReserved
    inFlight,     \* what each busy handler is doing and has read
    overwritten   \* history: the orders a commit acted on by an outdated reading

orderVars == <<status, stockState, approvedBy, dispatched>>
approvalVars == <<request, stepStatus>>
vars == <<orderVars, approvalVars, shelf, inFlight, overwritten>>

-----------------------------------------------------------------------------
(* Requests in flight.                                                     *)

\* What a handler carries.  A status change: who asks, for which order and
\* status, and of the `before` row its status and stock state.  One that is a
\* decision has first to be routed.
StatusMove ==
    [at : {"commit"}, user : Users, order : Orders,
     to : OrderStatuses, from : OrderStatuses, held : StockState]

RoutedMove ==
    [at : {"route"}, user : Users, order : Orders,
     to : Decisions, from : OrderStatuses, held : StockState]

\* A decision: the step decided, and once it is written the progress it makes.
StepDecision ==
    [at : {"decide"}, user : Users, order : Orders, step : Steps, to : Decisions]

WrittenStep ==
    [at : {"written"}, user : Users, order : Orders, step : Steps, to : Decisions,
     outcome : RequestOutcome, tier : Nat]

Idle == [at |-> "idle"]

InFlight ==
    {Idle} \cup StatusMove \cup RoutedMove \cup StepDecision \cup WrittenStep

IsIdle(h) == inFlight[h].at = "idle"

\* A handler may take up a request about o.
MayStart(h, o) == IsIdle(h) /\ status[o] # Null

Begin(h, req) == inFlight' = [inFlight EXCEPT ![h] = req]

Finish(h) == inFlight' = [inFlight EXCEPT ![h] = Idle]

-----------------------------------------------------------------------------
(* Placement, the one transaction of placeOrder, as far as an order's later *)
(* life depends on it.  Baskets, budgets and retries are module Placement. *)

NeedsApproval(o) == Plan[o] # {} \/ o \in OverThreshold

\* The steps of the lowest tier planned: the first round.
FirstRound(o) == {s \in Plan[o] : \A r \in Plan[o] : Tier[s] <= Tier[r]}

PlaceOrder(o) ==
    /\ status[o] = Null
    /\ CanReserve(shelf, Want[o])
    /\ shelf' = ReserveStock(shelf, Want[o])
    /\ stockState' = [stockState EXCEPT
                        ![o] = IF HoldsStock(Want[o]) THEN "RESERVED" ELSE @]
    /\ status' = [status EXCEPT
                    ![o] = IF NeedsApproval(o) THEN "PENDING_APPROVAL"
                                               ELSE "APPROVED"]
    /\ IF Plan[o] = {}
       THEN UNCHANGED request
       ELSE \E s \in FirstRound(o) :
              request' = [request EXCEPT
                            ![o] = [status |-> "PENDING", tier |-> Tier[s]]]
    /\ UNCHANGED <<approvedBy, dispatched, stepStatus, inFlight, overwritten>>

-----------------------------------------------------------------------------
(* changeOrderStatus: the status route.                                    *)

\* Mistaken variant: a decision on one's own order is let through.
MayDecideOwnOrder(u, o, to) ==
    CASE to \in Decisions -> "APPROVAL_ACT" \in Granted[u]
      [] to = "PENDING_APPROVAL" -> Placer[o] = u \/ "ORDER_CREATE" \in Granted[u]
      [] to = "CANCELLED" -> Placer[o] = u \/ "ORDER_CANCEL" \in Granted[u]
      [] OTHER -> "ORDER_MANAGE" \in Granted[u]

MayMakeTransition(u, o, to) ==
    LET own == Placer[o] = u
    IN  CASE to \in Decisions ->
                /\ "APPROVAL_ACT" \in Granted[u]
                /\ own => RoleOf[u] = "ADMIN"
          [] to = "PENDING_APPROVAL" -> own \/ "ORDER_CREATE" \in Granted[u]
          [] to = "CANCELLED" -> own \/ "ORDER_CANCEL" \in Granted[u]
          [] OTHER -> "ORDER_MANAGE" \in Granted[u]

\* Mistaken variant: the lifecycle table is not consulted.
ReadOrderUnchecked(h, u, o, to) ==
    /\ MayStart(h, o)
    /\ o \in Sees[u]
    /\ MayMakeTransition(u, o, to)
    /\ Begin(h, [at |-> IF to \in Decisions THEN "route" ELSE "commit",
                 user |-> u, order |-> o, to |-> to,
                 from |-> status[o], held |-> stockState[o]])
    /\ UNCHANGED <<orderVars, approvalVars, shelf, overwritten>>

\* findOrderById and the two assertions.  A dispatch needs a label or a typed
\* carrier and tracking number; an operator can always type them.
ReadOrder(h, u, o, to) ==
    /\ MayStart(h, o)
    /\ o \in Sees[u]
    /\ CanTransition(status[o], to)
    /\ MayMakeTransition(u, o, to)
    /\ Begin(h, [at |-> IF to \in Decisions THEN "route" ELSE "commit",
                 user |-> u, order |-> o, to |-> to,
                 from |-> status[o], held |-> stockState[o]])
    /\ UNCHANGED <<orderVars, approvalVars, shelf, overwritten>>

\* The checks decideApproval makes of the rows it reads.
AwaitsDecision(o, s) ==
    /\ request[o].status = "PENDING"
    /\ status[o] = "PENDING_APPROVAL"
    /\ StepIsOpen(stepStatus[s], Tier[s], request[o].tier)

Decidable(u, o, s) ==
    /\ s \in Plan[o]
    /\ AwaitsDecision(o, s)
    /\ CanDecideStep(Addressee[s], u, RoleOf[u], Placer[o])

Decision(u, o, s, d) ==
    [at |-> "decide", user |-> u, order |-> o, step |-> s, to |-> d]

\* decideThroughApprovalSteps.  With an approval request open the move becomes
\* a decision on one of the steps this user may decide now, and is refused when
\* there is none; with no request open it goes on as a plain status change.
\* decideApproval reads everything again; the two reads are one step, since
\* what commits between them either changes nothing or refuses the decision.
RouteToStep(h, s) ==
    LET req == inFlight[h]
    IN  /\ req.at = "route"
        /\ Decidable(req.user, req.order, s)
        /\ Begin(h, Decision(req.user, req.order, s, req.to))
        /\ UNCHANGED <<orderVars, approvalVars, shelf, overwritten>>

RouteRefused(h) ==
    LET req == inFlight[h]
    IN  /\ req.at = "route"
        /\ request[req.order].status = "PENDING"
        /\ \A s \in Steps : ~ Decidable(req.user, req.order, s)
        /\ Finish(h)
        /\ UNCHANGED <<orderVars, approvalVars, shelf, overwritten>>

RouteDirect(h) ==
    LET req == inFlight[h]
    IN  /\ req.at = "route"
        /\ request[req.order].status # "PENDING"
        /\ Begin(h, [req EXCEPT !.at = "commit"])
        /\ UNCHANGED <<orderVars, approvalVars, shelf, overwritten>>

\* The open steps a cancellation marks SKIPPED, and whether a decision in
\* flight has one of them locked.
OpenSteps(o) == {s \in Plan[o] : stepStatus[s] = "PENDING"}

Unlocked(S) == \A g \in Handlers : inFlight[g].at = "written" => inFlight[g].step \notin S

\* Mistaken variant: a cancelled order leaves its request in the queues.
CancelLeavesRequest(o) == UNCHANGED <<request, stepStatus>>

\* cancelApprovalRequestForOrder: only a request that is still open.
CancelRequest(o) ==
    IF request[o].status = "PENDING"
    THEN /\ Unlocked(OpenSteps(o))
         /\ request' = [request EXCEPT ![o].status = "CANCELLED"]
         /\ stepStatus' = [s \in Steps |->
                IF s \in OpenSteps(o) THEN "SKIPPED" ELSE stepStatus[s]]
    ELSE UNCHANGED <<request, stepStatus>>

\* Mistaken variant: a refusal keeps the stock.
MoveStockUnlessRefused(o, to, held) ==
    \/ /\ held = "RESERVED" /\ to = "DISPATCHED"
       /\ shelf' = ConsumeStock(shelf, Want[o])
       /\ stockState' = [stockState EXCEPT ![o] = "CONSUMED"]
    \/ /\ held = "RESERVED" /\ to = "CANCELLED"
       /\ shelf' = ReleaseStock(shelf, Want[o])
       /\ stockState' = [stockState EXCEPT ![o] = "RELEASED"]
    \/ /\ held # "RESERVED" \/ to \notin {"DISPATCHED", "CANCELLED"}
       /\ UNCHANGED <<shelf, stockState>>

\* The stock follows the status, by the stock state read before.
MoveStock(o, to, held) ==
    \/ /\ held = "RESERVED" /\ to = "DISPATCHED"
       /\ shelf' = ConsumeStock(shelf, Want[o])
       /\ stockState' = [stockState EXCEPT ![o] = "CONSUMED"]
    \/ /\ held = "RESERVED" /\ to \in {"REJECTED", "CANCELLED"}
       /\ shelf' = ReleaseStock(shelf, Want[o])
       /\ stockState' = [stockState EXCEPT ![o] = "RELEASED"]
    \/ /\ held # "RESERVED" \/ to \notin {"DISPATCHED", "REJECTED", "CANCELLED"}
       /\ UNCHANGED <<shelf, stockState>>

\* The order is as the request read it, or already where it is taking it.
MoveIsCurrent(r) ==
    status[r.order] \in {r.from, r.to} /\ stockState[r.order] = r.held

\* The transaction also voids the labels of an order that leaves production:
\* module Labels.
CommitStatus(h) ==
    LET req == inFlight[h]
        o == req.order
        to == req.to
    IN  /\ req.at = "commit"
        /\ status' = [status EXCEPT ![o] = to]
        /\ approvedBy' = IF to = "APPROVED"
                         THEN [approvedBy EXCEPT ![o] = req.user]
                         ELSE approvedBy
        /\ dispatched' = IF to = "DISPATCHED"
                         THEN [dispatched EXCEPT ![o] = TRUE]
                         ELSE dispatched
        /\ MoveStock(o, to, req.held)
        /\ IF to = "CANCELLED" THEN CancelRequest(o)
                               ELSE UNCHANGED <<request, stepStatus>>
        /\ Finish(h)
        /\ overwritten' = IF MoveIsCurrent(req) THEN overwritten
                                               ELSE overwritten \cup {o}

-----------------------------------------------------------------------------
(* decideApproval: the approval steps.                                     *)

ReadStep(h, u, o, s, d) ==
    /\ MayStart(h, o)
    /\ "APPROVAL_ACT" \in Granted[u]   \* the route's permission
    /\ Decidable(u, o, s)
    /\ Begin(h, Decision(u, o, s, d))
    /\ UNCHANGED <<orderVars, approvalVars, shelf, overwritten>>

\* The transaction writes the step and reads the others: its own write and
\* what the others last committed.
WriteStep(h) ==
    LET req == inFlight[h]
        seen == [stepStatus EXCEPT ![req.step] = req.to]
    IN  /\ req.at = "decide"
        /\ Unlocked({req.step})
        /\ \E p \in EvaluateProgress(Plan[req.order], Tier, seen) :
              Begin(h, [at |-> "written", user |-> req.user, order |-> req.order,
                        step |-> req.step, to |-> req.to,
                        outcome |-> p.outcome, tier |-> p.currentTier])
        /\ UNCHANGED <<orderVars, approvalVars, shelf, overwritten>>

\* The steps above a refusal, as they stand when they are skipped.
StepsAbove(o, t) == {s \in OpenSteps(o) : Tier[s] > t}

\* The step still awaits this decision, and the request stands where the
\* decision was told it would.
DecisionIsCurrent(r) ==
    /\ AwaitsDecision(r.order, r.step)
    /\ [outcome |-> r.outcome, currentTier |-> r.tier] \in
          EvaluateProgress(Plan[r.order], Tier, [stepStatus EXCEPT ![r.step] = r.to])

\* ORDER_STATUS_FOR: a request that stays open leaves the order alone.
CommitDecision(h) ==
    LET req == inFlight[h]
        o == req.order
        refused == req.outcome = "REJECTED"
        skipped == IF refused THEN StepsAbove(o, req.tier) \ {req.step} ELSE {}
    IN  /\ req.at = "written"
        /\ Unlocked(skipped)
        /\ stepStatus' = [s \in Steps |-> IF s = req.step THEN req.to
                                          ELSE IF s \in skipped THEN "SKIPPED"
                                          ELSE stepStatus[s]]
        /\ request' = [request EXCEPT ![o] = [status |-> req.outcome,
                                              tier |-> req.tier]]
        /\ status' = IF req.outcome = "PENDING" THEN status
                     ELSE [status EXCEPT ![o] = req.outcome]
        /\ approvedBy' = IF req.outcome = "APPROVED"
                         THEN [approvedBy EXCEPT ![o] = req.user]
                         ELSE approvedBy
        /\ IF refused /\ stockState[o] = "RESERVED"
           THEN /\ shelf' = ReleaseStock(shelf, Want[o])
                /\ stockState' = [stockState EXCEPT ![o] = "RELEASED"]
           ELSE UNCHANGED <<shelf, stockState>>
        /\ Finish(h)
        /\ overwritten' = IF DecisionIsCurrent(req) THEN overwritten
                                                   ELSE overwritten \cup {o}
        /\ UNCHANGED dispatched

-----------------------------------------------------------------------------
(* The rest of what moves these rows.                                      *)

\* Mistaken variant: the UPDATE takes an order whose label was scanned early.
ConfirmDeliveryEarly(o) ==
    /\ status[o] \in {"PROCESSING", "DISPATCHED"}
    /\ status' = [status EXCEPT ![o] = "DELIVERED"]
    /\ UNCHANGED <<stockState, approvedBy, dispatched, approvalVars, shelf, inFlight,
                   overwritten>>

\* confirmDeliveryByCarrier: the status test is in the UPDATE itself.
ConfirmDelivery(o) ==
    /\ status[o] = "DISPATCHED"
    /\ status' = [status EXCEPT ![o] = "DELIVERED"]
    /\ UNCHANGED <<stockState, approvedBy, dispatched, approvalVars, shelf, inFlight,
                   overwritten>>

\* A request that dies before its commit: a timeout, a deadlock victim, a
\* crash.  The transaction rolls back and leaves nothing.
Abort(h) ==
    /\ ~ IsIdle(h)
    /\ Finish(h)
    /\ UNCHANGED <<orderVars, approvalVars, shelf, overwritten>>

\* A stock adjustment or a stocktake.
RecountStock(p, n) ==
    /\ n # shelf[p].onHand
    /\ CanRecount(shelf, p, n)
    /\ shelf' = Recount(shelf, p, n)
    /\ UNCHANGED <<orderVars, approvalVars, inFlight, overwritten>>

-----------------------------------------------------------------------------
Init ==
    /\ status = [o \in Orders |-> Null]
    /\ stockState = [o \in Orders |-> "NONE"]
    /\ approvedBy = [o \in Orders |-> Null]
    /\ dispatched = [o \in Orders |-> FALSE]
    /\ request = [o \in Orders |-> [status |-> "NONE", tier |-> 0]]
    /\ stepStatus = [s \in Steps |-> "PENDING"]
    /\ shelf = [p \in Products |-> [onHand |-> OnHand[p], reserved |-> 0]]
    /\ inFlight = [h \in Handlers |-> Idle]
    /\ overwritten = {}

HandlerStep(h) ==
    \/ \E s \in Steps : RouteToStep(h, s)
    \/ RouteRefused(h)
    \/ RouteDirect(h)
    \/ CommitStatus(h)
    \/ WriteStep(h)
    \/ CommitDecision(h)
    \/ Abort(h)

Receive(h) ==
    \E u \in Users, o \in Orders :
        \/ \E to \in OrderStatuses : ReadOrder(h, u, o, to)
        \/ \E s \in Steps, d \in Decisions : ReadStep(h, u, o, s, d)

Next ==
    \/ \E o \in Orders : PlaceOrder(o) \/ ConfirmDelivery(o)
    \/ \E h \in Handlers : Receive(h) \/ HandlerStep(h)
    \/ \E p \in Products, n \in 0..MaxOnHand : RecountStock(p, n)

Spec == Init /\ [][Next]_vars
-----------------------------------------------------------------------------
(* What the server keeps whatever the requests in flight have read.        *)

TypeOK ==
    /\ status \in [Orders -> OrderStatuses \cup {Null}]
    /\ stockState \in [Orders -> StockState]
    /\ approvedBy \in [Orders -> Users \cup {Null}]
    /\ dispatched \in [Orders -> BOOLEAN]
    /\ request \in [Orders -> [status : RequestStatus, tier : Nat]]
    /\ stepStatus \in [Steps -> StepStatus]
    /\ shelf \in Shelf
    /\ inFlight \in [Handlers -> InFlight]
    /\ overwritten \subseteq Orders

\* The table's CHECK (stockReserved <= stockOnHand) never refuses a write:
\* however often an order's stock is released or consumed, the two floors of
\* consumeStock and the one of releaseStock keep the pair in order, so that no
\* dispatch or cancellation fails on the constraint.
ReservedWithinOnHand ==
    \A p \in Products : shelf[p].reserved <= shelf[p].onHand

\* An order that holds a reservation is one somebody may still ship: stock is
\* never left promised to a refused, cancelled or dispatched order, by
\* whichever of the two approval paths or the status route it got there.
ReservationHasOpenOrder ==
    \A o \in Orders :
        stockState[o] = "RESERVED" =>
            status[o] \in {"PENDING_APPROVAL", "CHANGES_REQUESTED", "APPROVED",
                          "PROCESSING"}

\* An approver other than the placer, or else an administrator.  The comments
\* on canDecideStep and assertMayMakeTransition exempt nobody; the status route
\* does exempt an administrator (NobodyApprovesOwnOrder of MCOrders).
IndependentApproval(o) ==
    /\ approvedBy[o] # Null
    /\ approvedBy[o] = Placer[o] => RoleOf[Placer[o]] = "ADMIN"

\* An order that needs approval is never in production, or later, without an
\* approval recorded for it by somebody the code entitles to give one, stale
\* and overlapping decisions included.
NoProductionWithoutApproval ==
    \A o \in Orders :
        NeedsApproval(o) /\ status[o] \in {"APPROVED", "PROCESSING", "DISPATCHED",
                                          "DELIVERED"}
            => IndependentApproval(o)

\* Goods are never reported delivered that were not dispatched, whether a
\* person or the carrier's tracking reports it.
DeliveredWasDispatched ==
    \A o \in Orders : status[o] = "DELIVERED" => dispatched[o]

\* The orders that hold stock, and the units of p they hold together.
StockHolders == {o \in Orders : stockState[o] = "RESERVED"}

UnitsHeld(p) == SumFunctionOnSet([o \in Orders |-> Want[o][p]], StockHolders)

\* The shelf never promises more than orders hold: no path through refusal,
\* cancellation or dispatch leaves units reserved for nobody, even when two
\* requests on one order overlap.
NoPhantomReservation ==
    \A p \in Products : shelf[p].reserved <= UnitsHeld(p)

\* What a status change in flight read may be out of date, but not in these
\* respects, whatever committed since: the order exists, its stock was held if
\* it still is, a dispatch and an approval that had happened still have.
ReadStillHolds(h) ==
    LET req == inFlight[h]
        o == req.order
    IN  /\ status[o] # Null
        /\ CanTransition(req.from, req.to)
        /\ MayMakeTransition(req.user, o, req.to)
        /\ stockState[o] = "RESERVED" => req.held = "RESERVED"
        /\ req.from = "DISPATCHED" => stockState[o] # "RESERVED" /\ dispatched[o]
        /\ NeedsApproval(o) /\ req.from \in {"APPROVED", "PROCESSING", "DISPATCHED"}
                => IndependentApproval(o)

ReadsStillHold ==
    \A h \in Handlers : inFlight[h].at \in {"route", "commit"} => ReadStillHolds(h)

\* The requester is never the one deciding a step in flight.
DeciderIsNotPlacer ==
    \A h \in Handlers :
        inFlight[h].at \in {"decide", "written"} =>
            inFlight[h].user # Placer[inFlight[h].order]

DispatchIsRecorded ==
    \A o \in Orders : status[o] \in {"DISPATCHED", "DELIVERED"} => dispatched[o]

\* The inductive invariant behind the properties above.
OrdersInv ==
    /\ TypeOK
    /\ ReservedWithinOnHand
    /\ ReservationHasOpenOrder
    /\ NoProductionWithoutApproval
    /\ DispatchIsRecorded
    /\ ReadsStillHold
    /\ DeciderIsNotPlacer

-----------------------------------------------------------------------------
(* What it keeps besides, and only a commit on an outdated reading breaks,  *)
(* of the order it was on and of no other.                                 *)

Lifecycle == INSTANCE OrderLifecycle

\* Every move of an order, by the status route, by a decision or by the
\* carrier, is one edge of the lifecycle table, and its stock moves with it
\* exactly once; decideApproval writes the order's status without
\* assertTransition, and that the edges still hold rests on its checks.  Only
\* a request that acts on an outdated reading moves an order off the table,
\* and even it never takes stock again.
FollowsLifecycle == Lifecycle!Spec

\* An open request can always be decided: its order is waiting for it, every
\* tier below the current one is approved, and a step of the current tier is
\* undecided.  No order is stranded in a queue nobody can clear, whatever
\* decisions and cancellations overlap, until one has overwritten another.
OpenRequestIsDecidable ==
    \A o \in Orders \ overwritten :
        request[o].status = "PENDING" =>
            /\ status[o] = "PENDING_APPROVAL"
            /\ \A s \in Plan[o] : Tier[s] < request[o].tier => stepStatus[s] = "APPROVED"
            /\ \E s \in OpenSteps(o) : Tier[s] = request[o].tier

\* What is reserved of a product is exactly what orders hold, across
\* placements, refusals, cancellations, dispatches and recounts in any
\* interleaving, unless an order for that product has been overwritten.
StockIsExact ==
    \A p \in Products :
        (\A o \in overwritten : Want[o][p] = 0) => shelf[p].reserved = UnitsHeld(p)
=============================================================================
