---------------------------- MODULE OrdersProofs ----------------------------
(***************************************************************************)
(* Proofs about Orders, for any users, orders, products, steps, plans and  *)
(* handlers, however requests on one order overlap.                        *)
(***************************************************************************)
EXTENDS Orders, TLAPS

-----------------------------------------------------------------------------
(* The operators the actions are built from.                               *)

LEMMA IdleType == Idle \in InFlight
BY DEF InFlight

LEMMA ReserveStockType ==
    ASSUME NEW sh \in Shelf, NEW want \in [Products -> Nat]
    PROVE  ReserveStock(sh, want) \in Shelf
BY DEF ReserveStock, Shelf

LEMMA ReleaseStockType ==
    ASSUME NEW sh \in Shelf, NEW want \in [Products -> Nat]
    PROVE  ReleaseStock(sh, want) \in Shelf
BY DEF ReleaseStock, Shelf, AtLeastZero

LEMMA ConsumeStockType ==
    ASSUME NEW sh \in Shelf, NEW want \in [Products -> Nat]
    PROVE  ConsumeStock(sh, want) \in Shelf
BY DEF ConsumeStock, Shelf, AtLeastZero

LEMMA ProgressType ==
    ASSUME OrdersAssumption, NEW o \in Orders, NEW seen,
           NEW p \in EvaluateProgress(Plan[o], Tier, seen)
    PROVE  p.outcome \in RequestOutcome /\ p.currentTier \in Nat
BY DEF OrdersAssumption, EvaluateProgress, RequestOutcome

-----------------------------------------------------------------------------
(* Type correctness.                                                       *)

LEMMA InitTypeOK ==
    ASSUME OrdersAssumption, Init
    PROVE  TypeOK
BY IdleType DEF OrdersAssumption, Init, TypeOK, Shelf, StockState, RequestStatus,
                StepStatus

LEMMA PlaceOrderTypeOK ==
    ASSUME OrdersAssumption, TypeOK, NEW o \in Orders, PlaceOrder(o)
    PROVE  TypeOK'
<1>1. shelf' \in Shelf
  BY ReserveStockType DEF OrdersAssumption, TypeOK, PlaceOrder
<1>2. request' \in [Orders -> [status : RequestStatus, tier : Nat]]
  <2>1. CASE Plan[o] = {}
    BY <2>1 DEF TypeOK, PlaceOrder
  <2>2. CASE Plan[o] # {}
    <3>1. PICK s \in FirstRound(o) :
            request' = [request EXCEPT ![o] = [status |-> "PENDING", tier |-> Tier[s]]]
      BY <2>2 DEF PlaceOrder
    <3>2. Tier[s] \in Nat
      BY DEF FirstRound, OrdersAssumption
    <3>3. "PENDING" \in RequestStatus
      BY DEF RequestStatus, RequestOutcome
    <3> QED
      BY <3>1, <3>2, <3>3 DEF TypeOK
  <2> QED
    BY <2>1, <2>2
<1>3. /\ status' \in [Orders -> OrderStatuses \cup {Null}]
      /\ stockState' \in [Orders -> StockState]
  BY DEF TypeOK, PlaceOrder, OrderStatuses, StockState
<1> QED
  BY <1>1, <1>2, <1>3 DEF TypeOK, PlaceOrder

\* What a handler takes up when it reads: a well-typed record.
LEMMA BeginType ==
    ASSUME TypeOK, NEW h \in Handlers, NEW req \in InFlight, Begin(h, req)
    PROVE  inFlight' \in [Handlers -> InFlight]
BY DEF TypeOK, Begin

LEMMA FinishType ==
    ASSUME TypeOK, NEW h \in Handlers, Finish(h)
    PROVE  inFlight' \in [Handlers -> InFlight]
BY IdleType DEF TypeOK, Finish

LEMMA DecisionType ==
    ASSUME NEW u \in Users, NEW o \in Orders, NEW s \in Steps, NEW d \in Decisions
    PROVE  Decision(u, o, s, d) \in InFlight
BY DEF Decision, InFlight, StepDecision

\* A handler's place says which kind of record it carries.
LEMMA CarriedType ==
    ASSUME TypeOK, NEW h \in Handlers
    PROVE  /\ inFlight[h].at = "commit" => inFlight[h] \in StatusMove
           /\ inFlight[h].at = "route" => inFlight[h] \in RoutedMove
           /\ inFlight[h].at = "decide" => inFlight[h] \in StepDecision
           /\ inFlight[h].at = "written" => inFlight[h] \in WrittenStep
<1>1. inFlight[h] \in InFlight
  BY DEF TypeOK
<1> QED
  BY <1>1 DEF InFlight, Idle, StatusMove, RoutedMove, StepDecision, WrittenStep

LEMMA MoveStockType ==
    ASSUME OrdersAssumption, TypeOK, NEW o \in Orders, NEW to, NEW held,
           MoveStock(o, to, held)
    PROVE  shelf' \in Shelf /\ stockState' \in [Orders -> StockState]
<1>1. shelf \in Shelf /\ Want[o] \in [Products -> Nat]
  BY DEF TypeOK, OrdersAssumption
<1>2. ReleaseStock(shelf, Want[o]) \in Shelf /\ ConsumeStock(shelf, Want[o]) \in Shelf
  BY <1>1, ReleaseStockType, ConsumeStockType
<1>3. shelf' \in Shelf
  BY <1>1, <1>2 DEF MoveStock
<1>4. stockState' \in [Orders -> StockState]
  BY DEF MoveStock, TypeOK, StockState
<1> QED
  BY <1>3, <1>4

LEMMA CancelRequestType ==
    ASSUME TypeOK, NEW o \in Orders, CancelRequest(o)
    PROVE  /\ request' \in [Orders -> [status : RequestStatus, tier : Nat]]
           /\ stepStatus' \in [Steps -> StepStatus]
<1>1. CASE request[o].status = "PENDING"
  <2>1. request' = [request EXCEPT ![o].status = "CANCELLED"]
    BY <1>1 DEF CancelRequest
  <2>2. request' \in [Orders -> [status : RequestStatus, tier : Nat]]
    BY <2>1 DEF TypeOK, RequestStatus
  <2>3. stepStatus' = [s \in Steps |->
                        IF s \in OpenSteps(o) THEN "SKIPPED" ELSE stepStatus[s]]
    BY <1>1 DEF CancelRequest
  <2>4. stepStatus' \in [Steps -> StepStatus]
    BY <2>3 DEF TypeOK, StepStatus
  <2> QED
    BY <2>2, <2>4
<1>2. CASE request[o].status # "PENDING"
  BY <1>2 DEF TypeOK, CancelRequest
<1> QED
  BY <1>1, <1>2

LEMMA CommitStatusTypeOK ==
    ASSUME OrdersAssumption, TypeOK, NEW h \in Handlers, CommitStatus(h)
    PROVE  TypeOK'
<1> DEFINE req == inFlight[h]
<1>1. req \in StatusMove
  BY CarriedType DEF CommitStatus
<1>2. /\ req.order \in Orders
      /\ req.user \in Users
      /\ req.to \in OrderStatuses
  BY <1>1 DEF StatusMove
<1>3. shelf' \in Shelf /\ stockState' \in [Orders -> StockState]
  BY <1>2, MoveStockType DEF CommitStatus
<1>4. /\ request' \in [Orders -> [status : RequestStatus, tier : Nat]]
      /\ stepStatus' \in [Steps -> StepStatus]
  BY <1>2, CancelRequestType DEF CommitStatus, TypeOK
<1>5. inFlight' \in [Handlers -> InFlight]
  BY FinishType DEF CommitStatus
<1>6. /\ status' \in [Orders -> OrderStatuses \cup {Null}]
      /\ approvedBy' \in [Orders -> Users \cup {Null}]
      /\ dispatched' \in [Orders -> BOOLEAN]
      /\ overwritten' \subseteq Orders
  BY <1>1, <1>2 DEF CommitStatus, TypeOK
<1> QED
  BY <1>3, <1>4, <1>5, <1>6 DEF TypeOK

LEMMA WriteStepTypeOK ==
    ASSUME OrdersAssumption, TypeOK, NEW h \in Handlers, WriteStep(h)
    PROVE  TypeOK'
<1> DEFINE req == inFlight[h]
           seen == [stepStatus EXCEPT ![req.step] = req.to]
<1>1. req \in StepDecision
  BY CarriedType DEF WriteStep
<1>2. PICK p \in EvaluateProgress(Plan[req.order], Tier, seen) :
        Begin(h, [at |-> "written", user |-> req.user, order |-> req.order,
                  step |-> req.step, to |-> req.to,
                  outcome |-> p.outcome, tier |-> p.currentTier])
  BY DEF WriteStep
<1>3. p.outcome \in RequestOutcome /\ p.currentTier \in Nat
  BY <1>1, ProgressType DEF StepDecision
<1>4. inFlight' \in [Handlers -> InFlight]
  BY <1>1, <1>2, <1>3, BeginType DEF StepDecision, WrittenStep, InFlight
<1> QED
  BY <1>4 DEF WriteStep, TypeOK, orderVars, approvalVars

LEMMA CommitDecisionTypeOK ==
    ASSUME OrdersAssumption, TypeOK, NEW h \in Handlers, CommitDecision(h)
    PROVE  TypeOK'
<1> DEFINE req == inFlight[h]
<1>1. req \in WrittenStep
  BY CarriedType DEF CommitDecision
<1>2. /\ req.order \in Orders
      /\ req.user \in Users
      /\ req.to \in Decisions
      /\ req.outcome \in RequestOutcome
      /\ req.tier \in Nat
  BY <1>1 DEF WrittenStep
<1>3. shelf' \in Shelf /\ stockState' \in [Orders -> StockState]
  <2>1. shelf \in Shelf /\ Want[req.order] \in [Products -> Nat]
    BY <1>2 DEF TypeOK, OrdersAssumption
  <2>2. ReleaseStock(shelf, Want[req.order]) \in Shelf
    BY <2>1, ReleaseStockType
  <2>3. "RELEASED" \in StockState
    BY DEF StockState
  <2>4. stockState \in [Orders -> StockState]
    BY DEF TypeOK
  <2>5. \/ /\ shelf' = ReleaseStock(shelf, Want[req.order])
           /\ stockState' = [stockState EXCEPT ![req.order] = "RELEASED"]
        \/ UNCHANGED <<shelf, stockState>>
    BY DEF CommitDecision
  <2> QED
    BY <1>2, <2>1, <2>2, <2>3, <2>4, <2>5
<1>4. stepStatus' \in [Steps -> StepStatus]
  BY <1>2 DEF CommitDecision, TypeOK, StepStatus, Decisions
<1>5. request' \in [Orders -> [status : RequestStatus, tier : Nat]]
  BY <1>2 DEF CommitDecision, TypeOK, RequestStatus
<1>6. inFlight' \in [Handlers -> InFlight]
  BY FinishType DEF CommitDecision
<1>7. /\ status' \in [Orders -> OrderStatuses \cup {Null}]
      /\ approvedBy' \in [Orders -> Users \cup {Null}]
      /\ overwritten' \subseteq Orders
  <2>1. req.outcome # "PENDING" => req.outcome \in OrderStatuses
    BY <1>2 DEF RequestOutcome, OrderStatuses
  <2> QED
    BY <1>2, <2>1 DEF CommitDecision, TypeOK
<1> QED
  BY <1>3, <1>4, <1>5, <1>6, <1>7 DEF CommitDecision, TypeOK

LEMMA ReceiveTypeOK ==
    ASSUME OrdersAssumption, TypeOK, NEW h \in Handlers, Receive(h)
    PROVE  TypeOK'
<1>1. PICK u \in Users, o \in Orders :
        \/ \E to \in OrderStatuses : ReadOrder(h, u, o, to)
        \/ \E s \in Steps, d \in Decisions : ReadStep(h, u, o, s, d)
  BY DEF Receive
<1>2. CASE \E to \in OrderStatuses : ReadOrder(h, u, o, to)
  <2>1. PICK to \in OrderStatuses : ReadOrder(h, u, o, to)
    BY <1>2
  <2>2. status[o] \in OrderStatuses
    BY <2>1 DEF ReadOrder, MayStart, TypeOK
  <2>3. inFlight' \in [Handlers -> InFlight]
    BY <2>1, <2>2, BeginType DEF ReadOrder, InFlight, StatusMove, RoutedMove, TypeOK
  <2> QED
    BY <2>1, <2>3 DEF ReadOrder, TypeOK, orderVars, approvalVars
<1>3. CASE \E s \in Steps, d \in Decisions : ReadStep(h, u, o, s, d)
  BY <1>3, DecisionType, BeginType DEF ReadStep, TypeOK, orderVars, approvalVars
<1> QED
  BY <1>1, <1>2, <1>3

LEMMA HandlerStepTypeOK ==
    ASSUME OrdersAssumption, TypeOK, NEW h \in Handlers, HandlerStep(h)
    PROVE  TypeOK'
<1>1. ASSUME NEW s \in Steps, RouteToStep(h, s)
      PROVE  TypeOK'
  <2>1. inFlight[h] \in RoutedMove
    BY <1>1, CarriedType DEF RouteToStep
  <2> QED
    BY <1>1, <2>1, DecisionType, BeginType
    DEF RouteToStep, RoutedMove, TypeOK, orderVars, approvalVars
<1>2. CASE RouteRefused(h)
  BY <1>2, FinishType DEF RouteRefused, TypeOK, orderVars, approvalVars
<1>3. CASE RouteDirect(h)
  <2>1. inFlight[h] \in RoutedMove
    BY <1>3, CarriedType DEF RouteDirect
  <2>2. [inFlight[h] EXCEPT !.at = "commit"] \in StatusMove
    BY <2>1 DEF RoutedMove, StatusMove, Decisions, OrderStatuses
  <2> QED
    BY <1>3, <2>2, BeginType DEF RouteDirect, InFlight, TypeOK, orderVars, approvalVars
<1>4. CASE Abort(h)
  BY <1>4, FinishType DEF Abort, TypeOK, orderVars, approvalVars
<1> QED
  BY <1>1, <1>2, <1>3, <1>4, CommitStatusTypeOK, WriteStepTypeOK,
     CommitDecisionTypeOK DEF HandlerStep

LEMMA RecountStockTypeOK ==
    ASSUME OrdersAssumption, TypeOK, NEW p \in Products, NEW n \in 0..MaxOnHand,
           RecountStock(p, n)
    PROVE  TypeOK'
<1>1. n \in Nat
  BY DEF OrdersAssumption
<1>2. [shelf[p] EXCEPT !.onHand = n] \in [onHand : Nat, reserved : Nat]
  <2>1. shelf[p] \in [onHand : Nat, reserved : Nat]
    BY DEF TypeOK, Shelf
  <2> QED
    BY <1>1, <2>1
<1>3. shelf' = [shelf EXCEPT ![p] = [shelf[p] EXCEPT !.onHand = n]]
  BY DEF RecountStock, Recount
<1>4. shelf' \in Shelf
  BY <1>2, <1>3 DEF TypeOK, Shelf
<1> QED
  BY <1>4 DEF RecountStock, TypeOK, orderVars, approvalVars

LEMMA NextTypeOK ==
    ASSUME OrdersAssumption, TypeOK, [Next]_vars
    PROVE  TypeOK'
<1>1. ASSUME NEW o \in Orders, ConfirmDelivery(o)
      PROVE  TypeOK'
  BY <1>1 DEF ConfirmDelivery, TypeOK, OrderStatuses, approvalVars
<1>2. CASE UNCHANGED vars
  BY <1>2 DEF vars, orderVars, approvalVars, TypeOK
<1> QED
  BY <1>1, <1>2, PlaceOrderTypeOK, RecountStockTypeOK, ReceiveTypeOK, HandlerStepTypeOK
  DEF Next

\* Whatever requests overlap, every row stays one the schema allows and every
\* request in flight carries what its next step needs.
THEOREM TypeCorrect == Spec => []TypeOK
<1> USE OrdersAssumption
<1>1. Init => TypeOK
  BY InitTypeOK
<1>2. TypeOK /\ [Next]_vars => TypeOK'
  BY NextTypeOK
<1> QED
  BY <1>1, <1>2, PTL DEF Spec

-----------------------------------------------------------------------------
(* The inductive invariant.  A status change commits on the strength of a  *)
(* row it read before others committed; what saves the properties is what  *)
(* cannot have changed since in that row (ReadsStillHold), not its         *)
(* freshness.                                                              *)

Within(sh) == \A p \in Products : sh[p].reserved <= sh[p].onHand

\* The two floors keep a shelf in order, whatever is released or consumed and
\* however often: both columns lose the same amount.
LEMMA FloorsKeepWithin ==
    ASSUME NEW sh \in Shelf, NEW want \in [Products -> Nat], Within(sh)
    PROVE  Within(ReleaseStock(sh, want)) /\ Within(ConsumeStock(sh, want))
BY DEF Shelf, Within, ReleaseStock, ConsumeStock, AtLeastZero

LEMMA ReserveKeepsWithin ==
    ASSUME NEW sh \in Shelf, NEW want \in [Products -> Nat], Within(sh),
           CanReserve(sh, want)
    PROVE  Within(ReserveStock(sh, want))
BY DEF Shelf, Within, ReserveStock, CanReserve

\* Who may approve by the status route: never the placer, unless an
\* administrator.
LEMMA ApproverIsIndependent ==
    ASSUME OrdersAssumption, NEW u \in Users, NEW o \in Orders,
           MayMakeTransition(u, o, "APPROVED")
    PROVE  u # Null /\ (u = Placer[o] => RoleOf[Placer[o]] = "ADMIN")
<1>1. "APPROVED" \in Decisions
  BY DEF Decisions
<1> QED
  BY <1>1 DEF OrdersAssumption, MayMakeTransition

\* The edges of the table into the last statuses, and that none leads to DRAFT.
LEMMA LateEdges ==
    ASSUME NEW from, NEW to, CanTransition(from, to)
    PROVE  /\ to # "DRAFT"
           /\ to = "PROCESSING" => from = "APPROVED"
           /\ to = "DISPATCHED" => from = "PROCESSING"
           /\ to = "DELIVERED" => from = "DISPATCHED"
BY DEF CanTransition, TRANSITIONS

LEMMA InitInv ==
    ASSUME OrdersAssumption, Init
    PROVE  OrdersInv
<1>1. ReservedWithinOnHand
  BY DEF OrdersAssumption, Init, ReservedWithinOnHand
<1>2. /\ ReservationHasOpenOrder
      /\ NoProductionWithoutApproval
      /\ DispatchIsRecorded
  BY DEF OrdersAssumption, Init, ReservationHasOpenOrder, NoProductionWithoutApproval,
         DispatchIsRecorded, OrderStatuses
<1>3. ReadsStillHold /\ DeciderIsNotPlacer
  BY DEF Init, ReadsStillHold, DeciderIsNotPlacer, Idle
<1> QED
  BY <1>1, <1>2, <1>3, InitTypeOK DEF OrdersInv

LEMMA CommitStatusInv ==
    ASSUME OrdersAssumption, OrdersInv, NEW h \in Handlers, CommitStatus(h)
    PROVE  OrdersInv'
<1> USE DEF OrdersInv
<1>1. PICK req \in StatusMove : req = inFlight[h]
  BY CarriedType DEF CommitStatus
<1> DEFINE o == req.order
<1>a. /\ o \in Orders /\ req.user \in Users /\ req.to \in OrderStatuses
      /\ req.at = "commit"
  BY DEF StatusMove
<1>2. ReadStillHolds(h)
  BY <1>1, <1>a DEF ReadsStillHold
<1>3. MoveStock(o, req.to, req.held)
  BY <1>1 DEF CommitStatus
<1>4. status' = [status EXCEPT ![o] = req.to]
  BY <1>1 DEF CommitStatus
<1>5. ReservedWithinOnHand'
  <2>1. shelf \in Shelf /\ Want[o] \in [Products -> Nat] /\ Within(shelf)
    BY <1>1, <1>a DEF OrdersAssumption, TypeOK, ReservedWithinOnHand, Within
  <2>2. Within(ReleaseStock(shelf, Want[o])) /\ Within(ConsumeStock(shelf, Want[o]))
    BY <2>1, FloorsKeepWithin
  <2> QED
    BY <1>1, <1>a, <1>3, <2>1, <2>2 DEF MoveStock, Within, ReservedWithinOnHand
\* The stock state never becomes RESERVED here.
<1>6. \A r \in Orders : stockState'[r] = "RESERVED" => stockState[r] = "RESERVED"
  BY <1>1, <1>a, <1>3 DEF MoveStock, TypeOK
<1>7. ReservationHasOpenOrder'
  <2> SUFFICES ASSUME stockState'[o] = "RESERVED"
               PROVE  req.to \in {"PENDING_APPROVAL", "CHANGES_REQUESTED", "APPROVED",
                                  "PROCESSING"}
    BY <1>1, <1>a, <1>4, <1>6 DEF ReservationHasOpenOrder, TypeOK
  <2>1. stockState[o] = "RESERVED" /\ req.held = "RESERVED"
    BY <1>1, <1>a, <1>2, <1>6 DEF ReadStillHolds
  <2>2. req.to \notin {"DISPATCHED", "REJECTED", "CANCELLED"}
    BY <1>1, <1>a, <1>3, <2>1 DEF MoveStock, TypeOK
  <2>3. req.to # "DELIVERED" /\ req.to # "DRAFT"
    BY <1>1, <1>2, <2>1, LateEdges DEF ReadStillHolds
  <2> QED
    BY <1>1, <1>a, <2>2, <2>3 DEF OrderStatuses
\* An approval on record stays on record.
<1>8. /\ approvedBy' = IF req.to = "APPROVED" THEN [approvedBy EXCEPT ![o] = req.user]
                                             ELSE approvedBy
      /\ req.to = "APPROVED" =>
            req.user # Null /\ (req.user = Placer[o] => RoleOf[Placer[o]] = "ADMIN")
  BY <1>1, <1>a, <1>2, ApproverIsIndependent DEF CommitStatus, ReadStillHolds
<1>9. /\ \A r \in Orders : IndependentApproval(r) => IndependentApproval(r)'
      /\ req.to = "APPROVED" => IndependentApproval(o)'
  BY <1>1, <1>a, <1>8 DEF IndependentApproval, TypeOK
<1>10. NoProductionWithoutApproval'
  <2> SUFFICES ASSUME NEW r \in Orders, NeedsApproval(r),
                      status'[r] \in {"APPROVED", "PROCESSING", "DISPATCHED", "DELIVERED"}
               PROVE  IndependentApproval(r)'
    BY DEF NoProductionWithoutApproval, NeedsApproval
  <2>1. CASE r # o
    BY <1>1, <1>a, <1>4, <1>9, <2>1 DEF NoProductionWithoutApproval, TypeOK
  <2>2. CASE r = o
    <3>1. req.to \in {"APPROVED", "PROCESSING", "DISPATCHED", "DELIVERED"}
      BY <1>1, <1>a, <1>4, <2>2 DEF TypeOK
    <3>2. req.to # "APPROVED" => req.from \in {"APPROVED", "PROCESSING", "DISPATCHED"}
      BY <1>1, <1>2, <3>1, LateEdges DEF ReadStillHolds
    <3> QED
      BY <1>1, <1>a, <1>2, <1>9, <2>2, <3>2 DEF ReadStillHolds
  <2> QED
    BY <2>1, <2>2
<1>11. \A r \in Orders : dispatched[r] => dispatched'[r]
  BY <1>1, <1>a DEF CommitStatus, TypeOK
<1>12. DispatchIsRecorded'
  <2>1. req.to \in {"DISPATCHED", "DELIVERED"} => dispatched'[o]
    BY <1>1, <1>a, <1>2, <1>11, LateEdges DEF CommitStatus, ReadStillHolds, TypeOK
  <2> QED
    BY <1>1, <1>a, <1>4, <1>11, <2>1 DEF DispatchIsRecorded, TypeOK
<1>13. inFlight' = [inFlight EXCEPT ![h] = Idle]
  BY DEF CommitStatus, Finish
<1>14. \A g \in Handlers : inFlight'[g] = inFlight[g] \/ inFlight'[g].at = "idle"
  BY <1>13 DEF TypeOK, Idle
<1>15. ReadsStillHold'
  <2> SUFFICES ASSUME NEW g \in Handlers, inFlight'[g].at \in {"route", "commit"}
               PROVE  ReadStillHolds(g)'
    BY DEF ReadsStillHold
  <2>1. inFlight'[g] = inFlight[g] /\ ReadStillHolds(g) /\ inFlight[g].order \in Orders
    BY <1>14, CarriedType DEF ReadsStillHold, StatusMove, RoutedMove
  <2>2. status'[inFlight[g].order] # Null
    BY <1>1, <1>a, <1>4, <2>1 DEF ReadStillHolds, OrdersAssumption, TypeOK
  <2> QED
    BY <1>6, <1>9, <1>11, <2>1, <2>2 DEF ReadStillHolds, NeedsApproval, MayMakeTransition
<1>16. DeciderIsNotPlacer'
  BY <1>14 DEF DeciderIsNotPlacer
<1> QED
  BY <1>5, <1>7, <1>10, <1>12, <1>15, <1>16, CommitStatusTypeOK

\* A step that leaves the rows alone and either ends a handler's work or keeps
\* the status change it carries.
LEMMA HandlerOnlyInv ==
    ASSUME OrdersInv, UNCHANGED <<orderVars, shelf>>, TypeOK',
           \A g \in Handlers :
               \/ inFlight'[g].at \notin {"route", "commit"}
               \/ ReadStillHolds(g)',
           \A g \in Handlers :
               inFlight'[g].at \in {"decide", "written"} =>
                   inFlight'[g].user # Placer[inFlight'[g].order]
    PROVE  OrdersInv'
BY DEF OrdersInv, orderVars, ReservedWithinOnHand, ReservationHasOpenOrder,
       NoProductionWithoutApproval, IndependentApproval, NeedsApproval,
       DispatchIsRecorded, ReadsStillHold, DeciderIsNotPlacer

LEMMA CommitDecisionInv ==
    ASSUME OrdersAssumption, OrdersInv, NEW h \in Handlers, CommitDecision(h)
    PROVE  OrdersInv'
<1> USE DEF OrdersInv
<1>1. PICK req \in WrittenStep : req = inFlight[h]
  BY CarriedType DEF CommitDecision
<1> DEFINE o == req.order
<1>2. /\ o \in Orders /\ req.user \in Users /\ req.outcome \in RequestOutcome
      /\ req.at = "written" /\ req.user # Placer[o]
  BY <1>1 DEF WrittenStep, DeciderIsNotPlacer
<1>3. /\ status' = IF req.outcome = "PENDING" THEN status
                  ELSE [status EXCEPT ![o] = req.outcome]
      /\ approvedBy' = IF req.outcome = "APPROVED"
                      THEN [approvedBy EXCEPT ![o] = req.user] ELSE approvedBy
      /\ UNCHANGED dispatched
  BY <1>1 DEF CommitDecision
<1>4. \/ /\ req.outcome = "REJECTED" /\ stockState[o] = "RESERVED"
         /\ shelf' = ReleaseStock(shelf, Want[o])
         /\ stockState' = [stockState EXCEPT ![o] = "RELEASED"]
      \/ /\ req.outcome # "REJECTED" \/ stockState[o] # "RESERVED"
         /\ UNCHANGED <<shelf, stockState>>
  BY <1>1 DEF CommitDecision
<1>5. ReservedWithinOnHand'
  <2>1. shelf \in Shelf /\ Want[o] \in [Products -> Nat] /\ Within(shelf)
    BY <1>2 DEF OrdersAssumption, TypeOK, ReservedWithinOnHand, Within
  <2>2. Within(ReleaseStock(shelf, Want[o]))
    BY <2>1, FloorsKeepWithin
  <2> QED
    BY <1>4, <2>1, <2>2 DEF Within, ReservedWithinOnHand
<1>6. \A r \in Orders : stockState'[r] = "RESERVED" => stockState[r] = "RESERVED"
  BY <1>2, <1>4 DEF TypeOK
\* A decision leaves the order open, or refuses it and releases its stock.
<1>7. ReservationHasOpenOrder'
  <2> SUFFICES ASSUME NEW r \in Orders, stockState'[r] = "RESERVED"
               PROVE  status'[r] \in {"PENDING_APPROVAL", "CHANGES_REQUESTED",
                                      "APPROVED", "PROCESSING"}
    BY DEF ReservationHasOpenOrder
  <2>1. CASE r # o \/ req.outcome = "PENDING"
    BY <1>2, <1>3, <1>6, <2>1 DEF ReservationHasOpenOrder, TypeOK
  <2>2. CASE r = o /\ req.outcome # "PENDING"
    <3>1. req.outcome # "REJECTED"
      BY <1>2, <1>4, <1>6, <2>2 DEF TypeOK
    <3> QED
      BY <1>2, <1>3, <2>2, <3>1 DEF TypeOK, RequestOutcome
  <2> QED
    BY <2>1, <2>2
<1>8. /\ \A r \in Orders : IndependentApproval(r) => IndependentApproval(r)'
      /\ req.outcome = "APPROVED" => IndependentApproval(o)'
  BY <1>2, <1>3 DEF IndependentApproval, TypeOK, OrdersAssumption
<1>9. NoProductionWithoutApproval'
  <2> SUFFICES ASSUME NEW r \in Orders, NeedsApproval(r),
                      status'[r] \in {"APPROVED", "PROCESSING", "DISPATCHED", "DELIVERED"}
               PROVE  IndependentApproval(r)'
    BY DEF NoProductionWithoutApproval, NeedsApproval
  <2>1. CASE r # o \/ req.outcome = "PENDING"
    BY <1>2, <1>3, <1>8, <2>1 DEF NoProductionWithoutApproval, TypeOK
  <2>2. CASE r = o /\ req.outcome # "PENDING"
    BY <1>2, <1>3, <1>8, <2>2 DEF TypeOK, RequestOutcome
  <2> QED
    BY <2>1, <2>2
<1>10. DispatchIsRecorded'
  BY <1>2, <1>3 DEF DispatchIsRecorded, TypeOK, RequestOutcome
<1>11. \A g \in Handlers : inFlight'[g] = inFlight[g] \/ inFlight'[g].at = "idle"
  BY DEF CommitDecision, Finish, TypeOK, Idle
<1>12. ReadsStillHold'
  <2> SUFFICES ASSUME NEW g \in Handlers, inFlight'[g].at \in {"route", "commit"}
               PROVE  ReadStillHolds(g)'
    BY DEF ReadsStillHold
  <2>1. inFlight'[g] = inFlight[g] /\ ReadStillHolds(g) /\ inFlight[g].order \in Orders
    BY <1>11, CarriedType DEF ReadsStillHold, StatusMove, RoutedMove
  <2>2. status'[inFlight[g].order] # Null
    BY <1>2, <1>3, <2>1 DEF ReadStillHolds, OrdersAssumption, TypeOK
  <2> QED
    BY <1>3, <1>6, <1>8, <2>1, <2>2 DEF ReadStillHolds, NeedsApproval, MayMakeTransition
<1>13. DeciderIsNotPlacer'
  BY <1>11 DEF DeciderIsNotPlacer
<1> QED
  BY <1>5, <1>7, <1>9, <1>10, <1>12, <1>13, CommitDecisionTypeOK

LEMMA PlaceOrderInv ==
    ASSUME OrdersAssumption, OrdersInv, NEW o \in Orders, PlaceOrder(o)
    PROVE  OrdersInv'
<1> USE DEF OrdersInv
<1>1. status[o] = Null /\ UNCHANGED <<approvedBy, dispatched, inFlight>>
  BY DEF PlaceOrder
<1>2. status' = [status EXCEPT ![o] = IF NeedsApproval(o) THEN "PENDING_APPROVAL"
                                                         ELSE "APPROVED"]
  BY DEF PlaceOrder
<1>3. \A r \in Orders : r # o => stockState'[r] = stockState[r]
  BY DEF PlaceOrder, TypeOK
<1>4. ReservedWithinOnHand'
  <2>1. shelf \in Shelf /\ Want[o] \in [Products -> Nat] /\ Within(shelf)
    BY DEF OrdersAssumption, TypeOK, ReservedWithinOnHand, Within
  <2>2. Within(ReserveStock(shelf, Want[o])) /\ shelf' = ReserveStock(shelf, Want[o])
    BY <2>1, ReserveKeepsWithin DEF PlaceOrder
  <2> QED
    BY <2>2 DEF Within, ReservedWithinOnHand
<1>5. ReservationHasOpenOrder'
  BY <1>2, <1>3 DEF ReservationHasOpenOrder, TypeOK
<1>6. NoProductionWithoutApproval'
  BY <1>1, <1>2 DEF NoProductionWithoutApproval, NeedsApproval, IndependentApproval, TypeOK
<1>7. DispatchIsRecorded'
  BY <1>1, <1>2 DEF DispatchIsRecorded, TypeOK
\* No request in flight has read an order that did not exist.
<1>8. ReadsStillHold'
  <2> SUFFICES ASSUME NEW g \in Handlers, inFlight'[g].at \in {"route", "commit"}
               PROVE  ReadStillHolds(g)'
    BY DEF ReadsStillHold
  <2>1. /\ inFlight'[g] = inFlight[g] /\ ReadStillHolds(g)
        /\ inFlight[g].order \in Orders
    BY <1>1, CarriedType DEF ReadsStillHold, StatusMove, RoutedMove
  <2>2. inFlight[g].order # o
    BY <1>1, <2>1 DEF ReadStillHolds
  <2> QED
    BY <1>1, <1>2, <1>3, <2>1, <2>2
    DEF ReadStillHolds, NeedsApproval, IndependentApproval, MayMakeTransition, TypeOK
<1>9. DeciderIsNotPlacer'
  BY <1>1 DEF DeciderIsNotPlacer
<1> QED
  BY <1>4, <1>5, <1>6, <1>7, <1>8, <1>9, PlaceOrderTypeOK

LEMMA ConfirmDeliveryInv ==
    ASSUME OrdersAssumption, OrdersInv, NEW o \in Orders, ConfirmDelivery(o)
    PROVE  OrdersInv'
<1> USE DEF OrdersInv
<1>1. /\ status[o] = "DISPATCHED" /\ status' = [status EXCEPT ![o] = "DELIVERED"]
      /\ UNCHANGED <<stockState, approvedBy, dispatched, shelf, inFlight>>
  BY DEF ConfirmDelivery
<1>2. /\ ReservedWithinOnHand' /\ ReservationHasOpenOrder' /\ DispatchIsRecorded'
      /\ NoProductionWithoutApproval'
  BY <1>1 DEF ReservedWithinOnHand, ReservationHasOpenOrder, DispatchIsRecorded,
      NoProductionWithoutApproval, NeedsApproval, IndependentApproval, TypeOK
<1>3. ReadsStillHold'
  <2> SUFFICES ASSUME NEW g \in Handlers, inFlight[g].at \in {"route", "commit"}
               PROVE  ReadStillHolds(g)'
    BY <1>1 DEF ReadsStillHold
  <2>1. ReadStillHolds(g) /\ inFlight[g].order \in Orders
    BY CarriedType DEF ReadsStillHold, StatusMove, RoutedMove
  <2>2. status'[inFlight[g].order] # Null
    BY <1>1, <2>1 DEF ReadStillHolds, OrdersAssumption, OrderStatuses, TypeOK
  <2> QED
    BY <1>1, <2>1, <2>2
    DEF ReadStillHolds, NeedsApproval, IndependentApproval, MayMakeTransition
<1>4. DeciderIsNotPlacer' /\ TypeOK'
  BY <1>1 DEF DeciderIsNotPlacer, ConfirmDelivery, TypeOK, OrderStatuses, approvalVars
<1> QED
  BY <1>2, <1>3, <1>4

LEMMA RecountStockInv ==
    ASSUME OrdersAssumption, OrdersInv, NEW p \in Products, NEW n \in 0..MaxOnHand,
           RecountStock(p, n)
    PROVE  OrdersInv'
<1> USE DEF OrdersInv
<1>1. UNCHANGED <<orderVars, inFlight>> /\ TypeOK'
  BY RecountStockTypeOK DEF RecountStock
<1>2. ReservedWithinOnHand'
  <2>1. shelf \in Shelf /\ Within(shelf)
    BY DEF TypeOK, ReservedWithinOnHand, Within
  <2>2. shelf' = [shelf EXCEPT ![p].onHand = n] /\ shelf[p].reserved <= n
    BY DEF RecountStock, Recount, CanRecount, OrdersAssumption, TypeOK, Shelf
  <2>3. Within(shelf')
    BY <2>1, <2>2 DEF Within, Shelf
  <2> QED
    BY <2>3 DEF Within, ReservedWithinOnHand
<1>3. /\ ReservationHasOpenOrder' /\ DispatchIsRecorded' /\ NoProductionWithoutApproval'
      /\ DeciderIsNotPlacer'
  BY <1>1 DEF ReservationHasOpenOrder, DispatchIsRecorded, NoProductionWithoutApproval,
      NeedsApproval, IndependentApproval, DeciderIsNotPlacer, orderVars
<1>4. ReadsStillHold'
  BY <1>1 DEF ReadsStillHold, ReadStillHolds, NeedsApproval, IndependentApproval,
      MayMakeTransition, orderVars
<1> QED
  BY <1>1, <1>2, <1>3, <1>4

\* What a status change reads holds when it is read.
LEMMA ReadOrderInv ==
    ASSUME OrdersAssumption, OrdersInv, NEW h \in Handlers, NEW u \in Users,
           NEW o \in Orders, NEW to \in OrderStatuses, ReadOrder(h, u, o, to), TypeOK'
    PROVE  OrdersInv'
<1> USE DEF OrdersInv
<1> DEFINE req == [at |-> IF to \in Decisions THEN "route" ELSE "commit",
                   user |-> u, order |-> o, to |-> to,
                   from |-> status[o], held |-> stockState[o]]
<1>1. inFlight' = [inFlight EXCEPT ![h] = req] /\ UNCHANGED <<orderVars, shelf>>
  BY DEF ReadOrder, Begin
<1>2. ASSUME NEW g \in Handlers
      PROVE  inFlight'[g].at \notin {"route", "commit"} \/ ReadStillHolds(g)'
  <2>1. CASE g = h
    <3>1. inFlight'[g] = req
      BY <1>1, <2>1 DEF TypeOK
    <3>2. /\ status[o] # Null /\ CanTransition(status[o], to)
          /\ MayMakeTransition(u, o, to)
      BY DEF ReadOrder, MayStart
    <3>3. /\ status[o] = "DISPATCHED" => stockState[o] # "RESERVED" /\ dispatched[o]
          /\ NeedsApproval(o) /\ status[o] \in {"APPROVED", "PROCESSING", "DISPATCHED"}
                => IndependentApproval(o)
      BY DEF ReservationHasOpenOrder, DispatchIsRecorded, NoProductionWithoutApproval
    <3> QED
      BY <1>1, <3>1, <3>2, <3>3 DEF ReadStillHolds, NeedsApproval, IndependentApproval,
          MayMakeTransition, orderVars
  <2>2. CASE g # h
    <3>1. inFlight'[g] = inFlight[g]
      BY <1>1, <2>2 DEF TypeOK
    <3> QED
      BY <1>1, <3>1 DEF ReadsStillHold, ReadStillHolds, NeedsApproval,
          IndependentApproval, MayMakeTransition, orderVars
  <2> QED
    BY <2>1, <2>2
<1>3. ASSUME NEW g \in Handlers, inFlight'[g].at \in {"decide", "written"}
      PROVE  inFlight'[g].user # Placer[inFlight'[g].order]
  BY <1>1, <1>3 DEF DeciderIsNotPlacer, TypeOK
<1> QED
  BY <1>1, <1>2, <1>3, HandlerOnlyInv

\* Every other step of a handler that leaves the order and the shelf alone: it
\* keeps what it carries, or ends, or becomes a decision by somebody who did
\* not place the order.
LEMMA CarryOnInv ==
    ASSUME OrdersAssumption, OrdersInv, TypeOK', NEW h \in Handlers, NEW req,
           inFlight' = [inFlight EXCEPT ![h] = req],
           UNCHANGED <<orderVars, shelf>>,
           \/ req.at = "idle"
           \/ req.at \in {"decide", "written"} /\ req.user # Placer[req.order]
           \/ /\ inFlight[h].at = "route" /\ req = [inFlight[h] EXCEPT !.at = "commit"]
              /\ req.at = "commit"
    PROVE  OrdersInv'
<1> USE DEF OrdersInv
<1>1. ASSUME NEW g \in Handlers
      PROVE  inFlight'[g].at \notin {"route", "commit"} \/ ReadStillHolds(g)'
  <2>1. CASE g # h
    <3>1. inFlight'[g] = inFlight[g]
      BY <2>1 DEF TypeOK
    <3> QED
      BY <3>1 DEF ReadsStillHold, ReadStillHolds, NeedsApproval, IndependentApproval,
          MayMakeTransition, orderVars
  <2>2. CASE g = h /\ inFlight[h].at = "route" /\ req = [inFlight[h] EXCEPT !.at = "commit"]
    <3>1. inFlight'[h] = req /\ ReadStillHolds(h) /\ inFlight[h] \in RoutedMove
      BY <2>2, CarriedType DEF ReadsStillHold, TypeOK
    <3>2. /\ req.user = inFlight[h].user /\ req.order = inFlight[h].order
          /\ req.to = inFlight[h].to /\ req.from = inFlight[h].from
          /\ req.held = inFlight[h].held
      BY <2>2, <3>1 DEF RoutedMove
    <3> QED
      BY <2>2, <3>1, <3>2 DEF ReadStillHolds, NeedsApproval, IndependentApproval,
          MayMakeTransition, orderVars
  <2>3. CASE g = h /\ req.at \notin {"route", "commit"}
    BY <2>3 DEF TypeOK
  <2> QED
    BY <2>1, <2>2, <2>3
<1>2. ASSUME NEW g \in Handlers, inFlight'[g].at \in {"decide", "written"}
      PROVE  inFlight'[g].user # Placer[inFlight'[g].order]
  BY <1>2 DEF DeciderIsNotPlacer, TypeOK
<1> QED
  BY <1>1, <1>2, HandlerOnlyInv

LEMMA ReceiveInv ==
    ASSUME OrdersAssumption, OrdersInv, NEW h \in Handlers, Receive(h)
    PROVE  OrdersInv'
<1>1. TypeOK'
  BY ReceiveTypeOK DEF OrdersInv
<1>2. PICK u \in Users, o \in Orders :
        \/ \E to \in OrderStatuses : ReadOrder(h, u, o, to)
        \/ \E s \in Steps, d \in Decisions : ReadStep(h, u, o, s, d)
  BY DEF Receive
<1>3. ASSUME NEW s \in Steps, NEW d \in Decisions, ReadStep(h, u, o, s, d)
      PROVE  OrdersInv'
  <2>1. /\ inFlight' = [inFlight EXCEPT ![h] = Decision(u, o, s, d)]
        /\ UNCHANGED <<orderVars, shelf>>
    BY <1>3 DEF ReadStep, Begin
  <2>2. /\ Decision(u, o, s, d).at = "decide"
        /\ Decision(u, o, s, d).user # Placer[Decision(u, o, s, d).order]
    BY <1>3 DEF ReadStep, Decidable, CanDecideStep, Decision
  <2> QED
    BY <1>1, <2>1, <2>2, CarryOnInv
<1> QED
  BY <1>1, <1>2, <1>3, ReadOrderInv

LEMMA HandlerStepInv ==
    ASSUME OrdersAssumption, OrdersInv, NEW h \in Handlers, HandlerStep(h)
    PROVE  OrdersInv'
<1>1. TypeOK'
  BY HandlerStepTypeOK DEF OrdersInv
<1>2. ASSUME NEW s \in Steps, RouteToStep(h, s)
      PROVE  OrdersInv'
  <2> DEFINE req == Decision(inFlight[h].user, inFlight[h].order, s, inFlight[h].to)
  <2>1. PICK d : d = req
    OBVIOUS
  <2>2. inFlight' = [inFlight EXCEPT ![h] = d] /\ UNCHANGED <<orderVars, shelf>>
    BY <1>2, <2>1 DEF RouteToStep, Begin
  <2>3. d.at = "decide" /\ d.user # Placer[d.order]
    BY <1>2, <2>1 DEF RouteToStep, Decidable, CanDecideStep, Decision
  <2> QED
    BY <1>1, <2>2, <2>3, CarryOnInv
<1>3. CASE RouteDirect(h)
  <2>1. PICK d : d = [inFlight[h] EXCEPT !.at = "commit"]
    OBVIOUS
  <2>2. /\ inFlight[h].at = "route" /\ inFlight' = [inFlight EXCEPT ![h] = d]
        /\ UNCHANGED <<orderVars, shelf>>
    BY <1>3, <2>1 DEF RouteDirect, Begin
  <2>3. d.at = "commit"
    BY <2>1, <2>2, CarriedType DEF RoutedMove, OrdersInv
  <2> QED
    BY <1>1, <2>1, <2>2, <2>3, CarryOnInv
<1>4. CASE WriteStep(h)
  <2>1. PICK p \in EvaluateProgress(Plan[inFlight[h].order], Tier,
                     [stepStatus EXCEPT ![inFlight[h].step] = inFlight[h].to]) :
          Begin(h, [at |-> "written", user |-> inFlight[h].user,
                    order |-> inFlight[h].order, step |-> inFlight[h].step,
                    to |-> inFlight[h].to, outcome |-> p.outcome,
                    tier |-> p.currentTier])
    BY <1>4 DEF WriteStep
  <2>2. PICK d : d = [at |-> "written", user |-> inFlight[h].user,
                      order |-> inFlight[h].order, step |-> inFlight[h].step,
                      to |-> inFlight[h].to, outcome |-> p.outcome,
                      tier |-> p.currentTier]
    OBVIOUS
  <2>3. inFlight' = [inFlight EXCEPT ![h] = d] /\ UNCHANGED <<orderVars, shelf>>
    BY <1>4, <2>1, <2>2 DEF WriteStep, Begin
  <2>4. d.at = "written" /\ d.user # Placer[d.order]
    BY <1>4, <2>2 DEF WriteStep, OrdersInv, DeciderIsNotPlacer
  <2> QED
    BY <1>1, <2>3, <2>4, CarryOnInv
<1>5. CASE RouteRefused(h) \/ Abort(h)
  <2>1. inFlight' = [inFlight EXCEPT ![h] = Idle] /\ UNCHANGED <<orderVars, shelf>>
    BY <1>5 DEF RouteRefused, Abort, Finish
  <2>2. Idle.at = "idle"
    BY DEF Idle
  <2> QED
    BY <1>1, <2>1, <2>2, CarryOnInv
<1> QED
  BY <1>2, <1>3, <1>4, <1>5, CommitStatusInv, CommitDecisionInv DEF HandlerStep

LEMMA NextInv ==
    ASSUME OrdersAssumption, OrdersInv, [Next]_vars
    PROVE  OrdersInv'
<1>1. CASE UNCHANGED vars
  <2>1. UNCHANGED <<orderVars, shelf, inFlight>> /\ TypeOK'
    BY <1>1, NextTypeOK DEF OrdersInv, vars
  <2> QED
    BY <2>1, HandlerOnlyInv DEF OrdersInv, ReadsStillHold, ReadStillHolds, NeedsApproval,
        IndependentApproval, MayMakeTransition, DeciderIsNotPlacer, orderVars
<1> QED
  BY <1>1, PlaceOrderInv, ConfirmDeliveryInv, RecountStockInv, ReceiveInv, HandlerStepInv
  DEF Next

\* The invariant holds of every behaviour of the server.
THEOREM InvariantHolds == Spec => []OrdersInv
<1> USE OrdersAssumption
<1>1. Init => OrdersInv
  BY InitInv
<1>2. OrdersInv /\ [Next]_vars => OrdersInv'
  BY NextInv
<1> QED
  BY <1>1, <1>2, PTL DEF Spec

\* No release, consumption or recount ever meets the table's CHECK.
THEOREM ReservedStaysWithinOnHand == Spec => []ReservedWithinOnHand
<1>1. OrdersInv => ReservedWithinOnHand
  BY DEF OrdersInv
<1> QED
  BY <1>1, InvariantHolds, PTL

\* A refused, cancelled, dispatched or delivered order holds no stock, however
\* many stale requests about it were in flight.
THEOREM ClosedOrdersHoldNoStock == Spec => []ReservationHasOpenOrder
<1>1. OrdersInv => ReservationHasOpenOrder
  BY DEF OrdersInv
<1> QED
  BY <1>1, InvariantHolds, PTL

\* Nothing that needs approval is produced without the approval, on record, of
\* somebody other than its placer, or of an administrator.
THEOREM ProductionIsApproved == Spec => []NoProductionWithoutApproval
<1>1. OrdersInv => NoProductionWithoutApproval
  BY DEF OrdersInv
<1> QED
  BY <1>1, InvariantHolds, PTL

\* Nothing is reported delivered that was not dispatched.
THEOREM DeliveryFollowsDispatch == Spec => []DeliveredWasDispatched
<1>1. OrdersInv => DeliveredWasDispatched
  BY DEF OrdersInv, DispatchIsRecorded, DeliveredWasDispatched
<1> QED
  BY <1>1, InvariantHolds, PTL
=============================================================================
