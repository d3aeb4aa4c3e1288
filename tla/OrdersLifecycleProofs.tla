----------------------- MODULE OrdersLifecycleProofs -----------------------
(***************************************************************************)
(* Proofs about Orders, for any users, orders, products, steps, plans and  *)
(* handlers: what holds of every order until a commit on an outdated       *)
(* reading has overwritten it, however the requests on it overlap, and     *)
(* what such a commit may do.                                              *)
(***************************************************************************)
EXTENDS OrdersProofs

-----------------------------------------------------------------------------
(* The inductive invariant.  What a request in flight has read need not    *)
(* hold any more; a commit that finds it does not marks the order.         *)

\* The steps st of an order leave its approval open at tier t.
RoundIsOpen(o, t, st) ==
    /\ \A s \in Plan[o] :
          /\ st[s] \in {"PENDING", "APPROVED"}
          /\ Tier[s] < t => st[s] = "APPROVED"
    /\ \E s \in Plan[o] : st[s] = "PENDING" /\ Tier[s] = t

\* What a request in flight carries and no other can take from it: the order
\* exists, the step is one of its plan, and an approval request that had been
\* closed when a decision went round it stays closed.
Carries(r) ==
    LET o == r.order
    IN  /\ r.at # "idle" => status[o] # Null
        /\ r.at \in {"decide", "written"} => r.step \in Plan[o]
        /\ r.at = "commit" /\ r.to \in Decisions /\ o \notin overwritten =>
              request[o].status # "PENDING"

RequestFits(h) == Carries(inFlight[h])

OrderFits(o) ==
    /\ status[o] = Null =>
         /\ stockState[o] = "NONE" /\ request[o].status = "NONE"
         /\ \A s \in Plan[o] : stepStatus[s] = "PENDING"
    /\ request[o].status = "PENDING" /\ o \notin overwritten =>
         status[o] = "PENDING_APPROVAL" /\ RoundIsOpen(o, request[o].tier, stepStatus)

RoundsInv ==
    /\ \A h \in Handlers : RequestFits(h)
    /\ \A o \in Orders : OrderFits(o)

-----------------------------------------------------------------------------
\* What a handler is doing, and the order and step it is about.
LEMMA RequestType ==
    ASSUME TypeOK, NEW h \in Handlers
    PROVE  /\ inFlight[h].at \in {"idle", "commit", "route", "decide", "written"}
           /\ ~ IsIdle(h) => inFlight[h].order \in Orders
           /\ inFlight[h].at \in {"decide", "written"} =>
                inFlight[h].step \in Steps /\ inFlight[h].to \in Decisions
<1>1. inFlight[h] \in InFlight
  BY DEF TypeOK
<1> QED
  BY <1>1 DEF InFlight, Idle, StatusMove, RoutedMove, StepDecision, WrittenStep, IsIdle

LEMMA RoundDepends ==
    ASSUME NEW o, NEW t, NEW st, NEW new, \A s \in Plan[o] : new[s] = st[s]
    PROVE  RoundIsOpen(o, t, st) <=> RoundIsOpen(o, t, new)
BY DEF RoundIsOpen

LEMMA OrderFitsDepends ==
    ASSUME NEW o \in Orders, OrderFits(o),
           status'[o] = status[o], stockState'[o] = stockState[o],
           request'[o] = request[o], o \in overwritten => o \in overwritten',
           \A s \in Plan[o] : stepStatus'[s] = stepStatus[s]
    PROVE  OrderFits(o)'
BY DEF OrderFits, RoundIsOpen

LEMMA InitRoundsInv ==
    ASSUME OrdersAssumption, Init
    PROVE  RoundsInv
<1>1. \A h \in Handlers : inFlight[h].at = "idle"
  BY DEF Init, Idle
<1>2. \A h \in Handlers : RequestFits(h)
  BY <1>1 DEF RequestFits, Carries
<1>3. ASSUME NEW o \in Orders
      PROVE  OrderFits(o)
  BY DEF Init, OrderFits, OrdersAssumption
<1> QED
  BY <1>2, <1>3 DEF RoundsInv

-----------------------------------------------------------------------------
\* A step about one order, which ends a request or leaves all in flight: it is
\* enough that this order fits after it, and that it reopens no approval.
LEMMA OrderStepInv ==
    ASSUME OrdersAssumption, TypeOK, TypeOK', RoundsInv, NEW o \in Orders,
           \A g \in Handlers : inFlight'[g] = inFlight[g] \/ inFlight'[g].at = "idle",
           \A p \in Orders \ {o} :
              /\ status'[p] = status[p] /\ stockState'[p] = stockState[p]
              /\ request'[p] = request[p] /\ (p \in overwritten => p \in overwritten'),
           \A s \in Steps \ Plan[o] : stepStatus'[s] = stepStatus[s],
           status'[o] # Null,
           o \in overwritten => o \in overwritten',
           request'[o].status = "PENDING" /\ o \notin overwritten' =>
              request[o].status = "PENDING" \/ status[o] = Null,
           OrderFits(o)'
    PROVE  RoundsInv'
<1>1. \A p \in Orders \ {o} : \A s \in Plan[p] : stepStatus'[s] = stepStatus[s]
  BY DEF OrdersAssumption
<1>2. \A p \in Orders \ {o} : OrderFits(p)'
  BY <1>1, OrderFitsDepends DEF RoundsInv
<1>3. ASSUME NEW g \in Handlers
      PROVE  RequestFits(g)'
  <2>1. CASE inFlight'[g].at = "idle"
    BY <2>1 DEF RequestFits, Carries
  <2>2. CASE inFlight'[g].at # "idle"
    <3>1. PICK r : r = inFlight[g] /\ r = inFlight'[g] /\ Carries(r) /\ r.at # "idle"
      BY <2>2 DEF RoundsInv, RequestFits
    <3>2. PICK p \in Orders : p = r.order
      BY <3>1, RequestType DEF IsIdle
    <3>3. CASE p # o
      BY <3>1, <3>2, <3>3 DEF RequestFits, Carries
    <3>4. CASE p = o
      BY <3>1, <3>2, <3>4 DEF RequestFits, Carries
    <3> QED
      BY <3>3, <3>4
  <2> QED
    BY <2>1, <2>2
<1> QED
  BY <1>2, <1>3 DEF RoundsInv

\* A step that leaves the rows alone.
LEMMA RequestStepInv ==
    ASSUME TypeOK, TypeOK', RoundsInv, NEW h \in Handlers, NEW r,
           inFlight' = [inFlight EXCEPT ![h] = r],
           UNCHANGED <<orderVars, approvalVars, shelf, overwritten>>,
           Carries(r)
    PROVE  RoundsInv'
<1>1. UNCHANGED <<status, stockState, request, stepStatus, overwritten>>
  BY DEF orderVars, approvalVars
<1>2. \A o \in Orders : OrderFits(o)'
  BY <1>1, OrderFitsDepends DEF RoundsInv
<1>3. Carries(r)'
  BY <1>1 DEF Carries
<1>4. ASSUME NEW g \in Handlers
      PROVE  RequestFits(g)'
  <2>1. CASE g = h
    BY <1>3, <2>1 DEF RequestFits, TypeOK
  <2>2. CASE g # h
    <3>1. inFlight'[g] = inFlight[g]
      BY <2>2 DEF TypeOK
    <3> QED
      BY <1>1, <3>1 DEF RoundsInv, RequestFits, Carries
  <2> QED
    BY <2>1, <2>2
<1> QED
  BY <1>2, <1>4 DEF RoundsInv

LEMMA ReceiveRounds ==
    ASSUME OrdersAssumption, TypeOK, TypeOK', RoundsInv, NEW h \in Handlers, Receive(h)
    PROVE  RoundsInv'
<1>1. PICK u \in Users, o \in Orders :
        \/ \E to \in OrderStatuses : ReadOrder(h, u, o, to)
        \/ \E s \in Steps, d \in Decisions : ReadStep(h, u, o, s, d)
  BY DEF Receive
<1>2. status[o] # Null /\ UNCHANGED <<orderVars, approvalVars, shelf, overwritten>>
  BY <1>1 DEF ReadOrder, ReadStep, MayStart
<1>3. CASE \E to \in OrderStatuses : ReadOrder(h, u, o, to)
  <2>1. PICK to \in OrderStatuses : ReadOrder(h, u, o, to)
    BY <1>3
  <2>2. PICK r : r = [at |-> IF to \in Decisions THEN "route" ELSE "commit",
                      user |-> u, order |-> o, to |-> to,
                      from |-> status[o], held |-> stockState[o]]
    OBVIOUS
  <2>3. inFlight' = [inFlight EXCEPT ![h] = r]
    BY <2>1, <2>2 DEF ReadOrder, Begin
  <2>4. Carries(r)
    BY <1>2, <2>2 DEF Carries
  <2> QED
    BY <1>2, <2>3, <2>4, RequestStepInv
<1>4. CASE \E s \in Steps, d \in Decisions : ReadStep(h, u, o, s, d)
  <2>1. PICK s \in Steps, d \in Decisions : ReadStep(h, u, o, s, d)
    BY <1>4
  <2>2. PICK r : r = Decision(u, o, s, d)
    OBVIOUS
  <2>3. inFlight' = [inFlight EXCEPT ![h] = r] /\ s \in Plan[o]
    BY <2>1, <2>2 DEF ReadStep, Begin, Decidable
  <2>4. Carries(r)
    BY <1>2, <2>2, <2>3 DEF Carries, Decision
  <2> QED
    BY <1>2, <2>3, <2>4, RequestStepInv
<1> QED
  BY <1>1, <1>3, <1>4

\* A request that goes on, or ends, without touching a row.
LEMMA RouteRounds ==
    ASSUME OrdersAssumption, TypeOK, TypeOK', RoundsInv, NEW h \in Handlers,
           \/ \E s \in Steps : RouteToStep(h, s)
           \/ RouteDirect(h)
    PROVE  RoundsInv'
<1>1. /\ inFlight[h].at = "route" /\ Carries(inFlight[h]) /\ inFlight[h] \in RoutedMove
      /\ UNCHANGED <<orderVars, approvalVars, shelf, overwritten>>
  BY CarriedType DEF RouteToStep, RouteDirect, RoundsInv, RequestFits
<1>2. PICK o \in Orders : o = inFlight[h].order
  BY <1>1 DEF RoutedMove
<1>3. status[o] # Null
  BY <1>1, <1>2 DEF Carries
<1>4. CASE \E s \in Steps : RouteToStep(h, s)
  <2>1. PICK s \in Steps : RouteToStep(h, s)
    BY <1>4
  <2>2. PICK r : r = Decision(inFlight[h].user, o, s, inFlight[h].to)
    OBVIOUS
  <2>3. inFlight' = [inFlight EXCEPT ![h] = r] /\ s \in Plan[o]
    BY <1>2, <2>1, <2>2 DEF RouteToStep, Begin, Decidable
  <2>4. Carries(r)
    BY <1>3, <2>2, <2>3 DEF Carries, Decision
  <2> QED
    BY <1>1, <2>3, <2>4, RequestStepInv
<1>5. CASE RouteDirect(h)
  <2>1. PICK r : r = [inFlight[h] EXCEPT !.at = "commit"]
    OBVIOUS
  <2>2. inFlight' = [inFlight EXCEPT ![h] = r] /\ request[o].status # "PENDING"
    BY <1>2, <1>5, <2>1 DEF RouteDirect, Begin
  <2>3. r.at = "commit" /\ r.order = o
    BY <1>1, <1>2, <2>1 DEF RoutedMove
  <2>4. Carries(r)
    BY <1>3, <2>2, <2>3 DEF Carries
  <2> QED
    BY <1>1, <2>2, <2>4, RequestStepInv
<1> QED
  BY <1>4, <1>5

LEMMA WriteStepRounds ==
    ASSUME OrdersAssumption, TypeOK, TypeOK', RoundsInv, NEW h \in Handlers, WriteStep(h)
    PROVE  RoundsInv'
<1>1. /\ inFlight[h].at = "decide" /\ Carries(inFlight[h])
      /\ UNCHANGED <<orderVars, approvalVars, shelf, overwritten>>
  BY DEF WriteStep, RoundsInv, RequestFits
<1>2. PICK p : Begin(h, [at |-> "written", user |-> inFlight[h].user,
                         order |-> inFlight[h].order, step |-> inFlight[h].step,
                         to |-> inFlight[h].to, outcome |-> p.outcome,
                         tier |-> p.currentTier])
  BY DEF WriteStep
<1>3. PICK r : r = [at |-> "written", user |-> inFlight[h].user,
                    order |-> inFlight[h].order, step |-> inFlight[h].step,
                    to |-> inFlight[h].to, outcome |-> p.outcome, tier |-> p.currentTier]
  OBVIOUS
<1>4. inFlight' = [inFlight EXCEPT ![h] = r]
  BY <1>2, <1>3 DEF Begin
<1>5. Carries(r)
  BY <1>1, <1>3 DEF Carries
<1> QED
  BY <1>1, <1>4, <1>5, RequestStepInv

LEMMA EndedRounds ==
    ASSUME TypeOK, TypeOK', RoundsInv, NEW h \in Handlers, RouteRefused(h) \/ Abort(h)
    PROVE  RoundsInv'
<1>1. /\ inFlight' = [inFlight EXCEPT ![h] = Idle]
      /\ UNCHANGED <<orderVars, approvalVars, shelf, overwritten>>
  BY DEF RouteRefused, Abort, Finish
<1>2. Carries(Idle)
  BY DEF Idle, Carries
<1> QED
  BY <1>1, <1>2, RequestStepInv

-----------------------------------------------------------------------------
(* The commits.                                                            *)

\* What evaluateProgress answers of a round that is open but for one decision:
\* when it goes on, the round is open at the tier it names.
LEMMA ProgressOpens ==
    ASSUME OrdersAssumption, NEW o \in Orders, NEW seen \in [Steps -> StepStatus],
           \A s \in Plan[o] : seen[s] # "SKIPPED",
           NEW p \in EvaluateProgress(Plan[o], Tier, seen), p.outcome = "PENDING"
    PROVE  RoundIsOpen(o, p.currentTier, seen)
<1> DEFINE unsettled == {s \in Plan[o] : seen[s] \notin {"APPROVED", "SKIPPED"}}
<1>1. /\ \A s \in Plan[o] : seen[s] # "REJECTED" /\ seen[s] # "CHANGES_REQUESTED"
      /\ \E s \in unsettled : p.currentTier = Tier[s] /\ \A v \in unsettled : Tier[s] <= Tier[v]
  BY DEF EvaluateProgress
<1>2. Plan[o] \subseteq Steps /\ Tier \in [Steps -> Nat]
  BY DEF OrdersAssumption
<1>3. PICK s \in unsettled : p.currentTier = Tier[s] /\ \A v \in unsettled : Tier[s] <= Tier[v]
  BY <1>1
<1>4. \A v \in Plan[o] : seen[v] \in {"PENDING", "APPROVED"}
  BY <1>1, <1>2 DEF StepStatus
<1>5. \A v \in Plan[o] : Tier[v] < p.currentTier => seen[v] = "APPROVED"
  BY <1>2, <1>3, <1>4
<1> QED
  BY <1>3, <1>4, <1>5 DEF RoundIsOpen

\* The edges out of the status an open request depends on.
LEMMA EdgesOut ==
    ASSUME NEW from, NEW to, CanTransition(from, to)
    PROVE  from = "PENDING_APPROVAL" => to = "CANCELLED" \/ to \in Decisions
BY DEF CanTransition, TRANSITIONS, Decisions

\* A status change that commits, in its own words and in the row's.
LEMMA CommitFacts ==
    ASSUME OrdersAssumption, OrdersInv, NEW h \in Handlers, CommitStatus(h)
    PROVE  \E r \in StatusMove :
             /\ r = inFlight[h] /\ r.order \in Orders /\ r.to \in OrderStatuses
             /\ r.at = "commit" /\ status[r.order] # Null
             /\ CanTransition(r.from, r.to)
             /\ MoveStock(r.order, r.to, r.held)
             /\ overwritten' = IF MoveIsCurrent(r) THEN overwritten
                                                   ELSE overwritten \cup {r.order}
<1>1. PICK r \in StatusMove : r = inFlight[h]
  BY CarriedType DEF CommitStatus, OrdersInv
<1>2. r.order \in Orders /\ r.to \in OrderStatuses /\ r.at = "commit"
  BY DEF StatusMove
<1>3. status[r.order] # Null /\ CanTransition(r.from, r.to)
  BY <1>1, <1>2 DEF OrdersInv, ReadsStillHold, ReadStillHolds
<1>4. /\ MoveStock(r.order, r.to, r.held)
      /\ overwritten' = IF MoveIsCurrent(r) THEN overwritten
                                            ELSE overwritten \cup {r.order}
  BY <1>1 DEF CommitStatus
<1> QED
  BY <1>1, <1>2, <1>3, <1>4

LEMMA CommitStatusRounds ==
    ASSUME OrdersAssumption, OrdersInv, TypeOK', RoundsInv, NEW h \in Handlers, CommitStatus(h)
    PROVE  RoundsInv'
<1>1. PICK r \in StatusMove :
        /\ r = inFlight[h] /\ r.order \in Orders /\ r.to \in OrderStatuses
        /\ r.at = "commit" /\ status[r.order] # Null
        /\ CanTransition(r.from, r.to)
        /\ MoveStock(r.order, r.to, r.held)
        /\ overwritten' = IF MoveIsCurrent(r) THEN overwritten
                                              ELSE overwritten \cup {r.order}
  BY CommitFacts
<1>2. PICK o \in Orders, to \in OrderStatuses : o = r.order /\ to = r.to
  BY <1>1
<1>3. TypeOK /\ OrderFits(o) /\ Carries(r)
  BY <1>1 DEF OrdersInv, RoundsInv, RequestFits
<1>4. /\ status' = [status EXCEPT ![o] = to]
      /\ IF to = "CANCELLED" THEN CancelRequest(o) ELSE UNCHANGED <<request, stepStatus>>
      /\ inFlight' = [inFlight EXCEPT ![h] = Idle]
  BY <1>1, <1>2 DEF CommitStatus, Finish
<1>5. status'[o] = to /\ to # Null /\ \A p \in Orders \ {o} : status'[p] = status[p]
  BY <1>3, <1>4 DEF TypeOK, OrdersAssumption
<1>6. \A p \in Orders \ {o} :
        stockState'[p] = stockState[p] /\ (p \in overwritten => p \in overwritten')
  BY <1>1, <1>2, <1>3 DEF MoveStock, TypeOK
<1>7. /\ \A p \in Orders \ {o} : request'[p] = request[p]
      /\ \A s \in Steps \ Plan[o] : stepStatus'[s] = stepStatus[s]
      /\ to = "CANCELLED" => request'[o].status # "PENDING"
      /\ to # "CANCELLED" => request'[o] = request[o] /\ stepStatus' = stepStatus
  <2>1. CASE to = "CANCELLED" /\ request[o].status = "PENDING"
    BY <1>3, <1>4, <2>1 DEF CancelRequest, OpenSteps, TypeOK
  <2>2. CASE ~ (to = "CANCELLED" /\ request[o].status = "PENDING")
    BY <1>4, <2>2 DEF CancelRequest
  <2> QED
    BY <2>1, <2>2
<1>8. OrderFits(o)'
  <2>1. SUFFICES ASSUME request'[o].status = "PENDING", o \notin overwritten'
                 PROVE  (status[o] = "PENDING_APPROVAL"
                           /\ RoundIsOpen(o, request[o].tier, stepStatus))'
    BY <1>5 DEF OrderFits
  <2>2. o \notin overwritten /\ status[o] \in {r.from, to}
    BY <1>1, <1>2, <2>1 DEF MoveIsCurrent
  <2>3. to # "CANCELLED" /\ request[o].status = "PENDING"
    BY <1>7, <2>1
  <2>4. status[o] = "PENDING_APPROVAL" /\ RoundIsOpen(o, request[o].tier, stepStatus)
    BY <1>3, <2>2, <2>3 DEF OrderFits
  <2>5. to \notin Decisions
    BY <1>1, <1>2, <1>3, <2>2, <2>3 DEF Carries
  <2>6. status[o] = to
    BY <1>1, <1>2, <2>2, <2>3, <2>4, <2>5, EdgesOut
  <2> QED
    BY <1>5, <1>7, <2>3, <2>4, <2>6
<1>9. \A g \in Handlers : inFlight'[g] = inFlight[g] \/ inFlight'[g].at = "idle"
  BY <1>3, <1>4 DEF TypeOK, Idle
<1>10. (o \in overwritten => o \in overwritten')
       /\ (request'[o].status = "PENDING" => request[o].status = "PENDING")
  BY <1>1, <1>7
<1> QED
  BY <1>3, <1>5, <1>6, <1>7, <1>8, <1>9, <1>10, OrderStepInv

LEMMA CommitDecisionRounds ==
    ASSUME OrdersAssumption, TypeOK, TypeOK', RoundsInv, NEW h \in Handlers, CommitDecision(h)
    PROVE  RoundsInv'
<1>1. PICK r \in WrittenStep : r = inFlight[h] /\ r.at = "written" /\ Carries(r)
  BY CarriedType DEF CommitDecision, RoundsInv, RequestFits
<1>2. PICK o \in Orders, s \in Steps : o = r.order /\ s = r.step
  BY DEF WrittenStep
<1>3. OrderFits(o) /\ s \in Plan[o] /\ status[o] # Null
  BY <1>1, <1>2 DEF RoundsInv, Carries
<1>4. /\ status' = IF r.outcome = "PENDING" THEN status
                   ELSE [status EXCEPT ![o] = r.outcome]
      /\ request' = [request EXCEPT ![o] = [status |-> r.outcome, tier |-> r.tier]]
      /\ inFlight' = [inFlight EXCEPT ![h] = Idle]
      /\ overwritten' = IF DecisionIsCurrent(r) THEN overwritten
                                                ELSE overwritten \cup {o}
  BY <1>1, <1>2 DEF CommitDecision, Finish
<1>5. \A p \in Orders \ {o} : stockState'[p] = stockState[p]
  BY <1>1, <1>2 DEF CommitDecision, TypeOK
<1>6. PICK skipped \in SUBSET Plan[o] :
        /\ r.outcome = "PENDING" => skipped = {}
        /\ stepStatus' = [t \in Steps |-> IF t = s THEN r.to
                                          ELSE IF t \in skipped THEN "SKIPPED"
                                          ELSE stepStatus[t]]
  <2>1. PICK skipped : skipped = IF r.outcome = "REJECTED" THEN StepsAbove(o, r.tier) \ {s}
                                 ELSE {}
    OBVIOUS
  <2>2. skipped \subseteq Plan[o] /\ (r.outcome = "PENDING" => skipped = {})
    BY <2>1 DEF StepsAbove, OpenSteps
  <2>3. stepStatus' = [t \in Steps |-> IF t = s THEN r.to
                                       ELSE IF t \in skipped THEN "SKIPPED"
                                       ELSE stepStatus[t]]
    BY <1>1, <1>2, <2>1 DEF CommitDecision
  <2> QED
    BY <2>2, <2>3
<1>7. \A t \in Steps \ Plan[o] : stepStatus'[t] = stepStatus[t]
  BY <1>3, <1>6
<1>8. request'[o].status = r.outcome /\ request'[o].tier = r.tier
  BY <1>4 DEF TypeOK
<1>9. status'[o] # Null /\ (r.outcome = "PENDING" => status'[o] = status[o])
  BY <1>3, <1>4 DEF WrittenStep, RequestOutcome, TypeOK, OrdersAssumption, OrderStatuses
<1>10. ASSUME r.outcome = "PENDING", o \notin overwritten'
       PROVE  /\ o \notin overwritten /\ request[o].status = "PENDING"
              /\ status[o] = "PENDING_APPROVAL"
              /\ RoundIsOpen(o, r.tier, stepStatus')
  <2>1. o \notin overwritten /\ DecisionIsCurrent(r)
    BY <1>4, <1>10
  <2>2. request[o].status = "PENDING" /\ status[o] = "PENDING_APPROVAL"
    BY <1>2, <2>1 DEF DecisionIsCurrent, AwaitsDecision
  <2>3. PICK seen : seen = [stepStatus EXCEPT ![s] = r.to]
    OBVIOUS
  <2>4. PICK p \in EvaluateProgress(Plan[o], Tier, seen) :
          p.outcome = r.outcome /\ p.currentTier = r.tier
    BY <1>2, <2>1, <2>3 DEF DecisionIsCurrent
  <2>5. /\ Plan[o] \subseteq Steps /\ stepStatus \in [Steps -> StepStatus]
        /\ r.to \in StepStatus /\ r.to # "SKIPPED"
    BY DEF OrdersAssumption, TypeOK, WrittenStep, Decisions, StepStatus
  <2>6. seen \in [Steps -> StepStatus] /\ \A t \in Plan[o] : seen[t] # "SKIPPED"
    BY <1>3, <2>1, <2>2, <2>3, <2>5 DEF OrderFits, RoundIsOpen
  <2>7. RoundIsOpen(o, r.tier, seen)
    BY <1>10, <2>4, <2>6, ProgressOpens
  <2>8. \A t \in Plan[o] : stepStatus'[t] = seen[t]
    BY <1>6, <1>10, <2>3, <2>5
  <2> QED
    BY <2>1, <2>2, <2>7, <2>8, RoundDepends
<1>11. OrderFits(o)'
  BY <1>8, <1>9, <1>10 DEF OrderFits, RoundIsOpen
<1>12. \A g \in Handlers : inFlight'[g] = inFlight[g] \/ inFlight'[g].at = "idle"
  BY <1>4 DEF TypeOK, Idle
<1>13. \A p \in Orders \ {o} :
         /\ status'[p] = status[p] /\ request'[p] = request[p]
         /\ p \in overwritten => p \in overwritten'
  BY <1>4 DEF TypeOK
<1>14. o \in overwritten => o \in overwritten'
  BY <1>4
<1> QED
  BY <1>5, <1>7, <1>8, <1>9, <1>10, <1>11, <1>12, <1>13, <1>14, OrderStepInv

-----------------------------------------------------------------------------
(* The other steps that write rows.                                        *)

LEMMA PlaceOrderRounds ==
    ASSUME OrdersAssumption, TypeOK, TypeOK', RoundsInv, NEW o \in Orders, PlaceOrder(o)
    PROVE  RoundsInv'
<1>1. /\ status[o] = Null /\ OrderFits(o)
      /\ status' = [status EXCEPT ![o] = IF NeedsApproval(o) THEN "PENDING_APPROVAL"
                                                              ELSE "APPROVED"]
      /\ UNCHANGED <<inFlight, stepStatus, overwritten>>
  BY DEF PlaceOrder, RoundsInv
<1>2. \A p \in Orders \ {o} :
        status'[p] = status[p] /\ stockState'[p] = stockState[p] /\ request'[p] = request[p]
  BY DEF PlaceOrder, TypeOK
<1>3. /\ request[o].status = "NONE" /\ status'[o] # Null
      /\ \A s \in Plan[o] : stepStatus'[s] = "PENDING"
      /\ NeedsApproval(o) => status'[o] = "PENDING_APPROVAL"
  BY <1>1 DEF OrderFits, TypeOK, OrdersAssumption, OrderStatuses
<1>4. OrderFits(o)'
  <2>1. CASE Plan[o] = {}
    <3>1. request' = request
      BY <2>1 DEF PlaceOrder
    <3> QED
      BY <1>3, <3>1 DEF OrderFits
  <2>2. CASE Plan[o] # {}
    <3>1. PICK s \in FirstRound(o) :
            request' = [request EXCEPT ![o] = [status |-> "PENDING", tier |-> Tier[s]]]
      BY <2>2 DEF PlaceOrder
    <3>2. request'[o].tier = Tier[s]
      BY <3>1 DEF TypeOK
    <3>3. /\ s \in Plan[o] /\ \A t \in Plan[o] : Tier[s] <= Tier[t]
          /\ Plan[o] \subseteq Steps /\ Tier \in [Steps -> Nat]
      BY <3>1 DEF FirstRound, OrdersAssumption
    <3>4. RoundIsOpen(o, Tier[s], stepStatus)'
      <4>1. \A t \in Plan[o] : ~ (Tier[t] < Tier[s])
        BY <3>3
      <4> QED
        BY <1>3, <3>3, <4>1 DEF RoundIsOpen
    <3> QED
      BY <1>3, <2>2, <3>2, <3>4 DEF OrderFits, NeedsApproval
  <2> QED
    BY <2>1, <2>2
<1> QED
  BY <1>1, <1>2, <1>3, <1>4, OrderStepInv

LEMMA ConfirmDeliveryRounds ==
    ASSUME OrdersAssumption, TypeOK, TypeOK', RoundsInv, NEW o \in Orders, ConfirmDelivery(o)
    PROVE  RoundsInv'
<1>1. /\ status[o] = "DISPATCHED" /\ status' = [status EXCEPT ![o] = "DELIVERED"]
      /\ UNCHANGED <<stockState, request, stepStatus, inFlight, overwritten>>
      /\ OrderFits(o)
  BY DEF ConfirmDelivery, approvalVars, RoundsInv
<1>2. status'[o] = "DELIVERED" /\ "DELIVERED" # Null
  BY <1>1 DEF TypeOK, OrdersAssumption, OrderStatuses
<1>3. OrderFits(o)' /\ \A p \in Orders \ {o} : status'[p] = status[p]
  BY <1>1, <1>2 DEF OrderFits, TypeOK
<1> QED
  BY <1>1, <1>2, <1>3, OrderStepInv

LEMMA NextRounds ==
    ASSUME OrdersAssumption, OrdersInv, RoundsInv, [Next]_vars
    PROVE  RoundsInv'
<1>1. TypeOK /\ TypeOK'
  BY NextTypeOK DEF OrdersInv
<1>2. ASSUME UNCHANGED <<orderVars, approvalVars, inFlight, overwritten>>
      PROVE  RoundsInv'
  <2>1. UNCHANGED <<status, stockState, request, stepStatus, inFlight, overwritten>>
    BY <1>2 DEF orderVars, approvalVars
  <2> QED
    BY <2>1 DEF RoundsInv, RequestFits, Carries, RoundIsOpen, OrderFits
<1>3. CASE UNCHANGED vars
  BY <1>2, <1>3 DEF vars
<1>4. CASE \E p \in Products, n \in 0..MaxOnHand : RecountStock(p, n)
  BY <1>2, <1>4 DEF RecountStock
<1>5. CASE \E o \in Orders : PlaceOrder(o) \/ ConfirmDelivery(o)
  BY <1>1, <1>5, PlaceOrderRounds, ConfirmDeliveryRounds
<1>6. CASE \E h \in Handlers : Receive(h) \/ HandlerStep(h)
  <2>1. PICK h \in Handlers : Receive(h) \/ HandlerStep(h)
    BY <1>6
  <2>2. CASE Receive(h)
    BY <1>1, <2>2, ReceiveRounds
  <2>3. CASE HandlerStep(h)
    BY <1>1, <2>3, RouteRounds, WriteStepRounds, EndedRounds, CommitStatusRounds,
       CommitDecisionRounds DEF HandlerStep
  <2> QED
    BY <2>1, <2>2, <2>3
<1> QED
  BY <1>3, <1>4, <1>5, <1>6 DEF Next

-----------------------------------------------------------------------------
(* Every step is a step of the lifecycle, an overwriting, or none.         *)

LEMMA SameTable ==
    ASSUME NEW from, NEW to
    PROVE  Lifecycle!CanTransition(from, to) <=> CanTransition(from, to)
BY DEF Lifecycle!CanTransition, Lifecycle!TRANSITIONS, CanTransition, TRANSITIONS

\* The stock follows a status read fresh as the lifecycle says.
LEMMA StockFollows ==
    ASSUME TypeOK, NEW o \in Orders, NEW to, MoveStock(o, to, stockState[o])
    PROVE  stockState' = [stockState EXCEPT ![o] = Lifecycle!StockAfter(@, to)]
BY DEF MoveStock, Lifecycle!StockAfter, TypeOK

LEMMA MoveImplements ==
    ASSUME NEW o \in Orders, NEW to \in OrderStatuses, status[o] # Null,
           CanTransition(status[o], to), status' = [status EXCEPT ![o] = to],
           stockState' = [stockState EXCEPT ![o] = Lifecycle!StockAfter(@, to)],
           overwritten' = overwritten
    PROVE  Lifecycle!Next
<1>1. Lifecycle!Move(o, to)
  BY SameTable DEF Lifecycle!Move
<1>2. to \in Lifecycle!OrderStatuses
  BY DEF OrderStatuses, Lifecycle!OrderStatuses
<1> QED
  BY <1>1, <1>2 DEF Lifecycle!Next

LEMMA OverwriteImplements ==
    ASSUME TypeOK, NEW o \in Orders, NEW to \in OrderStatuses, status[o] # Null,
           status' = [status EXCEPT ![o] = to],
           \/ stockState' = stockState
           \/ \E st \in {"CONSUMED", "RELEASED"} :
                 stockState' = [stockState EXCEPT ![o] = st],
           overwritten' = overwritten \cup {o}
    PROVE  Lifecycle!Next
<1>1. \E st \in {stockState[o], "CONSUMED", "RELEASED"} :
        stockState' = [stockState EXCEPT ![o] = st]
  BY DEF TypeOK
<1>2. Lifecycle!Overwrite(o, to)
  BY <1>1 DEF Lifecycle!Overwrite
<1>3. to \in Lifecycle!OrderStatuses
  BY DEF OrderStatuses, Lifecycle!OrderStatuses
<1> QED
  BY <1>2, <1>3 DEF Lifecycle!Next

LEMMA PlaceOrderImplements ==
    ASSUME RoundsInv, NEW o \in Orders, PlaceOrder(o)
    PROVE  Lifecycle!Next
<1>1. status[o] = Null /\ stockState[o] = "NONE"
  BY DEF PlaceOrder, RoundsInv, OrderFits
<1>2. /\ \E st \in {"PENDING_APPROVAL", "APPROVED"} : status' = [status EXCEPT ![o] = st]
      /\ \E st \in {"NONE", "RESERVED"} : stockState' = [stockState EXCEPT ![o] = st]
      /\ UNCHANGED overwritten
  BY <1>1 DEF PlaceOrder
<1> QED
  BY <1>1, <1>2 DEF Lifecycle!Place, Lifecycle!Next

LEMMA ConfirmDeliveryImplements ==
    ASSUME OrdersAssumption, TypeOK, NEW o \in Orders, ConfirmDelivery(o)
    PROVE  Lifecycle!Next
<1>1. CanTransition("DISPATCHED", "DELIVERED") /\ "DELIVERED" \in OrderStatuses
  BY DEF CanTransition, TRANSITIONS, OrderStatuses
<1>2. /\ status[o] = "DISPATCHED" /\ status' = [status EXCEPT ![o] = "DELIVERED"]
      /\ UNCHANGED <<stockState, overwritten>> /\ status[o] # Null
  BY DEF ConfirmDelivery, OrdersAssumption, OrderStatuses
<1>3. stockState' = [stockState EXCEPT ![o] = Lifecycle!StockAfter(@, "DELIVERED")]
  BY <1>2 DEF Lifecycle!StockAfter, TypeOK
<1>4. CanTransition(status[o], "DELIVERED")
  BY <1>1, <1>2
<1>5. status' = [status EXCEPT ![o] = "DELIVERED"] /\ status[o] # Null /\ overwritten' = overwritten
  BY <1>2
<1> QED
  BY <1>1, <1>3, <1>4, <1>5, MoveImplements

LEMMA CommitStatusImplements ==
    ASSUME OrdersAssumption, OrdersInv, NEW h \in Handlers, CommitStatus(h)
    PROVE  Lifecycle!Next \/ UNCHANGED <<status, stockState, overwritten>>
<1>1. PICK r \in StatusMove :
        /\ r = inFlight[h] /\ r.order \in Orders /\ r.to \in OrderStatuses
        /\ r.at = "commit" /\ status[r.order] # Null
        /\ CanTransition(r.from, r.to)
        /\ MoveStock(r.order, r.to, r.held)
        /\ overwritten' = IF MoveIsCurrent(r) THEN overwritten
                                              ELSE overwritten \cup {r.order}
  BY CommitFacts
<1>2. PICK o \in Orders, to \in OrderStatuses : o = r.order /\ to = r.to
  BY <1>1
<1>3. TypeOK /\ status' = [status EXCEPT ![o] = to]
  BY <1>1, <1>2 DEF OrdersInv, CommitStatus
<1>4. CASE ~ MoveIsCurrent(r)
  <2>1. \/ stockState' = stockState
        \/ \E st \in {"CONSUMED", "RELEASED"} : stockState' = [stockState EXCEPT ![o] = st]
    BY <1>1, <1>2 DEF MoveStock
  <2> QED
    BY <1>1, <1>2, <1>3, <1>4, <2>1, OverwriteImplements
<1>5. CASE MoveIsCurrent(r)
  <2>1. /\ overwritten' = overwritten /\ status[o] \in {r.from, to}
        /\ MoveStock(o, to, stockState[o])
    BY <1>1, <1>2, <1>5 DEF MoveIsCurrent
  <2>2. CASE status[o] = r.from
    <3>1. CanTransition(status[o], to) /\ status[o] # Null
      BY <1>1, <1>2, <2>2
    <3> QED
      BY <1>3, <2>1, <3>1, StockFollows, MoveImplements
  \* It is there already, and holds no stock if that is where stock goes.
  <2>3. CASE status[o] = to
    <3>1. to \in {"DISPATCHED", "REJECTED", "CANCELLED"} => stockState[o] # "RESERVED"
      BY <2>3 DEF OrdersInv, ReservationHasOpenOrder
    <3>2. stockState' = stockState
      BY <2>1, <3>1 DEF MoveStock
    <3>3. status' = status
      BY <1>3, <2>3 DEF TypeOK
    <3> QED
      BY <2>1, <3>2, <3>3
  <2> QED
    BY <2>1, <2>2, <2>3
<1> QED
  BY <1>4, <1>5

LEMMA CommitDecisionImplements ==
    ASSUME OrdersAssumption, TypeOK, RoundsInv, NEW h \in Handlers, CommitDecision(h)
    PROVE  Lifecycle!Next \/ UNCHANGED <<status, stockState, overwritten>>
<1>1. PICK r \in WrittenStep : r = inFlight[h] /\ r.at = "written" /\ Carries(r)
  BY CarriedType DEF CommitDecision, RoundsInv, RequestFits
<1>2. PICK o \in Orders, to \in RequestOutcome : o = r.order /\ to = r.outcome
  BY DEF WrittenStep
<1>3. /\ status' = IF to = "PENDING" THEN status ELSE [status EXCEPT ![o] = to]
      /\ stockState' = IF to = "REJECTED" /\ stockState[o] = "RESERVED"
                       THEN [stockState EXCEPT ![o] = "RELEASED"] ELSE stockState
      /\ overwritten' = IF DecisionIsCurrent(r) THEN overwritten
                                                ELSE overwritten \cup {o}
  BY <1>1, <1>2 DEF CommitDecision
<1>4. status[o] # Null
  BY <1>1, <1>2 DEF Carries
<1>5. CASE ~ DecisionIsCurrent(r)
  <2>1. \E st \in OrderStatuses : status' = [status EXCEPT ![o] = st]
    <3>1. CASE to = "PENDING"
      <4>1. status' = [status EXCEPT ![o] = status[o]] /\ status[o] \in OrderStatuses
        BY <1>3, <1>4, <3>1 DEF TypeOK
      <4> QED
        BY <4>1
    <3>2. CASE to # "PENDING"
      BY <1>3, <3>2 DEF RequestOutcome, OrderStatuses
    <3> QED
      BY <3>1, <3>2
  <2> QED
    BY <1>3, <1>4, <1>5, <2>1, OverwriteImplements
<1>6. CASE DecisionIsCurrent(r) /\ to = "PENDING"
  BY <1>3, <1>6
<1>7. CASE DecisionIsCurrent(r) /\ to # "PENDING"
  <2>1. to \in OrderStatuses /\ CanTransition("PENDING_APPROVAL", to)
    BY <1>7 DEF RequestOutcome, OrderStatuses, CanTransition, TRANSITIONS
  <2>2. status[o] = "PENDING_APPROVAL"
    BY <1>2, <1>7 DEF DecisionIsCurrent, AwaitsDecision
  <2>3. stockState' = [stockState EXCEPT ![o] = Lifecycle!StockAfter(@, to)]
    BY <1>3, <1>7 DEF Lifecycle!StockAfter, RequestOutcome, TypeOK
  <2>4. CanTransition(status[o], to) /\ status' = [status EXCEPT ![o] = to]
        /\ overwritten' = overwritten
    BY <1>3, <1>7, <2>1, <2>2
  <2> QED
    BY <1>4, <2>1, <2>3, <2>4, MoveImplements
<1> QED
  BY <1>5, <1>6, <1>7

LEMMA StepImplements ==
    ASSUME OrdersAssumption, OrdersInv, RoundsInv, [Next]_vars
    PROVE  [Lifecycle!Next]_<<status, stockState, overwritten>>
<1>1. TypeOK
  BY DEF OrdersInv
<1>2. ASSUME UNCHANGED <<orderVars, overwritten>>
      PROVE  UNCHANGED <<status, stockState, overwritten>>
  BY <1>2 DEF orderVars
<1>3. ASSUME NEW h \in Handlers, Receive(h) \/ HandlerStep(h)
      PROVE  Lifecycle!Next \/ UNCHANGED <<status, stockState, overwritten>>
  BY <1>1, <1>2, <1>3, CommitStatusImplements, CommitDecisionImplements
  DEF Receive, HandlerStep, ReadOrder, ReadStep, RouteToStep, RouteRefused, RouteDirect,
      WriteStep, Abort
<1>4. CASE UNCHANGED vars
  BY <1>2, <1>4 DEF vars
<1>5. CASE \E p \in Products, n \in 0..MaxOnHand : RecountStock(p, n)
  BY <1>2, <1>5 DEF RecountStock
<1>6. CASE \E o \in Orders : PlaceOrder(o) \/ ConfirmDelivery(o)
  BY <1>1, <1>6, PlaceOrderImplements, ConfirmDeliveryImplements
<1> QED
  BY <1>3, <1>4, <1>5, <1>6 DEF Next

-----------------------------------------------------------------------------
(* The theorems.                                                           *)

\* However requests on one order overlap, an order that no commit has
\* overwritten has a round of approval its steps really leave open, and what a
\* request in flight carries no other can take from it.
THEOREM RoundsInvariantHolds == Spec => []RoundsInv
<1>1. Init => RoundsInv
  BY OrdersAssumption, InitRoundsInv
<1>2. OrdersInv /\ RoundsInv /\ [Next]_vars => RoundsInv'
  BY OrdersAssumption, NextRounds
<1> QED
  BY <1>1, <1>2, InvariantHolds, PTL DEF Spec

\* The status route, decideApproval and the carrier move an order along the
\* lifecycle table, and its stock with it exactly once, but for a commit that
\* acts on an outdated reading; and such a commit moves that one order only and
\* takes no stock.
THEOREM LifecycleIsFollowed == Spec => FollowsLifecycle
<1>1. Init => Lifecycle!Init
  BY DEF Init, Lifecycle!Init
<1>2. OrdersInv /\ RoundsInv /\ [Next]_vars
        => [Lifecycle!Next]_<<status, stockState, overwritten>>
  BY OrdersAssumption, StepImplements
<1> QED
  BY <1>1, <1>2, InvariantHolds, RoundsInvariantHolds, PTL
  DEF Spec, FollowsLifecycle, Lifecycle!Spec

\* evaluateProgress and the cancellation leave no order in a queue that nobody
\* can clear, whatever the plan, its tiers and the decisions that overlap,
\* unless one of them overwrote another.
THEOREM OpenRequestsStayDecidable == Spec => []OpenRequestIsDecidable
<1>1. RoundsInv => OpenRequestIsDecidable
  BY DEF RoundsInv, OrderFits, RoundIsOpen, OpenRequestIsDecidable, OpenSteps
<1> QED
  BY <1>1, RoundsInvariantHolds, PTL
=============================================================================
