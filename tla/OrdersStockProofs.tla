-------------------------- MODULE OrdersStockProofs --------------------------
(***************************************************************************)
(* Proofs about the stock that orders hold in Orders: the shelf and the    *)
(* orders agree, whatever the orders, their lines and the requests in      *)
(* flight.  The units held are a sum over the orders that hold stock, of   *)
(* which there are always finitely many, however many orders may come to   *)
(* exist: SumProofs says what one order more or less changes.              *)
(***************************************************************************)
EXTENDS OrdersLifecycleProofs, SumProofs

\* The units of p that the orders of S hold together.
HeldBy(p, S) == SumFunctionOnSet([o \in Orders |-> Want[o][p]], S)

LEMMA HeldByMore ==
    ASSUME OrdersAssumption, NEW p \in Products, NEW S \in SUBSET Orders, IsFiniteSet(S),
           NEW o \in Orders \ S
    PROVE  /\ IsFiniteSet(S \cup {o})
           /\ HeldBy(p, S) \in Nat
           /\ HeldBy(p, S \cup {o}) = HeldBy(p, S) + Want[o][p]
<1>1. PICK f : f = [r \in Orders |-> Want[r][p]]
  OBVIOUS
<1>2. f[o] = Want[o][p] /\ \A r \in Orders : f[r] \in Nat
  BY <1>1 DEF OrdersAssumption
<1>3. SumFunctionOnSet(f, S) \in Nat
  BY <1>2, SumType
<1>4. SumFunctionOnSet(f, S \cup {o}) = SumFunctionOnSet(f, S) + f[o]
  BY <1>2, SumAdd
<1>5. IsFiniteSet(S \cup {o})
  BY FS_AddElement
<1> QED
  BY <1>1, <1>2, <1>3, <1>4, <1>5 DEF HeldBy

LEMMA HeldByFewer ==
    ASSUME OrdersAssumption, NEW p \in Products, NEW S \in SUBSET Orders, IsFiniteSet(S),
           NEW o \in S
    PROVE  /\ HeldBy(p, S \ {o}) \in Nat
           /\ HeldBy(p, S) = HeldBy(p, S \ {o}) + Want[o][p]
<1>1. PICK f : f = [r \in Orders |-> Want[r][p]]
  OBVIOUS
<1>2. f[o] = Want[o][p] /\ \A r \in Orders : f[r] \in Nat
  BY <1>1 DEF OrdersAssumption
<1>3. /\ SumFunctionOnSet(f, S) = SumFunctionOnSet(f, S \ {o}) + f[o]
      /\ SumFunctionOnSet(f, S \ {o}) \in Nat
  BY <1>2, SumRemove
<1> QED
  BY <1>1, <1>2, <1>3 DEF HeldBy

LEMMA HeldByType ==
    ASSUME OrdersAssumption, NEW p \in Products, NEW S \in SUBSET Orders, IsFiniteSet(S)
    PROVE  HeldBy(p, S) \in Nat
<1>1. PICK f : f = [r \in Orders |-> Want[r][p]]
  OBVIOUS
<1>2. \A r \in S : f[r] \in Nat
  BY <1>1 DEF OrdersAssumption
<1> QED
  BY <1>1, <1>2, SumType DEF HeldBy

-----------------------------------------------------------------------------
(* What a step may do to the stock: nothing, or one order's holding.       *)

Reserved(p) == shelf[p].reserved

LeavesStock ==
    /\ StockHolders' = StockHolders
    /\ \A p \in Products : Reserved(p)' = Reserved(p)

\* An order that holds nothing yet takes its units off the shelf.
Takes(o) ==
    /\ o \notin StockHolders
    /\ StockHolders' = StockHolders \cup {o}
    /\ \A p \in Products : Reserved(p)' = Reserved(p) + Want[o][p]

\* Its units are no longer reserved, down to none, and it holds them no longer.
GivesBack(o) ==
    /\ StockHolders' = StockHolders \ {o}
    /\ \A p \in Products : Reserved(p)' = AtLeastZero(Reserved(p) - Want[o][p])

StockStep == LeavesStock \/ \E o \in Orders : Takes(o) \/ GivesBack(o)

\* What is given back was held: nothing is released twice.
ExactStockStep ==
    \/ LeavesStock
    \/ \E o \in Orders : Takes(o)
    \/ \E o \in StockHolders : GivesBack(o)

\* But for an order that this step overwrites, or an earlier one has.
OverwritingStockStep == \E o \in overwritten' : o \in Orders /\ GivesBack(o)

LEMMA PlacementTakes ==
    ASSUME OrdersAssumption, OrdersInv, NEW o \in Orders, PlaceOrder(o)
    PROVE  ExactStockStep
<1>1. TypeOK /\ o \notin StockHolders /\ Want[o] \in [Products -> Nat]
  <2>1. status[o] = Null /\ Null \notin OrderStatuses
    BY DEF PlaceOrder, OrdersAssumption
  <2>2. stockState[o] # "RESERVED"
    BY <2>1 DEF OrdersInv, ReservationHasOpenOrder, OrderStatuses
  <2> QED
    BY <2>2 DEF OrdersInv, OrdersAssumption, StockHolders
<1>2. \A p \in Products : Reserved(p)' = Reserved(p) + Want[o][p]
  BY <1>1 DEF PlaceOrder, ReserveStock, Reserved, TypeOK, Shelf
<1>3. CASE HoldsStock(Want[o])
  <2>1. stockState' = [stockState EXCEPT ![o] = "RESERVED"]
    BY <1>3 DEF PlaceOrder
  <2>2. StockHolders' = StockHolders \cup {o}
    BY <1>1, <2>1 DEF StockHolders, TypeOK
  <2> QED
    BY <1>1, <1>2, <2>2 DEF Takes, ExactStockStep
<1>4. CASE ~ HoldsStock(Want[o])
  <2>1. \A p \in Products : Want[o][p] = 0
    BY <1>1, <1>4 DEF HoldsStock
  <2>2. stockState' = stockState
    BY <1>1, <1>4 DEF PlaceOrder, TypeOK
  <2>3. \A p \in Products : Reserved(p) \in Nat
    BY <1>1 DEF Reserved, TypeOK, Shelf
  <2> QED
    BY <1>2, <2>1, <2>2, <2>3 DEF LeavesStock, ExactStockStep, StockHolders
<1> QED
  BY <1>3, <1>4

\* releaseStock and consumeStock take the same off the reservation.
LEMMA BothGiveBack ==
    ASSUME OrdersAssumption, TypeOK, NEW o \in Orders, NEW sh \in {"CONSUMED", "RELEASED"},
           stockState' = [stockState EXCEPT ![o] = sh],
           shelf' \in {ReleaseStock(shelf, Want[o]), ConsumeStock(shelf, Want[o])}
    PROVE  GivesBack(o)
<1>1. StockHolders' = StockHolders \ {o}
  BY DEF StockHolders, TypeOK
<1>2. \A p \in Products : Reserved(p)' = AtLeastZero(Reserved(p) - Want[o][p])
  BY DEF ReleaseStock, ConsumeStock, Reserved, TypeOK, Shelf
<1> QED
  BY <1>1, <1>2 DEF GivesBack

LEMMA MoveStockStep ==
    ASSUME OrdersAssumption, TypeOK, NEW o \in Orders, NEW to, NEW held,
           MoveStock(o, to, held)
    PROVE  LeavesStock \/ (held = "RESERVED" /\ GivesBack(o))
<1>1. CASE UNCHANGED <<shelf, stockState>>
  BY <1>1 DEF LeavesStock, StockHolders, Reserved
<1>2. CASE held = "RESERVED" /\ ~ UNCHANGED <<shelf, stockState>>
  BY <1>2, BothGiveBack DEF MoveStock
<1> QED
  BY <1>1, <1>2 DEF MoveStock

LEMMA CommitDecisionGivesBack ==
    ASSUME OrdersAssumption, OrdersInv, NEW h \in Handlers, CommitDecision(h)
    PROVE  ExactStockStep
<1>1. TypeOK /\ inFlight[h].at = "written"
  BY DEF OrdersInv, CommitDecision
<1>2. PICK o \in Orders : o = inFlight[h].order
  BY <1>1, RequestType DEF IsIdle
<1>3. CASE UNCHANGED <<shelf, stockState>>
  BY <1>3 DEF ExactStockStep, LeavesStock, StockHolders, Reserved
<1>4. CASE ~ UNCHANGED <<shelf, stockState>>
  <2>1. /\ stockState[o] = "RESERVED"
        /\ shelf' = ReleaseStock(shelf, Want[o])
        /\ stockState' = [stockState EXCEPT ![o] = "RELEASED"]
    BY <1>2, <1>4 DEF CommitDecision
  <2>2. GivesBack(o)
    BY <1>1, <2>1, BothGiveBack
  <2>3. o \in StockHolders
    BY <2>1 DEF StockHolders
  <2> QED
    BY <2>2, <2>3 DEF ExactStockStep
<1> QED
  BY <1>3, <1>4

\* Every other step leaves the stock where it is; a recount changes what is on
\* hand alone.
LEMMA OthersLeaveStock ==
    ASSUME OrdersAssumption, TypeOK,
           \/ \E o \in Orders : ConfirmDelivery(o)
           \/ \E h \in Handlers :
                 \/ Receive(h) \/ RouteRefused(h) \/ RouteDirect(h) \/ WriteStep(h)
                 \/ Abort(h)
                 \/ \E s \in Steps : RouteToStep(h, s)
           \/ \E p \in Products, n \in 0..MaxOnHand : RecountStock(p, n)
           \/ UNCHANGED vars
    PROVE  LeavesStock
<1>1. CASE \E p \in Products, n \in 0..MaxOnHand : RecountStock(p, n)
  BY <1>1 DEF RecountStock, Recount, orderVars, LeavesStock, StockHolders, Reserved, TypeOK,
              Shelf
<1>2. CASE UNCHANGED <<stockState, shelf>>
  BY <1>2 DEF LeavesStock, StockHolders, Reserved
<1>3. CASE UNCHANGED vars \/ \E o \in Orders : ConfirmDelivery(o)
  BY <1>2, <1>3 DEF ConfirmDelivery, orderVars, vars
<1>4. CASE \E h \in Handlers : Receive(h)
  <2>1. \A h \in Handlers, u \in Users, o \in Orders :
          /\ \A to \in OrderStatuses : ReadOrder(h, u, o, to) => UNCHANGED <<orderVars, shelf>>
          /\ \A s \in Steps, d \in Decisions :
                ReadStep(h, u, o, s, d) => UNCHANGED <<orderVars, shelf>>
    BY DEF ReadOrder, ReadStep
  <2>2. UNCHANGED <<orderVars, shelf>>
    BY <1>4, <2>1 DEF Receive
  <2> QED
    BY <1>2, <2>2 DEF orderVars
<1>5. CASE \E h \in Handlers : RouteRefused(h) \/ RouteDirect(h) \/ WriteStep(h)
  BY <1>2, <1>5 DEF RouteRefused, RouteDirect, WriteStep, orderVars
<1>6. CASE \E h \in Handlers : Abort(h)
  BY <1>2, <1>6 DEF Abort, orderVars
<1>7. CASE \E h \in Handlers, s \in Steps : RouteToStep(h, s)
  BY <1>2, <1>7 DEF RouteToStep, orderVars
<1> QED
  BY <1>1, <1>3, <1>4, <1>5, <1>6, <1>7

\* A commit may act on a stock state that has changed since it was read, and
\* then marks the order.
LEMMA CommitStatusStock ==
    ASSUME OrdersAssumption, OrdersInv, NEW h \in Handlers, CommitStatus(h)
    PROVE  ExactStockStep \/ OverwritingStockStep
<1>1. PICK r \in StatusMove :
        /\ r = inFlight[h] /\ r.order \in Orders /\ r.to \in OrderStatuses
        /\ r.at = "commit" /\ status[r.order] # Null
        /\ CanTransition(r.from, r.to)
        /\ MoveStock(r.order, r.to, r.held)
        /\ overwritten' = IF MoveIsCurrent(r) THEN overwritten
                                              ELSE overwritten \cup {r.order}
  BY CommitFacts
<1>2. LeavesStock \/ (r.held = "RESERVED" /\ GivesBack(r.order))
  BY <1>1, MoveStockStep DEF OrdersInv
<1>3. CASE MoveIsCurrent(r)
  BY <1>1, <1>2, <1>3 DEF MoveIsCurrent, ExactStockStep, StockHolders
<1>4. CASE ~ MoveIsCurrent(r)
  BY <1>1, <1>2, <1>4 DEF ExactStockStep, OverwritingStockStep
<1> QED
  BY <1>3, <1>4

LEMMA NextMovesStock ==
    ASSUME OrdersAssumption, OrdersInv, [Next]_vars
    PROVE  ExactStockStep \/ OverwritingStockStep
<1>1. TypeOK
  BY DEF OrdersInv
<1>2. ASSUME NEW o \in Orders, PlaceOrder(o)
      PROVE  ExactStockStep
  BY <1>2, PlacementTakes
<1>3. ASSUME NEW h \in Handlers, CommitDecision(h)
      PROVE  ExactStockStep
  BY <1>3, CommitDecisionGivesBack
<1> QED
  BY <1>1, <1>2, <1>3, CommitStatusStock, OthersLeaveStock
  DEF Next, HandlerStep, ExactStockStep

\* Once overwritten, an order stays marked.
LEMMA OverwrittenGrows ==
    ASSUME [Next]_vars
    PROVE  overwritten \subseteq overwritten'
<1>1. ASSUME NEW h \in Handlers, Receive(h) \/ HandlerStep(h)
      PROVE  overwritten \subseteq overwritten'
  BY <1>1 DEF Receive, HandlerStep, ReadOrder, ReadStep, RouteToStep, RouteRefused,
     RouteDirect, WriteStep, Abort, CommitStatus, CommitDecision
<1> QED
  BY <1>1 DEF Next, vars, PlaceOrder, ConfirmDelivery, RecountStock

-----------------------------------------------------------------------------
(* The invariants.                                                         *)

\* The orders that hold stock are finitely many, and what is reserved is held.
HeldInv == IsFiniteSet(StockHolders) /\ NoPhantomReservation

\* And what is held is reserved, of the products no order overwritten is for.
ExactInv == IsFiniteSet(StockHolders) /\ StockIsExact

LEMMA NothingHeldAtFirst ==
    ASSUME OrdersAssumption, Init
    PROVE  HeldInv /\ ExactInv
<1>1. StockHolders = {} /\ \A p \in Products : shelf[p].reserved = 0
  BY DEF Init, StockHolders
<1>2. \A p \in Products : UnitsHeld(p) = 0
  BY <1>1, SumEmpty DEF UnitsHeld
<1>3. IsFiniteSet(StockHolders)
  BY <1>1, FS_EmptySet
<1> QED
  BY <1>1, <1>2, <1>3 DEF HeldInv, ExactInv, NoPhantomReservation, StockIsExact

LEMMA HoldersStayFinite ==
    ASSUME IsFiniteSet(StockHolders), StockStep
    PROVE  IsFiniteSet(StockHolders)'
<1>1. \A o : IsFiniteSet(StockHolders \cup {o}) /\ IsFiniteSet(StockHolders \ {o})
  BY FS_AddElement, FS_RemoveElement
<1> QED
  BY <1>1 DEF StockStep, LeavesStock, Takes, GivesBack

\* Giving back floors both sides alike, so that a second release of the same
\* order takes off the shelf at most what nobody holds.
LEMMA StockStepHeld ==
    ASSUME OrdersAssumption, TypeOK, TypeOK', HeldInv, StockStep
    PROVE  HeldInv'
<1>1. IsFiniteSet(StockHolders) /\ StockHolders \in SUBSET Orders
  BY DEF HeldInv, StockHolders
<1>2. ASSUME NEW p \in Products
      PROVE  (Reserved(p) <= HeldBy(p, StockHolders))'
  <2>1. PICK n \in Nat, m \in Nat : n = Reserved(p) /\ m = HeldBy(p, StockHolders)
    BY <1>1, HeldByType DEF Reserved, TypeOK, Shelf
  <2>2. n <= m
    BY <2>1 DEF HeldInv, NoPhantomReservation, UnitsHeld, HeldBy, Reserved
  <2>3. CASE LeavesStock
    BY <2>1, <2>2, <2>3 DEF LeavesStock, HeldBy
  <2>4. ASSUME NEW o \in Orders, Takes(o)
        PROVE  Reserved(p)' <= HeldBy(p, StockHolders')
    <3>1. PICK w \in Nat : w = Want[o][p]
      BY DEF OrdersAssumption
    <3>2. Reserved(p)' = n + w
      BY <2>1, <2>4, <3>1 DEF Takes
    <3>3. HeldBy(p, StockHolders') = m + w
      BY <1>1, <2>1, <2>4, <3>1, HeldByMore DEF Takes
    <3> QED
      BY <2>2, <3>2, <3>3
  <2>5. ASSUME NEW o \in Orders, GivesBack(o)
        PROVE  Reserved(p)' <= HeldBy(p, StockHolders')
    <3>1. PICK w \in Nat : w = Want[o][p]
      BY DEF OrdersAssumption
    <3>2. Reserved(p)' = AtLeastZero(n - w)
      BY <2>1, <2>5, <3>1 DEF GivesBack
    <3>3. CASE o \in StockHolders
      <4>1. PICK k \in Nat : k = HeldBy(p, StockHolders \ {o}) /\ m = k + w
        BY <1>1, <2>1, <3>1, <3>3, HeldByFewer
      <4>2. Reserved(p)' <= k
        BY <2>2, <3>2, <4>1 DEF AtLeastZero
      <4> QED
        BY <2>5, <4>1, <4>2 DEF GivesBack
    <3>4. CASE o \notin StockHolders
      <4>1. StockHolders' = StockHolders
        BY <2>5, <3>4 DEF GivesBack
      <4>2. Reserved(p)' <= m
        BY <2>2, <3>2 DEF AtLeastZero
      <4> QED
        BY <2>1, <4>1, <4>2
    <3> QED
      BY <3>3, <3>4
  <2> QED
    BY <2>3, <2>4, <2>5 DEF StockStep
<1>3. NoPhantomReservation'
  BY <1>2 DEF NoPhantomReservation, UnitsHeld, HeldBy, Reserved
<1> QED
  BY <1>1, <1>3, HoldersStayFinite DEF HeldInv

\* A second release of one order takes nothing of a product it is not for.
LEMMA StockStepExact ==
    ASSUME OrdersAssumption, TypeOK, TypeOK', ExactInv,
           ExactStockStep \/ OverwritingStockStep,
           overwritten \subseteq overwritten'
    PROVE  ExactInv'
<1>1. IsFiniteSet(StockHolders) /\ StockHolders \in SUBSET Orders
  BY DEF ExactInv, StockHolders
<1>2. ASSUME NEW p \in Products, \A o \in overwritten' : Want[o][p] = 0
      PROVE  (Reserved(p) = HeldBy(p, StockHolders))'
  <2>1. PICK n \in Nat : n = Reserved(p) /\ n = HeldBy(p, StockHolders)
    BY <1>2 DEF ExactInv, StockIsExact, UnitsHeld, HeldBy, Reserved, TypeOK, Shelf
  <2>2. CASE LeavesStock
    BY <2>1, <2>2 DEF LeavesStock, HeldBy
  <2>3. ASSUME NEW o \in Orders, Takes(o)
        PROVE  Reserved(p)' = HeldBy(p, StockHolders')
    <3>1. Reserved(p)' = n + Want[o][p] /\ StockHolders' = StockHolders \cup {o}
      BY <2>1, <2>3 DEF Takes
    <3>2. HeldBy(p, StockHolders \cup {o}) = HeldBy(p, StockHolders) + Want[o][p]
      BY <1>1, <2>3, HeldByMore DEF Takes
    <3> QED
      BY <2>1, <3>1, <3>2
  <2>4. ASSUME NEW o \in StockHolders, GivesBack(o)
        PROVE  Reserved(p)' = HeldBy(p, StockHolders')
    <3>1. PICK w \in Nat : w = Want[o][p]
      BY <1>1 DEF OrdersAssumption
    <3>2. PICK k \in Nat : k = HeldBy(p, StockHolders \ {o}) /\ n = k + w
      <4>1. /\ HeldBy(p, StockHolders \ {o}) \in Nat
            /\ HeldBy(p, StockHolders) = HeldBy(p, StockHolders \ {o}) + Want[o][p]
        BY <1>1, HeldByFewer
      <4> QED
        BY <2>1, <3>1, <4>1
    <3>3. Reserved(p)' = AtLeastZero(n - w)
      BY <2>1, <2>4, <3>1 DEF GivesBack
    <3>4. Reserved(p)' = k
      BY <3>2, <3>3 DEF AtLeastZero
    <3> QED
      BY <2>4, <3>2, <3>4 DEF GivesBack
  <2>5. ASSUME NEW o \in overwritten', o \in Orders, GivesBack(o), o \notin StockHolders
        PROVE  Reserved(p)' = HeldBy(p, StockHolders')
    <3>1. StockHolders' = StockHolders
      BY <2>5 DEF GivesBack
    <3>2. Reserved(p)' = AtLeastZero(n - 0)
      BY <1>2, <2>1, <2>5 DEF GivesBack
    <3>3. Reserved(p)' = n
      BY <3>2 DEF AtLeastZero
    <3> QED
      BY <2>1, <3>1, <3>3
  <2> QED
    BY <2>2, <2>3, <2>4, <2>5 DEF ExactStockStep, OverwritingStockStep
<1>3. StockIsExact'
  BY <1>2 DEF StockIsExact, UnitsHeld, HeldBy, Reserved
<1>4. StockStep
  BY <1>1 DEF ExactStockStep, OverwritingStockStep, StockStep
<1> QED
  BY <1>1, <1>3, <1>4, HoldersStayFinite DEF ExactInv

-----------------------------------------------------------------------------
(* The theorems.                                                           *)

\* reserveStock, releaseStock and consumeStock leave nothing reserved for an
\* order that no longer holds it, even when overlapping requests release one
\* order's stock twice.
THEOREM NothingReservedForNobody == Spec => []NoPhantomReservation
<1>1. Init => HeldInv
  BY OrdersAssumption, NothingHeldAtFirst
<1>2. OrdersInv /\ OrdersInv' /\ HeldInv /\ [Next]_vars => HeldInv'
  <2> SUFFICES ASSUME OrdersInv, OrdersInv', HeldInv, [Next]_vars
               PROVE  HeldInv'
    OBVIOUS
  <2>1. StockStep
    BY OrdersAssumption, NextMovesStock
    DEF StockStep, ExactStockStep, OverwritingStockStep, StockHolders
  <2> QED
    BY <2>1, OrdersAssumption, StockStepHeld DEF OrdersInv
<1>3. HeldInv => NoPhantomReservation
  BY DEF HeldInv
<1> QED
  BY <1>1, <1>2, <1>3, InvariantHolds, PTL DEF Spec

\* Nothing is leaked and nothing is released twice, whatever requests overlap
\* and whatever is placed, refused or recounted meanwhile, of a product that no
\* order overwritten by an outdated commit is for.
THEOREM ReservationsAddUp == Spec => []StockIsExact
<1>1. Init => ExactInv
  BY OrdersAssumption, NothingHeldAtFirst
<1>2. OrdersInv /\ OrdersInv' /\ ExactInv /\ [Next]_vars => ExactInv'
  <2> SUFFICES ASSUME OrdersInv, OrdersInv', ExactInv, [Next]_vars
               PROVE  ExactInv'
    OBVIOUS
  <2>1. ExactStockStep \/ OverwritingStockStep
    BY OrdersAssumption, NextMovesStock
  <2>2. overwritten \subseteq overwritten'
    BY OverwrittenGrows
  <2> QED
    BY <2>1, <2>2, OrdersAssumption, StockStepExact DEF OrdersInv
<1>3. ExactInv => StockIsExact
  BY DEF ExactInv
<1> QED
  BY <1>1, <1>2, <1>3, InvariantHolds, PTL DEF Spec
=============================================================================
