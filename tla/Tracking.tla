------------------------------ MODULE Tracking ------------------------------
(***************************************************************************)
(* Tracking: what the carrier reports of an order's parcels, and the order *)
(* that follows them to DELIVERED.                                         *)
(*                                                                         *)
(* A run of the tracking service reads shipments, asks the carrier about   *)
(* their parcels, stores what it hears one shipment at a time, and last of *)
(* all looks at the orders whose shipments it found newly delivered.  Runs *)
(* are started by a schedule and by people opening an order, so two may    *)
(* hold the same shipment; a run that ends early forgets the orders it had *)
(* still to look at.  Meanwhile staff file, void and dispatch.             *)
(***************************************************************************)
EXTENDS OrderStatus, FiniteSets, SequencesExt

CONSTANTS
    Orders,
    Shipments,
    Parcels,         \* parcels that have a tracking reference
    OrderOf,         \* the order of each shipment
    ShipmentOf,      \* the shipment of each parcel
    Requested,       \* shipments whose label is not ready when we begin
    FirstTracked,    \* the order in which shipments stand before the first poll
    Pollers,         \* slots for the runs the schedule starts
    Refreshers,      \* slots for the runs an order page or an operator starts
    Handlers,        \* server request slots, for staff
    OrderMoves,      \* the statuses staff move orders to here
    PollBatch,       \* POLL_BATCH
    MaxDeaths        \* bound on the runs that end early for an outside reason

ASSUME TrackingAssumption ==
    /\ OrderOf \in [Shipments -> Orders]
    /\ ShipmentOf \in [Parcels -> Shipments]
    /\ FirstTracked \in Seq(Shipments)
    /\ \A s \in Shipments : \E k \in DOMAIN FirstTracked : FirstTracked[k] = s
    /\ Requested \subseteq Shipments
    /\ Pollers \cap Refreshers = {}
    /\ OrderMoves \subseteq OrderStatuses
    /\ PollBatch \in Nat \ {0}
    /\ MaxDeaths \in Nat

Workers == Pollers \cup Refreshers

VARIABLES
    orderStatus,     \* orders.status
    label,           \* shipments.status, of a label that has been requested
    arrived,         \* shipments whose deliveredAt is set
    held,            \* parcels with a stored delivered event
    queue,           \* shipments by lastTrackedAt, the oldest first
    scanned,         \* the carrier's side: parcels it has delivered
    run,             \* what each tracking run has read and has still to do
    inFlight,        \* what each busy handler has read
    deaths,          \* how many runs have ended early for an outside reason
    byCarrier,       \* history: orders a tracking run moved to DELIVERED
    late,            \* history: labels filed when their order was already out
    missed           \* history: orders whose last delivery went unnoticed

trackingVars == <<arrived, held, queue>>
orderVars == <<orderStatus, byCarrier>>
historyVars == <<deaths, late, missed>>
vars == <<orderVars, label, trackingVars, scanned, run, inFlight, historyVars>>

LabelStatus == {"SUBMITTED", "LABELLED", "VOIDED"}

-----------------------------------------------------------------------------
(* A tracking run that is asking has read shipments, and which of them had *)
(* been delivered; one that is storing has the carrier's answers, shipments *)
(* still to store and orders to look at in the end; one that is inserting   *)
(* is in a shipment's transaction, and has read which events are on file;   *)
(* one that is moving has found every live label of an order delivered.     *)

Idle == [at |-> "idle"]

Run ==
    {Idle}
    \cup [at : {"asking"}, todo : SUBSET Shipments, old : SUBSET Shipments]
    \cup [at : {"storing"}, todo : SUBSET Shipments, old : SUBSET Shipments,
          seen : SUBSET Parcels, check : SUBSET Orders]
    \cup [at : {"inserting"}, todo : SUBSET Shipments, old : SUBSET Shipments,
          seen : SUBSET Parcels, check : SUBSET Orders,
          shipment : Shipments, new : SUBSET Parcels]
    \cup [at : {"moving"}, order : Orders, check : SUBSET Orders]

Request ==
    {Idle}
    \cup [at : {"status"}, order : Orders, from : OrderStatuses, to : OrderStatuses]
    \cup [at : {"void"}, shipment : Shipments]

TypeOK ==
    /\ orderStatus \in [Orders -> OrderStatuses]
    /\ label \in [Shipments -> LabelStatus]
    /\ arrived \subseteq Shipments
    /\ held \subseteq Parcels
    /\ queue \in Seq(Shipments)
    /\ scanned \subseteq Parcels
    /\ run \in [Workers -> Run]
    /\ inFlight \in [Handlers -> Request]
    /\ deaths \in 0..MaxDeaths
    /\ byCarrier \subseteq Orders
    /\ late \subseteq Shipments
    /\ missed \subseteq Orders

-----------------------------------------------------------------------------
(* Starting a run, and asking the carrier.                                 *)

ParcelsOf(s) == {p \in Parcels : ShipmentOf[p] = s}

LiveLabels(o) == {s \in Shipments : OrderOf[s] = o /\ label[s] = "LABELLED"}

\* Mistaken variant: one label that has arrived is enough.
AnyArrived(o) == LiveLabels(o) \cap arrived # {}

AllArrived(o) == LiveLabels(o) # {} /\ LiveLabels(o) \subseteq arrived

Put(w, r) == run' = [run EXCEPT ![w] = r]

StartRun(w, read) ==
    /\ run[w] = Idle
    /\ Put(w, [at |-> "asking", todo |-> read, old |-> read \cap arrived])
    /\ UNCHANGED <<orderVars, label, trackingVars, scanned, inFlight, historyVars>>

Pollable(s) ==
    label[s] = "LABELLED" /\ s \notin arrived /\ orderStatus[OrderOf[s]] = "DISPATCHED"

Due == {k \in DOMAIN queue : Pollable(queue[k])}

\* Those looked at longest ago that fit the batch, back to the last one that was
\* looked at before the cutoff.
PollDueTracking(w, last) ==
    LET batch == {k \in Due : k <= last}
    IN  /\ last \in Due
        /\ Cardinality(batch) <= PollBatch
        /\ StartRun(w, {queue[k] : k \in batch})

\* Of any order, whatever its status.
RefreshOrderTracking(w, o) ==
    /\ LiveLabels(o) # {}
    /\ StartRun(w, LiveLabels(o))

\* What a run is doing with todo and check before it; when both are empty it is
\* over.
Storing(todo, old, seen, check) ==
    IF todo = {} /\ check = {} THEN Idle
    ELSE [at |-> "storing", todo |-> todo, old |-> old, seen |-> seen,
          check |-> check]

\* The carrier answers for some references and fails for the others.  A
\* shipment none of whose references was answered is passed over.
Ask(w, answered) ==
    LET r == run[w]
        todo == {s \in r.todo : ParcelsOf(s) \cap answered # {}}
    IN  /\ r.at = "asking"
        /\ answered \subseteq UNION {ParcelsOf(s) : s \in r.todo}
        /\ Put(w, Storing(todo, r.old \cap todo, answered \cap scanned, {}))
        /\ UNCHANGED <<orderVars, label, trackingVars, scanned, inFlight,
                       historyVars>>

-----------------------------------------------------------------------------
(* Storing what was heard, a transaction for each shipment.                *)

\* The orders a run still had to look at are not looked at by anyone.
Forgotten(w) ==
    IF run[w].at \in {"idle", "asking"} THEN {}
    ELSE run[w].check \cup IF run[w].at = "moving" THEN {run[w].order} ELSE {}

\* The read that finds which of the events heard of are on file.
ReadEvents(w, s) ==
    LET r == run[w]
        heard == r.seen \cap ParcelsOf(s)
    IN  /\ r.at = "storing"
        /\ s \in r.todo
        /\ Put(w, [at |-> "inserting", todo |-> r.todo \ {s}, old |-> r.old,
                   seen |-> r.seen \ heard, check |-> r.check, shipment |-> s,
                   new |-> heard \ held])
        /\ UNCHANGED <<orderVars, label, trackingVars, scanned, inFlight,
                       historyVars>>

\* Mistaken variant: the shipment is noted, not its order.
CheckShipment(r) == r.check \cup {r.shipment}

\* Mistaken variant: an order is looked at if the rest of it had been delivered
\* when the run began.
CheckIfLast(r) ==
    IF LiveLabels(OrderOf[r.shipment]) \ {r.shipment} \subseteq r.old
    THEN r.check \cup {OrderOf[r.shipment]} ELSE r.check

\* The orders to look at, with that of a shipment newly delivered.
OrdersToCheck(r) == r.check \cup {OrderOf[r.shipment]}

\* The queue with the shipment at place k looked at just now.
LookedAt(q, k) == Append(RemoveAt(q, k), q[k])

\* An event another run has stored since breaks the unique key: the transaction
\* fails, and the whole run with it.
StoreShipment(w) ==
    LET r == run[w]
        s == r.shipment
        newly == ParcelsOf(s) \subseteq held \cup r.new /\ s \notin r.old
        check == IF newly THEN OrdersToCheck(r) ELSE r.check
    IN  /\ r.at = "inserting"
        /\ IF r.new \cap held # {}
           THEN /\ Put(w, Idle)
                /\ missed' = missed \cup Forgotten(w)
                /\ UNCHANGED trackingVars
           ELSE /\ held' = held \cup r.new
                /\ arrived' = IF newly THEN arrived \cup {s} ELSE arrived
                /\ \E k \in DOMAIN queue : queue[k] = s /\ queue' = LookedAt(queue, k)
                /\ Put(w, Storing(r.todo, r.old \ {s}, r.seen, check))
                /\ UNCHANGED missed
        /\ UNCHANGED <<orderVars, label, scanned, inFlight, deaths, late>>

-----------------------------------------------------------------------------
(* Looking at the orders.                                                  *)

CheckOrder(w, o) ==
    LET r == run[w]
    IN  /\ r.at = "storing"
        /\ r.todo = {}
        /\ o \in r.check
        /\ Put(w, IF AllArrived(o)
                  THEN [at |-> "moving", order |-> o, check |-> r.check \ {o}]
                  ELSE Storing({}, {}, {}, r.check \ {o}))
        /\ UNCHANGED <<orderVars, label, trackingVars, scanned, inFlight,
                       historyVars>>

\* Only a dispatched order moves; nobody comes back to one that was not yet.
ConfirmDelivery(w) ==
    LET r == run[w]
        o == r.order
    IN  /\ r.at = "moving"
        /\ IF orderStatus[o] = "DISPATCHED"
           THEN /\ orderStatus' = [orderStatus EXCEPT ![o] = "DELIVERED"]
                /\ byCarrier' = byCarrier \cup {o}
                /\ UNCHANGED missed
           ELSE /\ missed' = missed \cup {o}
                /\ UNCHANGED orderVars
        /\ Put(w, Storing({}, {}, {}, r.check))
        /\ UNCHANGED <<label, trackingVars, scanned, inFlight, deaths, late>>

\* The process dies, or the database fails it.
RunDies(w) ==
    /\ run[w] # Idle
    /\ deaths < MaxDeaths
    /\ deaths' = deaths + 1
    /\ missed' = missed \cup Forgotten(w)
    /\ Put(w, Idle)
    /\ UNCHANGED <<orderVars, label, trackingVars, scanned, inFlight, late>>

-----------------------------------------------------------------------------
(* What else happens to orders and labels; see Labels for the whole of it. *)

Scan(p) ==
    /\ label[ShipmentOf[p]] # "SUBMITTED"
    /\ p \notin scanned
    /\ scanned' = scanned \cup {p}
    /\ UNCHANGED <<orderVars, label, trackingVars, run, inFlight, historyVars>>

\* A label the order's confirmation did not wait for is a late one.
FileLabel(s) ==
    LET o == OrderOf[s]
    IN  /\ label[s] = "SUBMITTED"
        /\ label' = [label EXCEPT ![s] = "LABELLED"]
        /\ late' = IF \/ orderStatus[o] # "PROCESSING"
                      \/ \E w \in Workers : run[w].at = "moving" /\ run[w].order = o
                   THEN late \cup {s} ELSE late
        /\ UNCHANGED <<orderVars, trackingVars, scanned, run, inFlight, deaths,
                       missed>>

Start(h, req) ==
    /\ inFlight[h] = Idle
    /\ inFlight' = [inFlight EXCEPT ![h] = req]
    /\ UNCHANGED <<orderVars, label, trackingVars, scanned, run, historyVars>>

ReadForStatus(h, o, to) ==
    /\ CanTransition(orderStatus[o], to)
    /\ Start(h, [at |-> "status", order |-> o, from |-> orderStatus[o], to |-> to])

\* A status written over another one than was read may hide a delivery.
CommitStatus(h) ==
    LET req == inFlight[h]
        o == req.order
    IN  /\ req.at = "status"
        /\ orderStatus' = [orderStatus EXCEPT ![o] = req.to]
        /\ byCarrier' = byCarrier \ {o}
        /\ label' = [s \in Shipments |->
                        IF OrderOf[s] = o /\ req.to \in {"CANCELLED", "CHANGES_REQUESTED"}
                        THEN "VOIDED" ELSE label[s]]
        /\ missed' = IF orderStatus[o] # req.from THEN missed \cup {o} ELSE missed
        /\ inFlight' = [inFlight EXCEPT ![h] = Idle]
        /\ UNCHANGED <<trackingVars, scanned, run, deaths, late>>

ReadForVoid(h, s) ==
    /\ label[s] # "VOIDED"
    /\ ~ (/\ label[s] = "LABELLED"
          /\ orderStatus[OrderOf[s]] \in {"DISPATCHED", "DELIVERED"})
    /\ Start(h, [at |-> "void", shipment |-> s])

\* Voiding the label an order was still waiting for may leave it complete.
VoidShipment(h) ==
    LET s == inFlight[h].shipment
    IN  /\ inFlight[h].at = "void"
        /\ label' = [label EXCEPT ![s] = "VOIDED"]
        /\ missed' = IF LiveLabels(OrderOf[s]) \cap arrived # {}
                     THEN missed \cup {OrderOf[s]} ELSE missed
        /\ inFlight' = [inFlight EXCEPT ![h] = Idle]
        /\ UNCHANGED <<orderVars, trackingVars, scanned, run, deaths, late>>

-----------------------------------------------------------------------------
Init ==
    /\ orderStatus = [o \in Orders |-> "PROCESSING"]
    /\ label = [s \in Shipments |-> IF s \in Requested THEN "SUBMITTED" ELSE "LABELLED"]
    /\ arrived = {}
    /\ held = {}
    /\ queue = FirstTracked
    /\ scanned = {}
    /\ run = [w \in Workers |-> Idle]
    /\ inFlight = [h \in Handlers |-> Idle]
    /\ deaths = 0
    /\ byCarrier = {}
    /\ late = {}
    /\ missed = {}

Poll == \E w \in Pollers, last \in DOMAIN queue : PollDueTracking(w, last)

\* The carrier answers every reference, with all it has.
AskAnswered(w) ==
    LET all == UNION {ParcelsOf(s) : s \in run[w].todo}
    IN  run[w].at = "asking" /\ Ask(w, all)

RunStep(w) ==
    \/ \E s \in Shipments : ReadEvents(w, s)
    \/ StoreShipment(w)
    \/ \E o \in Orders : CheckOrder(w, o)
    \/ ConfirmDelivery(w)

Staff(h) ==
    \/ \E o \in Orders, to \in OrderMoves : ReadForStatus(h, o, to)
    \/ CommitStatus(h)
    \/ \E s \in Shipments : ReadForVoid(h, s)
    \/ VoidShipment(h)

Next ==
    \/ Poll
    \/ \E w \in Refreshers, o \in Orders : RefreshOrderTracking(w, o)
    \/ \E w \in Workers :
          \/ \E answered \in SUBSET Parcels : Ask(w, answered)
          \/ RunStep(w)
          \/ RunDies(w)
    \/ \E p \in Parcels : Scan(p)
    \/ \E s \in Shipments : FileLabel(s)
    \/ \E h \in Handlers : Staff(h)

\* The schedule starts a poll again and again; a run that is not cut off goes
\* on; and the carrier does not fail every poll for ever.
Fairness ==
    /\ SF_vars(Poll)
    /\ \A w \in Pollers : SF_vars(AskAnswered(w))
    /\ \A w \in Workers : WF_vars(RunStep(w))

Spec == Init /\ [][Next]_vars /\ Fairness

-----------------------------------------------------------------------------
(* Properties.                                                             *)

\* An order the carrier's word moved to DELIVERED has every parcel delivered, on
\* every label it went out with: not only the parcels of one answer, of one
\* chunk or of the shipment that arrived last.
WholeOrderArrived ==
    \A o \in byCarrier :
        \A s \in LiveLabels(o) \ late : ParcelsOf(s) \subseteq scanned

\* A dispatched order, all of whose parcels the carrier has delivered.
Waiting(o) ==
    /\ orderStatus[o] = "DISPATCHED"
    /\ LiveLabels(o) # {}
    /\ \A s \in LiveLabels(o) : ParcelsOf(s) # {} /\ ParcelsOf(s) \subseteq scanned

\* No order whose parcels have all been delivered stays dispatched for ever,
\* unless the run that noticed the last delivery ended early, or found the order
\* not yet dispatched, or the label it waited for was voided behind it.
DeliveryIsNoticed ==
    \A o \in Orders : []<>(~ Waiting(o) \/ o \in missed)
=============================================================================
