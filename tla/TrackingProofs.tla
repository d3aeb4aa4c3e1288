--------------------------- MODULE TrackingProofs ---------------------------
(***************************************************************************)
(* Proofs about Tracking, for any orders, shipments, parcels, runs and     *)
(* handlers.                                                               *)
(***************************************************************************)
EXTENDS Tracking, SequenceTheorems, TLAPS

-----------------------------------------------------------------------------
(* The inductive invariant.                                                *)

\* Types, but for the queue and for what a run has read from it, on which no
\* claim about deliveries rests; TypeCorrect, at the end, is about those.
StoredTypes ==
    /\ orderStatus \in [Orders -> OrderStatuses]
    /\ label \in [Shipments -> LabelStatus]
    /\ arrived \subseteq Shipments
    /\ inFlight \in [Handlers -> Request]
    /\ byCarrier \subseteq Orders
    /\ late \subseteq Shipments
    /\ run = [w \in Workers |-> run[w]]

\* All that is on file was reported, and a shipment counts as delivered when the
\* delivery of each of its parcels is on file.
FiledIsReported ==
    /\ held \subseteq scanned
    /\ \A s \in arrived : ParcelsOf(s) \subseteq held

\* The labels an order went out with have arrived.
Complete(o) == LiveLabels(o) \ late \subseteq arrived

\* What a run carries was reported, and the order it is about to move is
\* complete, whatever has been filed or voided since it looked.
RunFits(w) ==
    LET r == run[w]
    IN  /\ r.at \in {"storing", "inserting"} => r.seen \subseteq scanned
        /\ r.at = "inserting" => r.shipment \in Shipments /\ r.new \subseteq scanned
        /\ r.at = "moving" => r.order \in Orders /\ Complete(r.order)

\* An order a run has moved is delivered still, and complete.
MovedIsComplete ==
    \A o \in byCarrier : orderStatus[o] = "DELIVERED" /\ Complete(o)

TrackingInv ==
    /\ StoredTypes
    /\ FiledIsReported
    /\ \A w \in Workers : RunFits(w)
    /\ MovedIsComplete

-----------------------------------------------------------------------------
LEMMA RequestType ==
    ASSUME StoredTypes, NEW h \in Handlers
    PROVE  /\ inFlight[h] \in Request
           /\ inFlight[h].at = "status" =>
                inFlight[h].order \in Orders /\ inFlight[h].to \in OrderStatuses
           /\ inFlight[h].at = "void" => inFlight[h].shipment \in Shipments
<1>1. inFlight[h] \in Request
  BY DEF StoredTypes
<1> QED
  BY <1>1 DEF Request, Idle

LEMMA IdleFacts == Idle.at = "idle" /\ Idle \in Request
BY DEF Idle, Request

LEMMA StoringFacts ==
    ASSUME NEW todo, NEW old, NEW seen, NEW check, NEW r, r = Storing(todo, old, seen, check)
    PROVE  r.at \in {"idle", "storing"} /\ (r.at = "storing" => r.seen = seen)
BY DEF Storing, Idle

LEMMA InitTrackingInv ==
    ASSUME TrackingAssumption, Init
    PROVE  TrackingInv
<1>1. StoredTypes
  BY IdleFacts DEF Init, StoredTypes, OrderStatuses, LabelStatus
<1>2. FiledIsReported /\ MovedIsComplete
  BY DEF Init, FiledIsReported, MovedIsComplete
<1>3. \A w \in Workers : RunFits(w)
  BY IdleFacts DEF Init, RunFits
<1> QED
  BY <1>1, <1>2, <1>3 DEF TrackingInv

\* A step of a run that changes only what it has read and is to do: what has to
\* be shown of it is that the run still fits.
LEMMA RunInv ==
    ASSUME TrackingInv, NEW w \in Workers, NEW r, Put(w, r),
           UNCHANGED <<orderStatus, byCarrier, label, arrived, held, scanned, inFlight, late>>,
           r.at \in {"storing", "inserting"} => r.seen \subseteq scanned,
           r.at = "inserting" => r.shipment \in Shipments /\ r.new \subseteq scanned,
           r.at = "moving" => r.order \in Orders /\ Complete(r.order)
    PROVE  TrackingInv'
<1>1. run' = [run EXCEPT ![w] = r] /\ StoredTypes
  BY DEF Put, TrackingInv
<1>2. run' = [v \in Workers |-> run'[v]] /\ run'[w] = r /\ \A v \in Workers \ {w} : run'[v] = run[v]
  BY <1>1 DEF StoredTypes
<1>3. StoredTypes'
  BY <1>1, <1>2 DEF StoredTypes
<1>4. \A o : Complete(o)' <=> Complete(o)
  BY DEF Complete, LiveLabels
<1>5. FiledIsReported' /\ MovedIsComplete'
  BY <1>4 DEF TrackingInv, FiledIsReported, MovedIsComplete, ParcelsOf
<1>6. ASSUME NEW v \in Workers
      PROVE  RunFits(v)'
  <2>1. CASE v = w
    BY <1>2, <2>1 DEF RunFits, Complete, LiveLabels
  <2>2. CASE v # w
    BY <1>2, <2>2 DEF TrackingInv, RunFits, Complete, LiveLabels
  <2> QED
    BY <2>1, <2>2
<1> QED
  BY <1>3, <1>5, <1>6 DEF TrackingInv

\* The runs that leave the rest alone.
LEMMA ReadingInv ==
    ASSUME TrackingInv, NEW w \in Workers,
           \/ \E n : PollDueTracking(w, n)
           \/ \E o \in Orders : RefreshOrderTracking(w, o)
    PROVE  TrackingInv'
<1>1. PICK read : StartRun(w, read)
  BY DEF PollDueTracking, RefreshOrderTracking
<1>2. PICK r : r = [at |-> "asking", todo |-> read, old |-> read \cap arrived]
  OBVIOUS
<1>3. Put(w, r) /\ r.at = "asking"
  BY <1>1, <1>2 DEF StartRun
<1>4. UNCHANGED <<orderStatus, byCarrier, label, arrived, held, scanned, inFlight, late>>
  BY <1>1 DEF StartRun, orderVars, trackingVars, historyVars
<1> QED
  BY <1>3, <1>4, RunInv

LEMMA AskInv ==
    ASSUME TrackingInv, NEW w \in Workers, NEW answered, Ask(w, answered)
    PROVE  TrackingInv'
<1>1. PICK todo, old, r : /\ r = Storing(todo, old, answered \cap scanned, {})
                          /\ Put(w, r)
  BY DEF Ask
<1>2. UNCHANGED <<orderStatus, byCarrier, label, arrived, held, scanned, inFlight, late>>
  BY DEF Ask, orderVars, trackingVars, historyVars
<1>3. r.at \in {"idle", "storing"} /\ (r.at = "storing" => r.seen = answered \cap scanned)
  BY <1>1, StoringFacts
<1> QED
  BY <1>1, <1>2, <1>3, RunInv

LEMMA ReadEventsInv ==
    ASSUME TrackingInv, NEW w \in Workers, NEW s \in Shipments, ReadEvents(w, s)
    PROVE  TrackingInv'
<1>1. PICK todo, old, seen, check, new, r :
        /\ r = [at |-> "inserting", todo |-> todo, old |-> old, seen |-> seen,
                check |-> check, shipment |-> s, new |-> new]
        /\ Put(w, r)
        /\ seen \subseteq run[w].seen /\ new \subseteq run[w].seen
  BY DEF ReadEvents
<1>2. UNCHANGED <<orderStatus, byCarrier, label, arrived, held, scanned, inFlight, late>>
  BY DEF ReadEvents, orderVars, trackingVars, historyVars
<1>3. run[w].seen \subseteq scanned
  BY DEF ReadEvents, TrackingInv, RunFits
<1>4. r.at = "inserting" /\ r.seen = seen /\ r.shipment = s /\ r.new = new
  BY <1>1
<1> QED
  BY <1>1, <1>2, <1>3, <1>4, RunInv

\* The transaction of a shipment: what it files was reported.
LEMMA StoreShipmentInv ==
    ASSUME TrackingInv, NEW w \in Workers, StoreShipment(w)
    PROVE  TrackingInv'
<1>1. /\ run[w].at = "inserting" /\ run[w].shipment \in Shipments
      /\ run[w].seen \subseteq scanned /\ run[w].new \subseteq scanned
  BY DEF StoreShipment, TrackingInv, RunFits
<1>2. UNCHANGED <<orderStatus, byCarrier, label, scanned, inFlight, late>>
  BY DEF StoreShipment, orderVars
<1>3. CASE run[w].new \cap held # {}
  <2>1. Put(w, Idle) /\ UNCHANGED <<arrived, held>>
    BY <1>3 DEF StoreShipment, trackingVars
  <2> QED
    BY <1>2, <2>1, IdleFacts, RunInv
<1>4. CASE run[w].new \cap held = {}
  <2>1. PICK s \in Shipments : s = run[w].shipment
    BY <1>1
  <2>2. PICK todo, old, check, r :
          /\ held' = held \cup run[w].new
          /\ \/ arrived' = arrived
             \/ arrived' = arrived \cup {s} /\ ParcelsOf(s) \subseteq held \cup run[w].new
          /\ r = Storing(todo, old, run[w].seen, check) /\ Put(w, r)
    BY <1>4, <2>1 DEF StoreShipment
  <2>3. /\ r.at \in {"idle", "storing"} /\ (r.at = "storing" => r.seen = run[w].seen)
        /\ run' = [run EXCEPT ![w] = r] /\ StoredTypes
    BY <2>2, StoringFacts DEF Put, TrackingInv
  <2>4. /\ run' = [v \in Workers |-> run'[v]] /\ run'[w] = r
        /\ \A v \in Workers \ {w} : run'[v] = run[v]
    BY <2>3 DEF StoredTypes
  <2>5. StoredTypes'
    BY <1>2, <2>2, <2>3, <2>4 DEF StoredTypes
  <2>6. FiledIsReported'
    BY <1>1, <1>2, <2>2 DEF TrackingInv, FiledIsReported, ParcelsOf
  <2>7. \A o : Complete(o) => Complete(o)'
    BY <1>2, <2>2 DEF Complete, LiveLabels
  <2>8. MovedIsComplete'
    BY <1>2, <2>7 DEF TrackingInv, MovedIsComplete
  <2>9. ASSUME NEW v \in Workers
        PROVE  RunFits(v)'
    <3>1. CASE v = w
      BY <1>1, <1>2, <2>3, <2>4, <3>1 DEF RunFits
    <3>2. CASE v # w
      BY <1>2, <2>2, <2>4, <3>2 DEF TrackingInv, RunFits, Complete, LiveLabels
    <3> QED
      BY <3>1, <3>2
  <2> QED
    BY <2>5, <2>6, <2>8, <2>9 DEF TrackingInv
<1> QED
  BY <1>3, <1>4

LEMMA CheckOrderInv ==
    ASSUME TrackingInv, NEW w \in Workers, NEW o \in Orders, CheckOrder(w, o)
    PROVE  TrackingInv'
<1>1. UNCHANGED <<orderStatus, byCarrier, label, arrived, held, scanned, inFlight, late>>
  BY DEF CheckOrder, orderVars, trackingVars, historyVars
<1>2. CASE AllArrived(o)
  <2>1. PICK check, r : r = [at |-> "moving", order |-> o, check |-> check] /\ Put(w, r)
    BY <1>2 DEF CheckOrder
  <2>2. r.at = "moving" /\ r.order = o /\ Complete(o)
    BY <1>2, <2>1 DEF AllArrived, Complete
  <2> QED
    BY <1>1, <2>1, <2>2, RunInv
<1>3. CASE ~ AllArrived(o)
  <2>1. PICK check, r : r = Storing({}, {}, {}, check) /\ Put(w, r)
    BY <1>3 DEF CheckOrder
  <2>2. r.at \in {"idle", "storing"} /\ (r.at = "storing" => r.seen = {})
    BY <2>1, StoringFacts
  <2> QED
    BY <1>1, <2>1, <2>2, RunInv
<1> QED
  BY <1>2, <1>3

\* The move to DELIVERED is of an order that is complete.
LEMMA ConfirmDeliveryInv ==
    ASSUME TrackingInv, NEW w \in Workers, ConfirmDelivery(w)
    PROVE  TrackingInv'
<1>1. PICK o \in Orders : o = run[w].order /\ Complete(o)
  BY DEF ConfirmDelivery, TrackingInv, RunFits
<1>2. PICK check, r : r = Storing({}, {}, {}, check) /\ Put(w, r)
  BY DEF ConfirmDelivery
<1>3. /\ r.at \in {"idle", "storing"} /\ (r.at = "storing" => r.seen = {})
      /\ UNCHANGED <<label, arrived, held, scanned, inFlight, late>>
  BY <1>2, StoringFacts DEF ConfirmDelivery, trackingVars
<1>4. CASE orderStatus[o] # "DISPATCHED"
  <2>1. UNCHANGED <<orderStatus, byCarrier>>
    BY <1>1, <1>4 DEF ConfirmDelivery, orderVars
  <2> QED
    BY <1>2, <1>3, <2>1, RunInv
<1>5. CASE orderStatus[o] = "DISPATCHED"
  <2>1. /\ orderStatus' = [orderStatus EXCEPT ![o] = "DELIVERED"]
        /\ byCarrier' = byCarrier \cup {o}
    BY <1>1, <1>5 DEF ConfirmDelivery
  <2>2. run' = [run EXCEPT ![w] = r] /\ StoredTypes
    BY <1>2 DEF Put, TrackingInv
  <2>3. /\ run' = [v \in Workers |-> run'[v]] /\ run'[w] = r
        /\ \A v \in Workers \ {w} : run'[v] = run[v]
    BY <2>2 DEF StoredTypes
  <2>4. orderStatus' \in [Orders -> OrderStatuses]
    BY <2>1, <2>2 DEF StoredTypes, OrderStatuses
  <2>5. StoredTypes'
    BY <1>3, <2>1, <2>2, <2>3, <2>4 DEF StoredTypes
  <2>6. FiledIsReported'
    BY <1>3 DEF TrackingInv, FiledIsReported, ParcelsOf
  <2>7. \A p : Complete(p) => Complete(p)'
    BY <1>3 DEF Complete, LiveLabels
  <2>8. MovedIsComplete'
    BY <1>1, <2>1, <2>2, <2>7 DEF TrackingInv, MovedIsComplete, StoredTypes
  <2>9. ASSUME NEW v \in Workers
        PROVE  RunFits(v)'
    <3>1. CASE v = w
      BY <1>3, <2>3, <3>1 DEF RunFits
    <3>2. CASE v # w
      BY <1>3, <2>3, <3>2 DEF TrackingInv, RunFits, Complete, LiveLabels
    <3> QED
      BY <3>1, <3>2
  <2> QED
    BY <2>5, <2>6, <2>8, <2>9 DEF TrackingInv
<1> QED
  BY <1>4, <1>5

LEMMA RunDiesInv ==
    ASSUME TrackingInv, NEW w \in Workers, RunDies(w)
    PROVE  TrackingInv'
<1>1. UNCHANGED <<orderStatus, byCarrier, label, arrived, held, scanned, inFlight, late>>
  BY DEF RunDies, orderVars, trackingVars
<1>2. Put(w, Idle)
  BY DEF RunDies
<1> QED
  BY <1>1, <1>2, IdleFacts, RunInv

-----------------------------------------------------------------------------
(* The carrier, and staff: what they do leaves complete orders complete.   *)

\* No run changes, nothing is filed, and a label that becomes ready late is noted.
LEMMA OutsideInv ==
    ASSUME TrackingInv, UNCHANGED <<arrived, held, run>>, scanned \subseteq scanned',
           orderStatus' \in [Orders -> OrderStatuses],
           label' \in [Shipments -> LabelStatus],
           inFlight' \in [Handlers -> Request],
           byCarrier' \subseteq byCarrier,
           \A o \in byCarrier' : orderStatus'[o] = orderStatus[o],
           late \subseteq late', late' \subseteq Shipments,
           \A s \in Shipments :
              label'[s] = "LABELLED" =>
                  \/ label[s] = "LABELLED"
                  \/ s \in late'
                  \/ /\ OrderOf[s] \notin byCarrier
                     /\ \A w \in Workers : run[w].at = "moving" => run[w].order # OrderOf[s]
    PROVE  TrackingInv'
<1>1. StoredTypes' /\ FiledIsReported'
  BY DEF TrackingInv, StoredTypes, FiledIsReported, ParcelsOf
<1>2. ASSUME NEW o \in Orders, Complete(o),
             o \in byCarrier \/ \E w \in Workers : run[w].at = "moving" /\ run[w].order = o
      PROVE  Complete(o)'
  BY <1>2 DEF Complete, LiveLabels
<1>3. MovedIsComplete'
  <2>1. ASSUME NEW o \in byCarrier'
        PROVE  orderStatus'[o] = "DELIVERED" /\ Complete(o)'
    BY <1>2, <2>1 DEF TrackingInv, MovedIsComplete, StoredTypes
  <2> QED
    BY <2>1 DEF MovedIsComplete
<1>4. ASSUME NEW w \in Workers
      PROVE  RunFits(w)'
  <2>1. RunFits(w)
    BY DEF TrackingInv
  <2>2. ASSUME run[w].at = "moving"
        PROVE  run[w].order \in Orders /\ Complete(run[w].order)'
    <3>1. PICK o \in Orders : o = run[w].order /\ Complete(o)
      BY <2>1, <2>2 DEF RunFits
    <3>2. Complete(o)'
      BY <1>2, <2>2, <3>1
    <3> QED
      BY <3>1, <3>2 DEF Complete, LiveLabels
  <2> QED
    BY <2>1, <2>2 DEF RunFits, Complete, LiveLabels
<1> QED
  BY <1>1, <1>3, <1>4 DEF TrackingInv

LEMMA ScanInv ==
    ASSUME TrackingInv, NEW p \in Parcels, Scan(p)
    PROVE  TrackingInv'
BY OutsideInv DEF Scan, orderVars, trackingVars, historyVars, TrackingInv, StoredTypes

LEMMA FileLabelInv ==
    ASSUME TrackingInv, NEW s \in Shipments, FileLabel(s)
    PROVE  TrackingInv'
<1>1. /\ label' = [label EXCEPT ![s] = "LABELLED"]
      /\ UNCHANGED <<arrived, held, scanned, run, orderStatus, byCarrier, inFlight>>
      /\ \/ late' = late \cup {s}
         \/ /\ late' = late /\ orderStatus[OrderOf[s]] = "PROCESSING"
            /\ ~ \E w \in Workers : run[w].at = "moving" /\ run[w].order = OrderOf[s]
  BY DEF FileLabel, orderVars, trackingVars
<1>2. StoredTypes /\ label' \in [Shipments -> LabelStatus]
  BY <1>1 DEF TrackingInv, StoredTypes, LabelStatus
<1>3. s \in late' \/ OrderOf[s] \notin byCarrier
  BY <1>1 DEF TrackingInv, MovedIsComplete
<1>4. ASSUME NEW t \in Shipments, label'[t] = "LABELLED"
      PROVE  \/ label[t] = "LABELLED"
             \/ t \in late'
             \/ /\ OrderOf[t] \notin byCarrier
                /\ \A w \in Workers : run[w].at = "moving" => run[w].order # OrderOf[t]
  BY <1>1, <1>2, <1>3, <1>4 DEF StoredTypes
<1> QED
  BY <1>1, <1>2, <1>4, OutsideInv DEF StoredTypes

LEMMA StaffInv ==
    ASSUME TrackingInv, NEW h \in Handlers, Staff(h)
    PROVE  TrackingInv'
<1>1. StoredTypes
  BY DEF TrackingInv
<1>2. ASSUME NEW req \in Request, Start(h, req)
      PROVE  TrackingInv'
  <2>1. inFlight' \in [Handlers -> Request]
    BY <1>1, <1>2 DEF Start, StoredTypes
  <2>2. UNCHANGED <<arrived, held, run, scanned, orderStatus, label, byCarrier, late>>
    BY <1>2 DEF Start, orderVars, trackingVars, historyVars
  <2> QED
    BY <1>1, <2>1, <2>2, OutsideInv DEF StoredTypes
<1>3. ASSUME NEW o \in Orders, NEW to \in OrderMoves, ReadForStatus(h, o, to)
      PROVE  TrackingInv'
  <2>1. orderStatus[o] \in OrderStatuses /\ to \in OrderStatuses
    BY <1>1, <1>3 DEF StoredTypes, ReadForStatus, CanTransition, TRANSITIONS, OrderStatuses
  <2>2. [at |-> "status", order |-> o, from |-> orderStatus[o], to |-> to] \in Request
    BY <2>1 DEF Request
  <2> QED
    BY <1>2, <1>3, <2>2 DEF ReadForStatus
<1>4. ASSUME NEW s \in Shipments, ReadForVoid(h, s)
      PROVE  TrackingInv'
  <2>1. [at |-> "void", shipment |-> s] \in Request
    BY DEF Request
  <2> QED
    BY <1>2, <1>4, <2>1 DEF ReadForVoid
<1>5. CASE CommitStatus(h)
  <2>1. PICK o \in Orders, to \in OrderStatuses : o = inFlight[h].order /\ to = inFlight[h].to
    BY <1>1, <1>5, RequestType DEF CommitStatus
  <2>2. /\ orderStatus' = [orderStatus EXCEPT ![o] = to]
        /\ byCarrier' = byCarrier \ {o}
        /\ inFlight' = [inFlight EXCEPT ![h] = Idle]
        /\ UNCHANGED <<arrived, held, run, scanned, late>>
    BY <1>5, <2>1 DEF CommitStatus, trackingVars
  <2>3. label' = [s \in Shipments |->
                    IF OrderOf[s] = o /\ to \in {"CANCELLED", "CHANGES_REQUESTED"}
                    THEN "VOIDED" ELSE label[s]]
    BY <1>5, <2>1 DEF CommitStatus
  <2>4. /\ label' \in [Shipments -> LabelStatus]
        /\ \A s \in Shipments : label'[s] = "LABELLED" => label[s] = "LABELLED"
    BY <1>1, <2>3 DEF StoredTypes, LabelStatus
  <2>5. orderStatus' \in [Orders -> OrderStatuses] /\ inFlight' \in [Handlers -> Request]
    BY <1>1, <2>2, IdleFacts DEF StoredTypes
  <2>6. \A p \in byCarrier' : orderStatus'[p] = orderStatus[p]
    BY <1>1, <2>2 DEF StoredTypes
  <2> QED
    BY <1>1, <2>2, <2>4, <2>5, <2>6, OutsideInv DEF StoredTypes
<1>6. CASE VoidShipment(h)
  <2>1. PICK s \in Shipments : s = inFlight[h].shipment
    BY <1>1, <1>6, RequestType DEF VoidShipment
  <2>2. /\ label' = [label EXCEPT ![s] = "VOIDED"]
        /\ inFlight' = [inFlight EXCEPT ![h] = Idle]
        /\ UNCHANGED <<arrived, held, run, scanned, orderStatus, byCarrier, late>>
    BY <1>6, <2>1 DEF VoidShipment, orderVars, trackingVars
  <2>3. /\ label' \in [Shipments -> LabelStatus] /\ inFlight' \in [Handlers -> Request]
        /\ \A t \in Shipments : label'[t] = "LABELLED" => label[t] = "LABELLED"
    BY <1>1, <2>2, IdleFacts DEF StoredTypes, LabelStatus
  <2> QED
    BY <1>1, <2>2, <2>3, OutsideInv DEF StoredTypes
<1> QED
  BY <1>3, <1>4, <1>5, <1>6 DEF Staff

-----------------------------------------------------------------------------
LEMMA NextInv ==
    ASSUME TrackingAssumption, TrackingInv, [Next]_vars
    PROVE  TrackingInv'
<1>1. CASE UNCHANGED vars
  <2>1. UNCHANGED <<arrived, held, run, scanned, orderStatus, label, byCarrier, late, inFlight>>
    BY <1>1 DEF vars, orderVars, trackingVars, historyVars
  <2> QED
    BY <2>1, OutsideInv DEF TrackingInv, StoredTypes
<1>2. CASE Poll \/ \E w \in Refreshers, o \in Orders : RefreshOrderTracking(w, o)
  BY <1>2, ReadingInv DEF Poll, Workers
<1>3. ASSUME NEW w \in Workers,
             \E answered \in SUBSET Parcels : Ask(w, answered) \/ RunStep(w) \/ RunDies(w)
      PROVE  TrackingInv'
  BY <1>3, AskInv, ReadEventsInv, StoreShipmentInv, CheckOrderInv, ConfirmDeliveryInv,
     RunDiesInv DEF RunStep
<1>4. CASE \/ \E p \in Parcels : Scan(p)
           \/ \E s \in Shipments : FileLabel(s)
           \/ \E h \in Handlers : Staff(h)
  BY <1>4, ScanInv, FileLabelInv, StaffInv
<1> QED
  BY <1>1, <1>2, <1>3, <1>4 DEF Next

-----------------------------------------------------------------------------
(* Types, of all that the runs read and carry, and the queue.              *)

\* A shipment once in the queue never falls out of it: a transaction that has
\* looked at it finds its place.
QueueComplete == \A s \in Shipments : \E k \in DOMAIN queue : queue[k] = s

TypesInv == TypeOK /\ QueueComplete

\* Moving one element of a sequence to its end keeps all it had.
LEMMA MovedToEnd ==
    ASSUME NEW S, NEW q \in Seq(S), NEW k \in DOMAIN q,
           NEW r, r = LookedAt(q, k)
    PROVE  /\ r \in Seq(S)
           /\ \A i \in DOMAIN q : \E j \in DOMAIN r : r[j] = q[i]
<1>1. /\ DOMAIN q = 1..Len(q) /\ Len(q) \in Nat /\ k \in 1..Len(q)
      /\ \A i \in 1..Len(q) : q[i] \in S
  OBVIOUS
<1>2. PICK a, b : a = SubSeq(q, 1, k - 1) /\ b = SubSeq(q, k + 1, Len(q))
  OBVIOUS
<1>3. /\ a \in Seq(S) /\ Len(a) = k - 1
      /\ \A i \in 1..(k - 1) : a[i] = q[i]
  <2>1. k - 1 \in Int /\ 1 \in Int /\ \A i \in 1..(k - 1) : q[i] \in S
    BY <1>1
  <2>2. /\ SubSeq(q, 1, k - 1) \in Seq(S)
        /\ Len(SubSeq(q, 1, k - 1)) = IF 1 <= k - 1 THEN k - 1 - 1 + 1 ELSE 0
        /\ \A i \in 1..(k - 1 - 1 + 1) : SubSeq(q, 1, k - 1)[i] = q[1 + i - 1]
    BY <2>1, SubSeqProperties
  <2> QED
    BY <1>1, <1>2, <2>2
<1>4. /\ b \in Seq(S) /\ Len(b) = Len(q) - k
      /\ \A i \in 1..(Len(q) - k) : b[i] = q[k + i]
  <2>1. k + 1 \in Int /\ Len(q) \in Int /\ \A i \in (k + 1)..Len(q) : q[i] \in S
    BY <1>1
  <2>2. /\ SubSeq(q, k + 1, Len(q)) \in Seq(S)
        /\ Len(SubSeq(q, k + 1, Len(q))) =
              IF k + 1 <= Len(q) THEN Len(q) - (k + 1) + 1 ELSE 0
        /\ \A i \in 1..(Len(q) - (k + 1) + 1) :
              SubSeq(q, k + 1, Len(q))[i] = q[k + 1 + i - 1]
    BY <2>1, SubSeqProperties
  <2>3. PICK n \in Nat : n = Len(q)
    BY <1>1
  <2>4. /\ b \in Seq(S)
        /\ Len(b) = IF k + 1 <= n THEN n - (k + 1) + 1 ELSE 0
        /\ \A i \in 1..(n - (k + 1) + 1) : b[i] = q[k + 1 + i - 1]
    BY <1>2, <2>2, <2>3
  <2>5. k \in 1..n /\ n - (k + 1) + 1 = n - k
    BY <1>1, <2>3
  <2>6. Len(b) = n - k
    BY <2>4, <2>5
  <2>7. ASSUME NEW i \in 1..(n - k)
        PROVE  b[i] = q[k + i]
    <3>1. k + 1 + i - 1 = k + i
      BY <2>5
    <3>2. b[i] = q[k + 1 + i - 1]
      BY <2>4, <2>5
    <3> QED
      BY <3>1, <3>2
  <2> QED
    BY <2>3, <2>4, <2>6, <2>7
<1>5. PICK c : c = a \o b
  OBVIOUS
<1>6. /\ c \in Seq(S) /\ Len(c) = Len(q) - 1
      /\ \A i \in 1..(Len(q) - 1) : c[i] = IF i <= k - 1 THEN q[i] ELSE q[i + 1]
  <2>1. /\ c \in Seq(S) /\ Len(c) = Len(a) + Len(b)
        /\ \A i \in 1..(Len(a) + Len(b)) :
              c[i] = IF i <= Len(a) THEN a[i] ELSE b[i - Len(a)]
    BY <1>3, <1>4, <1>5, ConcatProperties
  <2>2. ASSUME NEW i \in 1..(Len(q) - 1)
        PROVE  c[i] = IF i <= k - 1 THEN q[i] ELSE q[i + 1]
    <3>1. CASE i <= k - 1
      BY <1>1, <1>3, <1>4, <2>1, <3>1
    <3>2. CASE ~ (i <= k - 1)
      <4>1. c[i] = b[i - (k - 1)] /\ i - (k - 1) \in 1..(Len(q) - k)
        BY <1>1, <1>3, <1>4, <2>1, <3>2
      <4>2. b[i - (k - 1)] = q[k + (i - (k - 1))] /\ k + (i - (k - 1)) = i + 1
        BY <1>1, <1>4, <4>1
      <4> QED
        BY <3>2, <4>1, <4>2
    <3> QED
      BY <3>1, <3>2
  <2> QED
    BY <1>1, <1>3, <1>4, <2>1, <2>2
<1>7. r = Append(c, q[k])
  BY <1>2, <1>5 DEF LookedAt, RemoveAt
<1>8. /\ r \in Seq(S) /\ DOMAIN r = 1..Len(q) /\ r[Len(q)] = q[k]
      /\ \A i \in 1..(Len(q) - 1) : r[i] = c[i]
  <2>1. q[k] \in S
    BY <1>1
  <2>2. /\ r \in Seq(S) /\ Len(r) = Len(c) + 1 /\ r[Len(c) + 1] = q[k]
        /\ \A i \in 1..Len(c) : r[i] = c[i]
    BY <1>6, <1>7, <2>1, AppendProperties
  <2>3. Len(c) + 1 = Len(q)
    BY <1>1, <1>6
  <2> QED
    BY <1>6, <2>2, <2>3
<1>9. ASSUME NEW i \in 1..Len(q)
      PROVE  \E j \in 1..Len(q) : r[j] = q[i]
  <2>1. CASE i < k
    <3>1. i \in 1..(Len(q) - 1) /\ i <= k - 1
      BY <1>1, <2>1
    <3> QED
      BY <1>6, <1>8, <3>1
  <2>2. CASE i = k
    <3>1. Len(q) \in 1..Len(q)
      BY <1>1
    <3>2. r[Len(q)] = q[i]
      BY <1>8, <2>2, Zenon
    <3> QED
      BY <3>1, <3>2, Zenon
  <2>3. CASE i > k
    <3>1. i - 1 \in 1..(Len(q) - 1) /\ ~ (i - 1 <= k - 1) /\ i - 1 + 1 = i
      BY <1>1, <2>3
    <3>2. r[i - 1] = q[i]
      BY <1>6, <1>8, <3>1
    <3>3. i - 1 \in 1..Len(q)
      BY <1>1, <3>1
    <3> QED
      BY <3>2, <3>3, Zenon
  <2> QED
    <3>1. i < k \/ i = k \/ i > k
      BY <1>1
    <3> QED
      BY <2>1, <2>2, <2>3, <3>1
<1> QED
  BY <1>1, <1>8, <1>9

LEMMA RunType ==
    ASSUME TypeOK, NEW w \in Workers
    PROVE  /\ run[w] \in Run
           /\ run[w].at # "idle" /\ run[w].at # "moving" =>
                run[w].todo \subseteq Shipments /\ run[w].old \subseteq Shipments
           /\ run[w].at \in {"storing", "inserting"} =>
                run[w].seen \subseteq Parcels /\ run[w].check \subseteq Orders
           /\ run[w].at = "inserting" =>
                run[w].shipment \in Shipments /\ run[w].new \subseteq Parcels
           /\ run[w].at = "moving" =>
                run[w].order \in Orders /\ run[w].check \subseteq Orders
<1>1. run[w] \in Run
  BY DEF TypeOK
<1> QED
  BY <1>1 DEF Run, Idle

LEMMA RequestTyped ==
    ASSUME TypeOK, NEW h \in Handlers
    PROVE  /\ inFlight[h].at = "status" =>
                inFlight[h].order \in Orders /\ inFlight[h].to \in OrderStatuses
           /\ inFlight[h].at = "void" => inFlight[h].shipment \in Shipments
<1>1. inFlight[h] \in Request
  BY DEF TypeOK
<1> QED
  BY <1>1 DEF Request, Idle

LEMMA StoringTyped ==
    ASSUME NEW todo \in SUBSET Shipments, NEW old \in SUBSET Shipments,
           NEW seen \in SUBSET Parcels, NEW check \in SUBSET Orders
    PROVE  Storing(todo, old, seen, check) \in Run
BY DEF Storing, Run

LEMMA ForgottenTyped ==
    ASSUME TypeOK, NEW w \in Workers
    PROVE  Forgotten(w) \subseteq Orders
<1>1. run[w].at \in {"idle", "asking", "storing", "inserting", "moving"}
  BY RunType DEF Run, Idle
<1>2. CASE run[w].at \in {"idle", "asking"}
  BY <1>2 DEF Forgotten
<1>3. CASE run[w].at \in {"storing", "inserting", "moving"}
  <2>1. /\ run[w].check \subseteq Orders
        /\ run[w].at = "moving" => run[w].order \in Orders
    BY <1>3, RunType
  <2> QED
    BY <1>3, <2>1 DEF Forgotten
<1> QED
  BY <1>1, <1>2, <1>3

\* A step of a run that changes nothing else but what it files.
LEMMA RunTypes ==
    ASSUME TypesInv, NEW w \in Workers, NEW r \in Run, Put(w, r),
           UNCHANGED <<label, scanned, inFlight, late>>,
           orderStatus' \in [Orders -> OrderStatuses], byCarrier' \subseteq Orders,
           arrived' \subseteq Shipments, held' \subseteq Parcels,
           queue' \in Seq(Shipments), QueueComplete',
           deaths' \in 0..MaxDeaths, missed' \subseteq Orders
    PROVE  TypesInv'
<1>1. run' \in [Workers -> Run]
  BY DEF TypesInv, TypeOK, Put
<1> QED
  BY <1>1 DEF TypesInv, TypeOK

\* The same for one that files nothing at all.
LEMMA ReadingTypes ==
    ASSUME TypesInv, NEW w \in Workers, NEW r \in Run, Put(w, r),
           UNCHANGED <<orderVars, label, trackingVars, scanned, inFlight, late>>,
           deaths' \in 0..MaxDeaths, missed' \subseteq Orders
    PROVE  TypesInv'
<1>1. UNCHANGED <<orderStatus, byCarrier, arrived, held, queue, label, scanned, inFlight, late>>
  BY DEF orderVars, trackingVars
<1>2. QueueComplete' /\ TypeOK
  BY <1>1 DEF TypesInv, QueueComplete
<1> QED
  BY <1>1, <1>2, RunTypes DEF TypeOK

LEMMA StartTypes ==
    ASSUME TypesInv, NEW w \in Workers, NEW read \in SUBSET Shipments, StartRun(w, read)
    PROVE  TypesInv'
<1>1. TypeOK
  BY DEF TypesInv
<1>2. PICK r \in Run : r = [at |-> "asking", todo |-> read, old |-> read \cap arrived]
  BY DEF Run
<1> QED
  BY <1>1, <1>2, ReadingTypes DEF StartRun, historyVars, TypeOK

LEMMA PollTypes ==
    ASSUME TypesInv, NEW w \in Workers,
           \/ \E last : PollDueTracking(w, last)
           \/ \E o \in Orders : RefreshOrderTracking(w, o)
    PROVE  TypesInv'
<1>1. \A k \in DOMAIN queue : queue[k] \in Shipments
  BY DEF TypesInv, TypeOK
<1>2. ASSUME NEW last, PollDueTracking(w, last)
      PROVE  TypesInv'
  <2>1. PICK read : read \subseteq Shipments /\ StartRun(w, read)
    BY <1>1, <1>2 DEF PollDueTracking, Due
  <2> QED
    BY <2>1, StartTypes
<1>3. ASSUME NEW o \in Orders, RefreshOrderTracking(w, o)
      PROVE  TypesInv'
  <2>1. PICK read : read \subseteq Shipments /\ StartRun(w, read)
    BY <1>3 DEF RefreshOrderTracking, LiveLabels
  <2> QED
    BY <2>1, StartTypes
<1> QED
  BY <1>2, <1>3

LEMMA AskTypes ==
    ASSUME TypesInv, NEW w \in Workers, NEW answered, Ask(w, answered)
    PROVE  TypesInv'
<1>1. TypeOK
  BY DEF TypesInv
<1>2. PICK todo \in SUBSET Shipments, old \in SUBSET Shipments :
         Put(w, Storing(todo, old, answered \cap scanned, {}))
  BY <1>1, RunType DEF Ask
<1>3. PICK r \in Run : r = Storing(todo, old, answered \cap scanned, {})
  BY <1>1, StoringTyped DEF TypeOK
<1> QED
  BY <1>1, <1>2, <1>3, ReadingTypes DEF Ask, historyVars, TypeOK

LEMMA ReadEventsTypes ==
    ASSUME TypesInv, NEW w \in Workers, NEW s \in Shipments, ReadEvents(w, s)
    PROVE  TypesInv'
<1>1. TypeOK
  BY DEF TypesInv
<1>2. PICK r :
        /\ \E todo \in SUBSET Shipments, old \in SUBSET Shipments, seen \in SUBSET Parcels,
              check \in SUBSET Orders, new \in SUBSET Parcels :
              r = [at |-> "inserting", todo |-> todo, old |-> old, seen |-> seen,
                   check |-> check, shipment |-> s, new |-> new]
        /\ Put(w, r)
  BY <1>1, RunType DEF ReadEvents
<1>3. r \in Run
  BY <1>2 DEF Run
<1> QED
  BY <1>1, <1>2, <1>3, ReadingTypes DEF ReadEvents, historyVars, TypeOK

\* The shipment goes to the end of the queue, which loses none.
LEMMA LookedAtTypes ==
    ASSUME TypesInv, NEW k \in DOMAIN queue, queue' = LookedAt(queue, k)
    PROVE  queue' \in Seq(Shipments) /\ QueueComplete'
<1>1. queue \in Seq(Shipments) /\ QueueComplete
  BY DEF TypesInv, TypeOK
<1>2. PICK r : r = LookedAt(queue, k)
  OBVIOUS
<1>3. r \in Seq(Shipments) /\ \A i \in DOMAIN queue : \E j \in DOMAIN r : r[j] = queue[i]
  BY <1>1, <1>2, MovedToEnd
<1>4. \A s \in Shipments : \E j \in DOMAIN r : r[j] = s
  BY <1>1, <1>3, Zenon DEF QueueComplete
<1> QED
  BY <1>2, <1>3, <1>4 DEF QueueComplete

LEMMA StoreShipmentTypes ==
    ASSUME TypesInv, NEW w \in Workers, StoreShipment(w)
    PROVE  TypesInv'
<1>1. TypeOK /\ QueueComplete
  BY DEF TypesInv
<1>2. /\ run[w].at = "inserting" /\ run[w].shipment \in Shipments
      /\ run[w].todo \subseteq Shipments /\ run[w].old \subseteq Shipments
      /\ run[w].seen \subseteq Parcels /\ run[w].check \subseteq Orders
      /\ run[w].new \subseteq Parcels
      /\ UNCHANGED <<orderStatus, byCarrier, label, scanned, inFlight, deaths, late>>
  BY <1>1, RunType DEF StoreShipment, orderVars
<1>3. CASE run[w].new \cap held # {}
  <2>1. Put(w, Idle) /\ Idle \in Run /\ UNCHANGED trackingVars
    BY <1>3 DEF StoreShipment, Run
  <2>2. missed' \subseteq Orders
    BY <1>1, <1>3, ForgottenTyped DEF StoreShipment, TypeOK
  <2> QED
    BY <1>1, <1>2, <2>1, <2>2, ReadingTypes DEF orderVars, TypeOK
<1>4. CASE run[w].new \cap held = {}
  <2>1. /\ held' = held \cup run[w].new
        /\ \E k \in DOMAIN queue : queue' = LookedAt(queue, k)
        /\ missed' = missed
    BY <1>4 DEF StoreShipment
  <2>2. arrived' = arrived \cup {run[w].shipment} \/ arrived' = arrived
    BY <1>4 DEF StoreShipment
  <2>3. OrderOf[run[w].shipment] \in Orders
    BY <1>2, TrackingAssumption DEF TrackingAssumption
  <2>4. PICK r :
          /\ \E check \in SUBSET Orders, old \in SUBSET Shipments :
                r = Storing(run[w].todo, old, run[w].seen, check)
          /\ Put(w, r)
    BY <1>2, <1>4, <2>3 DEF StoreShipment, OrdersToCheck
  <2>5. r \in Run
    BY <1>2, <2>4, StoringTyped
  <2>6. queue' \in Seq(Shipments) /\ QueueComplete'
    BY <2>1, LookedAtTypes
  <2>7. /\ held' \subseteq Parcels /\ arrived' \subseteq Shipments
        /\ orderStatus' \in [Orders -> OrderStatuses] /\ byCarrier' \subseteq Orders
        /\ deaths' \in 0..MaxDeaths /\ missed' \subseteq Orders
    BY <1>1, <1>2, <2>1, <2>2 DEF TypeOK
  <2> QED
    BY <1>2, <2>4, <2>5, <2>6, <2>7, RunTypes
<1> QED
  BY <1>3, <1>4

LEMMA CheckOrderTypes ==
    ASSUME TypesInv, NEW w \in Workers, NEW o \in Orders, CheckOrder(w, o)
    PROVE  TypesInv'
<1>1. TypeOK /\ run[w].check \subseteq Orders
  BY RunType DEF TypesInv, CheckOrder
<1>2. CASE AllArrived(o)
  <2>1. PICK r :
          /\ \E check \in SUBSET Orders : r = [at |-> "moving", order |-> o, check |-> check]
          /\ Put(w, r)
    BY <1>1, <1>2 DEF CheckOrder
  <2>2. r \in Run
    BY <2>1 DEF Run
  <2> QED
    BY <1>1, <2>1, <2>2, ReadingTypes DEF CheckOrder, historyVars, TypeOK
<1>3. CASE ~ AllArrived(o)
  <2>1. PICK r : Put(w, r) /\ \E check \in SUBSET Orders : r = Storing({}, {}, {}, check)
    BY <1>1, <1>3 DEF CheckOrder
  <2>2. r \in Run
    BY <2>1, StoringTyped
  <2> QED
    BY <1>1, <2>1, <2>2, ReadingTypes DEF CheckOrder, historyVars, TypeOK
<1> QED
  BY <1>2, <1>3

LEMMA ConfirmDeliveryTypes ==
    ASSUME TypesInv, NEW w \in Workers, ConfirmDelivery(w)
    PROVE  TypesInv'
<1>1. TypeOK /\ QueueComplete /\ run[w].order \in Orders /\ run[w].check \subseteq Orders
  BY RunType DEF TypesInv, ConfirmDelivery
<1>2. PICK r : r = Storing({}, {}, {}, run[w].check) /\ Put(w, r)
  BY DEF ConfirmDelivery
<1>3. r \in Run
  BY <1>1, <1>2, StoringTyped
<1>4. UNCHANGED <<label, arrived, held, queue, scanned, inFlight, deaths, late>>
  BY DEF ConfirmDelivery, trackingVars
<1>5. /\ orderStatus' = [orderStatus EXCEPT ![run[w].order] = "DELIVERED"]
            \/ orderStatus' = orderStatus
      /\ byCarrier' = byCarrier \cup {run[w].order} \/ byCarrier' = byCarrier
      /\ missed' = missed \cup {run[w].order} \/ missed' = missed
  BY DEF ConfirmDelivery, orderVars
<1>6. /\ orderStatus' \in [Orders -> OrderStatuses] /\ byCarrier' \subseteq Orders
      /\ missed' \subseteq Orders
  <2>1. "DELIVERED" \in OrderStatuses
    BY DEF OrderStatuses
  <2> QED
    BY <1>1, <1>5, <2>1 DEF TypeOK
<1>7. QueueComplete'
  BY <1>1, <1>4 DEF QueueComplete
<1> QED
  BY <1>1, <1>2, <1>3, <1>4, <1>6, <1>7, RunTypes DEF TypeOK

LEMMA RunDiesTypes ==
    ASSUME TypesInv, NEW w \in Workers, RunDies(w)
    PROVE  TypesInv'
<1>1. TypeOK /\ Idle \in Run
  BY DEF TypesInv, Run
<1>2. missed' \subseteq Orders
  BY <1>1, ForgottenTyped DEF RunDies, TypeOK
<1>3. deaths' \in 0..MaxDeaths
  BY <1>1, TrackingAssumption DEF RunDies, TypeOK, TrackingAssumption
<1> QED
  BY <1>1, <1>2, <1>3, ReadingTypes DEF RunDies

\* Of the carrier and staff: neither the runs nor the queue change.
LEMMA OutsideTypes ==
    ASSUME TypesInv, UNCHANGED <<run, arrived, held, queue, deaths>>,
           orderStatus' \in [Orders -> OrderStatuses], byCarrier' \subseteq Orders,
           label' \in [Shipments -> LabelStatus], scanned' \subseteq Parcels,
           inFlight' \in [Handlers -> Request], late' \subseteq Shipments,
           missed' \subseteq Orders
    PROVE  TypesInv'
BY DEF TypesInv, TypeOK, QueueComplete

LEMMA CarrierTypes ==
    ASSUME TypesInv,
           \/ \E p \in Parcels : Scan(p)
           \/ \E s \in Shipments : FileLabel(s)
    PROVE  TypesInv'
<1>1. TypeOK
  BY DEF TypesInv
<1>2. ASSUME NEW p \in Parcels, Scan(p)
      PROVE  TypesInv'
  BY <1>1, <1>2, OutsideTypes DEF Scan, orderVars, trackingVars, historyVars, TypeOK
<1>3. ASSUME NEW s \in Shipments, FileLabel(s)
      PROVE  TypesInv'
  <2>1. label' \in [Shipments -> LabelStatus] /\ late' \subseteq Shipments
    BY <1>1, <1>3 DEF FileLabel, TypeOK, LabelStatus
  <2>2. UNCHANGED <<run, arrived, held, queue, deaths, orderStatus, byCarrier, scanned,
                    inFlight, missed>>
    BY <1>3 DEF FileLabel, orderVars, trackingVars
  <2> QED
    BY <1>1, <2>1, <2>2, OutsideTypes DEF TypeOK
<1> QED
  BY <1>2, <1>3

LEMMA StaffTypes ==
    ASSUME TypesInv, NEW h \in Handlers, Staff(h)
    PROVE  TypesInv'
<1>1. TypeOK /\ Idle \in Request
  BY DEF TypesInv, Request
<1>2. ASSUME NEW req \in Request, Start(h, req)
      PROVE  TypesInv'
  BY <1>1, <1>2, OutsideTypes DEF Start, orderVars, trackingVars, historyVars, TypeOK
<1>3. ASSUME NEW o \in Orders, NEW to \in OrderMoves, ReadForStatus(h, o, to)
      PROVE  TypesInv'
  <2>1. orderStatus[o] \in OrderStatuses /\ to \in OrderStatuses
    BY <1>1, TrackingAssumption DEF TypeOK, TrackingAssumption
  <2>2. [at |-> "status", order |-> o, from |-> orderStatus[o], to |-> to] \in Request
    BY <2>1 DEF Request
  <2> QED
    BY <1>2, <1>3, <2>2 DEF ReadForStatus
<1>4. ASSUME NEW s \in Shipments, ReadForVoid(h, s)
      PROVE  TypesInv'
  <2>1. [at |-> "void", shipment |-> s] \in Request
    BY DEF Request
  <2> QED
    BY <1>2, <1>4, <2>1 DEF ReadForVoid
<1>5. CASE CommitStatus(h)
  <2>1. PICK o \in Orders, to \in OrderStatuses : o = inFlight[h].order /\ to = inFlight[h].to
    BY <1>1, <1>5, RequestTyped DEF CommitStatus
  <2>2. /\ orderStatus' = [orderStatus EXCEPT ![o] = to]
        /\ byCarrier' = byCarrier \ {o}
        /\ inFlight' = [inFlight EXCEPT ![h] = Idle]
        /\ missed' = missed \cup {o} \/ missed' = missed
        /\ UNCHANGED <<run, arrived, held, queue, deaths, scanned, late>>
    BY <1>5, <2>1 DEF CommitStatus, trackingVars
  <2>3. label' = [s \in Shipments |->
                    IF OrderOf[s] = o /\ to \in {"CANCELLED", "CHANGES_REQUESTED"}
                    THEN "VOIDED" ELSE label[s]]
    BY <1>5, <2>1 DEF CommitStatus
  <2>4. label' \in [Shipments -> LabelStatus]
    BY <1>1, <2>3 DEF TypeOK, LabelStatus
  <2>5. /\ orderStatus' \in [Orders -> OrderStatuses] /\ inFlight' \in [Handlers -> Request]
        /\ byCarrier' \subseteq Orders /\ missed' \subseteq Orders
    BY <1>1, <2>2 DEF TypeOK
  <2> QED
    BY <1>1, <2>2, <2>4, <2>5, OutsideTypes DEF TypeOK
<1>6. CASE VoidShipment(h)
  <2>1. PICK s \in Shipments : s = inFlight[h].shipment
    BY <1>1, <1>6, RequestTyped DEF VoidShipment
  <2>2. /\ label' = [label EXCEPT ![s] = "VOIDED"]
        /\ inFlight' = [inFlight EXCEPT ![h] = Idle]
        /\ missed' = missed \cup {OrderOf[s]} \/ missed' = missed
        /\ UNCHANGED <<run, arrived, held, queue, deaths, orderStatus, byCarrier, scanned, late>>
    BY <1>6, <2>1 DEF VoidShipment, orderVars, trackingVars
  <2>3. OrderOf[s] \in Orders
    BY TrackingAssumption DEF TrackingAssumption
  <2>4. /\ label' \in [Shipments -> LabelStatus] /\ inFlight' \in [Handlers -> Request]
        /\ missed' \subseteq Orders
    BY <1>1, <2>2, <2>3 DEF TypeOK, LabelStatus
  <2> QED
    BY <1>1, <2>2, <2>4, OutsideTypes DEF TypeOK
<1> QED
  BY <1>3, <1>4, <1>5, <1>6 DEF Staff

LEMMA InitTypes ==
    ASSUME Init
    PROVE  TypesInv
<1>1. Idle \in Run /\ Idle \in Request
  BY DEF Run, Request
<1>2. TypeOK
  BY <1>1, TrackingAssumption DEF Init, TypeOK, OrderStatuses, LabelStatus, TrackingAssumption
<1>3. QueueComplete
  BY TrackingAssumption DEF Init, QueueComplete, TrackingAssumption
<1> QED
  BY <1>2, <1>3 DEF TypesInv

LEMMA NextTypes ==
    ASSUME TypesInv, [Next]_vars
    PROVE  TypesInv'
<1>1. CASE UNCHANGED vars
  BY <1>1 DEF vars, orderVars, trackingVars, historyVars, TypesInv, TypeOK, QueueComplete
<1>2. CASE Poll \/ \E w \in Refreshers, o \in Orders : RefreshOrderTracking(w, o)
  BY <1>2, PollTypes DEF Poll, Workers
<1>3. ASSUME NEW w \in Workers,
             \E answered \in SUBSET Parcels : Ask(w, answered) \/ RunStep(w) \/ RunDies(w)
      PROVE  TypesInv'
  BY <1>3, AskTypes, ReadEventsTypes, StoreShipmentTypes, CheckOrderTypes,
     ConfirmDeliveryTypes, RunDiesTypes DEF RunStep
<1>4. CASE \/ \E p \in Parcels : Scan(p)
           \/ \E s \in Shipments : FileLabel(s)
           \/ \E h \in Handlers : Staff(h)
  BY <1>4, CarrierTypes, StaffTypes
<1> QED
  BY <1>1, <1>2, <1>3, <1>4 DEF Next

-----------------------------------------------------------------------------
(* The theorems.                                                           *)

\* Whatever runs of the tracking service and staff do, all that is on file was
\* reported, and the order a run is about to move has arrived.
THEOREM InvariantHolds == Spec => []TrackingInv
<1>1. Init => TrackingInv
  BY TrackingAssumption, InitTrackingInv
<1>2. TrackingInv /\ [Next]_vars => TrackingInv'
  BY TrackingAssumption, NextInv
<1> QED
  BY <1>1, <1>2, PTL DEF Spec

\* confirmDeliveryFromCarrier moves an order to DELIVERED only when the carrier
\* has delivered every parcel of every label it went out with, however the runs
\* that store the deliveries overlap, fail or die.
THEOREM DeliveredWhenAllArrived == Spec => []WholeOrderArrived
<1>1. TrackingInv => WholeOrderArrived
  BY DEF TrackingInv, MovedIsComplete, Complete, FiledIsReported, WholeOrderArrived
<1> QED
  BY <1>1, InvariantHolds, PTL

\* What runs read, carry and file is of the kind the code declares, and a
\* shipment never falls out of the queue the poll reads by lastTrackedAt.
THEOREM TypeCorrect == Spec => []TypeOK /\ []QueueComplete
<1>1. TypesInv /\ [Next]_vars => TypesInv'
  BY NextTypes
<1>2. TypesInv => TypeOK /\ QueueComplete
  BY DEF TypesInv
<1> QED
  BY <1>1, <1>2, InitTypes, PTL DEF Spec
=============================================================================
