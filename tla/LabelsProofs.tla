---------------------------- MODULE LabelsProofs ----------------------------
(***************************************************************************)
(* Proofs about Labels, for any orders, shipments, handlers and jobs, and  *)
(* any number of attempts.                                                 *)
(***************************************************************************)
EXTENDS Labels, FiniteSetTheorems, TLAPS

-----------------------------------------------------------------------------
(* The inductive invariant: references.                                    *)

\* A shipment that exists belongs to an order.
RowsOwned == \A s \in Shipments : status[s] # "NONE" => orderOf[s] \in Orders

\* A request's shipment exists, and is its order's.
RequestsOwned ==
    \A h \in Handlers :
        /\ inFlight[h].at \in {"void", "retry", "dispatch"} =>
             /\ status[inFlight[h].shipment] # "NONE"
             /\ orderOf[inFlight[h].shipment] = inFlight[h].order
        /\ inFlight[h].at = "status" /\ inFlight[h].label # Null =>
             /\ status[inFlight[h].label] # "NONE"
             /\ orderOf[inFlight[h].label] = inFlight[h].order

\* So do a job's shipment, and the label an order went out on.
JobsOwned == \A j \in Jobs : job[j].at # "free" => status[job[j].shipment] # "NONE"

DispatchesOwned ==
    \A o \in Orders :
        dispatchedOn[o] # Null =>
            status[dispatchedOn[o]] # "NONE" /\ orderOf[dispatchedOn[o]] = o

-----------------------------------------------------------------------------
(* Requests about an order that has not had two writers at once.           *)

\* One request at a time, and what it has read is still so.
RequestAlone(o) ==
    /\ \A g, h \in Handlers : WorksOn(g, o) /\ WorksOn(h, o) => g = h
    /\ \A h \in Handlers :
        WorksOn(h, o) =>
            /\ inFlight[h].at = "create" =>
                 orderStatus[o] = "PROCESSING" /\ Live(o) \subseteq beside
            /\ inFlight[h].at = "retry" =>
                 /\ orderStatus[o] = "PROCESSING"
                 /\ status[inFlight[h].shipment] # "VOIDED"
            /\ inFlight[h].at = "void" /\ dispatchedOn[o] = inFlight[h].shipment =>
                 dispatchedOn[o] \in doubled
            /\ inFlight[h].at = "status" =>
                 /\ CanTransition(orderStatus[o], inFlight[h].to)
                 /\ inFlight[h].label \notin doubled \cup {Null} =>
                      status[inFlight[h].label] = "LABELLED"

Outside(o) == orderStatus[o] \notin {"PROCESSING", "DISPATCHED", "DELIVERED"}

OrderFits(o) ==
    /\ Outside(o) => \A s \in Of(o) : status[s] = "VOIDED"
    /\ dispatchedOn[o] # Null => orderStatus[o] \in {"DISPATCHED", "DELIVERED"}
    /\ dispatchedOn[o] \notin doubled \cup {Null} => status[dispatchedOn[o]] = "LABELLED"
    /\ \A s, t \in Live(o) \ beside : s = t

OrdersAlone == \A o \in Orders \ overlapped : RequestAlone(o) /\ OrderFits(o)

-----------------------------------------------------------------------------
(* Jobs.                                                                   *)

\* A job that is about to write has read no void, or there has been an overlap;
\* and one whose shipment has no other job at work knows its consignment.
RecordFits(r) ==
    LET s == r.shipment
    IN  /\ r.at = "recording" => r.got # 0
        /\ r.at = "failing" /\ ~ r.final => r.attempt < r.max
        /\ \/ r.at \in {"recording", "filing"} /\ ~ r.sawVoid
           \/ r.at = "failing"
           => status[s] # "VOIDED" \/ orderOf[s] \in overlapped
        /\ s \notin doubled =>
             /\ r.at \in {"submit", "recording"} => consignment[s] = 0
             /\ r.at \in {"fetch", "filing"} =>
                  consignment[s] # 0 /\ r.got = consignment[s]
             /\ r.at = "failing" => status[s] # "LABELLED"

JobFits(j) == RecordFits(job[j])

\* The answers the carrier gave about a shipment that has had one job at work at
\* a time: lost, carried by the job that is recording, or recorded.
RowFits(s) ==
    s \notin doubled =>
        /\ \A i, j \in JobsOf(s) : Running(i) /\ Running(j) => i = j
        /\ status[s] = "LABELLED" => consignment[s] # 0 /\ labelFile[s] = consignment[s]
        /\ made[s] <= lost[s] + 1
        /\ consignment[s] = 0 /\ (\A j \in JobsOf(s) : job[j].at # "recording") =>
             made[s] <= lost[s]

\* A job that will yet say something of its shipment: not one that is about to
\* file a label it saw voided.
WillTell(j) == ~ (job[j].at = "filing" /\ job[j].sawVoid)

UnderWay(s) ==
    s \notin orphaned /\ status[s] \in {"PENDING", "SUBMITTED"} =>
        \/ \E j \in JobsOf(s) : WillTell(j)
        \/ \E h \in Handlers : inFlight[h].at = "dispatch" /\ inFlight[h].shipment = s

JobsFit ==
    /\ \A j \in Jobs : job[j].at # "free" => JobFits(j)
    /\ \A s \in Shipments : RowFits(s) /\ UnderWay(s)

LabelsInv ==
    /\ TypeOK
    /\ RowsOwned /\ RequestsOwned /\ JobsOwned /\ DispatchesOwned
    /\ OrdersAlone
    /\ JobsFit

-----------------------------------------------------------------------------
(* What the records in flight and in the queue carry.                      *)

LEMMA NullApart ==
    ASSUME LabelsAssumption
    PROVE  Null \notin Orders /\ Null \notin Shipments
BY DEF LabelsAssumption

LEMMA RequestType ==
    ASSUME NEW req \in Request
    PROVE  /\ req.at \in {"idle", "create", "void", "retry", "dispatch", "status"}
           /\ req.at = "idle" => req = Idle
           /\ req.at # "idle" => req.order \in Orders
           /\ req.at \in {"void", "retry", "dispatch"} => req.shipment \in Shipments
           /\ req.at = "retry" => req.resume \in BOOLEAN
           /\ req.at = "status" =>
                req.to \in OrderStatuses /\ req.label \in Shipments \cup {Null}
BY DEF Request, Idle

LEMMA InFlightType ==
    ASSUME TypeOK, NEW h \in Handlers
    PROVE  /\ inFlight[h] \in Request
           /\ inFlight[h].at \in {"idle", "create", "void", "retry", "dispatch", "status"}
           /\ inFlight[h].at = "idle" => inFlight[h] = Idle
           /\ inFlight[h].at # "idle" => inFlight[h].order \in Orders
           /\ inFlight[h].at \in {"void", "retry", "dispatch"} =>
                inFlight[h].shipment \in Shipments
           /\ inFlight[h].at = "retry" => inFlight[h].resume \in BOOLEAN
           /\ inFlight[h].at = "status" =>
                /\ inFlight[h].to \in OrderStatuses
                /\ inFlight[h].label \in Shipments \cup {Null}
<1>1. inFlight[h] \in Request
  BY DEF TypeOK
<1> QED
  BY <1>1, RequestType

\* A job that is somewhere is a full record, and one that is nowhere is NoJob.
RealJob ==
    [at : JobPhase, shipment : Shipments, attempt : 1..Attempts, max : 1..Attempts,
     got : 0..MaxConsignments, sawVoid : BOOLEAN, final : BOOLEAN]

LEMMA JobType ==
    ASSUME TypeOK, NEW j \in Jobs
    PROVE  /\ job[j].at = "free" => job[j] = NoJob
           /\ job[j].at # "free" => job[j] \in RealJob
           /\ job[j] = NoJob => job[j].at = "free" /\ job[j].shipment = Null
<1>1. job[j] = NoJob \/ job[j] \in RealJob
  BY DEF TypeOK, JobState, RealJob
<1>2. NoJob.at = "free" /\ NoJob.shipment = Null
  BY DEF NoJob
<1>3. job[j] \in RealJob => job[j].at # "free"
  BY DEF RealJob, JobPhase
<1> QED
  BY <1>1, <1>2, <1>3

LEMMA JobFields ==
    ASSUME NEW r \in RealJob
    PROVE  /\ r.at \in JobPhase /\ r.at # "free" /\ r.shipment \in Shipments
           /\ r.attempt \in 1..Attempts /\ r.max \in 1..Attempts
           /\ r.got \in 0..MaxConsignments
           /\ r.sawVoid \in BOOLEAN /\ r.final \in BOOLEAN
           /\ r \in JobState
BY DEF RealJob, JobPhase, JobState

\* A job that goes on keeps its shipment, attempt and number of tries.
LEMMA GotoFields ==
    ASSUME LabelsAssumption, NEW j \in Jobs, job[j] \in RealJob, NEW phase \in JobPhase
    PROVE  /\ Goto(j, phase) \in RealJob
           /\ Goto(j, phase).at = phase
           /\ Goto(j, phase).shipment = job[j].shipment
           /\ Goto(j, phase).attempt = job[j].attempt
           /\ Goto(j, phase).max = job[j].max
           /\ Goto(j, phase).got = 0
           /\ Goto(j, phase).sawVoid = FALSE
           /\ Goto(j, phase).final = FALSE
<1>1. Goto(j, phase) = [job[j] EXCEPT !.at = phase, !.got = 0, !.sawVoid = FALSE,
                                      !.final = FALSE]
  BY DEF Goto
<1>2. 0 \in 0..MaxConsignments
  BY DEF LabelsAssumption
<1> QED
  BY <1>1, <1>2 DEF RealJob

\* What the queue makes of a failed attempt.
LEMMA EndedFields ==
    ASSUME LabelsAssumption, NEW j \in Jobs, job[j] \in RealJob, NEW final \in BOOLEAN,
           ~ final => job[j].attempt < job[j].max
    PROVE  /\ final => Ended(j, final) = NoJob
           /\ ~ final => /\ Ended(j, final) \in RealJob
                         /\ Ended(j, final).at = "queued"
                         /\ Ended(j, final).shipment = job[j].shipment
<1>1. CASE final
  BY <1>1 DEF Ended
<1>2. CASE ~ final
  <2> DEFINE g == Goto(j, "queued")
  <2>1. g \in RealJob /\ g.at = "queued" /\ g.shipment = job[j].shipment
        /\ g.attempt = job[j].attempt
    BY GotoFields DEF JobPhase
  <2>2. g.attempt + 1 \in 1..Attempts
    BY <1>2, <2>1, JobFields DEF LabelsAssumption
  <2>3. Ended(j, final) = [g EXCEPT !.attempt = g.attempt + 1]
    BY <1>2 DEF Ended
  <2> HIDE DEF g
  <2> QED
    BY <1>2, <2>1, <2>2, <2>3 DEF RealJob
<1> QED
  BY <1>1, <1>2

LEMMA NewJobFields ==
    ASSUME LabelsAssumption, NEW s \in Shipments, NEW max \in 1..Attempts
    PROVE  /\ NewJob(s, max) \in RealJob
           /\ NewJob(s, max).at = "queued"
           /\ NewJob(s, max).shipment = s
BY DEF NewJob, RealJob, JobPhase, LabelsAssumption

-----------------------------------------------------------------------------
(* Initially.                                                              *)

LEMMA InitLabelsInv ==
    ASSUME LabelsAssumption, Init
    PROVE  LabelsInv
<1>1. TypeOK
  BY DEF Init, TypeOK, Request, JobState, ShipmentStatus, OrderStatuses, LabelsAssumption
<1>2. /\ \A s \in Shipments : status[s] = "NONE" /\ consignment[s] = 0 /\ made[s] = 0
                              /\ lost[s] = 0
      /\ \A h \in Handlers : inFlight[h].at = "idle"
      /\ \A j \in Jobs : job[j].at = "free" /\ job[j].shipment = Null
      /\ \A o \in Orders : dispatchedOn[o] = Null /\ orderStatus[o] = "PROCESSING"
  BY DEF Init, Idle, NoJob
<1>3. RowsOwned /\ RequestsOwned /\ JobsOwned /\ DispatchesOwned
  BY <1>2 DEF RowsOwned, RequestsOwned, JobsOwned, DispatchesOwned
<1>4. OrdersAlone
  BY <1>2 DEF OrdersAlone, RequestAlone, OrderFits, Outside, Of, Live, WorksOn, IsIdle
<1>5. \A s \in Shipments : JobsOf(s) = {}
  BY <1>2, NullApart DEF JobsOf
<1>6. JobsFit
  <2>1. \A s \in Shipments : RowFits(s) /\ UnderWay(s)
    BY <1>2, <1>5 DEF RowFits, UnderWay
  <2> QED
    BY <1>2, <2>1 DEF JobsFit
<1> QED
  BY <1>1, <1>3, <1>4, <1>6 DEF LabelsInv

-----------------------------------------------------------------------------
(* Steps of a request.                                                     *)

\* What such a step may do to rows and leave the jobs as they fit.
LEMMA JobsLeft ==
    ASSUME TypeOK, JobsOwned, JobsFit, LabelsAssumption,
           UNCHANGED <<job, consignment, labelFile, made, lost, doubled>>,
           overlapped \subseteq overlapped',
           \A s \in Shipments : status[s] # "NONE" => orderOf'[s] = orderOf[s],
           \A s \in Shipments : status'[s] = status[s] \/ status'[s] # "LABELLED",
           \A s \in Shipments :
               status'[s] = "VOIDED" /\ status[s] # "VOIDED" =>
                   ~ BetweenReadAndWrite(s) \/ orderOf[s] \in overlapped',
           \A s \in Shipments :
               s \notin orphaned' /\ status'[s] \in {"PENDING", "SUBMITTED"} =>
                   \/ \E h \in Handlers :
                         inFlight'[h].at = "dispatch" /\ inFlight'[h].shipment = s
                   \/ /\ s \notin orphaned /\ status[s] \in {"PENDING", "SUBMITTED"}
                      /\ \A h \in Handlers :
                            inFlight[h].at = "dispatch" /\ inFlight[h].shipment = s =>
                                inFlight'[h] = inFlight[h]
    PROVE  JobsFit'
<1>1. ASSUME NEW j \in Jobs, job'[j].at # "free"
      PROVE  JobFits(j)'
  <2> DEFINE s == job[j].shipment
  <2>1. job' = job /\ job[j].at # "free" /\ JobFits(j) /\ s \in Shipments
    BY <1>1, JobType, JobFields DEF JobsFit
  <2>2. status[s] # "NONE" /\ orderOf'[s] = orderOf[s]
    BY <2>1 DEF JobsOwned
  <2>3. job[j].at \in {"recording", "filing", "failing"} => BetweenReadAndWrite(s)
    BY DEF BetweenReadAndWrite, JobsOf
  <2>4. status[s] # "VOIDED" /\ status'[s] = "VOIDED" => 
          job[j].at \notin {"recording", "filing", "failing"} \/ orderOf'[s] \in overlapped'
    BY <2>1, <2>2, <2>3
  <2>5. status'[s] = "LABELLED" => status[s] = "LABELLED"
    BY <2>1
  <2> QED
    BY <2>1, <2>2, <2>4, <2>5 DEF JobFits, RecordFits
<1>2. ASSUME NEW s \in Shipments
      PROVE  RowFits(s)'
  <2>1. RowFits(s)
    BY DEF JobsFit
  <2>2. JobsOf(s)' = JobsOf(s) /\ \A j \in Jobs : Running(j)' <=> Running(j)
    BY DEF JobsOf, Running
  <2>3. JobsOf(s) \subseteq Jobs
    BY DEF JobsOf
  <2> QED
    BY <2>1, <2>2, <2>3 DEF RowFits
<1>3. ASSUME NEW s \in Shipments
      PROVE  UnderWay(s)'
  <2>1. UnderWay(s)
    BY DEF JobsFit
  <2>2. JobsOf(s)' = JobsOf(s) /\ \A j \in Jobs : WillTell(j)' <=> WillTell(j)
    BY DEF JobsOf, WillTell
  <2>3. JobsOf(s) \subseteq Jobs
    BY DEF JobsOf
  <2> QED
    BY <2>1, <2>2, <2>3 DEF UnderWay
<1> QED
  BY <1>1, <1>2, <1>3 DEF JobsFit

\* A request about o leaves the other orders and the requests about them alone.
LEMMA OthersAlone ==
    ASSUME TypeOK, RowsOwned, RequestsOwned, DispatchesOwned, OrdersAlone, LabelsAssumption,
           NEW h \in Handlers, NEW o \in Orders,
           WorksOn(h, o) \/ IsIdle(h),
           inFlight'[h].at = "idle" \/ inFlight'[h].order = o,
           \A g \in Handlers \ {h} : inFlight'[g] = inFlight[g],
           \A p \in Orders \ {o} :
               orderStatus'[p] = orderStatus[p] /\ dispatchedOn'[p] = dispatchedOn[p],
           \A s \in Shipments :
               \/ status'[s] = status[s] /\ orderOf'[s] = orderOf[s]
               \/ (status[s] = "NONE" \/ orderOf[s] = o) /\ orderOf'[s] = o,
           beside \subseteq beside', doubled' = doubled, overlapped \subseteq overlapped',
           NEW p \in Orders \ overlapped', p # o
    PROVE  RequestAlone(p)' /\ OrderFits(p)'
<1>1. RequestAlone(p) /\ OrderFits(p) /\ p \in Orders
  BY DEF OrdersAlone
<1>2. Of(p)' = Of(p) /\ Live(p)' = Live(p) /\ \A s \in Of(p) : status'[s] = status[s]
  <2>1. ASSUME NEW s \in Shipments
        PROVE  /\ s \in Of(p)' <=> s \in Of(p)
               /\ s \in Of(p) => status'[s] = status[s]
    BY DEF Of
  <2> QED
    BY <2>1 DEF Of, Live
<1>3. \A s \in Shipments : status[s] # "NONE" /\ orderOf[s] = p => s \in Of(p)
  BY DEF Of
<1>4. \A g \in Handlers : WorksOn(g, p)' <=> WorksOn(g, p)
  BY DEF WorksOn, IsIdle
<1>5. \A g \in Handlers : WorksOn(g, p) => inFlight'[g] = inFlight[g]
  BY DEF WorksOn, IsIdle
<1>6. orderStatus'[p] = orderStatus[p] /\ dispatchedOn'[p] = dispatchedOn[p]
  BY <1>1
<1>7. RequestAlone(p)'
  <2>1. \A g, i \in Handlers : WorksOn(g, p)' /\ WorksOn(i, p)' => g = i
    BY <1>1, <1>4 DEF RequestAlone
  <2>2. ASSUME NEW g \in Handlers, WorksOn(g, p)
        PROVE  /\ inFlight[g].at = "create" =>
                    orderStatus[p] = "PROCESSING" /\ Live(p)' \subseteq beside'
               /\ inFlight[g].at = "retry" =>
                    /\ orderStatus[p] = "PROCESSING"
                    /\ status'[inFlight[g].shipment] # "VOIDED"
               /\ inFlight[g].at = "void" /\ dispatchedOn[p] = inFlight[g].shipment =>
                    dispatchedOn[p] \in doubled
               /\ inFlight[g].at = "status" =>
                    /\ CanTransition(orderStatus[p], inFlight[g].to)
                    /\ inFlight[g].label \notin doubled \cup {Null} =>
                         status'[inFlight[g].label] = "LABELLED"
    <3>1. inFlight[g].at = "create" =>
            orderStatus[p] = "PROCESSING" /\ Live(p)' \subseteq beside'
      BY <1>1, <1>2, <2>2 DEF RequestAlone
    <3>2. inFlight[g].order = p
      BY <2>2 DEF WorksOn
    <3>3. inFlight[g].at = "retry" => inFlight[g].shipment \in Of(p)
      BY <1>3, <3>2, InFlightType DEF RequestsOwned
    <3>4. inFlight[g].at = "status" /\ inFlight[g].label # Null => inFlight[g].label \in Of(p)
      BY <1>3, <3>2, InFlightType DEF RequestsOwned
    <3> QED
      BY <1>1, <1>2, <2>2, <3>1, <3>3, <3>4 DEF RequestAlone
  <2> QED
    BY <1>4, <1>5, <1>6, <2>1, <2>2 DEF RequestAlone
<1>8. OrderFits(p)'
  <2>1. dispatchedOn[p] # Null => dispatchedOn[p] \in Of(p)
    BY <1>1, <1>3 DEF DispatchesOwned, TypeOK
  <2>2. Live(p)' \ beside' \subseteq Live(p) \ beside
    BY <1>2
  <2> QED
    BY <1>1, <1>2, <1>6, <2>1, <2>2 DEF OrderFits, Outside
<1> QED
  BY <1>7, <1>8

\* A handler takes up a request.
LEMMA StartInv ==
    ASSUME LabelsAssumption, LabelsInv, NEW h \in Handlers, NEW o \in Orders,
           NEW req \in Request, req.at \notin {"idle", "dispatch"}, req.order = o,
           Start(h, o, req),
           UNCHANGED <<rowVars, orderVars, carrierVars, job, beside, doubled, orphaned>>,
           req.at \in {"void", "retry"} =>
               status[req.shipment] # "NONE" /\ orderOf[req.shipment] = o,
           req.at = "status" /\ req.label # Null =>
               status[req.label] = "LABELLED" /\ orderOf[req.label] = o,
           req.at = "create" => orderStatus[o] = "PROCESSING" /\ Live(o) = {},
           req.at = "retry" =>
               orderStatus[o] = "PROCESSING" /\ status[req.shipment] = "FAILED",
           req.at = "void" =>
               ~ (/\ orderStatus[o] \in {"DISPATCHED", "DELIVERED"}
                  /\ status[req.shipment] = "LABELLED"),
           req.at = "status" => CanTransition(orderStatus[o], req.to)
    PROVE  LabelsInv'
<1>1. TypeOK
  BY DEF LabelsInv
<1>2. /\ IsIdle(h) /\ inFlight' = [inFlight EXCEPT ![h] = req]
      /\ overlapped' = IF \E g \in Handlers : WorksOn(g, o)
                       THEN overlapped \cup {o} ELSE overlapped
  BY DEF Start
<1>3. /\ inFlight'[h] = req /\ inFlight' \in [Handlers -> Request]
      /\ \A g \in Handlers \ {h} : inFlight'[g] = inFlight[g]
  BY <1>1, <1>2 DEF TypeOK
<1>4. /\ UNCHANGED <<orderOf, status, consignment, labelFile, orderStatus, dispatchedOn,
                     made, lost, job, beside, doubled, orphaned>>
  BY DEF rowVars, orderVars, carrierVars
<1>5. overlapped \subseteq overlapped' /\ overlapped' \subseteq Orders
  BY <1>1, <1>2 DEF TypeOK
<1>6. TypeOK'
  BY <1>1, <1>3, <1>4, <1>5 DEF TypeOK
<1>7. RowsOwned' /\ JobsOwned' /\ DispatchesOwned'
  BY <1>4 DEF LabelsInv, RowsOwned, JobsOwned, DispatchesOwned
<1>8. RequestsOwned'
  BY <1>3, <1>4 DEF LabelsInv, RequestsOwned
<1>9. JobsFit'
  <2>1. \A g \in Handlers : inFlight[g].at = "dispatch" => inFlight'[g] = inFlight[g]
    BY <1>2, <1>3 DEF IsIdle
  <2> QED
    BY <1>1, <1>4, <1>5, <2>1, JobsLeft DEF LabelsInv
<1>10. ASSUME NEW p \in Orders \ overlapped', p # o
       PROVE  RequestAlone(p)' /\ OrderFits(p)'
  <2>1. /\ inFlight'[h].order = o
        /\ \A s \in Shipments : status'[s] = status[s] /\ orderOf'[s] = orderOf[s]
        /\ \A q \in Orders \ {o} :
             orderStatus'[q] = orderStatus[q] /\ dispatchedOn'[q] = dispatchedOn[q]
        /\ beside \subseteq beside' /\ doubled' = doubled
    BY <1>3, <1>4
  <2> QED
    BY <1>1, <1>2, <1>3, <1>5, <1>10, <2>1, OthersAlone DEF LabelsInv
<1>11. ASSUME o \notin overlapped'
       PROVE  RequestAlone(o)' /\ OrderFits(o)'
  <2>1. \A g \in Handlers : ~ WorksOn(g, o)
    BY <1>2, <1>11
  <2>2. OrderFits(o)
    BY <1>5, <1>11 DEF LabelsInv, OrdersAlone
  <2>3. OrderFits(o)'
    BY <1>4, <2>2 DEF OrderFits, Outside, Of, Live
  <2>4. \A g \in Handlers : WorksOn(g, o)' => g = h
    BY <1>3, <2>1 DEF WorksOn, IsIdle
  <2>5. Live(o)' = Live(o)
    BY <1>4 DEF Live, Of
  <2>6. req.at = "void" /\ dispatchedOn[o] = req.shipment => dispatchedOn[o] \in doubled
    BY <2>2, NullApart, RequestType DEF OrderFits
  <2>7. RequestAlone(o)'
    BY <1>3, <1>4, <2>4, <2>5, <2>6 DEF RequestAlone
  <2> QED
    BY <2>3, <2>7
<1>12. OrdersAlone'
  BY <1>10, <1>11 DEF OrdersAlone
<1> QED
  BY <1>6, <1>7, <1>8, <1>9, <1>12 DEF LabelsInv

LEMMA ReadsInv ==
    ASSUME LabelsAssumption, LabelsInv, NEW h \in Handlers,
           \/ \E o \in Orders : ReadForCreate(h, o)
           \/ \E s \in Shipments : ReadForVoid(h, s)
           \/ \E s \in Shipments : ReadForRetry(h, s)
           \/ \E o \in Orders, to \in OrderMoves, l \in Shipments \cup {Null} :
                 ReadForStatus(h, o, to, l)
    PROVE  LabelsInv'
<1>1. CASE \E o \in Orders : ReadForCreate(h, o)
  <2>1. PICK o \in Orders : ReadForCreate(h, o)
    BY <1>1
  <2> DEFINE req == [at |-> "create", order |-> o]
  <2>2. req \in Request /\ req.at = "create" /\ req.order = o
    BY DEF Request
  <2>3. /\ Start(h, o, req)
        /\ UNCHANGED <<rowVars, orderVars, carrierVars, job, beside, doubled, orphaned>>
        /\ orderStatus[o] = "PROCESSING" /\ Live(o) = {}
    BY <2>1 DEF ReadForCreate
  <2> HIDE DEF req
  <2> QED
    BY <2>2, <2>3, StartInv
<1>2. CASE \E s \in Shipments : ReadForVoid(h, s)
  <2>1. PICK s \in Shipments : ReadForVoid(h, s)
    BY <1>2
  <2> DEFINE o == orderOf[s]
             req == [at |-> "void", order |-> o, shipment |-> s]
  <2>2. o \in Orders
    BY <2>1 DEF ReadForVoid, LabelsInv, RowsOwned
  <2>3. req \in Request /\ req.at = "void" /\ req.order = o /\ req.shipment = s
    BY <2>2 DEF Request
  <2>4. /\ Start(h, o, req)
        /\ UNCHANGED <<rowVars, orderVars, carrierVars, job, beside, doubled, orphaned>>
        /\ status[s] # "NONE"
        /\ ~ (/\ orderStatus[o] \in {"DISPATCHED", "DELIVERED"}
              /\ status[s] = "LABELLED")
    BY <2>1 DEF ReadForVoid
  <2>5. orderOf[s] = o
    OBVIOUS
  <2> HIDE DEF req, o
  <2> QED
    BY <2>2, <2>3, <2>4, <2>5, StartInv
<1>3. CASE \E s \in Shipments : ReadForRetry(h, s)
  <2>1. PICK s \in Shipments : ReadForRetry(h, s)
    BY <1>3
  <2> DEFINE o == orderOf[s]
             req == [at |-> "retry", order |-> o, shipment |-> s,
                     resume |-> consignment[s] # 0]
  <2>2. o \in Orders
    BY <2>1 DEF ReadForRetry, LabelsInv, RowsOwned
  <2>3. (consignment[s] # 0) \in BOOLEAN
    OBVIOUS
  <2>4. req \in Request /\ req.at = "retry" /\ req.order = o /\ req.shipment = s
    BY <2>2, <2>3 DEF Request
  <2>5. /\ Start(h, o, req)
        /\ UNCHANGED <<rowVars, orderVars, carrierVars, job, beside, doubled, orphaned>>
        /\ status[s] = "FAILED" /\ orderStatus[o] = "PROCESSING"
    BY <2>1 DEF ReadForRetry
  <2>6. orderOf[s] = o
    OBVIOUS
  <2> HIDE DEF req, o
  <2> QED
    BY <2>2, <2>4, <2>5, <2>6, StartInv
<1>4. CASE \E o \in Orders, to \in OrderMoves, l \in Shipments \cup {Null} :
             ReadForStatus(h, o, to, l)
  <2>1. PICK o \in Orders, to \in OrderMoves, l \in Shipments \cup {Null} :
               ReadForStatus(h, o, to, l)
    BY <1>4
  <2> DEFINE req == [at |-> "status", order |-> o, to |-> to, label |-> l]
  <2>2. /\ req \in Request /\ req.at = "status" /\ req.order = o
        /\ req.to = to /\ req.label = l
    BY DEF Request, LabelsAssumption
  <2>3. /\ Start(h, o, req)
        /\ UNCHANGED <<rowVars, orderVars, carrierVars, job, beside, doubled, orphaned>>
        /\ CanTransition(orderStatus[o], to)
        /\ l \in IF to = "DISPATCHED" THEN Dispatchable(o) ELSE {Null}
    BY <2>1 DEF ReadForStatus
  <2>4. l # Null => status[l] = "LABELLED" /\ orderOf[l] = o
    BY <2>3 DEF Dispatchable, Of
  <2> HIDE DEF req
  <2> QED
    BY <2>2, <2>3, <2>4, StartInv
<1> QED
  BY <1>1, <1>2, <1>3, <1>4

\* A request that is over, or has only its job left to dispatch, has read nothing
\* that could go stale.
LEMMA OwnAlone ==
    ASSUME NEW o \in Orders, RequestAlone(o), NEW h \in Handlers, WorksOn(h, o),
           inFlight'[h].at \in {"idle", "dispatch"},
           \A g \in Handlers \ {h} : inFlight'[g] = inFlight[g]
    PROVE  RequestAlone(o)'
<1>1. \A g \in Handlers : WorksOn(g, o)' => g = h
  BY DEF RequestAlone, WorksOn, IsIdle
<1> QED
  BY <1>1 DEF RequestAlone

LEMMA AbortInv ==
    ASSUME LabelsAssumption, LabelsInv, NEW h \in Handlers, Abort(h)
    PROVE  LabelsInv'
<1>1. TypeOK
  BY DEF LabelsInv
<1>2. /\ inFlight[h].at # "idle" /\ inFlight' = [inFlight EXCEPT ![h] = Idle]
      /\ orphaned' = IF inFlight[h].at = "dispatch"
                     THEN orphaned \cup {inFlight[h].shipment} ELSE orphaned
      /\ UNCHANGED <<orderOf, status, consignment, labelFile, orderStatus, dispatchedOn,
                     made, lost, job, beside, doubled, overlapped>>
  BY DEF Abort, IsIdle, Finish, Go, rowVars, orderVars, carrierVars
<1>3. /\ inFlight'[h] = Idle /\ Idle \in Request /\ Idle.at = "idle"
      /\ inFlight' \in [Handlers -> Request]
      /\ \A g \in Handlers \ {h} : inFlight'[g] = inFlight[g]
  BY <1>1, <1>2 DEF TypeOK, Idle, Request
<1>4. PICK o \in Orders : WorksOn(h, o)
  BY <1>1, <1>2, InFlightType DEF WorksOn, IsIdle
<1>5. orphaned \subseteq orphaned' /\ orphaned' \subseteq Shipments
  BY <1>1, <1>2, InFlightType DEF TypeOK
<1>6. TypeOK'
  BY <1>1, <1>2, <1>3, <1>5 DEF TypeOK
<1>7. RowsOwned' /\ JobsOwned' /\ DispatchesOwned'
  BY <1>2 DEF LabelsInv, RowsOwned, JobsOwned, DispatchesOwned
<1>8. RequestsOwned'
  BY <1>2, <1>3 DEF LabelsInv, RequestsOwned
<1>9. JobsFit'
  <2>1. ASSUME NEW s \in Shipments, s \notin orphaned',
               status'[s] \in {"PENDING", "SUBMITTED"}
        PROVE  /\ s \notin orphaned /\ status[s] \in {"PENDING", "SUBMITTED"}
               /\ \A g \in Handlers :
                     inFlight[g].at = "dispatch" /\ inFlight[g].shipment = s =>
                         inFlight'[g] = inFlight[g]
    BY <1>2, <1>3, <1>5, <2>1
  <2> QED
    BY <1>1, <1>2, <2>1, JobsLeft DEF LabelsInv
<1>10. ASSUME NEW p \in Orders \ overlapped', p # o
       PROVE  RequestAlone(p)' /\ OrderFits(p)'
  <2>1. \A s \in Shipments : status'[s] = status[s] /\ orderOf'[s] = orderOf[s]
    BY <1>2
  <2> QED
    BY <1>1, <1>2, <1>3, <1>4, <1>10, <2>1, OthersAlone DEF LabelsInv
<1>11. ASSUME o \notin overlapped'
       PROVE  RequestAlone(o)' /\ OrderFits(o)'
  <2>1. RequestAlone(o) /\ OrderFits(o)
    BY <1>2, <1>4, <1>11 DEF LabelsInv, OrdersAlone
  <2>2. OrderFits(o)'
    BY <1>2, <2>1 DEF OrderFits, Outside, Of, Live
  <2> QED
    BY <1>3, <1>4, <2>1, <2>2, OwnAlone
<1>12. OrdersAlone'
  BY <1>10, <1>11 DEF OrdersAlone
<1> QED
  BY <1>6, <1>7, <1>8, <1>9, <1>12 DEF LabelsInv

LEMMA CreateInv ==
    ASSUME LabelsAssumption, LabelsInv, NEW h \in Handlers, NEW s \in Shipments,
           CreateShipment(h, s)
    PROVE  LabelsInv'
<1>1. TypeOK
  BY DEF LabelsInv
<1>3. PICK o \in Orders : o = inFlight[h].order /\ WorksOn(h, o)
  BY <1>1, InFlightType DEF WorksOn, IsIdle, CreateShipment
<1> DEFINE next == [at |-> "dispatch", order |-> o, shipment |-> s]
<1>2. /\ inFlight[h].at = "create" /\ status[s] = "NONE"
      /\ inFlight' = [inFlight EXCEPT ![h] = next]
      /\ status' = [status EXCEPT ![s] = "PENDING"]
      /\ orderOf' = [orderOf EXCEPT ![s] = o]
      /\ UNCHANGED <<consignment, labelFile, orderStatus, dispatchedOn,
                     made, lost, job, beside, doubled, orphaned, overlapped>>
  BY <1>3 DEF CreateShipment, Go, orderVars, carrierVars
<1>4. next \in Request /\ next.at = "dispatch" /\ next.order = o /\ next.shipment = s
  BY <1>3 DEF Request
<1> HIDE DEF next
<1>5. /\ inFlight'[h] = next /\ inFlight' \in [Handlers -> Request]
      /\ \A g \in Handlers \ {h} : inFlight'[g] = inFlight[g]
  BY <1>1, <1>2, <1>4 DEF TypeOK
<1>6. /\ status' \in [Shipments -> ShipmentStatus] /\ status'[s] = "PENDING"
      /\ orderOf' \in [Shipments -> Orders \cup {Null}] /\ orderOf'[s] = o
      /\ \A t \in Shipments \ {s} : status'[t] = status[t] /\ orderOf'[t] = orderOf[t]
  BY <1>1, <1>2, <1>3 DEF TypeOK, ShipmentStatus
<1>7. TypeOK'
  BY <1>1, <1>2, <1>5, <1>6 DEF TypeOK
<1>8. RowsOwned' /\ JobsOwned'
  BY <1>2, <1>3, <1>6 DEF LabelsInv, RowsOwned, JobsOwned
<1>9. DispatchesOwned'
  BY <1>1, <1>2, <1>6 DEF LabelsInv, DispatchesOwned, TypeOK
<1>10. RequestsOwned'
  <2>1. ASSUME NEW t \in Shipments, status[t] # "NONE"
        PROVE  t # s /\ status'[t] = status[t] /\ orderOf'[t] = orderOf[t]
    BY <1>2, <1>6, <2>1
  <2>2. ASSUME NEW g \in Handlers
        PROVE  /\ inFlight'[g].at \in {"void", "retry", "dispatch"} =>
                    /\ status'[inFlight'[g].shipment] # "NONE"
                    /\ orderOf'[inFlight'[g].shipment] = inFlight'[g].order
               /\ inFlight'[g].at = "status" /\ inFlight'[g].label # Null =>
                    /\ status'[inFlight'[g].label] # "NONE"
                    /\ orderOf'[inFlight'[g].label] = inFlight'[g].order
    <3>1. CASE g = h
      BY <1>4, <1>5, <1>6, <3>1
    <3>2. CASE g # h
      BY <1>1, <1>5, <2>1, <3>2, InFlightType DEF LabelsInv, RequestsOwned
    <3> QED
      BY <3>1, <3>2
  <2> QED
    BY <2>2 DEF RequestsOwned
<1>11. JobsFit'
  <2>1. ASSUME NEW t \in Shipments, t \notin orphaned',
               status'[t] \in {"PENDING", "SUBMITTED"}
        PROVE  \/ \E g \in Handlers :
                     inFlight'[g].at = "dispatch" /\ inFlight'[g].shipment = t
               \/ /\ t \notin orphaned /\ status[t] \in {"PENDING", "SUBMITTED"}
                  /\ \A g \in Handlers :
                        inFlight[g].at = "dispatch" /\ inFlight[g].shipment = t =>
                            inFlight'[g] = inFlight[g]
    BY <1>2, <1>4, <1>5, <1>6, <2>1
  <2>2. \A t \in Shipments :
          /\ status[t] # "NONE" => orderOf'[t] = orderOf[t]
          /\ status'[t] = status[t] \/ status'[t] # "LABELLED"
          /\ status'[t] = "VOIDED" => status[t] = "VOIDED"
    BY <1>2, <1>6
  <2> QED
    BY <1>1, <1>2, <2>1, <2>2, JobsLeft DEF LabelsInv
<1>12. ASSUME NEW p \in Orders \ overlapped', p # o
       PROVE  RequestAlone(p)' /\ OrderFits(p)'
  <2>1. \A t \in Shipments :
          \/ status'[t] = status[t] /\ orderOf'[t] = orderOf[t]
          \/ (status[t] = "NONE" \/ orderOf[t] = o) /\ orderOf'[t] = o
    BY <1>2, <1>6
  <2>2. inFlight'[h].order = o
    BY <1>4, <1>5
  <2> QED
    BY <1>1, <1>2, <1>3, <1>5, <1>12, <2>1, <2>2, OthersAlone DEF LabelsInv
<1>13. ASSUME o \notin overlapped'
       PROVE  RequestAlone(o)' /\ OrderFits(o)'
  <2>1. RequestAlone(o) /\ OrderFits(o)
    BY <1>2, <1>3, <1>13 DEF LabelsInv, OrdersAlone
  <2>2. orderStatus[o] = "PROCESSING" /\ Live(o) \subseteq beside
    BY <1>2, <1>3, <2>1 DEF RequestAlone
  <2>3. dispatchedOn[o] = Null
    BY <2>1, <2>2 DEF OrderFits
  <2>4. Live(o)' \subseteq Live(o) \cup {s}
    BY <1>6 DEF Live, Of
  <2>5. OrderFits(o)'
    BY <1>2, <2>2, <2>3, <2>4 DEF OrderFits, Outside
  <2> QED
    BY <1>3, <1>4, <1>5, <2>1, <2>5, OwnAlone
<1>14. OrdersAlone'
  BY <1>12, <1>13 DEF OrdersAlone
<1> QED
  BY <1>7, <1>8, <1>9, <1>10, <1>11, <1>14 DEF LabelsInv

\* What a request that voids the rows of V, among those of its order, may rely on.
LEMMA VoidingFacts ==
    ASSUME TypeOK, NEW o \in Orders, NEW V \in SUBSET Of(o),
           overlapped' = Voiding(V)
    PROVE  /\ overlapped \subseteq overlapped' /\ overlapped' \subseteq Orders
           /\ \A s \in V : ~ BetweenReadAndWrite(s) \/ orderOf[s] \in overlapped'
<1>1. \A s \in V : s \in Shipments /\ orderOf[s] = o
  BY DEF Of
<1>2. CASE \E s \in V : BetweenReadAndWrite(s)
  <2>1. overlapped' = overlapped \cup {orderOf[s] : s \in V}
    BY <1>2 DEF Voiding
  <2> QED
    BY <1>1, <2>1 DEF TypeOK
<1>3. CASE ~ \E s \in V : BetweenReadAndWrite(s)
  BY <1>3 DEF Voiding, TypeOK
<1> QED
  BY <1>2, <1>3

\* A request about o that ends, having voided the rows of V.
LEMMA VoidedInv ==
    ASSUME LabelsAssumption, LabelsInv, NEW h \in Handlers, NEW o \in Orders, WorksOn(h, o),
           inFlight[h].at # "dispatch", Finish(h), NEW V \in SUBSET Of(o),
           status' = [s \in Shipments |-> IF s \in V THEN "VOIDED" ELSE status[s]],
           overlapped' = Voiding(V) \/ (V = {} /\ overlapped' = overlapped),
           orderStatus' \in [Orders -> OrderStatuses],
           dispatchedOn' \in [Orders -> Shipments \cup {Null}],
           \A p \in Orders \ {o} :
               orderStatus'[p] = orderStatus[p] /\ dispatchedOn'[p] = dispatchedOn[p],
           dispatchedOn'[o] # Null =>
               status[dispatchedOn'[o]] # "NONE" /\ orderOf[dispatchedOn'[o]] = o,
           UNCHANGED <<orderOf, consignment, labelFile, carrierVars, job, beside, doubled,
                       orphaned>>,
           o \notin overlapped' => OrderFits(o)'
    PROVE  LabelsInv'
<1>1. TypeOK
  BY DEF LabelsInv
<1>2. /\ inFlight'[h] = Idle /\ Idle \in Request /\ Idle.at = "idle"
      /\ inFlight' \in [Handlers -> Request]
      /\ \A g \in Handlers \ {h} : inFlight'[g] = inFlight[g]
  BY <1>1 DEF TypeOK, Idle, Request, Finish, Go
<1>3. /\ overlapped \subseteq overlapped' /\ overlapped' \subseteq Orders
      /\ \A s \in V : ~ BetweenReadAndWrite(s) \/ orderOf[s] \in overlapped'
  <2>1. CASE overlapped' = Voiding(V)
    BY <1>1, <2>1, VoidingFacts
  <2>2. CASE V = {} /\ overlapped' = overlapped
    BY <1>1, <2>2 DEF TypeOK
  <2> QED
    BY <2>1, <2>2
<1>4. /\ V \subseteq Shipments
      /\ \A s \in V : status[s] # "NONE" /\ orderOf[s] = o /\ status'[s] = "VOIDED"
      /\ \A s \in Shipments \ V : status'[s] = status[s]
      /\ status' \in [Shipments -> ShipmentStatus]
  BY <1>1 DEF TypeOK, Of, ShipmentStatus
<1>5. UNCHANGED <<orderOf, consignment, labelFile, made, lost, job, beside, doubled, orphaned>>
  BY DEF carrierVars
<1>6. TypeOK'
  BY <1>1, <1>2, <1>3, <1>4, <1>5 DEF TypeOK
<1>7. \A s \in Shipments : status'[s] # "NONE" <=> status[s] # "NONE"
  BY <1>4
<1>8. RowsOwned' /\ JobsOwned'
  <2>1. \A j \in Jobs : job[j].at # "free" => job[j].shipment \in Shipments
    BY <1>1, JobType, JobFields
  <2> QED
    BY <1>5, <1>7, <2>1 DEF LabelsInv, RowsOwned, JobsOwned
<1>9. DispatchesOwned'
  <2>1. \A p \in Orders : dispatchedOn'[p] # Null => dispatchedOn'[p] \in Shipments
    OBVIOUS
  <2>2. \A p \in Orders :
          dispatchedOn'[p] # Null =>
              status[dispatchedOn'[p]] # "NONE" /\ orderOf[dispatchedOn'[p]] = p
    BY DEF LabelsInv, DispatchesOwned
  <2> QED
    BY <1>5, <1>7, <2>1, <2>2 DEF DispatchesOwned
<1>10. RequestsOwned'
  <2>1. ASSUME NEW g \in Handlers, g # h
        PROVE  /\ inFlight'[g].at \in {"void", "retry", "dispatch"} =>
                    /\ status'[inFlight'[g].shipment] # "NONE"
                    /\ orderOf'[inFlight'[g].shipment] = inFlight'[g].order
               /\ inFlight'[g].at = "status" /\ inFlight'[g].label # Null =>
                    /\ status'[inFlight'[g].label] # "NONE"
                    /\ orderOf'[inFlight'[g].label] = inFlight'[g].order
    BY <1>1, <1>2, <1>5, <1>7, <2>1, InFlightType DEF LabelsInv, RequestsOwned
  <2> QED
    BY <1>2, <2>1 DEF RequestsOwned
<1>11. JobsFit'
  <2>1. ASSUME NEW s \in Shipments, s \notin orphaned',
               status'[s] \in {"PENDING", "SUBMITTED"}
        PROVE  /\ s \notin orphaned /\ status[s] \in {"PENDING", "SUBMITTED"}
               /\ \A g \in Handlers :
                     inFlight[g].at = "dispatch" /\ inFlight[g].shipment = s =>
                         inFlight'[g] = inFlight[g]
    BY <1>2, <1>4, <1>5, <2>1
  <2> QED
    BY <1>1, <1>2, <1>3, <1>4, <1>5, <2>1, JobsLeft DEF LabelsInv
<1>12. ASSUME NEW p \in Orders \ overlapped', p # o
       PROVE  RequestAlone(p)' /\ OrderFits(p)'
  <2>1. \A s \in Shipments :
          \/ status'[s] = status[s] /\ orderOf'[s] = orderOf[s]
          \/ (status[s] = "NONE" \/ orderOf[s] = o) /\ orderOf'[s] = o
    BY <1>4, <1>5
  <2> QED
    BY <1>1, <1>2, <1>3, <1>5, <1>12, <2>1, OthersAlone DEF LabelsInv
<1>13. o \notin overlapped' => RequestAlone(o)'
  BY <1>2, <1>3, OwnAlone DEF LabelsInv, OrdersAlone
<1>14. OrdersAlone'
  BY <1>12, <1>13 DEF OrdersAlone
<1> QED
  BY <1>6, <1>8, <1>9, <1>10, <1>11, <1>14 DEF LabelsInv

LEMMA VoidInv ==
    ASSUME LabelsAssumption, LabelsInv, NEW h \in Handlers, VoidShipment(h)
    PROVE  LabelsInv'
<1>1. TypeOK
  BY DEF LabelsInv
<1>2. PICK o \in Orders : o = inFlight[h].order /\ WorksOn(h, o)
  BY <1>1, InFlightType DEF WorksOn, IsIdle, VoidShipment
<1>3. PICK s \in Shipments : s = inFlight[h].shipment
  BY <1>1, InFlightType DEF VoidShipment
<1>4. /\ inFlight[h].at = "void" /\ Finish(h)
      /\ status' = [status EXCEPT ![s] = "VOIDED"]
      /\ overlapped' = Voiding({s})
      /\ UNCHANGED <<orderOf, consignment, labelFile, orderStatus, dispatchedOn, carrierVars,
                     job, beside, doubled, orphaned>>
  BY <1>3 DEF VoidShipment, orderVars
<1>5. {s} \in SUBSET Of(o)
  BY <1>2, <1>3, <1>4 DEF LabelsInv, RequestsOwned, Of
<1>6. status' = [t \in Shipments |-> IF t \in {s} THEN "VOIDED" ELSE status[t]]
  BY <1>1, <1>4 DEF TypeOK
<1>7. ASSUME o \notin overlapped'
      PROVE  OrderFits(o)'
  <2>1. o \notin overlapped
    BY <1>1, <1>4, <1>5, <1>7, VoidingFacts
  <2>2. RequestAlone(o) /\ OrderFits(o)
    BY <2>1 DEF LabelsInv, OrdersAlone
  <2>3. dispatchedOn[o] = s => s \in doubled
    BY <1>2, <1>3, <1>4, <2>2 DEF RequestAlone
  <2>4. Of(o)' = Of(o) /\ Live(o)' \subseteq Live(o)
    BY <1>4, <1>5, <1>6 DEF Of, Live, LIVE_STATUSES
  <2>5. \A t \in Shipments : status'[t] = IF t = s THEN "VOIDED" ELSE status[t]
    BY <1>6
  <2>6. Of(o) \subseteq Shipments /\ dispatchedOn[o] \in Shipments \cup {Null}
    BY <1>1 DEF Of, TypeOK
  <2> QED
    BY <1>4, <2>2, <2>3, <2>4, <2>5, <2>6 DEF OrderFits, Outside
<1>8. /\ orderStatus' \in [Orders -> OrderStatuses]
      /\ dispatchedOn' \in [Orders -> Shipments \cup {Null}]
      /\ \A p \in Orders : orderStatus'[p] = orderStatus[p] /\ dispatchedOn'[p] = dispatchedOn[p]
      /\ dispatchedOn'[o] # Null =>
           status[dispatchedOn'[o]] # "NONE" /\ orderOf[dispatchedOn'[o]] = o
  BY <1>1, <1>4 DEF TypeOK, LabelsInv, DispatchesOwned
<1> DEFINE V == {s}
<1>9. /\ V \in SUBSET Of(o) /\ overlapped' = Voiding(V)
      /\ status' = [t \in Shipments |-> IF t \in V THEN "VOIDED" ELSE status[t]]
  BY <1>4, <1>5, <1>6
<1> HIDE DEF V
<1>10. /\ inFlight[h].at # "dispatch" /\ Finish(h) /\ WorksOn(h, o)
       /\ UNCHANGED <<orderOf, consignment, labelFile, carrierVars, job, beside, doubled,
                      orphaned>>
  BY <1>2, <1>4
<1> QED
  BY <1>7, <1>8, <1>9, <1>10, VoidedInv

LEMMA TransitionFacts ==
    ASSUME NEW from, NEW to, CanTransition(from, to)
    PROVE  /\ to = "DISPATCHED" => from = "PROCESSING"
           /\ to = "DELIVERED" => from = "DISPATCHED"
           /\ from = "PROCESSING" => to \in {"DISPATCHED", "CHANGES_REQUESTED", "CANCELLED"}
           /\ from = "DISPATCHED" => to = "DELIVERED"
           /\ from # "DELIVERED"
BY DEF CanTransition, TRANSITIONS

LEMMA StatusInv ==
    ASSUME LabelsAssumption, LabelsInv, NEW h \in Handlers, CommitStatus(h)
    PROVE  LabelsInv'
<1>1. TypeOK
  BY DEF LabelsInv
<1>2. PICK o \in Orders : o = inFlight[h].order /\ WorksOn(h, o)
  BY <1>1, InFlightType DEF WorksOn, IsIdle, CommitStatus
<1>3. PICK to \in OrderStatuses, l \in Shipments \cup {Null} :
        to = inFlight[h].to /\ l = inFlight[h].label
  BY <1>1, InFlightType DEF CommitStatus
<1>4. /\ inFlight[h].at = "status" /\ Finish(h)
      /\ orderStatus' = [orderStatus EXCEPT ![o] = to]
      /\ dispatchedOn' = IF to = "DISPATCHED" THEN [dispatchedOn EXCEPT ![o] = l]
                         ELSE dispatchedOn
      /\ UNCHANGED <<orderOf, consignment, labelFile, carrierVars, job, beside, doubled,
                     orphaned>>
  BY <1>2, <1>3 DEF CommitStatus
<1>5. IF to \in {"CANCELLED", "CHANGES_REQUESTED"} THEN VoidOpenShipments(o)
      ELSE UNCHANGED <<status, overlapped>>
  BY <1>2, <1>3 DEF CommitStatus
<1> DEFINE open == {s \in Of(o) : status[s] \in OPEN_SHIPMENT_STATUSES}
           V == IF to \in {"CANCELLED", "CHANGES_REQUESTED"} THEN open ELSE {}
<1>6. V \in SUBSET Of(o)
  OBVIOUS
<1>7. /\ status' = [s \in Shipments |-> IF s \in V THEN "VOIDED" ELSE status[s]]
      /\ overlapped' = Voiding(V) \/ (V = {} /\ overlapped' = overlapped)
  <2>1. CASE to \in {"CANCELLED", "CHANGES_REQUESTED"}
    BY <1>5, <2>1 DEF VoidOpenShipments
  <2>2. CASE to \notin {"CANCELLED", "CHANGES_REQUESTED"}
    BY <1>1, <1>5, <2>2 DEF TypeOK
  <2> QED
    BY <2>1, <2>2
<1>8. to \in {"CANCELLED", "CHANGES_REQUESTED"} =>
        \A s \in Of(o) : s \in V \/ status[s] = "VOIDED"
  BY <1>1 DEF Of, TypeOK, ShipmentStatus, OPEN_SHIPMENT_STATUSES, LIVE_STATUSES
<1> HIDE DEF V, open
<1>9. overlapped \subseteq overlapped'
  BY <1>1, <1>6, <1>7, VoidingFacts
<1>10. /\ orderStatus' \in [Orders -> OrderStatuses] /\ orderStatus'[o] = to
       /\ dispatchedOn' \in [Orders -> Shipments \cup {Null}]
       /\ dispatchedOn'[o] = IF to = "DISPATCHED" THEN l ELSE dispatchedOn[o]
       /\ \A p \in Orders \ {o} :
            orderStatus'[p] = orderStatus[p] /\ dispatchedOn'[p] = dispatchedOn[p]
  BY <1>1, <1>4 DEF TypeOK
<1>11. dispatchedOn'[o] # Null =>
         status[dispatchedOn'[o]] # "NONE" /\ orderOf[dispatchedOn'[o]] = o
  BY <1>2, <1>3, <1>4, <1>10 DEF LabelsInv, RequestsOwned, DispatchesOwned
<1>12. ASSUME o \notin overlapped'
       PROVE  OrderFits(o)'
  <2>1. RequestAlone(o) /\ OrderFits(o)
    BY <1>9, <1>12 DEF LabelsInv, OrdersAlone
  <2>2. /\ CanTransition(orderStatus[o], to)
        /\ l \notin doubled \cup {Null} => status[l] = "LABELLED"
    BY <1>2, <1>3, <1>4, <2>1 DEF RequestAlone
  <2>3. /\ Of(o) \subseteq Shipments
        /\ \A s \in Shipments : status'[s] = IF s \in V THEN "VOIDED" ELSE status[s]
        /\ V \subseteq Of(o)
    BY <1>6, <1>7 DEF Of
  <2>4. Of(o)' = Of(o) /\ Live(o)' \subseteq Live(o)
    BY <1>4, <2>3 DEF Of, Live, LIVE_STATUSES
  <2>5. to \notin {"CANCELLED", "CHANGES_REQUESTED"} => V = {}
    BY DEF V
  <2>6. Outside(o)' => \A s \in Of(o) : status'[s] = "VOIDED"
    <3>1. CASE to \in {"CANCELLED", "CHANGES_REQUESTED"}
      BY <1>8, <2>3, <3>1
    <3>2. CASE to \notin {"CANCELLED", "CHANGES_REQUESTED"}
      BY <1>10, <2>1, <2>2, <2>3, <2>5, <3>2, TransitionFacts DEF OrderFits, Outside
    <3> QED
      BY <3>1, <3>2
  <2>7. dispatchedOn'[o] # Null => orderStatus'[o] \in {"DISPATCHED", "DELIVERED"}
    BY <1>10, <2>1, <2>2, TransitionFacts DEF OrderFits
  <2>8. dispatchedOn'[o] \notin doubled \cup {Null} => status'[dispatchedOn'[o]] = "LABELLED"
    <3>1. CASE to = "DISPATCHED"
      BY <1>3, <1>10, <2>2, <2>3, <2>5, <3>1
    <3>2. CASE to # "DISPATCHED" /\ dispatchedOn[o] # Null
      <4>1. V = {} /\ dispatchedOn'[o] = dispatchedOn[o] /\ dispatchedOn[o] \in Shipments
        BY <1>1, <1>10, <2>1, <2>2, <2>5, <3>2, TransitionFacts DEF OrderFits, TypeOK
      <4> QED
        BY <2>1, <2>3, <4>1 DEF OrderFits
    <3> QED
      BY <1>10, <3>1, <3>2
  <2>9. \A s, t \in Live(o)' \ beside' : s = t
    BY <1>4, <2>1, <2>4 DEF OrderFits
  <2> QED
    BY <1>4, <2>4, <2>6, <2>7, <2>8, <2>9 DEF OrderFits
<1> QED
  BY <1>2, <1>4, <1>6, <1>7, <1>10, <1>11, <1>12, VoidedInv

\* A shipment taken up again is the order's only one, or is noted.
LEMMA TakenUpFacts ==
    ASSUME TypeOK, NEW s \in Shipments, TakesUpAgain(s)
    PROVE  /\ beside \subseteq beside' /\ beside' \subseteq Shipments
           /\ \A t \in Shipments \ {s} : t \in beside' <=> t \in beside
           /\ \/ s \in Live(orderOf[s])
              \/ s \in beside'
              \/ /\ Live(orderOf[s]) = {}
                 /\ \A h \in Handlers :
                       ~ (inFlight[h].at = "create" /\ inFlight[h].order = orderOf[s])
BY DEF TakesUpAgain, TypeOK

LEMMA RetryInv ==
    ASSUME LabelsAssumption, LabelsInv, NEW h \in Handlers, RetryShipment(h)
    PROVE  LabelsInv'
<1>1. TypeOK
  BY DEF LabelsInv
<1>2. PICK o \in Orders : o = inFlight[h].order /\ WorksOn(h, o)
  BY <1>1, InFlightType DEF WorksOn, IsIdle, RetryShipment
<1>3. PICK s \in Shipments : s = inFlight[h].shipment
  BY <1>1, InFlightType DEF RetryShipment
<1> DEFINE next == [at |-> "dispatch", order |-> o, shipment |-> s]
<1>4. /\ inFlight[h].at = "retry" /\ TakesUpAgain(s)
      /\ inFlight' = [inFlight EXCEPT ![h] = next]
      /\ UNCHANGED <<orderOf, consignment, labelFile, orderStatus, dispatchedOn, made, lost,
                     job, doubled, orphaned, overlapped>>
  BY <1>2, <1>3 DEF RetryShipment, Go, orderVars, carrierVars
<1>5. PICK x \in {"SUBMITTED", "PENDING"} : status' = [status EXCEPT ![s] = x]
  BY <1>3 DEF RetryShipment
<1>6. next \in Request /\ next.at = "dispatch" /\ next.order = o /\ next.shipment = s
  BY DEF Request
<1> HIDE DEF next
<1>7. /\ inFlight'[h] = next /\ inFlight' \in [Handlers -> Request]
      /\ \A g \in Handlers \ {h} : inFlight'[g] = inFlight[g]
  BY <1>1, <1>4, <1>6 DEF TypeOK
<1>8. /\ status' \in [Shipments -> ShipmentStatus] /\ status'[s] = x
      /\ \A t \in Shipments \ {s} : status'[t] = status[t]
  BY <1>1, <1>5 DEF TypeOK, ShipmentStatus
<1>9. status[s] # "NONE" /\ orderOf[s] = o
  BY <1>2, <1>3, <1>4 DEF LabelsInv, RequestsOwned
<1>10. TypeOK'
  BY <1>1, <1>4, <1>7, <1>8, TakenUpFacts DEF TypeOK
<1>11. \A t \in Shipments : status'[t] # "NONE" <=> status[t] # "NONE"
  BY <1>5, <1>8, <1>9
<1>12. RowsOwned' /\ JobsOwned'
  <2>1. \A j \in Jobs : job[j].at # "free" => job[j].shipment \in Shipments
    BY <1>1, JobType, JobFields
  <2> QED
    BY <1>4, <1>11, <2>1 DEF LabelsInv, RowsOwned, JobsOwned
<1>13. DispatchesOwned'
  BY <1>1, <1>4, <1>11 DEF LabelsInv, DispatchesOwned, TypeOK
<1>14. RequestsOwned'
  <2>1. ASSUME NEW g \in Handlers
        PROVE  /\ inFlight'[g].at \in {"void", "retry", "dispatch"} =>
                    /\ status'[inFlight'[g].shipment] # "NONE"
                    /\ orderOf'[inFlight'[g].shipment] = inFlight'[g].order
               /\ inFlight'[g].at = "status" /\ inFlight'[g].label # Null =>
                    /\ status'[inFlight'[g].label] # "NONE"
                    /\ orderOf'[inFlight'[g].label] = inFlight'[g].order
    <3>1. CASE g = h
      BY <1>4, <1>6, <1>7, <1>9, <1>11, <3>1
    <3>2. CASE g # h
      BY <1>1, <1>4, <1>7, <1>11, <3>2, InFlightType DEF LabelsInv, RequestsOwned
    <3> QED
      BY <3>1, <3>2
  <2> QED
    BY <2>1 DEF RequestsOwned
<1>15. JobsFit'
  <2>1. ASSUME NEW t \in Shipments, t \notin orphaned',
               status'[t] \in {"PENDING", "SUBMITTED"}
        PROVE  \/ \E g \in Handlers :
                     inFlight'[g].at = "dispatch" /\ inFlight'[g].shipment = t
               \/ /\ t \notin orphaned /\ status[t] \in {"PENDING", "SUBMITTED"}
                  /\ \A g \in Handlers :
                        inFlight[g].at = "dispatch" /\ inFlight[g].shipment = t =>
                            inFlight'[g] = inFlight[g]
    BY <1>4, <1>6, <1>7, <1>8, <2>1
  <2>2. \A t \in Shipments :
          /\ status'[t] = status[t] \/ status'[t] # "LABELLED"
          /\ status'[t] = "VOIDED" => status[t] = "VOIDED"
    BY <1>5, <1>8
  <2> QED
    BY <1>1, <1>4, <2>1, <2>2, JobsLeft DEF LabelsInv
<1>16. beside \subseteq beside'
  BY <1>1, <1>4, TakenUpFacts
<1>17. ASSUME NEW p \in Orders \ overlapped', p # o
       PROVE  RequestAlone(p)' /\ OrderFits(p)'
  <2>1. \A t \in Shipments :
          \/ status'[t] = status[t] /\ orderOf'[t] = orderOf[t]
          \/ (status[t] = "NONE" \/ orderOf[t] = o) /\ orderOf'[t] = o
    BY <1>4, <1>8, <1>9
  <2>2. inFlight'[h].order = o
    BY <1>6, <1>7
  <2> QED
    BY <1>1, <1>2, <1>4, <1>7, <1>16, <1>17, <2>1, <2>2, OthersAlone DEF LabelsInv
<1>18. ASSUME o \notin overlapped'
       PROVE  RequestAlone(o)' /\ OrderFits(o)'
  <2>1. RequestAlone(o) /\ OrderFits(o)
    BY <1>4, <1>18 DEF LabelsInv, OrdersAlone
  <2>2. orderStatus[o] = "PROCESSING"
    BY <1>2, <1>4, <2>1 DEF RequestAlone
  <2>3. dispatchedOn[o] = Null
    BY <2>1, <2>2 DEF OrderFits
  <2>4. /\ Live(o)' \subseteq Live(o) \cup {s}
        /\ s \in Live(o) \/ s \in beside' \/ Live(o) = {}
    <3>1. Live(o)' \subseteq Live(o) \cup {s}
      BY <1>4, <1>8 DEF Live, Of
    <3> QED
      BY <1>1, <1>4, <1>9, <3>1, TakenUpFacts
  <2>5. \A t, u \in Live(o)' \ beside' : t = u
    BY <1>16, <2>1, <2>4 DEF OrderFits
  <2>6. OrderFits(o)'
    BY <1>4, <2>2, <2>3, <2>5 DEF OrderFits, Outside
  <2> QED
    BY <1>2, <1>6, <1>7, <2>1, <2>6, OwnAlone
<1>19. OrdersAlone'
  BY <1>17, <1>18 DEF OrdersAlone
<1> QED
  BY <1>10, <1>12, <1>13, <1>14, <1>15, <1>19 DEF LabelsInv

\* The job, or the two of them, that a request dispatches.
LEMMA FreshJobsInv ==
    ASSUME LabelsAssumption, LabelsInv, NEW h \in Handlers, inFlight[h].at = "dispatch",
           NEW js \in SUBSET Jobs, js # {}, NEW tries \in [js -> 1..Attempts],
           FreshJobs(h, js, tries)
    PROVE  LabelsInv'
<1>1. TypeOK
  BY DEF LabelsInv
<1>2. PICK o \in Orders : o = inFlight[h].order /\ WorksOn(h, o)
  BY <1>1, InFlightType DEF WorksOn, IsIdle
<1>3. PICK s \in Shipments : s = inFlight[h].shipment
  BY <1>1, InFlightType
<1>4. /\ \A j \in js : job[j] = NoJob
      /\ job' = [j \in Jobs |-> IF j \in js THEN NewJob(s, tries[j]) ELSE job[j]]
      /\ inFlight' = [inFlight EXCEPT ![h] = Idle]
      /\ UNCHANGED <<orderOf, status, consignment, labelFile, orderStatus, dispatchedOn, made,
                     lost, beside, doubled, orphaned, overlapped>>
  BY <1>3 DEF FreshJobs, Finish, Go, rowVars, orderVars, carrierVars
<1>5. /\ inFlight'[h] = Idle /\ Idle \in Request /\ Idle.at = "idle"
      /\ inFlight' \in [Handlers -> Request]
      /\ \A g \in Handlers \ {h} : inFlight'[g] = inFlight[g]
  BY <1>1, <1>4 DEF TypeOK, Idle, Request
<1>6. ASSUME NEW j \in js
      PROVE  /\ job[j].at = "free" /\ job[j].shipment = Null
             /\ job'[j] \in RealJob /\ job'[j].at = "queued" /\ job'[j].shipment = s
  <2>1. tries[j] \in 1..Attempts /\ job'[j] = NewJob(s, tries[j]) /\ job[j] = NoJob
    BY <1>4
  <2> QED
    BY <1>1, <2>1, NewJobFields, JobType
<1>7. \A j \in Jobs \ js : job'[j] = job[j]
  BY <1>4
<1>8. TypeOK'
  <2>1. job' \in [Jobs -> JobState]
    <3>1. \A j \in Jobs : job'[j] \in JobState
      BY <1>1, <1>6, <1>7, JobFields DEF TypeOK
    <3> QED
      BY <1>4, <3>1
  <2> QED
    BY <1>1, <1>4, <1>5, <2>1 DEF TypeOK
<1>9. RowsOwned' /\ DispatchesOwned'
  BY <1>4 DEF LabelsInv, RowsOwned, DispatchesOwned
<1>10. JobsOwned'
  <2>1. status[s] # "NONE"
    BY <1>3 DEF LabelsInv, RequestsOwned
  <2> QED
    BY <1>4, <1>6, <1>7, <2>1 DEF LabelsInv, JobsOwned
<1>11. RequestsOwned'
  BY <1>4, <1>5 DEF LabelsInv, RequestsOwned
<1>12. ASSUME NEW p \in Orders \ overlapped', p # o
       PROVE  RequestAlone(p)' /\ OrderFits(p)'
  <2>1. \A t \in Shipments : status'[t] = status[t] /\ orderOf'[t] = orderOf[t]
    BY <1>4
  <2> QED
    BY <1>1, <1>2, <1>4, <1>5, <1>12, <2>1, OthersAlone DEF LabelsInv
<1>13. ASSUME o \notin overlapped'
       PROVE  RequestAlone(o)' /\ OrderFits(o)'
  <2>1. RequestAlone(o) /\ OrderFits(o)
    BY <1>4, <1>13 DEF LabelsInv, OrdersAlone
  <2>2. OrderFits(o)'
    BY <1>4, <2>1 DEF OrderFits, Outside, Of, Live
  <2> QED
    BY <1>2, <1>5, <2>1, <2>2, OwnAlone
<1>14. OrdersAlone'
  BY <1>12, <1>13 DEF OrdersAlone
<1>15. \A j \in Jobs : job'[j].at # "free" => JobFits(j)'
  <2>1. \A j \in js : JobFits(j)'
    BY <1>6 DEF JobFits, RecordFits
  <2>2. \A j \in Jobs \ js : job[j].at # "free" => JobFits(j)'
    BY <1>4, <1>7 DEF LabelsInv, JobsFit, JobFits, RecordFits
  <2> QED
    BY <1>7, <2>1, <2>2
<1>16. ASSUME NEW t \in Shipments
       PROVE  RowFits(t)' /\ UnderWay(t)'
  <2>1. RowFits(t) /\ UnderWay(t)
    BY DEF LabelsInv, JobsFit
  <2>2. /\ \A j \in JobsOf(t) : j \in Jobs \ js /\ j \in JobsOf(t)' /\ job'[j] = job[j]
        /\ \A j \in JobsOf(t)' : j \in js \/ j \in JobsOf(t)
    BY <1>6, <1>7, NullApart DEF JobsOf
  <2>3. \A j \in js : job'[j].at = "queued" /\ ~ Running(j)'
    BY <1>6 DEF Running
  <2>4. \A j \in JobsOf(t) : (Running(j)' <=> Running(j)) /\ (WillTell(j)' <=> WillTell(j))
    BY <2>2 DEF Running, WillTell
  <2>5. RowFits(t)'
    BY <1>4, <2>1, <2>2, <2>3, <2>4 DEF RowFits
  <2>6. UnderWay(t)'
    <3>1. CASE t = s
      <4>1. PICK j \in js : TRUE
        OBVIOUS
      <4>2. j \in JobsOf(t)' /\ WillTell(j)'
        BY <1>6, <3>1, <4>1 DEF JobsOf, WillTell
      <4> QED
        BY <4>2 DEF UnderWay
    <3>2. CASE t # s
      BY <1>3, <1>4, <1>5, <2>1, <2>2, <2>4, <3>2 DEF UnderWay
    <3> QED
      BY <3>1, <3>2
  <2> QED
    BY <2>5, <2>6
<1> QED
  BY <1>8, <1>9, <1>10, <1>11, <1>14, <1>15, <1>16 DEF LabelsInv, JobsFit

LEMMA DispatchInv ==
    ASSUME LabelsAssumption, LabelsInv, NEW h \in Handlers, Dispatch(h)
    PROVE  LabelsInv'
<1>1. Attempts \in 1..Attempts /\ 1 \in 1..Attempts
  BY DEF LabelsAssumption
<1>2. CASE \E j \in Jobs : EnqueueLabelJob(h, j)
  <2>1. PICK j \in Jobs : EnqueueLabelJob(h, j)
    BY <1>2
  <2> DEFINE js == {j}
             tries == [i \in js |-> Attempts]
  <2>2. js \in SUBSET Jobs /\ js # {} /\ tries \in [js -> 1..Attempts]
    BY <1>1
  <2>3. inFlight[h].at = "dispatch" /\ FreshJobs(h, js, tries)
    BY <2>1 DEF EnqueueLabelJob
  <2> HIDE DEF js, tries
  <2> QED
    BY <2>2, <2>3, FreshJobsInv
<1>3. CASE \E j \in Jobs : RunInline(h, j)
  <2>1. PICK j \in Jobs : RunInline(h, j)
    BY <1>3
  <2> DEFINE js == {j}
             tries == [i \in js |-> 1]
  <2>2. js \in SUBSET Jobs /\ js # {} /\ tries \in [js -> 1..Attempts]
    BY <1>1
  <2>3. inFlight[h].at = "dispatch" /\ FreshJobs(h, js, tries)
    BY <2>1 DEF RunInline
  <2> HIDE DEF js, tries
  <2> QED
    BY <2>2, <2>3, FreshJobsInv
<1>4. CASE \E i, j \in Jobs : EnqueueUnanswered(h, j, i)
  <2>1. PICK i \in Jobs, j \in Jobs : EnqueueUnanswered(h, j, i)
    BY <1>4
  <2> DEFINE js == {i, j}
             tries == [l \in js |-> IF l = j THEN Attempts ELSE 1]
  <2>2. js \in SUBSET Jobs /\ js # {} /\ tries \in [js -> 1..Attempts]
    BY <1>1
  <2>3. inFlight[h].at = "dispatch" /\ FreshJobs(h, js, tries)
    BY <2>1 DEF EnqueueUnanswered
  <2> HIDE DEF js, tries
  <2> QED
    BY <2>2, <2>3, FreshJobsInv
<1> QED
  BY <1>2, <1>3, <1>4 DEF Dispatch

-----------------------------------------------------------------------------
(* Steps of a job.                                                         *)

\* Any step of a job j about s, whatever it writes of s.
LEMMA JobStepInv ==
    ASSUME LabelsAssumption, LabelsInv, NEW j \in Jobs, job[j] \in RealJob,
           NEW s \in Shipments, job[j].shipment = s,
           NEW to \in JobState, Put(j, to),
           \/ to.at = "free" /\ to.shipment = Null
           \/ to.at # "free" /\ to.shipment = s,
           UNCHANGED unchangedByJobs,
           status' \in [Shipments -> ShipmentStatus],
           consignment' \in [Shipments -> 0..MaxConsignments],
           labelFile' \in [Shipments -> 0..MaxConsignments],
           made' \in [Shipments -> 0..MaxConsignments],
           lost' \in [Shipments -> Nat],
           \A t \in Shipments \ {s} :
               /\ status'[t] = status[t] /\ consignment'[t] = consignment[t]
               /\ labelFile'[t] = labelFile[t] /\ made'[t] = made[t] /\ lost'[t] = lost[t],
           beside \subseteq beside', beside' \subseteq Shipments,
           doubled \subseteq doubled', doubled' \subseteq doubled \cup {s},
           orphaned \subseteq orphaned', orphaned' \subseteq orphaned \cup {s},
           \/ status'[s] = status[s]
           \/ /\ status'[s] \in {"SUBMITTED", "LABELLED", "FAILED"}
              /\ status[s] # "VOIDED" \/ orderOf[s] \in overlapped
              /\ status'[s] = "LABELLED" \/ status[s] # "LABELLED" \/ s \in doubled
              /\ status'[s] = "FAILED" \/ TakesUpAgain(s),
           to.at # "free" => JobFits(j)',
           \A i \in JobsOf(s) \ {j} : JobFits(i)',
           RowFits(s)', UnderWay(s)'
    PROVE  LabelsInv'
<1>1. TypeOK
  BY DEF LabelsInv
<1>2. /\ job' \in [Jobs -> JobState] /\ job'[j] = to
      /\ \A i \in Jobs \ {j} : job'[i] = job[i]
  BY <1>1 DEF Put, TypeOK
<1>3. UNCHANGED <<orderStatus, dispatchedOn, orderOf, inFlight, overlapped>>
  BY DEF unchangedByJobs, orderVars
<1>4. TypeOK'
  BY <1>1, <1>2, <1>3 DEF TypeOK
<1>5. status[s] # "NONE" /\ status'[s] # "NONE"
  <2>1. job[j].at # "free"
    BY JobFields
  <2> QED
    BY <2>1 DEF LabelsInv, JobsOwned
<1>6. \A t \in Shipments : status'[t] # "NONE" <=> status[t] # "NONE"
  BY <1>5
<1>7. RowsOwned' /\ DispatchesOwned'
  BY <1>1, <1>3, <1>6 DEF LabelsInv, RowsOwned, DispatchesOwned, TypeOK
<1>8. RequestsOwned'
  BY <1>1, <1>3, <1>6, InFlightType DEF LabelsInv, RequestsOwned
<1>9. JobsOwned'
  <2>1. \A i \in Jobs : job[i].at # "free" => job[i].shipment \in Shipments
    BY <1>1, JobType, JobFields
  <2> QED
    BY <1>2, <1>5, <1>6, <2>1 DEF LabelsInv, JobsOwned
<1>10. ASSUME NEW o \in Orders, o \notin overlapped
       PROVE  RequestAlone(o)' /\ OrderFits(o)'
  <2>1. RequestAlone(o) /\ OrderFits(o)
    BY <1>10 DEF LabelsInv, OrdersAlone
  <2>2. CASE status'[s] = status[s] \/ orderOf[s] # o
    <3>1. /\ Of(o)' = Of(o) /\ Live(o)' = Live(o)
          /\ \A t \in Of(o) : status'[t] = status[t]
      BY <1>3, <1>5, <1>6, <2>2 DEF Of, Live
    <3>2. \A t \in Shipments : status[t] # "NONE" /\ orderOf[t] = o => t \in Of(o)
      BY DEF Of
    <3>3. dispatchedOn[o] # Null => dispatchedOn[o] \in Of(o)
      BY <1>1, <3>2 DEF LabelsInv, DispatchesOwned, TypeOK
    <3>4. OrderFits(o)'
      BY <1>3, <2>1, <3>1, <3>3 DEF OrderFits, Outside
    <3>5. ASSUME NEW h \in Handlers, WorksOn(h, o)
          PROVE  /\ inFlight[h].at = "retry" => inFlight[h].shipment \in Of(o)
                 /\ inFlight[h].at = "status" /\ inFlight[h].label # Null =>
                      inFlight[h].label \in Of(o)
      <4>1. inFlight[h].order = o
        BY <3>5 DEF WorksOn
      <4> QED
        BY <1>1, <3>2, <4>1, InFlightType DEF LabelsInv, RequestsOwned
    <3>6. \A h \in Handlers : WorksOn(h, o)' <=> WorksOn(h, o)
      BY <1>3 DEF WorksOn, IsIdle
    <3>7. RequestAlone(o)'
      BY <1>3, <2>1, <3>1, <3>5, <3>6 DEF RequestAlone
    <3> QED
      BY <3>4, <3>7
  <2>3. CASE status'[s] # status[s] /\ orderOf[s] = o
    <3>1. /\ status'[s] \in {"SUBMITTED", "LABELLED", "FAILED"} /\ status[s] # "VOIDED"
          /\ status'[s] = "LABELLED" \/ status[s] # "LABELLED" \/ s \in doubled
          /\ status'[s] = "FAILED" \/ TakesUpAgain(s)
      BY <1>10, <2>3
    <3>2. s \in Of(o) /\ Of(o)' = Of(o) /\ Live(o)' \subseteq Live(o) \cup {s}
      BY <1>3, <1>5, <1>6, <2>3 DEF Of, Live
    <3>3. ~ Outside(o)
      BY <2>1, <3>1, <3>2 DEF OrderFits
    <3>4. /\ status'[s] = "FAILED" => Live(o)' \subseteq Live(o)
          /\ status'[s] # "FAILED" =>
               \/ s \in Live(o)
               \/ s \in beside'
               \/ /\ Live(o) = {}
                  /\ \A h \in Handlers :
                        ~ (inFlight[h].at = "create" /\ inFlight[h].order = o)
      <4>1. status'[s] = "FAILED" => Live(o)' \subseteq Live(o)
        BY <3>2 DEF Live, LIVE_STATUSES
      <4> QED
        BY <1>1, <2>3, <3>1, <4>1, TakenUpFacts
    <3>5. \A t, u \in Live(o)' \ beside' : t = u
      BY <2>1, <3>2, <3>4 DEF OrderFits
    <3>6. dispatchedOn[o] \notin doubled' \cup {Null} => status'[dispatchedOn[o]] = "LABELLED"
      BY <1>1, <2>1, <3>1 DEF OrderFits, TypeOK
    <3>7. OrderFits(o)'
      BY <1>3, <2>1, <3>3, <3>5, <3>6 DEF OrderFits, Outside
    <3>8. ASSUME NEW h \in Handlers, WorksOn(h, o)
          PROVE  /\ inFlight[h].at = "create" => Live(o)' \subseteq beside'
                 /\ inFlight[h].at = "retry" => status'[inFlight[h].shipment] # "VOIDED"
                 /\ inFlight[h].at = "status" /\ inFlight[h].label \notin doubled' \cup {Null} =>
                      status'[inFlight[h].label] = "LABELLED"
      <4>1. inFlight[h].order = o
        BY <3>8 DEF WorksOn
      <4>2. inFlight[h].at = "create" => Live(o)' \subseteq beside'
        BY <2>1, <3>2, <3>4, <3>8, <4>1 DEF RequestAlone
      <4>3. inFlight[h].at = "retry" => status'[inFlight[h].shipment] # "VOIDED"
        BY <1>1, <2>1, <3>1, <3>8, InFlightType DEF RequestAlone
      <4>4. inFlight[h].at = "status" /\ inFlight[h].label \notin doubled' \cup {Null} =>
              status'[inFlight[h].label] = "LABELLED"
        BY <1>1, <2>1, <3>1, <3>8, InFlightType DEF RequestAlone
      <4> QED
        BY <4>2, <4>3, <4>4
    <3>9. \A h \in Handlers : WorksOn(h, o)' <=> WorksOn(h, o)
      BY <1>3 DEF WorksOn, IsIdle
    <3>10. RequestAlone(o)'
      BY <1>3, <2>1, <3>8, <3>9 DEF RequestAlone
    <3> QED
      BY <3>7, <3>10
  <2> QED
    BY <2>2, <2>3
<1>11. OrdersAlone'
  BY <1>3, <1>10 DEF OrdersAlone
<1>12. ASSUME NEW i \in Jobs, job'[i].at # "free"
       PROVE  JobFits(i)'
  <2>1. CASE i = j
    BY <1>2, <1>12, <2>1
  <2>2. CASE i # j /\ job[i].shipment = s
    BY <2>2 DEF JobsOf
  <2>3. CASE i # j /\ job[i].shipment # s
    <3>1. job'[i] = job[i] /\ job[i].shipment \in Shipments /\ JobFits(i)
      BY <1>1, <1>2, <1>12, <2>3, JobType, JobFields DEF LabelsInv, JobsFit
    <3> QED
      BY <1>3, <2>3, <3>1 DEF JobFits, RecordFits
  <2> QED
    BY <2>1, <2>2, <2>3
<1>13. ASSUME NEW t \in Shipments, t # s
       PROVE  RowFits(t)' /\ UnderWay(t)'
  <2>1. RowFits(t) /\ UnderWay(t)
    BY DEF LabelsInv, JobsFit
  <2>2. JobsOf(t)' = JobsOf(t) /\ \A i \in JobsOf(t) : i \in Jobs /\ job'[i] = job[i]
    BY <1>2, <1>13, NullApart DEF JobsOf
  <2>3. \A i \in JobsOf(t) : (Running(i)' <=> Running(i)) /\ (WillTell(i)' <=> WillTell(i))
    BY <2>2 DEF Running, WillTell
  <2>4. RowFits(t)'
    BY <1>13, <2>1, <2>2, <2>3 DEF RowFits
  <2>5. UnderWay(t)'
    BY <1>3, <1>13, <2>1, <2>2, <2>3 DEF UnderWay
  <2> QED
    BY <2>4, <2>5
<1>14. JobsFit'
  BY <1>12, <1>13 DEF JobsFit
<1> QED
  BY <1>4, <1>7, <1>8, <1>9, <1>11, <1>14 DEF LabelsInv

\* A step that writes nothing to the row; an answer in hand is lost.
LEMMA QuietJobInv ==
    ASSUME LabelsAssumption, LabelsInv, NEW j \in Jobs, job[j] \in RealJob,
           NEW s \in Shipments, job[j].shipment = s,
           NEW to \in JobState, Put(j, to), to.at # "recording",
           \/ to.at = "free" /\ to.shipment = Null
           \/ to.at # "free" /\ to.shipment = s,
           UNCHANGED unchangedByJobs,
           UNCHANGED <<status, consignment, labelFile, made, beside>>,
           lost' = IF job[j].at = "recording" THEN [lost EXCEPT ![s] = @ + 1] ELSE lost,
           doubled \subseteq doubled', doubled' \subseteq doubled \cup {s},
           orphaned \subseteq orphaned', orphaned' \subseteq orphaned \cup {s},
           \/ to.at \in {"free", "queued"}
           \/ Running(j)
           \/ \A i \in JobsOf(s) : ~ Running(i)
           \/ s \in doubled',
           \/ to.at # "free" /\ ~ (to.at = "filing" /\ to.sawVoid)
           \/ s \in orphaned'
           \/ status[s] \notin {"PENDING", "SUBMITTED"},
           to.at # "free" => RecordFits(to)
    PROVE  LabelsInv'
<1>1. TypeOK
  BY DEF LabelsInv
<1>2. /\ job' \in [Jobs -> JobState] /\ job'[j] = to
      /\ \A i \in Jobs \ {j} : job'[i] = job[i]
  BY <1>1 DEF Put, TypeOK
<1>3. UNCHANGED <<orderStatus, dispatchedOn, orderOf, inFlight, overlapped>>
  BY DEF unchangedByJobs, orderVars
<1>4. /\ lost' \in [Shipments -> Nat]
      /\ \A t \in Shipments \ {s} : lost'[t] = lost[t]
      /\ lost'[s] = IF job[j].at = "recording" THEN lost[s] + 1 ELSE lost[s]
      /\ lost[s] \in Nat /\ made[s] \in Nat
  BY <1>1 DEF TypeOK
<1>5. to.at # "free" => JobFits(j)'
  BY <1>2, <1>3 DEF JobFits, RecordFits
<1>6. \A i \in JobsOf(s) \ {j} : JobFits(i)'
  <2>1. ASSUME NEW i \in JobsOf(s) \ {j}
        PROVE  JobFits(i)'
    <3>1. i \in Jobs /\ job[i].shipment = s /\ job'[i] = job[i]
      BY <1>2, <2>1 DEF JobsOf
    <3>2. job[i].at # "free"
      BY <1>1, <3>1, JobType, NullApart
    <3>3. JobFits(i)
      BY <3>1, <3>2 DEF LabelsInv, JobsFit
    <3> QED
      BY <1>3, <3>1, <3>3 DEF JobFits, RecordFits
  <2> QED
    BY <2>1
<1>7. /\ \A i \in JobsOf(s) \ {j} : i \in Jobs /\ i \in JobsOf(s)' /\ job'[i] = job[i]
      /\ JobsOf(s)' \subseteq JobsOf(s)
      /\ j \in JobsOf(s)
      /\ to.at # "free" => j \in JobsOf(s)'
      /\ to.at = "free" => j \notin JobsOf(s)'
  BY <1>2, NullApart DEF JobsOf
<1>8. /\ \A i \in JobsOf(s) \ {j} : Running(i)' <=> Running(i)
      /\ \A i \in JobsOf(s) \ {j} : WillTell(i)' <=> WillTell(i)
  BY <1>7 DEF Running, WillTell
<1>9. RowFits(s) /\ UnderWay(s)
  BY DEF LabelsInv, JobsFit
<1>10. RowFits(s)'
  <2>1. SUFFICES ASSUME s \notin doubled'
                 PROVE  RowFits(s)'
    BY DEF RowFits
  <2>2. /\ s \notin doubled
        /\ \A i, k \in JobsOf(s) : Running(i) /\ Running(k) => i = k
        /\ status[s] = "LABELLED" => consignment[s] # 0 /\ labelFile[s] = consignment[s]
        /\ made[s] <= lost[s] + 1
        /\ consignment[s] = 0 /\ (\A i \in JobsOf(s) : job[i].at # "recording") =>
             made[s] <= lost[s]
    BY <1>9, <2>1 DEF RowFits
  <2>3. \A i, k \in JobsOf(s)' : Running(i)' /\ Running(k)' => i = k
    <3>1. to.at \in {"free", "queued"} => ~ Running(j)'
      BY <1>2 DEF Running
    <3> QED
      BY <1>7, <1>8, <2>1, <2>2, <3>1
  <2>4. made[s] <= lost'[s] + 1
    BY <1>4, <2>2
  <2>5. ASSUME consignment[s] = 0, \A i \in JobsOf(s)' : job'[i].at # "recording"
        PROVE  made[s] <= lost'[s]
    <3>1. CASE job[j].at = "recording"
      BY <1>4, <2>2, <3>1
    <3>2. CASE job[j].at # "recording"
      <4>1. \A i \in JobsOf(s) : job[i].at # "recording"
        BY <1>7, <2>5, <3>2
      <4> QED
        BY <1>4, <2>2, <2>5, <3>2, <4>1
    <3> QED
      BY <3>1, <3>2
  <2> QED
    BY <2>2, <2>3, <2>4, <2>5 DEF RowFits
<1>11. UnderWay(s)'
  <2>1. CASE to.at # "free" /\ ~ (to.at = "filing" /\ to.sawVoid)
    <3>1. j \in JobsOf(s)' /\ WillTell(j)'
      BY <1>2, <1>7, <2>1 DEF WillTell
    <3> QED
      BY <3>1 DEF UnderWay
  <2>2. CASE s \in orphaned' \/ status[s] \notin {"PENDING", "SUBMITTED"}
    BY <2>2 DEF UnderWay
  <2> QED
    BY <2>1, <2>2
<1>12. /\ status' \in [Shipments -> ShipmentStatus]
       /\ consignment' \in [Shipments -> 0..MaxConsignments]
       /\ labelFile' \in [Shipments -> 0..MaxConsignments]
       /\ made' \in [Shipments -> 0..MaxConsignments]
       /\ beside' \subseteq Shipments /\ beside \subseteq beside'
       /\ status'[s] = status[s]
       /\ \A t \in Shipments \ {s} :
            /\ status'[t] = status[t] /\ consignment'[t] = consignment[t]
            /\ labelFile'[t] = labelFile[t] /\ made'[t] = made[t] /\ lost'[t] = lost[t]
  BY <1>1, <1>4 DEF TypeOK
<1> QED
  BY <1>4, <1>5, <1>6, <1>10, <1>11, <1>12, JobStepInv

\* What is known of a job that takes a step.
LEMMA WorkingJob ==
    ASSUME LabelsAssumption, LabelsInv, NEW j \in Jobs, job[j].at # "free"
    PROVE  /\ TypeOK
           /\ job[j] \in RealJob /\ job[j].shipment \in Shipments
           /\ j \in JobsOf(job[j].shipment)
           /\ RecordFits(job[j])
           /\ NoJob \in JobState /\ NoJob.at = "free" /\ NoJob.shipment = Null
<1>1. TypeOK
  BY DEF LabelsInv
<1>2. job[j] \in RealJob /\ job[j].shipment \in Shipments
  BY <1>1, JobType, JobFields
<1> QED
  BY <1>1, <1>2 DEF LabelsInv, JobsFit, JobFits, JobsOf, JobState, NoJob

LEMMA StartAttemptInv ==
    ASSUME LabelsAssumption, LabelsInv, NEW j \in Jobs, StartAttempt(j)
    PROVE  LabelsInv'
<1>1. job[j].at = "queued" /\ job[j].at # "free"
  BY DEF StartAttempt
<1>2. PICK s \in Shipments : s = job[j].shipment
  BY <1>1, WorkingJob
<1>3. /\ UNCHANGED <<status, consignment, labelFile, made, beside>> /\ UNCHANGED unchangedByJobs
      /\ UNCHANGED <<lost, orphaned>>
      /\ doubled' = IF \E i \in JobsOf(s) : Running(i) THEN doubled \cup {s} ELSE doubled
  BY <1>2 DEF StartAttempt, carrierVars
<1>4. /\ doubled \subseteq doubled' /\ doubled' \subseteq doubled \cup {s}
      /\ (\A i \in JobsOf(s) : ~ Running(i)) \/ s \in doubled'
  BY <1>3
<1>5. /\ Put(j, IF status[s] \in {"LABELLED", "VOIDED"} THEN NoJob
                ELSE IF consignment[s] = 0 THEN Goto(j, "submit")
                ELSE [Goto(j, "fetch") EXCEPT !.got = consignment[s]])
  BY <1>2 DEF StartAttempt
<1>6. job[j] \in RealJob
  BY <1>1, WorkingJob
<1>7. CASE status[s] \in {"LABELLED", "VOIDED"}
  <2>1. Put(j, NoJob)
    BY <1>5, <1>7
  <2> QED
    BY <1>1, <1>2, <1>3, <1>4, <1>6, <1>7, <2>1, WorkingJob, QuietJobInv
<1>8. CASE status[s] \notin {"LABELLED", "VOIDED"} /\ consignment[s] = 0
  <2> DEFINE to == Goto(j, "submit")
  <2>1. Put(j, to)
    BY <1>5, <1>8
  <2>2. to \in RealJob /\ to.at = "submit" /\ to.shipment = s
    BY <1>2, <1>6, GotoFields DEF JobPhase
  <2>3. to \in JobState /\ RecordFits(to)
    BY <1>8, <2>2, JobFields DEF RecordFits
  <2> HIDE DEF to
  <2> QED
    BY <1>1, <1>2, <1>3, <1>4, <1>6, <2>1, <2>2, <2>3, QuietJobInv
<1>9. CASE status[s] \notin {"LABELLED", "VOIDED"} /\ consignment[s] # 0
  <2> DEFINE g == Goto(j, "fetch")
             to == [g EXCEPT !.got = consignment[s]]
  <2>1. Put(j, to)
    BY <1>5, <1>9
  <2>2. g \in RealJob /\ g.at = "fetch" /\ g.shipment = s
    BY <1>2, <1>6, GotoFields DEF JobPhase
  <2>3. consignment[s] \in 0..MaxConsignments
    BY <1>1, WorkingJob DEF TypeOK
  <2> HIDE DEF g
  <2>4. to \in RealJob /\ to.at = "fetch" /\ to.shipment = s /\ to.got = consignment[s]
    BY <2>2, <2>3 DEF RealJob
  <2> HIDE DEF to
  <2>5. to \in JobState /\ RecordFits(to)
    BY <1>9, <2>4, JobFields DEF RecordFits
  <2> QED
    BY <1>1, <1>2, <1>3, <1>4, <1>6, <2>1, <2>4, <2>5, QuietJobInv
<1> QED
  BY <1>7, <1>8, <1>9

LEMMA FetchLabelInv ==
    ASSUME LabelsAssumption, LabelsInv, NEW j \in Jobs, FetchLabel(j)
    PROVE  LabelsInv'
<1>1. job[j].at = "fetch" /\ job[j].at # "free" /\ Running(j)
  BY DEF FetchLabel, Running
<1>2. PICK s \in Shipments : s = job[j].shipment
  BY <1>1, WorkingJob
<1>3. /\ job[j] \in RealJob /\ RecordFits(job[j])
  BY <1>1, WorkingJob
<1> DEFINE saw == status[s] = "VOIDED"
           to == [job[j] EXCEPT !.at = "filing", !.sawVoid = saw]
<1>4. /\ Put(j, to)
      /\ UNCHANGED <<status, consignment, labelFile, made, beside>> /\ UNCHANGED unchangedByJobs
      /\ UNCHANGED <<lost, orphaned, doubled>>
  BY <1>2 DEF FetchLabel, SeesVoid, carrierVars
<1>5. saw \in BOOLEAN
  OBVIOUS
<1>6. /\ to \in RealJob /\ to.at = "filing" /\ to.shipment = s /\ to.got = job[j].got
      /\ to.sawVoid = saw
  BY <1>2, <1>3, <1>5 DEF RealJob, JobPhase
<1>7. to.sawVoid <=> status[s] = "VOIDED"
  BY <1>6
<1> HIDE DEF to, saw
<1>8. to \in JobState /\ RecordFits(to)
  BY <1>1, <1>2, <1>3, <1>6, <1>7, JobFields DEF RecordFits
<1> QED
  BY <1>1, <1>2, <1>3, <1>4, <1>6, <1>7, <1>8, QuietJobInv

\* The end of an attempt, when nothing of it is to be recorded.
LEMMA EndedInv ==
    ASSUME LabelsAssumption, LabelsInv, NEW j \in Jobs, job[j].at # "free",
           NEW s \in Shipments, s = job[j].shipment, NEW final \in BOOLEAN,
           ~ final => job[j].attempt < job[j].max,
           Put(j, Ended(j, final)), UNCHANGED unchangedByJobs,
           UNCHANGED <<status, consignment, labelFile, made, beside, doubled>>,
           lost' = IF job[j].at = "recording" THEN [lost EXCEPT ![s] = @ + 1] ELSE lost,
           orphaned \subseteq orphaned', orphaned' \subseteq orphaned \cup {s},
           final => s \in orphaned' \/ status[s] \notin {"PENDING", "SUBMITTED"}
    PROVE  LabelsInv'
<1>1. job[j] \in RealJob
  BY WorkingJob
<1>2. CASE final
  BY <1>1, <1>2, EndedFields, WorkingJob, QuietJobInv
<1>3. CASE ~ final
  <2> DEFINE to == Ended(j, final)
  <2>1. to \in RealJob /\ to.at = "queued" /\ to.shipment = s
    BY <1>1, <1>3, EndedFields
  <2>2. to \in JobState /\ RecordFits(to)
    BY <2>1, JobFields DEF RecordFits
  <2>3. Put(j, to)
    OBVIOUS
  <2> HIDE DEF to
  <2> QED
    BY <1>1, <2>1, <2>2, <2>3, QuietJobInv
<1> QED
  BY <1>2, <1>3

LEMMA UnrecordedInv ==
    ASSUME LabelsAssumption, LabelsInv, NEW j \in Jobs,
           FailureUnrecorded(j) \/ ReadFails(j)
    PROVE  LabelsInv'
<1>1. job[j].at \in {"failing", "queued"} /\ job[j].at # "free"
  BY DEF FailureUnrecorded, ReadFails
<1>2. PICK s \in Shipments : s = job[j].shipment
  BY <1>1, WorkingJob
<1>3. job[j] \in RealJob /\ RecordFits(job[j])
  BY <1>1, WorkingJob
<1>4. /\ UNCHANGED <<status, consignment, labelFile, made, beside, doubled>>
      /\ UNCHANGED unchangedByJobs /\ lost' = lost
  BY DEF FailureUnrecorded, ReadFails, carrierVars
<1>5. CASE FailureUnrecorded(j)
  <2>1. /\ Put(j, Ended(j, job[j].final)) /\ job[j].at = "failing"
        /\ orphaned' = IF job[j].final THEN orphaned \cup {s} ELSE orphaned
    BY <1>2, <1>5 DEF FailureUnrecorded
  <2>2. job[j].final \in BOOLEAN /\ (~ job[j].final => job[j].attempt < job[j].max)
    BY <1>3, <2>1, JobFields DEF RecordFits
  <2>3. /\ orphaned \subseteq orphaned' /\ orphaned' \subseteq orphaned \cup {s}
        /\ job[j].final => s \in orphaned'
    BY <2>1
  <2> QED
    BY <1>1, <1>2, <1>4, <2>1, <2>2, <2>3, EndedInv
<1>6. CASE ReadFails(j)
  <2> DEFINE final == LastAttempt(j)
  <2>1. /\ Put(j, Ended(j, final)) /\ job[j].at = "queued"
        /\ orphaned' = IF final THEN orphaned \cup {s} ELSE orphaned
    BY <1>2, <1>6 DEF ReadFails
  <2>2. final \in BOOLEAN /\ (~ final => job[j].attempt < job[j].max)
    BY <1>3, JobFields DEF LastAttempt
  <2>3. /\ orphaned \subseteq orphaned' /\ orphaned' \subseteq orphaned \cup {s}
        /\ final => s \in orphaned'
    BY <2>1
  <2> HIDE DEF final
  <2> QED
    BY <1>1, <1>2, <1>4, <2>1, <2>2, <2>3, EndedInv
<1> QED
  BY <1>5, <1>6

LEMMA FailInv ==
    ASSUME LabelsAssumption, LabelsInv, NEW j \in Jobs,
           (\E terminal \in BOOLEAN : CarrierFails(j, terminal)) \/ TransactionFails(j)
    PROVE  LabelsInv'
<1>1. /\ job[j].at \in {"submit", "fetch", "recording", "filing"} /\ job[j].at # "free"
      /\ Running(j)
  BY DEF CarrierFails, TransactionFails, Running
<1>2. PICK s \in Shipments : s = job[j].shipment
  BY <1>1, WorkingJob
<1>3. job[j] \in RealJob /\ RecordFits(job[j])
  BY <1>1, WorkingJob
<1>4. /\ UNCHANGED <<status, consignment, labelFile, made, beside, doubled, orphaned>>
      /\ UNCHANGED unchangedByJobs
      /\ lost' = IF job[j].at = "recording" THEN [lost EXCEPT ![s] = @ + 1] ELSE lost
  BY <1>2 DEF CarrierFails, TransactionFails, LoseAnswer, carrierVars
<1>5. PICK terminal \in BOOLEAN : Fail(j, terminal)
  BY DEF CarrierFails, TransactionFails
<1> DEFINE final == terminal \/ LastAttempt(j)
<1>6. final \in BOOLEAN /\ (~ final => job[j].attempt < job[j].max)
  BY <1>3, JobFields DEF LastAttempt
<1>7. Put(j, IF status[s] \in {"VOIDED", "LABELLED"} THEN Ended(j, final)
             ELSE [Goto(j, "failing") EXCEPT !.final = final])
  BY <1>2, <1>5 DEF Fail
<1> HIDE DEF final
<1>8. CASE status[s] \in {"VOIDED", "LABELLED"}
  <2>1. Put(j, Ended(j, final))
    BY <1>7, <1>8
  <2> QED
    BY <1>1, <1>2, <1>4, <1>6, <1>8, <2>1, EndedInv
<1>9. CASE status[s] \notin {"VOIDED", "LABELLED"}
  <2> DEFINE g == Goto(j, "failing")
             to == [g EXCEPT !.final = final]
  <2>1. Put(j, to)
    BY <1>7, <1>9
  <2>2. /\ g \in RealJob /\ g.at = "failing" /\ g.shipment = s
        /\ g.attempt = job[j].attempt /\ g.max = job[j].max
    BY <1>2, <1>3, GotoFields DEF JobPhase
  <2> HIDE DEF g
  <2>3. /\ to \in RealJob /\ to.at = "failing" /\ to.shipment = s /\ to.final = final
        /\ to.attempt = job[j].attempt /\ to.max = job[j].max
    BY <1>6, <2>2 DEF RealJob
  <2> HIDE DEF to
  <2>4. to \in JobState /\ RecordFits(to)
    BY <1>6, <1>9, <2>3, JobFields DEF RecordFits
  <2> QED
    BY <1>1, <1>2, <1>3, <1>4, <2>1, <2>3, <2>4, QuietJobInv
<1> QED
  BY <1>8, <1>9

LEMMA JobDiesInv ==
    ASSUME LabelsAssumption, LabelsInv, NEW j \in Jobs, JobDies(j)
    PROVE  LabelsInv'
<1>1. Running(j) /\ job[j].at # "free"
  BY DEF JobDies, Running
<1>2. PICK s \in Shipments : s = job[j].shipment
  BY <1>1, WorkingJob
<1>3. job[j] \in RealJob
  BY <1>1, WorkingJob
<1>4. /\ UNCHANGED <<status, consignment, labelFile, made, beside, doubled>>
      /\ UNCHANGED unchangedByJobs
      /\ lost' = IF job[j].at = "recording" THEN [lost EXCEPT ![s] = @ + 1] ELSE lost
  BY <1>2 DEF JobDies, LoseAnswer
<1>5. CASE Put(j, Goto(j, "queued")) /\ UNCHANGED orphaned
  <2> DEFINE to == Goto(j, "queued")
  <2>1. to \in RealJob /\ to.at = "queued" /\ to.shipment = s
    BY <1>2, <1>3, GotoFields DEF JobPhase
  <2>2. to \in JobState /\ RecordFits(to)
    BY <2>1, JobFields DEF RecordFits
  <2>3. Put(j, to)
    BY <1>5
  <2> HIDE DEF to
  <2> QED
    BY <1>1, <1>2, <1>3, <1>4, <1>5, <2>1, <2>2, <2>3, QuietJobInv
<1>6. CASE Put(j, NoJob) /\ orphaned' = orphaned \cup {s}
  BY <1>1, <1>2, <1>3, <1>4, <1>6, WorkingJob, QuietJobInv
<1> QED
  BY <1>2, <1>5, <1>6 DEF JobDies

\* While a shipment has one job at work, its other jobs wait.
LEMMA OthersWait ==
    ASSUME LabelsAssumption, LabelsInv, NEW j \in Jobs, Running(j),
           NEW s \in Shipments, s = job[j].shipment
    PROVE  /\ RowFits(s) /\ UnderWay(s)
           /\ \A i \in JobsOf(s) \ {j} :
                /\ i \in Jobs /\ job[i].shipment = s /\ job[i].at # "free" /\ JobFits(i)
                /\ s \notin doubled => job[i].at = "queued"
<1>1. RowFits(s) /\ UnderWay(s) /\ TypeOK
  BY DEF LabelsInv, JobsFit
<1>2. j \in JobsOf(s)
  BY DEF JobsOf
<1>3. ASSUME NEW i \in JobsOf(s) \ {j}
      PROVE  /\ i \in Jobs /\ job[i].shipment = s /\ job[i].at # "free" /\ JobFits(i)
             /\ s \notin doubled => job[i].at = "queued"
  <2>1. i \in Jobs /\ job[i].shipment = s
    BY <1>3 DEF JobsOf
  <2>2. job[i].at # "free"
    BY <1>1, <2>1, JobType, NullApart
  <2>3. JobFits(i)
    BY <2>1, <2>2 DEF LabelsInv, JobsFit
  <2>4. s \notin doubled => job[i].at = "queued"
    BY <1>1, <1>2, <1>3, <2>2 DEF RowFits, Running
  <2> QED
    BY <2>1, <2>2, <2>3, <2>4
<1> QED
  BY <1>1, <1>3

\* The jobs of s once j has moved to the record to.
LEMMA JobsAfter ==
    ASSUME LabelsAssumption, TypeOK, NEW j \in Jobs, NEW s \in Shipments,
           NEW to \in JobState, Put(j, to), j \in JobsOf(s)
    PROVE  /\ job'[j] = to
           /\ \A i \in JobsOf(s) \ {j} : i \in JobsOf(s)' /\ job'[i] = job[i]
           /\ \A i \in JobsOf(s)' : i = j \/ i \in JobsOf(s) \ {j}
           /\ to.shipment = s => j \in JobsOf(s)'
           /\ to.shipment = Null => j \notin JobsOf(s)'
<1>1. job'[j] = to /\ \A i \in Jobs \ {j} : job'[i] = job[i]
  BY DEF Put, TypeOK
<1> QED
  BY <1>1, NullApart DEF JobsOf

LEMMA AcceptedInv ==
    ASSUME LabelsAssumption, LabelsInv, NEW j \in Jobs, Accepted(j)
    PROVE  LabelsInv'
<1>1. job[j].at = "submit" /\ job[j].at # "free" /\ Running(j)
  BY DEF Accepted, Running
<1>2. PICK s \in Shipments : s = job[j].shipment
  BY <1>1, WorkingJob
<1>3. job[j] \in RealJob /\ RecordFits(job[j]) /\ TypeOK /\ j \in JobsOf(s)
  BY <1>1, <1>2, WorkingJob
<1> DEFINE saw == status[s] = "VOIDED"
           g == Goto(j, "recording")
           to == [g EXCEPT !.got = made[s] + 1, !.sawVoid = saw]
<1>4. /\ Put(j, to) /\ made[s] < MaxConsignments
      /\ made' = [made EXCEPT ![s] = @ + 1]
      /\ UNCHANGED <<status, consignment, labelFile, lost, beside, doubled, orphaned>>
      /\ UNCHANGED unchangedByJobs
  BY <1>2 DEF Accepted, SeesVoid
<1>5. UNCHANGED <<orderOf, overlapped, inFlight>>
  BY <1>4 DEF unchangedByJobs
<1>6. made[s] + 1 \in 0..MaxConsignments /\ made[s] + 1 # 0 /\ made[s] \in Nat /\ lost[s] \in Nat
  BY <1>3, <1>4 DEF TypeOK, LabelsAssumption
<1>7. /\ made' \in [Shipments -> 0..MaxConsignments] /\ made'[s] = made[s] + 1
      /\ \A t \in Shipments \ {s} : made'[t] = made[t]
  BY <1>3, <1>4, <1>6 DEF TypeOK
<1>8. g \in RealJob /\ g.shipment = s /\ g.at = "recording" /\ saw \in BOOLEAN
  BY <1>2, <1>3, GotoFields DEF JobPhase
<1> HIDE DEF g, saw
<1>9. /\ to \in RealJob /\ to.at = "recording" /\ to.shipment = s
      /\ to.got = made[s] + 1 /\ to.sawVoid = saw
  BY <1>6, <1>8 DEF RealJob
<1>10. to.sawVoid <=> status[s] = "VOIDED"
  BY <1>9 DEF saw
<1> HIDE DEF to
<1>11. to \in JobState
  BY <1>9, JobFields
<1>12. /\ job'[j] = to /\ j \in JobsOf(s)'
       /\ \A i \in JobsOf(s) \ {j} : i \in JobsOf(s)' /\ job'[i] = job[i]
       /\ \A i \in JobsOf(s)' : i = j \/ i \in JobsOf(s) \ {j}
  BY <1>3, <1>4, <1>9, <1>11, JobsAfter
<1>13. s \notin doubled => consignment[s] = 0
  BY <1>1, <1>2, <1>3 DEF RecordFits
<1>14. JobFits(j)'
  <2>1. RecordFits(to)
    BY <1>6, <1>9, <1>10, <1>13 DEF RecordFits
  <2> QED
    BY <1>4, <1>5, <1>12, <2>1 DEF JobFits, RecordFits
<1>15. ASSUME NEW i \in JobsOf(s) \ {j}
       PROVE  JobFits(i)'
  BY <1>1, <1>2, <1>4, <1>5, <1>12, OthersWait DEF JobFits, RecordFits
<1>16. RowFits(s)'
  <2>1. SUFFICES ASSUME s \notin doubled'
                 PROVE  RowFits(s)'
    BY DEF RowFits
  <2>2. RowFits(s) /\ s \notin doubled /\ \A i \in JobsOf(s) \ {j} : job[i].at = "queued"
    BY <1>1, <1>2, <1>4, <2>1, OthersWait
  <2>3. made[s] <= lost[s]
    <3>1. \A i \in JobsOf(s) : job[i].at # "recording"
      BY <1>1, <2>2
    <3> QED
      BY <1>13, <2>2, <3>1 DEF RowFits
  <2>4. \A i \in JobsOf(s)' : Running(i)' => i = j
    BY <1>12, <2>2 DEF Running
  <2>5. made'[s] <= lost'[s] + 1
    BY <1>4, <1>6, <1>7, <2>3
  <2> QED
    BY <1>4, <1>9, <1>12, <2>2, <2>4, <2>5 DEF RowFits
<1>17. UnderWay(s)'
  <2>1. WillTell(j)'
    BY <1>9, <1>12 DEF WillTell
  <2> QED
    BY <1>12, <2>1 DEF UnderWay
<1>18. /\ status' \in [Shipments -> ShipmentStatus]
       /\ consignment' \in [Shipments -> 0..MaxConsignments]
       /\ labelFile' \in [Shipments -> 0..MaxConsignments]
       /\ lost' \in [Shipments -> Nat]
       /\ beside' \subseteq Shipments /\ beside \subseteq beside'
       /\ doubled \subseteq doubled' /\ doubled' \subseteq doubled \cup {s}
       /\ orphaned \subseteq orphaned' /\ orphaned' \subseteq orphaned \cup {s}
       /\ status'[s] = status[s] /\ to.at # "free"
       /\ \A t \in Shipments \ {s} :
            /\ status'[t] = status[t] /\ consignment'[t] = consignment[t]
            /\ labelFile'[t] = labelFile[t] /\ made'[t] = made[t] /\ lost'[t] = lost[t]
  BY <1>3, <1>4, <1>7, <1>9 DEF TypeOK
<1> QED
  BY <1>2, <1>3, <1>4, <1>7, <1>9, <1>11, <1>14, <1>15, <1>16, <1>17, <1>18, JobStepInv

\* What becomes of the status of a shipment whose job advances it.
LEMMA AdvanceFacts ==
    ASSUME LabelsAssumption, LabelsInv, NEW j \in Jobs, NEW s \in Shipments,
           s = job[j].shipment, job[j].at \in {"recording", "filing"},
           NEW to \in {"SUBMITTED", "LABELLED"}, Advance(j, to)
    PROVE  /\ status' \in [Shipments -> ShipmentStatus]
           /\ \A t \in Shipments \ {s} : status'[t] = status[t]
           /\ beside \subseteq beside' /\ beside' \subseteq Shipments
           /\ \/ job[j].sawVoid /\ status'[s] = status[s]
              \/ /\ ~ job[j].sawVoid /\ status'[s] = to /\ TakesUpAgain(s)
                 /\ status[s] # "VOIDED" \/ orderOf[s] \in overlapped
<1>1. job[j].at # "free"
  OBVIOUS
<1>2. TypeOK /\ RecordFits(job[j])
  BY <1>1, WorkingJob
<1>3. CASE job[j].sawVoid
  BY <1>2, <1>3 DEF Advance, TypeOK
<1>4. CASE ~ job[j].sawVoid
  <2>1. status' = [status EXCEPT ![s] = to] /\ TakesUpAgain(s)
    BY <1>4 DEF Advance
  <2>2. to \in ShipmentStatus
    BY DEF ShipmentStatus
  <2>3. status[s] # "VOIDED" \/ orderOf[s] \in overlapped
    BY <1>2, <1>4 DEF RecordFits
  <2> QED
    BY <1>2, <1>4, <2>1, <2>2, <2>3, TakenUpFacts DEF TypeOK
<1> QED
  BY <1>3, <1>4

LEMMA RecordConsignmentInv ==
    ASSUME LabelsAssumption, LabelsInv, NEW j \in Jobs, RecordConsignment(j)
    PROVE  LabelsInv'
<1>1. job[j].at = "recording" /\ job[j].at # "free" /\ Running(j)
  BY DEF RecordConsignment, Running
<1>2. PICK s \in Shipments : s = job[j].shipment
  BY <1>1, WorkingJob
<1>3. job[j] \in RealJob /\ RecordFits(job[j]) /\ TypeOK /\ j \in JobsOf(s)
  BY <1>1, <1>2, WorkingJob
<1> DEFINE g == Goto(j, "fetch")
           to == [g EXCEPT !.got = job[j].got]
<1>4. /\ Put(j, to) /\ Advance(j, "SUBMITTED")
      /\ consignment' = [consignment EXCEPT ![s] = job[j].got]
      /\ UNCHANGED <<labelFile, made, lost, doubled, orphaned>>
      /\ UNCHANGED unchangedByJobs
  BY <1>2 DEF RecordConsignment, carrierVars
<1>5. UNCHANGED <<orderOf, overlapped, inFlight>>
  BY <1>4 DEF unchangedByJobs
<1>6. job[j].got \in 0..MaxConsignments /\ job[j].got # 0
  BY <1>1, <1>3, JobFields DEF RecordFits
<1>7. g \in RealJob /\ g.shipment = s /\ g.at = "fetch"
  BY <1>2, <1>3, GotoFields DEF JobPhase
<1> HIDE DEF g
<1>8. to \in RealJob /\ to.at = "fetch" /\ to.shipment = s /\ to.got = job[j].got
  BY <1>6, <1>7 DEF RealJob
<1> HIDE DEF to
<1>9. to \in JobState /\ to.at # "free"
  BY <1>8, JobFields
<1>10. /\ job'[j] = to /\ j \in JobsOf(s)'
       /\ \A i \in JobsOf(s) \ {j} : i \in JobsOf(s)' /\ job'[i] = job[i]
       /\ \A i \in JobsOf(s)' : i = j \/ i \in JobsOf(s) \ {j}
  BY <1>3, <1>4, <1>8, <1>9, JobsAfter
<1>11. /\ consignment' \in [Shipments -> 0..MaxConsignments]
       /\ consignment'[s] = job[j].got
       /\ \A t \in Shipments \ {s} : consignment'[t] = consignment[t]
  BY <1>3, <1>4, <1>6 DEF TypeOK
<1>12. /\ status' \in [Shipments -> ShipmentStatus]
       /\ \A t \in Shipments \ {s} : status'[t] = status[t]
       /\ beside \subseteq beside' /\ beside' \subseteq Shipments
       /\ \/ status'[s] = status[s]
          \/ /\ status'[s] = "SUBMITTED" /\ TakesUpAgain(s)
             /\ status[s] # "VOIDED" \/ orderOf[s] \in overlapped
  BY <1>1, <1>2, <1>4, AdvanceFacts
<1>13. s \notin doubled => consignment[s] = 0 /\ status[s] # "LABELLED"
  BY <1>1, <1>2, <1>3, OthersWait DEF RecordFits, RowFits
<1>14. JobFits(j)'
  BY <1>4, <1>6, <1>8, <1>10, <1>11 DEF JobFits, RecordFits
<1>15. ASSUME NEW i \in JobsOf(s) \ {j}
       PROVE  JobFits(i)'
  <2>1. /\ job[i].shipment = s /\ RecordFits(job[i])
        /\ s \notin doubled => job[i].at = "queued"
    BY <1>1, <1>2, OthersWait DEF JobFits
  <2>2. status'[s] = "VOIDED" => status[s] = "VOIDED"
    BY <1>12
  <2> QED
    BY <1>4, <1>5, <1>10, <2>1, <2>2 DEF JobFits, RecordFits
<1>16. RowFits(s)'
  <2>1. SUFFICES ASSUME s \notin doubled'
                 PROVE  RowFits(s)'
    BY DEF RowFits
  <2>2. RowFits(s) /\ s \notin doubled /\ \A i \in JobsOf(s) \ {j} : job[i].at = "queued"
    BY <1>1, <1>2, <1>4, <2>1, OthersWait
  <2>3. \A i \in JobsOf(s)' : Running(i)' => i = j
    BY <1>10, <2>2 DEF Running
  <2>4. status'[s] # "LABELLED"
    BY <1>12, <1>13, <2>2
  <2>5. made'[s] <= lost'[s] + 1 /\ consignment'[s] # 0
    BY <1>4, <1>6, <1>11, <2>2 DEF RowFits
  <2> QED
    BY <2>3, <2>4, <2>5 DEF RowFits
<1>17. UnderWay(s)'
  <2>1. WillTell(j)'
    BY <1>8, <1>10 DEF WillTell
  <2> QED
    BY <1>10, <2>1 DEF UnderWay
<1>18. \/ status'[s] = status[s]
       \/ /\ status'[s] \in {"SUBMITTED", "LABELLED", "FAILED"}
          /\ status[s] # "VOIDED" \/ orderOf[s] \in overlapped
          /\ status'[s] = "LABELLED" \/ status[s] # "LABELLED" \/ s \in doubled
          /\ status'[s] = "FAILED" \/ TakesUpAgain(s)
  BY <1>12, <1>13
<1>19. /\ labelFile' \in [Shipments -> 0..MaxConsignments]
       /\ made' \in [Shipments -> 0..MaxConsignments]
       /\ lost' \in [Shipments -> Nat]
       /\ doubled \subseteq doubled' /\ doubled' \subseteq doubled \cup {s}
       /\ orphaned \subseteq orphaned' /\ orphaned' \subseteq orphaned \cup {s}
       /\ \A t \in Shipments \ {s} :
            /\ status'[t] = status[t] /\ consignment'[t] = consignment[t]
            /\ labelFile'[t] = labelFile[t] /\ made'[t] = made[t] /\ lost'[t] = lost[t]
  BY <1>3, <1>4, <1>11, <1>12 DEF TypeOK
<1> QED
  BY <1>2, <1>3, <1>4, <1>8, <1>9, <1>11, <1>12, <1>14, <1>15, <1>16, <1>17, <1>18, <1>19,
     JobStepInv

LEMMA FileLabelInv ==
    ASSUME LabelsAssumption, LabelsInv, NEW j \in Jobs, FileLabel(j)
    PROVE  LabelsInv'
<1>1. job[j].at = "filing" /\ job[j].at # "free" /\ Running(j)
  BY DEF FileLabel, Running
<1>2. PICK s \in Shipments : s = job[j].shipment
  BY <1>1, WorkingJob
<1>3. /\ job[j] \in RealJob /\ RecordFits(job[j]) /\ TypeOK /\ j \in JobsOf(s)
      /\ NoJob \in JobState /\ NoJob.at = "free" /\ NoJob.shipment = Null
  BY <1>1, <1>2, WorkingJob
<1>4. /\ Put(j, NoJob) /\ Advance(j, "LABELLED")
      /\ labelFile' = [labelFile EXCEPT ![s] = job[j].got]
      /\ UNCHANGED <<consignment, made, lost, doubled, orphaned>>
      /\ UNCHANGED unchangedByJobs
  BY <1>2 DEF FileLabel, carrierVars
<1>5. UNCHANGED <<orderOf, overlapped, inFlight>>
  BY <1>4 DEF unchangedByJobs
<1>6. job[j].got \in 0..MaxConsignments
  BY <1>3, JobFields
<1>7. /\ \A i \in JobsOf(s) \ {j} : i \in JobsOf(s)' /\ job'[i] = job[i]
      /\ \A i \in JobsOf(s)' : i \in JobsOf(s) \ {j}
  BY <1>3, <1>4, JobsAfter
<1>8. /\ labelFile' \in [Shipments -> 0..MaxConsignments]
      /\ labelFile'[s] = job[j].got
      /\ \A t \in Shipments \ {s} : labelFile'[t] = labelFile[t]
  BY <1>3, <1>4, <1>6 DEF TypeOK
<1>9. /\ status' \in [Shipments -> ShipmentStatus]
      /\ \A t \in Shipments \ {s} : status'[t] = status[t]
      /\ beside \subseteq beside' /\ beside' \subseteq Shipments
      /\ \/ job[j].sawVoid /\ status'[s] = status[s]
         \/ /\ status'[s] = "LABELLED" /\ TakesUpAgain(s)
            /\ status[s] # "VOIDED" \/ orderOf[s] \in overlapped
  BY <1>1, <1>2, <1>4, AdvanceFacts
<1>10. s \notin doubled => consignment[s] # 0 /\ job[j].got = consignment[s]
  BY <1>1, <1>2, <1>3 DEF RecordFits
<1>11. ASSUME NEW i \in JobsOf(s) \ {j}
       PROVE  JobFits(i)'
  <2>1. /\ job[i].shipment = s /\ RecordFits(job[i])
        /\ s \notin doubled => job[i].at = "queued"
    BY <1>1, <1>2, OthersWait DEF JobFits
  <2>2. status'[s] = "VOIDED" => status[s] = "VOIDED"
    BY <1>9
  <2> QED
    BY <1>4, <1>5, <1>7, <2>1, <2>2 DEF JobFits, RecordFits
<1>12. RowFits(s)'
  <2>1. SUFFICES ASSUME s \notin doubled'
                 PROVE  RowFits(s)'
    BY DEF RowFits
  <2>2. RowFits(s) /\ s \notin doubled /\ \A i \in JobsOf(s) \ {j} : job[i].at = "queued"
    BY <1>1, <1>2, <1>4, <2>1, OthersWait
  <2>3. \A i \in JobsOf(s)' : ~ Running(i)'
    BY <1>7, <2>2 DEF Running
  <2>4. made'[s] <= lost'[s] + 1 /\ consignment'[s] # 0 /\ labelFile'[s] = consignment'[s]
    BY <1>4, <1>8, <1>10, <2>2 DEF RowFits
  <2> QED
    BY <2>3, <2>4 DEF RowFits
<1>13. UnderWay(s)'
  <2>1. SUFFICES ASSUME s \notin orphaned', status'[s] \in {"PENDING", "SUBMITTED"}
                 PROVE  UnderWay(s)'
    BY DEF UnderWay
  <2>2. job[j].sawVoid /\ status'[s] = status[s]
    BY <1>9, <2>1
  <2>3. UnderWay(s) /\ ~ WillTell(j)
    BY <1>1, <1>2, <2>2, OthersWait DEF WillTell
  <2>4. \A i \in JobsOf(s) \ {j} : WillTell(i)' <=> WillTell(i)
    BY <1>7 DEF WillTell
  <2> QED
    BY <1>4, <1>5, <1>7, <2>1, <2>2, <2>3, <2>4 DEF UnderWay
<1>14. \/ status'[s] = status[s]
       \/ /\ status'[s] \in {"SUBMITTED", "LABELLED", "FAILED"}
          /\ status[s] # "VOIDED" \/ orderOf[s] \in overlapped
          /\ status'[s] = "LABELLED" \/ status[s] # "LABELLED" \/ s \in doubled
          /\ status'[s] = "FAILED" \/ TakesUpAgain(s)
  BY <1>9
<1>15. /\ consignment' \in [Shipments -> 0..MaxConsignments]
       /\ made' \in [Shipments -> 0..MaxConsignments]
       /\ lost' \in [Shipments -> Nat]
       /\ doubled \subseteq doubled' /\ doubled' \subseteq doubled \cup {s}
       /\ orphaned \subseteq orphaned' /\ orphaned' \subseteq orphaned \cup {s}
       /\ \A t \in Shipments \ {s} :
            /\ status'[t] = status[t] /\ consignment'[t] = consignment[t]
            /\ labelFile'[t] = labelFile[t] /\ made'[t] = made[t] /\ lost'[t] = lost[t]
  BY <1>3, <1>4, <1>8, <1>9 DEF TypeOK
<1> QED
  BY <1>2, <1>3, <1>4, <1>8, <1>9, <1>11, <1>12, <1>13, <1>14, <1>15, JobStepInv

LEMMA RecordFailureInv ==
    ASSUME LabelsAssumption, LabelsInv, NEW j \in Jobs, RecordFailure(j)
    PROVE  LabelsInv'
<1>1. job[j].at = "failing" /\ job[j].at # "free" /\ Running(j)
  BY DEF RecordFailure, Running
<1>2. PICK s \in Shipments : s = job[j].shipment
  BY <1>1, WorkingJob
<1>3. /\ job[j] \in RealJob /\ RecordFits(job[j]) /\ TypeOK /\ j \in JobsOf(s)
      /\ NoJob \in JobState /\ NoJob.at = "free" /\ NoJob.shipment = Null
  BY <1>1, <1>2, WorkingJob
<1>4. /\ status' = IF job[j].final THEN [status EXCEPT ![s] = "FAILED"] ELSE status
      /\ Put(j, Ended(j, job[j].final))
      /\ UNCHANGED <<consignment, labelFile, made, lost, beside, doubled, orphaned>>
      /\ UNCHANGED unchangedByJobs
  BY <1>2 DEF RecordFailure, carrierVars
<1>5. UNCHANGED <<orderOf, overlapped, inFlight>>
  BY <1>4 DEF unchangedByJobs
<1>6. job[j].final \in BOOLEAN /\ (~ job[j].final => job[j].attempt < job[j].max)
  BY <1>1, <1>3, JobFields DEF RecordFits
<1>7. CASE ~ job[j].final
  <2>1. status' = status /\ lost' = lost /\ orphaned' = orphaned
    BY <1>4, <1>7
  <2> QED
    BY <1>1, <1>2, <1>4, <1>6, <1>7, <2>1, EndedInv
<1>8. CASE job[j].final
  <2>1. Put(j, NoJob)
    BY <1>4, <1>8 DEF Ended
  <2>2. /\ status' \in [Shipments -> ShipmentStatus] /\ status'[s] = "FAILED"
        /\ \A t \in Shipments \ {s} : status'[t] = status[t]
    BY <1>3, <1>4, <1>8 DEF TypeOK, ShipmentStatus
  <2>3. /\ \A i \in JobsOf(s) \ {j} : i \in JobsOf(s)' /\ job'[i] = job[i]
        /\ \A i \in JobsOf(s)' : i \in JobsOf(s) \ {j}
    BY <1>3, <2>1, JobsAfter
  <2>4. /\ status[s] # "VOIDED" \/ orderOf[s] \in overlapped
        /\ status[s] # "LABELLED" \/ s \in doubled
    BY <1>1, <1>2, <1>3 DEF RecordFits
  <2>5. ASSUME NEW i \in JobsOf(s) \ {j}
        PROVE  JobFits(i)'
    <3>1. job[i].shipment = s /\ RecordFits(job[i])
      BY <1>1, <1>2, OthersWait DEF JobFits
    <3> QED
      BY <1>4, <1>5, <2>2, <2>3, <3>1 DEF JobFits, RecordFits
  <2>6. RowFits(s)'
    <3>1. SUFFICES ASSUME s \notin doubled'
                   PROVE  RowFits(s)'
      BY DEF RowFits
    <3>2. RowFits(s) /\ s \notin doubled /\ \A i \in JobsOf(s) \ {j} : job[i].at = "queued"
      BY <1>1, <1>2, <1>4, <3>1, OthersWait
    <3>3. \A i \in JobsOf(s)' : ~ Running(i)'
      BY <2>3, <3>2 DEF Running
    <3>4. /\ made'[s] <= lost'[s] + 1
          /\ consignment'[s] = 0 => made'[s] <= lost'[s]
      <4>1. \A i \in JobsOf(s) : job[i].at # "recording"
        BY <1>1, <3>2
      <4> QED
        BY <1>4, <3>2, <4>1 DEF RowFits
    <3> QED
      BY <2>2, <3>3, <3>4 DEF RowFits
  <2>7. UnderWay(s)'
    BY <2>2 DEF UnderWay
  <2>8. \/ status'[s] = status[s]
        \/ /\ status'[s] \in {"SUBMITTED", "LABELLED", "FAILED"}
           /\ status[s] # "VOIDED" \/ orderOf[s] \in overlapped
           /\ status'[s] = "LABELLED" \/ status[s] # "LABELLED" \/ s \in doubled
           /\ status'[s] = "FAILED" \/ TakesUpAgain(s)
    BY <2>2, <2>4
  <2>9. /\ consignment' \in [Shipments -> 0..MaxConsignments]
        /\ labelFile' \in [Shipments -> 0..MaxConsignments]
        /\ made' \in [Shipments -> 0..MaxConsignments]
        /\ lost' \in [Shipments -> Nat]
        /\ beside \subseteq beside' /\ beside' \subseteq Shipments
        /\ doubled \subseteq doubled' /\ doubled' \subseteq doubled \cup {s}
        /\ orphaned \subseteq orphaned' /\ orphaned' \subseteq orphaned \cup {s}
        /\ \A t \in Shipments \ {s} :
             /\ status'[t] = status[t] /\ consignment'[t] = consignment[t]
             /\ labelFile'[t] = labelFile[t] /\ made'[t] = made[t] /\ lost'[t] = lost[t]
    BY <1>3, <1>4, <2>2 DEF TypeOK
  <2> QED
    BY <1>2, <1>3, <1>4, <2>1, <2>2, <2>5, <2>6, <2>7, <2>8, <2>9, JobStepInv
<1> QED
  BY <1>7, <1>8

-----------------------------------------------------------------------------
LEMMA IdleInv ==
    ASSUME LabelsInv, UNCHANGED vars
    PROVE  LabelsInv'
<1>1. UNCHANGED <<orderOf, status, consignment, labelFile, orderStatus, dispatchedOn, made,
                  lost, inFlight, job, beside, doubled, orphaned, overlapped>>
  BY DEF vars, rowVars, orderVars, carrierVars
<1>2. TypeOK' /\ RowsOwned' /\ RequestsOwned' /\ JobsOwned' /\ DispatchesOwned'
  BY <1>1 DEF LabelsInv, TypeOK, RowsOwned, RequestsOwned, JobsOwned, DispatchesOwned
<1>3. OrdersAlone'
  BY <1>1 DEF LabelsInv, OrdersAlone, RequestAlone, OrderFits, Outside, Of, Live, WorksOn,
              IsIdle
<1>4. JobsFit'
  BY <1>1 DEF LabelsInv, JobsFit, JobFits, RecordFits, RowFits, UnderWay, JobsOf, Running,
              WillTell
<1> QED
  BY <1>2, <1>3, <1>4 DEF LabelsInv

LEMMA NextInv ==
    ASSUME LabelsAssumption, LabelsInv, [Next]_vars
    PROVE  LabelsInv'
<1>1. CASE UNCHANGED vars
  BY <1>1, IdleInv
<1>2. CASE \E h \in Handlers : RequestStep(h) \/ Dispatch(h)
  <2>1. PICK h \in Handlers : RequestStep(h) \/ Dispatch(h)
    BY <1>2
  <2>2. CASE RequestStep(h)
    BY <2>2, ReadsInv, CreateInv, VoidInv, RetryInv, StatusInv, AbortInv DEF RequestStep
  <2>3. CASE Dispatch(h)
    BY <2>3, DispatchInv
  <2> QED
    BY <2>1, <2>2, <2>3
<1>3. CASE \E j \in Jobs : JobStep(j) \/ JobDies(j)
  <2>1. PICK j \in Jobs : JobStep(j) \/ JobDies(j)
    BY <1>3
  <2>2. CASE JobStep(j)
    BY <2>2, StartAttemptInv, AcceptedInv, RecordConsignmentInv, FetchLabelInv, FileLabelInv,
       FailInv, RecordFailureInv, UnrecordedInv DEF JobStep
  <2>3. CASE JobDies(j)
    BY <2>3, JobDiesInv
  <2> QED
    BY <2>1, <2>2, <2>3
<1> QED
  BY <1>1, <1>2, <1>3 DEF Next

-----------------------------------------------------------------------------
(* The theorems.                                                           *)

\* Every state the label requests, the jobs and the status route can reach has
\* the invariant: references hold, what the requests of an order that has had no
\* two writers at once have read is still so, and the jobs fit their shipments.
THEOREM InvariantHolds == Spec => []LabelsInv
<1>1. Init => LabelsInv
  BY LabelsAssumption, InitLabelsInv
<1>2. LabelsInv /\ [Next]_vars => LabelsInv'
  BY LabelsAssumption, NextInv
<1> QED
  BY <1>1, <1>2, PTL DEF Spec

\* The rows, the requests and the jobs keep their types: in particular no job
\* is tried more often than it may.
THEOREM TypeCorrect == Spec => []TypeOK
<1>1. LabelsInv => TypeOK
  BY DEF LabelsInv
<1> QED
  BY <1>1, InvariantHolds, PTL

\* processLabelJob asks the carrier once for a shipment, and once more for each
\* answer that was lost before it was recorded, through any retries, replays,
\* voids and crashes, while one job at a time is at work.
THEOREM ConsignmentsAreAccounted == Spec => []OneConsignmentPerShipment
<1>1. LabelsInv => OneConsignmentPerShipment
  <2>1. SUFFICES ASSUME LabelsInv, NEW s \in Shipments \ doubled
                 PROVE  made[s] <= 1 + lost[s]
    BY DEF OneConsignmentPerShipment
  <2>2. made[s] <= lost[s] + 1 /\ made[s] \in Int /\ lost[s] \in Int
    BY <2>1 DEF LabelsInv, JobsFit, RowFits, TypeOK
  <2> QED
    BY <2>2
<1> QED
  BY <1>1, InvariantHolds, PTL

\* What processLabelJob files is the label of the consignment the row names.
THEOREM LabelsMatchTheirConsignment == Spec => []LabelIsOfItsConsignment
<1>1. LabelsInv => LabelIsOfItsConsignment
  BY DEF LabelsInv, JobsFit, RowFits, LabelIsOfItsConsignment
<1> QED
  BY <1>1, InvariantHolds, PTL

\* voidOpenShipmentsForOrder, with the checks of the label requests, leaves no
\* label of a cancelled or returned order open, if no two of its writers
\* overlapped.
THEOREM NothingLeftOutsideProduction == Spec => []NoLabelOutsideProduction
<1>1. LabelsInv => NoLabelOutsideProduction
  BY DEF LabelsInv, OrdersAlone, OrderFits, Outside, NoLabelOutsideProduction
<1> QED
  BY <1>1, InvariantHolds, PTL

\* The label resolveDispatchTracking took stays a label, if no two writers of
\* the order overlapped, nor two jobs.
THEOREM DispatchesKeepTheirLabel == Spec => []DispatchedOnItsLabel
<1>1. LabelsInv => DispatchedOnItsLabel
  BY DEF LabelsInv, OrdersAlone, OrderFits, DispatchedOnItsLabel
<1> QED
  BY <1>1, InvariantHolds, PTL

\* A shipment that says it is under way is some job's, or is about to be: every
\* way an attempt ends, short of a crash or an error that is swallowed, goes on
\* or says FAILED.
THEOREM NothingIsLeftWaiting == Spec => []UnderWayHasJob
<1>1. LabelsInv => UnderWayHasJob
  <2>1. SUFFICES ASSUME LabelsInv, NEW s \in Shipments \ orphaned,
                        status[s] \in {"PENDING", "SUBMITTED"}
                 PROVE  \/ JobsOf(s) # {}
                        \/ \E h \in Handlers :
                              inFlight[h].at = "dispatch" /\ inFlight[h].shipment = s
    BY DEF UnderWayHasJob
  <2> QED
    BY <2>1 DEF LabelsInv, JobsFit, UnderWay
<1> QED
  BY <1>1, InvariantHolds, PTL

\* createShipment's promise of one live shipment per order, with its exception:
\* a failed one taken up again beside another.
THEOREM OneLiveAtATime == Spec => []OneLiveShipment
<1>1. ASSUME LabelsInv
      PROVE  OneLiveShipment
  <2>1. ASSUME NEW o \in Orders \ overlapped
        PROVE  Cardinality(Live(o) \ beside) <= 1
    <3>1. \A s, t \in Live(o) \ beside : s = t
      BY <1>1 DEF LabelsInv, OrdersAlone, OrderFits
    <3>2. CASE Live(o) \ beside = {}
      <4>1. Cardinality(Live(o) \ beside) = 0
        BY <3>2, FS_EmptySet, Zenon
      <4> QED
        BY <4>1
    <3>3. CASE Live(o) \ beside # {}
      <4>1. PICK s : Live(o) \ beside = {s}
        BY <3>1, <3>3
      <4>2. Cardinality({s}) = 1
        BY FS_Singleton
      <4>3. Cardinality(Live(o) \ beside) = 1
        BY <4>1, <4>2, Zenon
      <4> QED
        BY <4>3
    <3> QED
      BY <3>2, <3>3
  <2> QED
    BY <2>1 DEF OneLiveShipment
<1> QED
  BY <1>1, InvariantHolds, PTL

\* What a step does to a status VOIDED: only a replay, and a job that writes what
\* it was told, take it away, and each of them read the row before it was voided.
LEMMA StepKeepsVoids ==
    ASSUME LabelsAssumption, LabelsInv, [Next]_vars, NEW s \in Shipments,
           status[s] = "VOIDED", status'[s] # "VOIDED"
    PROVE  orderOf[s] \in overlapped
<1>1. TypeOK /\ status \in [Shipments -> ShipmentStatus]
  BY DEF LabelsInv, TypeOK
<1>2. status' # status
  OBVIOUS
<1>3. Next
  BY <1>2 DEF vars, rowVars
<1>4. CASE \E h \in Handlers : RequestStep(h) \/ Dispatch(h)
  <2>1. PICK h \in Handlers : RequestStep(h) \/ Dispatch(h)
    BY <1>4
  <2>2. ASSUME NEW t \in Shipments, CreateShipment(h, t)
        PROVE  FALSE
    BY <1>1, <2>2 DEF CreateShipment
  <2>3. CASE VoidShipment(h)
    BY <1>1, <2>3 DEF VoidShipment
  <2>4. CASE CommitStatus(h)
    <3>1. \/ status' = status
          \/ \E S : status' = [t \in Shipments |-> IF t \in S THEN "VOIDED" ELSE status[t]]
      BY <2>4 DEF CommitStatus, VoidOpenShipments
    <3> QED
      BY <1>1, <3>1
  <2>5. CASE RetryShipment(h)
    <3>1. PICK o \in Orders : o = inFlight[h].order /\ WorksOn(h, o)
      BY <1>1, <2>5, InFlightType DEF WorksOn, IsIdle, RetryShipment
    <3>2. inFlight[h].at = "retry" /\ inFlight[h].shipment = s
      BY <1>1, <2>5 DEF RetryShipment
    <3>3. orderOf[s] = o
      BY <3>1, <3>2 DEF LabelsInv, RequestsOwned
    <3>4. o \notin overlapped => status[s] # "VOIDED"
      BY <3>1, <3>2 DEF LabelsInv, OrdersAlone, RequestAlone
    <3> QED
      BY <3>3, <3>4
  <2>6. CASE \/ \E o \in Orders : ReadForCreate(h, o)
             \/ \E t \in Shipments : ReadForVoid(h, t) \/ ReadForRetry(h, t)
             \/ \E o \in Orders, to \in OrderMoves, l \in Shipments \cup {Null} :
                   ReadForStatus(h, o, to, l)
             \/ Abort(h)
             \/ Dispatch(h)
    <3>1. status' = status
      BY <2>6 DEF ReadForCreate, ReadForVoid, ReadForRetry, ReadForStatus, Abort, Dispatch,
                  EnqueueLabelJob, RunInline, EnqueueUnanswered, FreshJobs, rowVars
    <3> QED
      BY <1>2, <3>1
  <2> QED
    BY <2>1, <2>2, <2>3, <2>4, <2>5, <2>6 DEF RequestStep
<1>5. CASE \E j \in Jobs : JobStep(j) \/ JobDies(j)
  <2>1. PICK j \in Jobs : JobStep(j) \/ JobDies(j)
    BY <1>5
  <2>2. CASE RecordConsignment(j) \/ FileLabel(j)
    <3>1. /\ job[j].at \in {"recording", "filing"} /\ job[j].at # "free"
          /\ Advance(j, "SUBMITTED") \/ Advance(j, "LABELLED")
      BY <2>2 DEF RecordConsignment, FileLabel
    <3>2. PICK t \in Shipments : t = job[j].shipment
      BY <3>1, WorkingJob
    <3>3. /\ \A u \in Shipments \ {t} : status'[u] = status[u]
          /\ status'[t] = status[t] \/ status[t] # "VOIDED" \/ orderOf[t] \in overlapped
      BY <3>1, <3>2, AdvanceFacts
    <3> QED
      BY <3>3
  <2>3. CASE RecordFailure(j)
    <3>1. job[j].at = "failing" /\ job[j].at # "free"
      BY <2>3 DEF RecordFailure
    <3>2. job[j].shipment = s
      BY <1>1, <2>3 DEF RecordFailure
    <3>3. RecordFits(job[j])
      BY <3>1, WorkingJob
    <3> QED
      BY <3>1, <3>2, <3>3 DEF RecordFits
  <2>4. CASE \/ StartAttempt(j) \/ Accepted(j) \/ FetchLabel(j)
             \/ \E terminal \in BOOLEAN : CarrierFails(j, terminal)
             \/ TransactionFails(j) \/ FailureUnrecorded(j) \/ ReadFails(j) \/ JobDies(j)
    <3>1. status' = status
      BY <2>4 DEF StartAttempt, Accepted, FetchLabel, CarrierFails, TransactionFails,
                  FailureUnrecorded, ReadFails, JobDies
    <3> QED
      BY <1>2, <3>1
  <2> QED
    BY <2>1, <2>2, <2>3, <2>4 DEF JobStep
<1> QED
  BY <1>3, <1>4, <1>5 DEF Next

\* What voidShipment and voidOpenShipmentsForOrder set aside stays so, unless a
\* job or a replay had read the row before.
THEOREM VoidsAreKept == Spec => VoidedStaysVoided
<1>1. ASSUME LabelsInv, [Next]_vars
      PROVE  [\A s \in Shipments :
                status[s] = "VOIDED" /\ status'[s] # "VOIDED" =>
                    orderOf[s] \in overlapped]_vars
  BY <1>1, LabelsAssumption, StepKeepsVoids
<1> QED
  BY <1>1, InvariantHolds, PTL DEF Spec, VoidedStaysVoided
=============================================================================
