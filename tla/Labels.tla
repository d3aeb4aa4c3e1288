------------------------------- MODULE Labels -------------------------------
(***************************************************************************)
(* Labels: the requests staff make about an order's shipments, the jobs    *)
(* that carry them to the carrier, and the order's own moves, which void   *)
(* labels.                                                                 *)
(*                                                                         *)
(* Three kinds of actor write one shipment row.  A request reads the order *)
(* with its shipments, checks what it read, and writes later; a job asks   *)
(* the carrier over the network and then writes what it was told, reading  *)
(* the row's status a moment before each write; an order leaving           *)
(* production voids whatever it holds.  Nothing makes one wait for         *)
(* another.  A job is retried by the queue, its worker may die, and the    *)
(* carrier's label endpoint takes no idempotency key.                      *)
(***************************************************************************)
EXTENDS OrderStatus, FiniteSets

CONSTANTS
    Null,            \* no value
    Orders,          \* orders that have reached production
    Shipments,       \* shipment rows that may come to exist
    Handlers,        \* server request slots
    Jobs,            \* slots for label jobs, queued or inline, not yet over
    Attempts,        \* SHIPPING_RETRY.attempts
    OrderMoves,      \* the statuses orders move to here
    MaxConsignments  \* bound on what the carrier makes for one shipment

ASSUME LabelsAssumption ==
    /\ Attempts \in Nat \ {0}
    /\ OrderMoves \subseteq OrderStatuses
    /\ MaxConsignments \in Nat \ {0}
    /\ Null \notin Orders \cup Shipments \cup OrderStatuses

ShipmentStatus == {"NONE", "PENDING", "SUBMITTED", "LABELLED", "FAILED", "VOIDED"}

LIVE_STATUSES == {"PENDING", "SUBMITTED", "LABELLED"}

OPEN_SHIPMENT_STATUSES == LIVE_STATUSES \cup {"FAILED"}

VARIABLES
    orderStatus,     \* orders.status
    dispatchedOn,    \* the label orders.trackingNumber was taken from
    orderOf,         \* shipments.orderId
    status,          \* shipments.status; "NONE" until the row exists
    consignment,     \* shipments.consignmentId, 0 while there is none
    labelFile,       \* shipments.labelFileKey: the consignment it is for
    inFlight,        \* what each busy handler is doing and has read
    job,             \* the label jobs: the queue's entry and what a run carries
    made,            \* the carrier's side: consignments made per shipment
    lost,            \* history: answers of the carrier that were never recorded
    beside,          \* history: shipments taken up again beside a live one
    doubled,         \* history: shipments two jobs worked on at once
    orphaned,        \* history: shipments whose job was lost, or never made
    overlapped       \* history: orders whose labels two writers wrote at once

rowVars == <<orderOf, status, consignment, labelFile>>
orderVars == <<orderStatus, dispatchedOn>>
carrierVars == <<made, lost>>
vars == <<rowVars, orderVars, carrierVars, inFlight, job, beside, doubled,
          orphaned, overlapped>>

-----------------------------------------------------------------------------
(* Requests in flight: createShipment, voidShipment, retryShipment, and the *)
(* status route as far as labels go.  After a create or a replay the        *)
(* handler still has to dispatch the job.                                   *)

Idle == [at |-> "idle"]

Request ==
    {Idle}
    \cup [at : {"create"}, order : Orders]
    \cup [at : {"void"}, order : Orders, shipment : Shipments]
    \cup [at : {"retry"}, order : Orders, shipment : Shipments, resume : BOOLEAN]
    \cup [at : {"dispatch"}, order : Orders, shipment : Shipments]
    \cup [at : {"status"}, order : Orders, to : OrderStatuses,
          label : Shipments \cup {Null}]

IsIdle(h) == inFlight[h].at = "idle"

WorksOn(h, o) == ~ IsIdle(h) /\ inFlight[h].order = o

\* A handler takes up a request about o, beside another one or not.
Start(h, o, req) ==
    /\ IsIdle(h)
    /\ inFlight' = [inFlight EXCEPT ![h] = req]
    /\ overlapped' = IF \E g \in Handlers : WorksOn(g, o)
                     THEN overlapped \cup {o} ELSE overlapped

Go(h, req) == inFlight' = [inFlight EXCEPT ![h] = req]

Finish(h) == Go(h, Idle)

-----------------------------------------------------------------------------
(* Jobs.  A job waits in the queue, or between attempts, at "queued"; a run *)
(* of it goes through the phases of processLabelJob.  Each of its three     *)
(* transactions reads the row's status and then updates it, and another     *)
(* writer may commit between the two.  What leads to a transaction (the     *)
(* carrier's answer, a download, an error) and its read are one step:       *)
(* nothing else is seen to change between them.                             *)

NoJob == [at |-> "free", shipment |-> Null, attempt |-> 0, max |-> 0,
          got |-> 0, sawVoid |-> FALSE, final |-> FALSE]

\* Waiting; asking the carrier; having read the row to record the consignment;
\* waiting for the label; having read the row to file the label; having read
\* it to record a failure.
JobPhase == {"queued", "submit", "recording", "fetch", "filing", "failing"}

JobState ==
    {NoJob} \cup
    [at : JobPhase, shipment : Shipments, attempt : 1..Attempts, max : 1..Attempts,
     got : 0..MaxConsignments, sawVoid : BOOLEAN, final : BOOLEAN]

NewJob(s, max) ==
    [at |-> "queued", shipment |-> s, attempt |-> 1, max |-> max, got |-> 0,
     sawVoid |-> FALSE, final |-> FALSE]

\* The jobs about s that are not over, and whether a job is being run.
JobsOf(s) == {j \in Jobs : job[j].shipment = s}

Running(j) == job[j].at \notin {"free", "queued"}

\* A job that has read the row of s and is about to write it.
BetweenReadAndWrite(s) ==
    \E j \in JobsOf(s) : job[j].at \in {"recording", "filing", "failing"}

\* The rows of S are voided: an overlap when a job has read one before.
Voiding(S) ==
    IF \E s \in S : BetweenReadAndWrite(s)
    THEN overlapped \cup {orderOf[s] : s \in S} ELSE overlapped

TypeOK ==
    /\ orderStatus \in [Orders -> OrderStatuses]
    /\ dispatchedOn \in [Orders -> Shipments \cup {Null}]
    /\ orderOf \in [Shipments -> Orders \cup {Null}]
    /\ status \in [Shipments -> ShipmentStatus]
    /\ consignment \in [Shipments -> 0..MaxConsignments]
    /\ labelFile \in [Shipments -> 0..MaxConsignments]
    /\ inFlight \in [Handlers -> Request]
    /\ job \in [Jobs -> JobState]
    /\ made \in [Shipments -> 0..MaxConsignments]
    /\ lost \in [Shipments -> Nat]
    /\ beside \subseteq Shipments
    /\ doubled \subseteq Shipments
    /\ orphaned \subseteq Shipments
    /\ overlapped \subseteq Orders

-----------------------------------------------------------------------------
(* createShipment.                                                         *)

Of(o) == {s \in Shipments : status[s] # "NONE" /\ orderOf[s] = o}

Live(o) == {s \in Of(o) : status[s] \in LIVE_STATUSES}

\* Mistaken variant: only a label that is ready stands in the way.
ReadForCreateUnlabelled(h, o) ==
    /\ orderStatus[o] = "PROCESSING"
    /\ \A s \in Of(o) : status[s] # "LABELLED"
    /\ Start(h, o, [at |-> "create", order |-> o])
    /\ UNCHANGED <<rowVars, orderVars, carrierVars, job, beside, doubled, orphaned>>

\* The checks on the order and its shipments as read.  An idempotency key only
\* refuses more: one used before is answered with the shipment it made.
ReadForCreate(h, o) ==
    /\ orderStatus[o] = "PROCESSING"
    /\ Live(o) = {}
    /\ Start(h, o, [at |-> "create", order |-> o])
    /\ UNCHANGED <<rowVars, orderVars, carrierVars, job, beside, doubled, orphaned>>

\* The transaction that writes the row.
CreateShipment(h, s) ==
    LET req == inFlight[h]
    IN  /\ req.at = "create"
        /\ status[s] = "NONE"
        /\ status' = [status EXCEPT ![s] = "PENDING"]
        /\ orderOf' = [orderOf EXCEPT ![s] = req.order]
        /\ Go(h, [at |-> "dispatch", order |-> req.order, shipment |-> s])
        /\ UNCHANGED <<consignment, labelFile, orderVars, carrierVars, job,
                       beside, doubled, orphaned, overlapped>>

-----------------------------------------------------------------------------
(* dispatchLabelJob.  The queue's entry has Attempts tries; a job run in    *)
(* the server's own process has one.  When Redis takes the job but its      *)
(* answer is lost, enqueue throws, and the job is run inline as well.       *)

FreshJobs(h, js, tries) ==
    /\ \A j \in js : job[j] = NoJob
    /\ job' = [j \in Jobs |->
                 IF j \in js THEN NewJob(inFlight[h].shipment, tries[j]) ELSE job[j]]
    /\ Finish(h)
    /\ UNCHANGED <<rowVars, orderVars, carrierVars, beside, doubled, orphaned,
                   overlapped>>

EnqueueLabelJob(h, j) ==
    /\ inFlight[h].at = "dispatch"
    /\ FreshJobs(h, {j}, [i \in {j} |-> Attempts])

RunInline(h, j) ==
    /\ inFlight[h].at = "dispatch"
    /\ FreshJobs(h, {j}, [i \in {j} |-> 1])

EnqueueUnanswered(h, j, i) ==
    /\ i # j
    /\ inFlight[h].at = "dispatch"
    /\ FreshJobs(h, {i, j}, [l \in {i, j} |-> IF l = j THEN Attempts ELSE 1])

\* A request that dies: before its commit it leaves nothing, after it a row
\* that no job will ever take up.
Abort(h) ==
    /\ ~ IsIdle(h)
    /\ orphaned' = IF inFlight[h].at = "dispatch"
                   THEN orphaned \cup {inFlight[h].shipment} ELSE orphaned
    /\ Finish(h)
    /\ UNCHANGED <<rowVars, orderVars, carrierVars, job, beside, doubled, overlapped>>

-----------------------------------------------------------------------------
(* voidShipment and retryShipment.                                         *)

\* Mistaken variant: a label can be voided at any time.
ReadForVoidAnyTime(h, s) ==
    LET o == orderOf[s]
    IN  /\ status[s] \notin {"NONE", "VOIDED"}
        /\ Start(h, o, [at |-> "void", order |-> o, shipment |-> s])
        /\ UNCHANGED <<rowVars, orderVars, carrierVars, job, beside, doubled, orphaned>>

\* Refused once the order has gone out on this label, by what was read.
ReadForVoid(h, s) ==
    LET o == orderOf[s]
    IN  /\ status[s] \notin {"NONE", "VOIDED"}
        /\ ~ (/\ orderStatus[o] \in {"DISPATCHED", "DELIVERED"}
              /\ status[s] = "LABELLED")
        /\ Start(h, o, [at |-> "void", order |-> o, shipment |-> s])
        /\ UNCHANGED <<rowVars, orderVars, carrierVars, job, beside, doubled, orphaned>>

VoidShipment(h) ==
    LET s == inFlight[h].shipment
    IN  /\ inFlight[h].at = "void"
        /\ status' = [status EXCEPT ![s] = "VOIDED"]
        /\ overlapped' = Voiding({s})
        /\ Finish(h)
        /\ UNCHANGED <<orderOf, consignment, labelFile, orderVars,
                       carrierVars, job, beside, doubled, orphaned>>

\* A shipment that is not live becomes so: noted when its order has another, or
\* one on the way.
TakesUpAgain(s) ==
    LET o == orderOf[s]
        another == \/ Live(o) # {}
                   \/ \E h \in Handlers : inFlight[h].at = "create" /\ inFlight[h].order = o
    IN  beside' = IF s \notin Live(o) /\ another THEN beside \cup {s} ELSE beside

ReadForRetry(h, s) ==
    LET o == orderOf[s]
    IN  /\ status[s] = "FAILED"
        /\ orderStatus[o] = "PROCESSING"
        /\ Start(h, o, [at |-> "retry", order |-> o, shipment |-> s,
                        resume |-> consignment[s] # 0])
        /\ UNCHANGED <<rowVars, orderVars, carrierVars, job, beside, doubled, orphaned>>

\* The update is by id: whatever the row has become, it is under way again.
RetryShipment(h) ==
    LET req == inFlight[h]
        s == req.shipment
    IN  /\ req.at = "retry"
        /\ status' = [status EXCEPT ![s] = IF req.resume THEN "SUBMITTED"
                                                        ELSE "PENDING"]
        /\ TakesUpAgain(s)
        /\ Go(h, [at |-> "dispatch", order |-> req.order, shipment |-> s])
        /\ UNCHANGED <<orderOf, consignment, labelFile, orderVars,
                       carrierVars, job, doubled, orphaned, overlapped>>

-----------------------------------------------------------------------------
(* The status route, as far as labels go.                                  *)

\* A dispatch goes out on a label of the order, or on a carrier the operator
\* typed (Null).
Dispatchable(o) == {s \in Of(o) : status[s] = "LABELLED"} \cup {Null}

ReadForStatus(h, o, to, label) ==
    /\ CanTransition(orderStatus[o], to)
    /\ label \in IF to = "DISPATCHED" THEN Dispatchable(o) ELSE {Null}
    /\ Start(h, o, [at |-> "status", order |-> o, to |-> to, label |-> label])
    /\ UNCHANGED <<rowVars, orderVars, carrierVars, job, beside, doubled, orphaned>>

\* Mistaken variant: a failed label is left open when its order is cancelled.
VoidLiveShipments(o) ==
    /\ status' = [s \in Shipments |->
                     IF s \in Live(o) THEN "VOIDED" ELSE status[s]]
    /\ overlapped' = Voiding(Live(o))

\* voidOpenShipmentsForOrder, in the transaction of the status.
VoidOpenShipments(o) ==
    LET open == {s \in Of(o) : status[s] \in OPEN_SHIPMENT_STATUSES}
    IN  /\ status' = [s \in Shipments |->
                         IF s \in open THEN "VOIDED" ELSE status[s]]
        /\ overlapped' = Voiding(open)

CommitStatus(h) ==
    LET req == inFlight[h]
        o == req.order
    IN  /\ req.at = "status"
        /\ orderStatus' = [orderStatus EXCEPT ![o] = req.to]
        /\ dispatchedOn' = IF req.to = "DISPATCHED"
                           THEN [dispatchedOn EXCEPT ![o] = req.label]
                           ELSE dispatchedOn
        /\ IF req.to \in {"CANCELLED", "CHANGES_REQUESTED"}
           THEN VoidOpenShipments(o)
           ELSE UNCHANGED <<status, overlapped>>
        /\ Finish(h)
        /\ UNCHANGED <<orderOf, consignment, labelFile, carrierVars, job,
                       beside, doubled, orphaned>>

-----------------------------------------------------------------------------
(* processLabelJob.                                                        *)

unchangedByJobs == <<orderVars, orderOf, inFlight, overlapped>>

Put(j, to) == job' = [job EXCEPT ![j] = to]

Goto(j, phase) ==
    [job[j] EXCEPT !.at = phase, !.got = 0, !.sawVoid = FALSE, !.final = FALSE]

\* Mistaken variant: every attempt asks the carrier.
StartAttemptAfresh(j) ==
    LET s == job[j].shipment
    IN  /\ job[j].at = "queued"
        /\ Put(j, IF status[s] \in {"LABELLED", "VOIDED"} THEN NoJob
                  ELSE Goto(j, "submit"))
        /\ doubled' = IF \E i \in JobsOf(s) : Running(i)
                      THEN doubled \cup {s} ELSE doubled
        /\ UNCHANGED <<status, consignment, labelFile, carrierVars, beside,
                       orphaned, unchangedByJobs>>

\* The read that opens an attempt.  The consignment id it sees decides whether
\* the carrier is asked for a label at all.
StartAttempt(j) ==
    LET s == job[j].shipment
    IN  /\ job[j].at = "queued"
        /\ Put(j, IF status[s] \in {"LABELLED", "VOIDED"} THEN NoJob
                  ELSE IF consignment[s] = 0 THEN Goto(j, "submit")
                  ELSE [Goto(j, "fetch") EXCEPT !.got = consignment[s]])
        /\ doubled' = IF \E i \in JobsOf(s) : Running(i)
                      THEN doubled \cup {s} ELSE doubled
        /\ UNCHANGED <<status, consignment, labelFile, carrierVars, beside,
                       orphaned, unchangedByJobs>>

SeesVoid(j) == status[job[j].shipment] = "VOIDED"

\* carrier.submitLabel accepts, and the answer arrives.
Accepted(j) ==
    LET s == job[j].shipment
    IN  /\ job[j].at = "submit"
        /\ made[s] < MaxConsignments
        /\ made' = [made EXCEPT ![s] = @ + 1]
        /\ Put(j, [Goto(j, "recording") EXCEPT !.got = made[s] + 1,
                                               !.sawVoid = SeesVoid(j)])
        /\ UNCHANGED <<status, consignment, labelFile, lost, beside, doubled, orphaned,
                       unchangedByJobs>>

\* Mistaken variant: the status advances whatever became of the shipment.
AdvanceRegardless(j, to) ==
    /\ status' = [status EXCEPT ![job[j].shipment] = to]
    /\ UNCHANGED beside

\* A voided shipment keeps its status, by the read before.
Advance(j, to) ==
    LET s == job[j].shipment
    IN  IF job[j].sawVoid THEN UNCHANGED <<status, beside>>
        ELSE status' = [status EXCEPT ![s] = to] /\ TakesUpAgain(s)

\* Mistaken variant: the status is set without the consignment id.
RecordStatusOnly(j) ==
    /\ job[j].at = "recording"
    /\ Advance(j, "SUBMITTED")
    /\ Put(j, [Goto(j, "fetch") EXCEPT !.got = job[j].got])
    /\ UNCHANGED <<consignment, labelFile, carrierVars, doubled, orphaned,
                   unchangedByJobs>>

\* The consignment id is recorded before anything else is done with it.
RecordConsignment(j) ==
    LET s == job[j].shipment
    IN  /\ job[j].at = "recording"
        /\ consignment' = [consignment EXCEPT ![s] = job[j].got]
        /\ Advance(j, "SUBMITTED")
        /\ Put(j, [Goto(j, "fetch") EXCEPT !.got = job[j].got])
        /\ UNCHANGED <<labelFile, carrierVars, doubled, orphaned, unchangedByJobs>>

\* The label is complete, downloaded and stored.
FetchLabel(j) ==
    /\ job[j].at = "fetch"
    /\ Put(j, [job[j] EXCEPT !.at = "filing", !.sawVoid = SeesVoid(j)])
    /\ UNCHANGED <<status, consignment, labelFile, carrierVars, beside, doubled,
                   orphaned, unchangedByJobs>>

FileLabel(j) ==
    LET s == job[j].shipment
    IN  /\ job[j].at = "filing"
        /\ labelFile' = [labelFile EXCEPT ![s] = job[j].got]
        /\ Advance(j, "LABELLED")
        /\ Put(j, NoJob)
        /\ UNCHANGED <<consignment, carrierVars, doubled, orphaned,
                       unchangedByJobs>>

-----------------------------------------------------------------------------
(* The ways an attempt ends badly.                                         *)

\* Mistaken variant: one attempt more than there are.
AttemptsUsedUp(j) == job[j].attempt > job[j].max

LastAttempt(j) == job[j].attempt >= job[j].max

\* What the queue does after a failure: nothing more when it is final.
Ended(j, final) ==
    IF final THEN NoJob
    ELSE [Goto(j, "queued") EXCEPT !.attempt = @ + 1]

\* An error, and the read of recordFailure, which leaves a voided or labelled
\* shipment alone.  It is final when retrying cannot help or was the last try.
Fail(j, terminal) ==
    LET final == terminal \/ LastAttempt(j)
    IN  Put(j, IF status[job[j].shipment] \in {"VOIDED", "LABELLED"}
               THEN Ended(j, final)
               ELSE [Goto(j, "failing") EXCEPT !.final = final])

\* The carrier refuses, on the merits or for the time being; or a label fails,
\* is not ready after the last poll, or cannot be downloaded or stored.
CarrierFails(j, terminal) ==
    /\ job[j].at \in {"submit", "fetch"}
    /\ Fail(j, terminal)
    /\ UNCHANGED <<status, consignment, labelFile, carrierVars, beside, doubled,
                   orphaned, unchangedByJobs>>

\* An answer in hand that was never written is lost with the attempt.
LoseAnswer(j) ==
    lost' = IF job[j].at = "recording"
            THEN [lost EXCEPT ![job[j].shipment] = @ + 1] ELSE lost

\* A transaction of the job fails, or the answer it would write never came; the
\* error is transient.
TransactionFails(j) ==
    /\ job[j].at \in {"recording", "filing"}
    /\ LoseAnswer(j)
    /\ Fail(j, FALSE)
    /\ UNCHANGED <<status, consignment, labelFile, made, beside, doubled, orphaned,
                   unchangedByJobs>>

\* Mistaken variant: the last attempt is not counted as final.
RecordTerminalFailure(j) ==
    LET s == job[j].shipment
    IN  /\ job[j].at = "failing"
        /\ status' = IF job[j].final /\ ~ LastAttempt(j)
                     THEN [status EXCEPT ![s] = "FAILED"] ELSE status
        /\ Put(j, Ended(j, job[j].final))
        /\ UNCHANGED <<consignment, labelFile, carrierVars, beside, doubled, orphaned,
                       unchangedByJobs>>

RecordFailure(j) ==
    LET s == job[j].shipment
    IN  /\ job[j].at = "failing"
        /\ status' = IF job[j].final THEN [status EXCEPT ![s] = "FAILED"] ELSE status
        /\ Put(j, Ended(j, job[j].final))
        /\ UNCHANGED <<consignment, labelFile, carrierVars, beside, doubled, orphaned,
                       unchangedByJobs>>

\* Its own errors are swallowed, and then nothing records the failure.
FailureUnrecorded(j) ==
    /\ job[j].at = "failing"
    /\ orphaned' = IF job[j].final THEN orphaned \cup {job[j].shipment}
                   ELSE orphaned
    /\ Put(j, Ended(j, job[j].final))
    /\ UNCHANGED <<status, consignment, labelFile, carrierVars, beside, doubled,
                   unchangedByJobs>>

\* The read that opens an attempt fails: it stands outside the part of the job
\* that records failures, so the last attempt ends and the row is not told.
ReadFails(j) ==
    /\ job[j].at = "queued"
    /\ orphaned' = IF LastAttempt(j) THEN orphaned \cup {job[j].shipment}
                   ELSE orphaned
    /\ Put(j, Ended(j, LastAttempt(j)))
    /\ UNCHANGED <<status, consignment, labelFile, carrierVars, beside, doubled,
                   unchangedByJobs>>

\* The process running a job dies.  The queue gives a stalled entry to another
\* worker, at the same attempt, or drops it when it stalls too often; a job
\* that was not in the queue is gone.
JobDies(j) ==
    /\ Running(j)
    /\ LoseAnswer(j)
    /\ \/ /\ job[j].max > 1
          /\ Put(j, Goto(j, "queued"))
          /\ UNCHANGED orphaned
       \/ /\ Put(j, NoJob)
          /\ orphaned' = orphaned \cup {job[j].shipment}
    /\ UNCHANGED <<status, consignment, labelFile, made, beside, doubled,
                   unchangedByJobs>>

-----------------------------------------------------------------------------
Init ==
    /\ orderStatus = [o \in Orders |-> "PROCESSING"]
    /\ dispatchedOn = [o \in Orders |-> Null]
    /\ orderOf = [s \in Shipments |-> Null]
    /\ status = [s \in Shipments |-> "NONE"]
    /\ consignment = [s \in Shipments |-> 0]
    /\ labelFile = [s \in Shipments |-> 0]
    /\ inFlight = [h \in Handlers |-> Idle]
    /\ job = [j \in Jobs |-> NoJob]
    /\ made = [s \in Shipments |-> 0]
    /\ lost = [s \in Shipments |-> 0]
    /\ beside = {}
    /\ doubled = {}
    /\ orphaned = {}
    /\ overlapped = {}

RequestStep(h) ==
    \/ \E o \in Orders : ReadForCreate(h, o)
    \/ \E s \in Shipments : CreateShipment(h, s)
    \/ \E s \in Shipments : ReadForVoid(h, s)
    \/ VoidShipment(h)
    \/ \E s \in Shipments : ReadForRetry(h, s)
    \/ RetryShipment(h)
    \/ \E o \in Orders, to \in OrderMoves, l \in Shipments \cup {Null} :
          ReadForStatus(h, o, to, l)
    \/ CommitStatus(h)
    \/ Abort(h)

Dispatch(h) ==
    \/ \E j \in Jobs : EnqueueLabelJob(h, j)
    \/ \E j \in Jobs : RunInline(h, j)
    \/ \E i, j \in Jobs : EnqueueUnanswered(h, j, i)

JobStep(j) ==
    \/ StartAttempt(j)
    \/ Accepted(j)
    \/ RecordConsignment(j)
    \/ FetchLabel(j)
    \/ FileLabel(j)
    \/ \E terminal \in BOOLEAN : CarrierFails(j, terminal)
    \/ TransactionFails(j)
    \/ RecordFailure(j)
    \/ FailureUnrecorded(j)
    \/ ReadFails(j)

Next ==
    \/ \E h \in Handlers : RequestStep(h) \/ Dispatch(h)
    \/ \E j \in Jobs : JobStep(j) \/ JobDies(j)

Spec == Init /\ [][Next]_vars

-----------------------------------------------------------------------------
(* Properties.                                                             *)

\* The carrier, which takes no idempotency key, makes one consignment for a
\* shipment, and one more for each answer that was lost before its id was
\* recorded: however often the job is retried or replayed, whoever voids or
\* moves the order meanwhile, unless two jobs are at work on it at once.
OneConsignmentPerShipment ==
    \A s \in Shipments \ doubled : made[s] <= 1 + lost[s]

\* The label on file is the label of the consignment the row names, so what is
\* stuck on the box is what tracking asks about.
LabelIsOfItsConsignment ==
    \A s \in Shipments \ doubled :
        status[s] = "LABELLED" =>
            /\ consignment[s] # 0
            /\ labelFile[s] = consignment[s]

\* An order that was cancelled, or sent back, holds no label that could still
\* be printed, replayed or picked up, if no two of its writers overlapped.
NoLabelOutsideProduction ==
    \A o \in Orders \ overlapped :
        orderStatus[o] \notin {"PROCESSING", "DISPATCHED", "DELIVERED"} =>
            \A s \in Of(o) : status[s] = "VOIDED"

\* The label an order was dispatched on is not voided or taken back behind the
\* parcel, if no two of the order's writers overlapped, nor two jobs.
DispatchedOnItsLabel ==
    \A o \in Orders \ overlapped :
        dispatchedOn[o] \notin doubled \cup {Null} =>
            status[dispatchedOn[o]] = "LABELLED"

\* A request that is under way is some job's: it is never left waiting for a
\* job that has ended, unless a job or the request that made it was lost.
UnderWayHasJob ==
    \A s \in Shipments \ orphaned :
        status[s] \in {"PENDING", "SUBMITTED"} =>
            \/ JobsOf(s) # {}
            \/ \E h \in Handlers : inFlight[h].at = "dispatch" /\ inFlight[h].shipment = s

\* A voided shipment comes back only by a writer that read it before it was
\* voided: a job between its read and its write, or a replay.
VoidedStaysVoided ==
    [][\A s \in Shipments :
         status[s] = "VOIDED" /\ status'[s] # "VOIDED" => orderOf[s] \in overlapped]_vars

\* An order has one live shipment, so one set of parcels is paid for, if no two
\* of its writers overlapped; a failed one that is replayed, or taken up by a
\* second job, may come beside it (the promise, shipments.service.ts:77, has no
\* exception).
OneLiveShipment ==
    \A o \in Orders \ overlapped : Cardinality(Live(o) \ beside) <= 1
=============================================================================
