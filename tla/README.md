# A model of the print procurement portal's ordering core

These modules model the part of the portal where several people and several
server processes change the same rows: baskets becoming orders under a monthly
budget; orders moving through approval, production and delivery while holding
warehouse stock; the label jobs that send their parcels, the tracking runs that
follow them, and the invoices that bill them. TLC checks the modules on small
instances; TLAPS proves the invariants, the action properties and the refinements
for every instance.

Paths below are relative to `src/src/server/` unless they start otherwise.

## 1. The system

One Next.js server holds the API (`src/src/app/api`), a worker
(`src/src/worker/index.ts`) runs queued jobs, and everything durable is in one
SQL Server database behind Prisma. A request handler authenticates, reads what
it needs, checks it, and writes inside `withTenantScope` (`db/client.ts`): one
database transaction carrying the tenant. The database runs READ COMMITTED with
row versioning (`src/scripts/sql/provision-database.sql:51`): a read never waits
and sees the last committed row; a write waits for a row lock; nothing notices
that a row changed since it was read. Any number of handlers run at once.

### Components

| Component | State it keeps | Operations | Talks to |
| --- | --- | --- | --- |
| Order lifecycle table (`orders/order-status.ts`) | none | `canTransition`, `assertTransition`, `requiresApproval` | used by orders, approvals, billing |
| Approval engine (`approvals/approval-engine.ts`) | none | `ruleMatches`, `planApproval`, `canDecideStep`, `evaluateProgress`, `assertStepOpen` | used by approvals and orders |
| Approvals (`approvals/approvals.service.ts`) | `approval_requests`, `approval_steps`, rules | raise, decide, cancel with the order | writes orders and stock |
| Orders (`orders/orders.service.ts`) | `orders` | place, change status, confirm delivery, record payment | basket, budget, stock, approvals, shipments |
| Stock (`catalog/stock.service.ts`, `catalog/products.service.ts`) | `stockOnHand`, `stockReserved` | reserve, release, consume, adjust, reconcile | called in the caller's transaction |
| Basket (`cart/cart.service.ts`) | `carts`, `cart_lines` | open, add, update, remove, validate | closed by placement |
| Budgets (`cart/budget-lock.ts`, `cart/budget.ts`) | `sp_getapplock` locks; counts `orders` | lock, count, refuse | called by placement |
| Shipments (`shipping/shipments.service.ts`) | `shipments`, label jobs | create, label job, void, replay | orders, carrier, queue |
| Tracking (`shipping/tracking.service.ts`) | tracking events, `deliveredAt` | poll, apply, confirm the order | orders, carrier |
| Billing (`billing/billing.service.ts`) | `invoices`, lines, number sequence | generate, issue, settle, void | reads orders |
| Sessions, invitations, customers, catalogue, pricing, templates, reports, audit, mail, cache, storage, browser | their own rows or none | see `PROJECT.json` | read by, or notified by, the above |

### What is hard about it

* **Checks on a row read earlier.** `changeOrderStatus` and `decideApproval`
  check one read of an order and then update by id. Between the two, another
  request may commit.
* **Two writers of an order's status.** The status route goes through
  `assertTransition`; the approval steps write the status directly. Stock,
  approval request and labels have to follow on both.
* **Write skew.** Two approvers decide two steps of one tier in two
  transactions, each of which sees only its own decision.
* **Counting under a lock.** Two caps, two application locks, and a unique index
  that also blocks: the order in which they are taken matters, and so does
  counting only after the lock.
* **Lost answers.** A buyer who repeats a placement must be given the order the
  first one made, whether it had committed, is committing, or rolled back.
* **Crashes and limits.** A transaction may be rolled back at any time: a lock
  not granted in 5 s, the 20 s limit of `PLACEMENT_SCOPE`, a deadlock victim.
* **Jobs.** A label job asks a carrier that takes no idempotency key. It is
  retried, its worker may die, it may run twice, and staff and the order void the
  row behind it.
* **Polls.** A tracking run stores a delivery before it confirms the order, and
  two runs may hold the same shipment.
* **Invoices** are drafted from rows read before the transaction, and their
  numbers may have no gap.

### What makes each component correct

* Orders: closed statuses stay closed; an order needing approval reaches
  production only approved by somebody entitled to; delivered implies dispatched.
* Approvals: an open request can be decided by somebody; when the last tier is
  clear the request is over; every tier signs.
* Stock: the shelf promises what orders hold, never more than it has.
* Basket: one open basket per buyer and branch; closed exactly when it became an
  order, with the lines that were ordered.
* Budgets and placement: an order appears in one step, once per basket, within
  both caps as they stand at that step; every request is answered.
* Shipments: one live label an order, and only while the order is in production
  or on its way; one consignment at the carrier for it; a label under way has a
  job; a voided one does not come back.
* Tracking: an order moves to delivered with its last parcel, and does move.
* Billing: an order is billed at most once; an issued invoice says the same for
  ever; invoice numbers have no gaps and no twins.

The places where these can go wrong are listed in `PROJECT.json` under
`hazards`, each with its line and the properties that watch it.

## 2. The modules

| Module | What it is |
| --- | --- |
| `OrderStatus` | The lifecycle table and threshold test. Extended by the modules that move orders. |
| `ApprovalEngine` | The pure approval rules, as operators on records and functions. |
| `Stock` | The shelf and the operations on it, as operators from shelf to shelf. |
| `OrderLifecycle` | Abstract: what is promised of an order and its stock, with no mention of who moves it, and the one way the promise is broken, `Overwrite`. |
| `Orders` | The order routes with their interleavings, over the three pure modules. |
| `OrdersProofs` | Theorems about `Orders`. |
| `OrdersLifecycleProofs` | Theorems: `Orders` implements `OrderLifecycle`, and an open request for approval can be decided. |
| `OrdersStockProofs` | Theorems that the shelf and the orders agree on what is reserved. |
| `Checkout` | Abstract: placing an order is one step, within both caps, once per basket. |
| `Placement` | Baskets, validation, budget locks, the unique index, retries. |
| `Labels` | Shipments, label jobs, the queue, the carrier, and the voiding an order does. Extends `OrderStatus`. |
| `Tracking` | Poll and refresh, the stored events, the confirmation of an order. Extends `OrderStatus`. |
| `Billing` | Drafting, issuing, numbering, settling and voiding invoices. |
| `BillingProofs` | Theorems about `Billing`. |
| `PlacementProofs` | Theorems about `Placement`. |
| `LabelsProofs` | Theorems about `Labels`. |
| `TrackingProofs` | Theorems about `Tracking`. |
| `SumProofs` | Lemmas about the community module's finite sum, for the two modules that add up units and totals (`OrdersStockProofs`, `PlacementProofs`). |
| `MCOrders`, `MCPlacement`, `MCLabels`, `MCTracking`, `MCBilling` | Instances for TLC. |

### `Orders` and the code

State: `status`, `stockState`, `approvedBy`, `dispatched` are columns of
`orders`; `request` and `stepStatus` the rows of `approval_requests` and
`approval_steps`; `shelf` the two stock columns; `inFlight` what each busy handler
has read and is about to write. `inFlight` is the heart of the model: it is the
stale data the code carries across its awaits. `overwritten` is history, no state
of the server: the orders on which a commit acted on a reading that no longer held.

| Action | Code |
| --- | --- |
| `PlaceOrder` | the placement transaction's effect on the order, its stock and its approval request |
| `ReadOrder` | `changeOrderStatus` up to its transaction: `findOrderById`, `assertTransition`, `assertMayMakeTransition` |
| `RouteToStep`, `RouteRefused`, `RouteDirect` | the three outcomes of `decideThroughApprovalSteps` |
| `CommitStatus` | the transaction of `changeOrderStatus`: status, stock, `cancelApprovalRequestForOrder`; its `voidOpenShipmentsForOrder` is in `Labels` |
| `ReadStep` | `decideApproval` up to its transaction |
| `WriteStep` | the write of the step row and the read of the others, with `evaluateProgress` |
| `CommitDecision` | the rest of that transaction, made visible |
| `ConfirmDelivery` | `confirmDeliveryByCarrier`, whose status test is in the UPDATE |
| `RecountStock` | `adjustStock` and `reconcileStock` |
| `Abort` | any rollback or crash of a request before its commit |

`WriteStep` is a step of its own because the row it locks is what other
decisions and cancellations wait for (`Unlocked`), and because what it reads
decides the outcome. A status commit that waits on such a row while that
decision waits on the order is a database deadlock; one of the two is the
victim, which here is `Abort` followed by the other's commit. The status
transaction reads nothing else it acts on, so it is one step. Time stamps,
notes, the timeline, audit entries and mail are left out: nothing modelled
reads them.

Requests on one order overlap like any others: nothing in the server prevents it.
Most properties hold whatever overlaps. Three (`FollowsLifecycle`,
`OpenRequestIsDecidable`, `StockIsExact`) excuse exactly the orders in
`overwritten`, and of those too something is promised: `OrderLifecycle` lets an
overwriting commit put that one order in any status, but move no other, and give
stock back or consume it, but never take it. A commit whose reading is old but still
true, or whose order is already where it moves it (`MoveIsCurrent`,
`DecisionIsCurrent`), excuses nothing. The `violation` run `orders_terminal` shows an
overwriting.

Who may approve is what `assertMayMakeTransition` and `canDecideStep` say, which
disagree on administrators: the status route lets an administrator decide on the
order they placed. `IndependentApproval` states the rule of the code, with that
exemption; the run `orders_own` states the rule of the comments, and is violated.

### `Placement` and the code

State: `cartStatus` and `units` are the baskets; `order` the `orders` rows of the
period, one per request at most, with whether each `counts` against the month;
`lock` the application locks; `phase`, `req` and `answer` where each request is,
what it read, and which order it was answered with.

| Action | Code |
| --- | --- |
| `Submit` | arrival; for a placement that names its basket, the first `orderPlacedFromCart` |
| `NoOpenBasket`, `CreateBasket` | `openCart`: the read that finds nothing, the create |
| `FindBasketToEdit`, `EditBasket` | `addLine`, `updateLine`, `removeLine` |
| `Validate`, `RefuseBasket` | `checkoutSession` and the comparison with `dto.cartId` |
| `CountBranch`, `BranchOverBudget`, `CountBuyer`, `BuyerOverBudget` | `assertBudgetsAllowOrder`: lock, count, refuse, for each cap |
| `InsertOrder`, `LoseTheRace` | the insert under the unique index on `orders.cartId`, and its violation |
| `CommitOrder` | the commit: the order is visible, the basket closed, the locks released |
| `RollBack` | a transaction that does not commit |
| `StopCounting` | an order leaving the committed statuses |
| `CountAgain` | a status move that read the order before that overwrites it and puts it back in a committed status, unchecked (`changeOrderStatus`) |
| `NoBasketLeft` | only a bound: the pool of basket rows is used up |

A basket is a number of units at one price, which is all the caps and the
"what was ordered" property tell apart. Every refusal that does not depend on a
budget (a withdrawn product, a missing purchase order) is the same
nondeterministic `RefuseBasket`. A placement that finds no stock is a
`RollBack`; stock itself is in `Orders`.

An order is `CHECKED` against both caps when it is placed and stays so until it is
refused or cancelled. One that counts again after that is `UNCHECKED`, for nothing
in the code compares it with a cap, and its money may have been spent again. The
promise is therefore about the orders that are `CHECKED`: they never come to more
than a cap. What an overwriting brings back comes on top of that, and every later
placement counts it.

### `Labels` and the code

State: `status`, `orderOf`, `consignment` and `labelFile` are columns of
`shipments`; `orderStatus` and `dispatchedOn` of `orders`; `job` the entries of
the label queue and the runs in the server's own process; `made` what the carrier
has made. `inFlight` is again what a handler has read.

| Action | Code |
| --- | --- |
| `ReadForCreate`, `CreateShipment` | `createShipment`: its checks, its transaction |
| `EnqueueLabelJob`, `RunInline`, `EnqueueUnanswered` | `dispatchLabelJob`: queued; no queue, so run inline with one attempt; queued but the answer lost, so both |
| `ReadForVoid`, `VoidShipment`, `ReadForRetry`, `RetryShipment` | `voidShipment`, `retryShipment`: the read that checks, the update by id |
| `ReadForStatus`, `CommitStatus` | the status route, with `voidOpenShipmentsForOrder` in its transaction |
| `StartAttempt` | `processLabelJob` up to the carrier: over, resumed, or asked afresh |
| `Accepted`, `RecordConsignment` | the carrier's answer with the transaction's read; its write |
| `FetchLabel`, `FileLabel` | the label ready and stored, with the second transaction's read; its write |
| `CarrierFails`, `TransactionFails`, `RecordFailure`, `FailureUnrecorded`, `ReadFails` | the errors of an attempt, `recordFailure`, and the errors nothing records |
| `JobDies`, `Abort` | the process of a job, or of a request, dies |

A job's transactions are two steps each, because the row is read without a lock
and updated by id: what the run `labels` says of voided labels depends on it. The
parcels, the payload and the file are data that nothing tells apart, so a label is
the consignment it is for.

What the code cannot exclude is remembered by history variables, and each property
excuses exactly what it has to: `lost` answers, shipments `doubled` (two jobs ran
at once), `orphaned` (a job or the request that would make it died), taken up
`beside` a live one, and orders `overlapped`. The header of
`shipping/shipments.service.ts` (line 77) promises one live shipment an order with
no exception; `OneLiveShipment` shows which exceptions there are: overlapping
requests, a failed label replayed beside a new one, and a second job that takes a
failed row up again.

### `Tracking` and the code

State: `label` is `shipments.status` of a requested label, `arrived` whose
`deliveredAt` is set, `held` the stored delivered events, `queue` the order by
`lastTrackedAt`, `scanned` what the carrier knows, `run` what each run has read and
has still to do.

| Action | Code |
| --- | --- |
| `PollDueTracking`, `RefreshOrderTracking` | the reads of `pollDueTracking` and `refreshOrderTracking` |
| `Ask` | `carrier.track` for all references, any of which may fail |
| `ReadEvents`, `StoreShipment` | the transaction of one shipment: what is on file, then the inserts, `deliveredAt`, `lastTrackedAt`; a unique key broken by another run ends the whole run |
| `CheckOrder`, `ConfirmDelivery` | `confirmOrderIfAllDelivered` and the conditional update of `confirmDeliveryByCarrier` |
| `RunDies` | a worker that dies, or an error of the database |
| `Scan`, `FileLabel`, `ReadForStatus`, `CommitStatus`, `ReadForVoid`, `VoidShipment` | the carrier, the label job and staff, as far as tracking sees them |

`missed` remembers the orders whose last delivery was seen by a run that ended
before it confirmed them, or confirmed in vain; the code never comes back to those,
because a shipment with `deliveredAt` is no longer polled.

### `Billing` and the code

State: the columns of `invoices`, the orders its `lines` are for, the orders its
`totals` were added up from, and `lastNumber` of `invoice_sequences`. A scope is one
account and one billing period, and every request is about one.

| Action | Code |
| --- | --- |
| `ReadForGenerate` | `generateInvoice` up to its transaction: the orders, less those on live invoices |
| `FindDraft`, `FindNoDraft` | the read of the draft, and the deletion of its lines |
| `RewriteDraft`, `CreateDraft` | the rest of that transaction |
| `ReadForIssue`, `TakeNumber`, `IssueInvoice` | `issueInvoice`: its checks, `nextInvoiceNumber` with the counter row locked, the commit |
| `ReadForPaid`, `MarkInvoicePaid`, `ReadForVoid`, `VoidInvoice` | `markInvoicePaid`, `voidInvoice` |
| `Ship`, `Abort` | an order becomes billable; a transaction that does not commit |

Amounts are the set of orders they are added up from: a total that is not of the
invoice's lines is a different set. `overlapped` holds the scopes two requests
worked on at once. Nothing in the server prevents that; `NumbersAreUnique` holds
regardless, the rest as long as requests about one month are made one at a time.

## 3. The runs

| Run | Instance | Shows |
| --- | --- | --- |
| `orders` | one order, three steps on two tiers, three users, two handlers | Whatever overlaps: types, the stock CHECK, no reservation for a closed order, no unit reserved for nobody, no production without an approval its approver was entitled to give, no delivery without dispatch. But for an order that has been overwritten: an open request can be decided, and `Orders` implements `OrderLifecycle`. |
| `orders_two` | two orders on one shelf of three units, one of them the administrator's own, one step, two handlers, until an order is overwritten | The shelf promises exactly what orders hold, through overlaps, refusals, aborts and recounts; an order over the plain threshold is approved by somebody else, or by an administrator. |
| `placement` | three requests that add or place, two buyers, two branches, three basket rows of which one is not made yet, caps of 2 units | `Placement` implements `Checkout`; a basket is closed exactly when it became an order; a repeated request is answered with its own buyer's order of that basket; under each cap one placement at a time is between its count and its commit, and the orders that have counted since they were placed never come to more than the cap, with others refused, cancelled and brought back around them; every request is answered, without relying on any timeout. |
| `labels` | one order, two shipment rows, two handlers, two jobs of two attempts, two consignments | What the carrier made, what the row says, what the queue holds and where the order is agree. One consignment a shipment, and one more for each answer `lost`, and the label is of the consignment on the row, unless the shipment was `doubled`. None survives production and a voided one stays voided, unless the order was `overlapped`; the label dispatched on stays, unless either. None is under way without a job unless `orphaned`. One live label an order, beside those in `beside`, unless it was `overlapped`. So the reads without a lock in an overlap, the second job of a lost answer and the crash before a job is queued are excused here, not caught. |
| `tracking` | one order, two labels, three parcels, a poller and a refresher, one handler, batches of one, one death | An order is delivered only when every parcel of it is, and then without fail, unless the order is in `missed`. |
| `billing` | two months with two orders and one, three invoices, two handlers, three numbers | Numbers are unique whatever overlaps. In a month whose requests have not `overlapped`: nothing is billed twice, totals are those of the lines, an issued invoice is frozen. The numbers have no gap as long as no month's requests overlapped. What an overlap costs is excused, not caught. |
| `orders_terminal` | as `orders` | Violated: "terminal" statuses are left. |
| `orders_clear` | one tier of two steps | Violated: both steps approved, the request still pending. |
| `orders_signed` | as `orders`, one handler | Violated: an order sent back and submitted again is approved with a tier unsigned. |
| `orders_own` | one order over the plain threshold, placed by the administrator, one handler | Violated: its placer approves it. |
| `placement_twin` | four basket rows, removals too, no basket at one branch yet | Violated: two open baskets for one buyer and branch. |
| `placement_history` | four basket rows, removals too, every basket there but one spare | Violated: a closed basket whose lines are not what was ordered. |

### Bounds, and why they are enough

* *Handlers = 2.* Every bad interleaving of the order routes is between two
  requests: one that read and one that commits in between. Handlers are
  interchangeable, so they are a symmetry set.
* *Three steps on two tiers.* The least with a race inside a tier and a tier
  above it. `s2` names the administrator, the other two the head-office role, so
  both kinds of addressee occur; the buyer holds the approver's role too, so the
  requester test is exercised. The plan is not written by hand: it is
  `PlanApproval` of three rules.
* *Shelf of 3, orders of 2 and 1 units.* Both orders fit exactly, a reservation
  can be refused after a recount, and a double release would reach the other
  order's unit. `MaxOnHand` bounds recounts: 3 in `orders_two`, where the account
  is the subject, 0 (the shelf emptied as far as reservations allow) in the runs of
  one order.
* *`UntilOverwritten`.* In `orders_two` a state in which an order has been
  overwritten is checked and not followed further, since `StockIsExact` excuses the
  one shelf from there on. One step is enough for it: what happens to the plan after
  an overwriting is the subject of `orders`, which has no such limit, and the
  theorems have neither.
* *`MCQueueOnly`.* In `orders` and `orders_two` the manager decides from the approval
  queue and does not list orders, which keeps the runs short; in the others
  everybody sees every order.
* *Three requests, caps of 2.* Two placements race for a cap or a basket while a
  third adds, repeats, or holds the other lock. The caps are reached exactly and
  exceeded by one. `MaxUnits` bounds a basket. The third basket row is the one
  `openCart` makes. Removals and a fourth row are in the two `violation` runs; the
  safety of any number of requests and baskets of every kind is proved, so that only
  the liveness rests on the instance.
* *Two shipments, two jobs, two attempts.* The second shipment is the one an order
  asks for after the first failed or was voided; the second job is a replay's, or
  the twin of a lost answer; the second attempt is the retry, and is the last one.
  Two constraints keep the run near two minutes. `NotBothAtOnce`: a behaviour is
  not followed further once a shipment was doubled and its order overlapped as
  well, since nearly every property is excused then. `FewerBeside`: once both rows
  exist, only behaviours with one request at a time and first attempts, nothing
  lost so far, are followed; one row alone has everything.
* *Two labels and three parcels, batches of one.* One label with two parcels, so a
  shipment can be half delivered; a second label whose file may come late; and a
  batch smaller than what is due, so that fairness between shipments matters.
* *Two months, three orders, three invoices.* One month where a void and a second
  invoice can split two orders, and one to take a number at the same time. The
  third invoice is the draft of what was voided. `MayIsApart` explores overlapping
  requests in the month of one order only.

Deadlock checking is off in every run: a server with nothing left to do
(every order final, every request answered) has stopped and is right to. That
requests do not wait on each other for ever is `EveryRequestIsAnswered`.

### Fairness

`Placement`: `WF` of `ServerStep(r)` for each request. The
Node server keeps executing a request it has begun, and the database grants a
free lock. No fairness is given to arrivals, to `RollBack` (so no progress comes
from timeouts), to `StopCounting` or to `CountAgain`. `WF` is enough: a lock that is released and
taken again by other requests cannot starve one for ever, as there are finitely
many requests and each is answered once.

`Tracking`: `SF` of `Poll`, because the queue repeats the job on a schedule
(`src/src/worker/index.ts`) however often the slot is busy in between; `SF` of
`AskAnswered(w)` for the pollers, that is, the carrier does not fail every poll for
ever; `WF` of the steps of a run that has begun. Refreshes, staff, the carrier's
scans, late labels and deaths have no fairness. A run that dies is limited to
`MaxDeaths`, but the property needs no such bound: an order whose run died is in
`missed`. `Orders`, `Labels` and `Billing` make safety claims only.

### Findings

`PROJECT.json` lists six disagreements between the code and its own comments,
one per `violation` run. In short:

1. `changeOrderStatus` and `decideApproval` write over a status that became
   terminal after they read the order.
2. Two approvers of one tier who decide at the same moment leave the request
   pending with nothing left to decide.
3. After "changes requested" the approval request is closed; on resubmission
   none is opened, and one approval on the status route is enough.
4. `openCart` counts on a unique index that no migration creates.
5. The basket closed by a placement need not hold the lines it was read with.
6. An administrator may approve the order they placed, on the status route; the
   approval engine says that nobody may.

## 4. The proofs

Each proof module is about the module it is named after, and holds its theorems with
the lemmas they rest on; `OrdersLifecycleProofs` and `OrdersStockProofs` are two more
about `Orders`.

### Orders

`OrdersProofs` proves for all users, permissions, orders, products, plans and
handlers, however requests overlap:

* `TypeCorrect`: `Spec => []TypeOK`;
* `ReservedStaysWithinOnHand`, `ClosedOrdersHoldNoStock`,
  `ProductionIsApproved`, `DeliveryFollowsDispatch`: the four invariants the run
  `orders` checks on one instance;
* `InvariantHolds`: the inductive invariant `OrdersInv` they follow from.

The only assumption is `OrdersAssumption` (the types of the constants, plans of
different orders disjoint, no plan where the plain threshold decides), which TLC
evaluates on every run of `Orders`.

None of the four is inductive alone, because a handler about to commit carries
what it read long ago. `OrdersInv` adds what is still true of such a read
whatever has committed since (`ReadStillHolds`): the move it carries is an edge
of the table its user may make; if the order's stock is held now it was held at
the read; if the read saw the order dispatched or in production, the dispatch or
the approval is recorded still. These facts are stable since `dispatched` is
never reset, `approvedBy` only goes from one valid approver to another, and
stock never returns to `RESERVED`. Two more conjuncts are needed:
`DeciderIsNotPlacer`, for approvals by step, and `DispatchIsRecorded`, which
strengthens `DeliveredWasDispatched`. The module proves types first, action by
action, then each part of the invariant for each action that can disturb it, and
combines them once in a temporal step.

`OrdersLifecycleProofs` adds nothing to that assumption, and proves of any number of
orders, plans, tiers and overlapping requests:

* `LifecycleIsFollowed`: `Spec => FollowsLifecycle`, the refinement of
  `OrderLifecycle`. Every commit on a reading that still holds maps to one `Move` of
  the table with its stock, or to a stutter; any other maps to `Overwrite`;
* `OpenRequestsStayDecidable`, of every order that no commit has overwritten.

They follow from `RoundsInv`, which has two parts. `RequestFits` is what a request in
flight carries and no other can take from it: the order exists, the step is one of its
plan, and an approval request that was closed when a decision went round it stays
closed, for only placing an order opens one. `OrderFits` says that the rows of an order
agree: `RoundIsOpen` strengthens `OpenRequestIsDecidable`, for in an open round every
step is pending or approved. A decision that leaves the request open leaves the round
open at the tier it names (`ProgressOpens`, of `EvaluateProgress`), provided that what
it read of the other steps is so at its commit, which is what `DecisionIsCurrent`
says; if it is not, the order is marked.

`OrdersStockProofs` proves, for any orders and products and however requests overlap,
what the shelf and the orders say of each other:

* `NothingReservedForNobody`, `Spec => []NoPhantomReservation`: an order that stops
  holding stock takes no fewer units off the shelf's reservation than it added, though
  a double release may take more;
* `ReservationsAddUp`, `Spec => []StockIsExact`: the two are equal, of every product
  that no overwritten order wants.

`NextMovesStock` shows of every step that it is an `ExactStockStep` (it leaves the
stock alone, one order takes its units, or one that holds them gives them back) or an
`OverwritingStockStep`, in which an order in `overwritten` gives back what it may not
hold. The second is the double release; it is the only thing that makes the
subtraction reach its floor. `OverwrittenGrows` says that an order once marked stays
so. Nothing is assumed about how many orders may come to exist: that those holding
stock are finitely many is part of the invariant.

Both rest on `SumProofs`: one element more adds its value to a sum over a finite set,
one less takes it away. The library defines that sum by a recursive function whose
properties would take an induction theorem with an operator parameter. `SumProofs`
goes round it: the set of *tallies* `<<x, i>>` with `i` in `1..f[x]` has a cardinality
that satisfies the recursive equation (`CountingSolves`), and an equation over the
subsets of a finite set has one solution, since a smallest set where two differ cannot
exist (`SolutionIsUnique`, by well-foundedness of the strict subset). So a sum of
naturals is a cardinality (`SumCounts`), and the library's facts about cardinalities
apply.

### Billing

`BillingProofs` proves for all scopes, orders, invoices, handlers and any bound on
the numbers, from `BillingAssumption` alone: `TypeCorrect`,
`NumbersAreNeverShared`, `NumbersHaveNoGap`, `NothingIsBilledTwice`,
`InvoicesAddUp` and, as an action property, `IssuedStaysIssued`: everything the run
`billing` checks. All follow from `InvariantHolds`, `Spec => []BillingInv`, where
`BillingInv` is

* `FreeInv`, which holds however requests overlap: types; an invoice that exists has
  a scope, and a request about it the same one; lines and readings are of orders of
  their own scope; no number is beyond the counter, one request at most has the next
  one, and numbers are unique;
* `ApartInv`, about scopes outside `overlapped`: one request at a time, one draft, no
  order of a live invoice on another or on a draft, and what the request has read is
  still so (`ReadIsTrue`): what it will bill is on no live invoice, the draft it
  found is a draft with the lines it deleted, the invoice it will issue is a draft
  for something.

`ReadIsTrue` is what makes the rest inductive: a commit writes by what was read. That
it survives the steps of *other* scopes rests on `OwnOrders` (their lines are of
other orders), shown once in `OthersStillSo`; that it survives steps of its own scope
is `OneRequest`. A scope that enters `overlapped` excuses itself and never leaves.

### Placement

`PlacementProofs` proves for all requests, baskets, buyers, branches and caps, from
`PlacementAssumption` alone: `TypeCorrect`; `BasketsCloseWhenPlaced` (a basket
becomes one order at most, and is closed exactly when it became one);
`RepeatsGetTheirOrder`; and `CapsAreCountedAlone`, which is what makes a count under
a cap still true at the commit. These follow from `InvariantHolds`,
`Spec => []PlacementInv`, whose parts beyond these are

* `ReadsInv`: what a request in its transaction has read is a basket of its buyer and
  branch, with something in it;
* `PendingInv`: a request that is not over has no order and no answer;
* `InsertedInv`: an inserted row that is not committed is its basket's first. This is
  the unique index, and the reason a commit makes no second order of a basket;
* `LockInv`: a lock belongs to an open transaction, and a request that has counted
  under a cap holds the cap's lock. `CountsAlone` is not inductive without it.

On these rest the two results the budgets are for:

* `BudgetsAreKept`, `Spec => []WithinBudgets`: the orders that have counted since they
  were placed never come to more than a cap. Its invariant is `BudgetInv`: the caps
  hold, and a request that has counted under a cap fits what counts *now*
  (`CountedFits`). A request counts the orders brought back as well, which is no less
  than those it has to fit (`CheckedSpendLess`, by `SumSubset`). What it counted is
  stable for two reasons only: nobody else commits under that cap while the lock is held
  (`CapsAreCountedAlone`), and an order that stops counting makes the sum no larger. An
  order that counts again adds nothing to it (`RecountSpends`), for it is unchecked;
  with it, a month can come to more than its cap;
* `PlacementIsAtomic`, `Spec => PlacesAtomically`: `Placement` implements `Checkout`. A
  commit maps to `Place`, with the caps from `CountedFits` and the basket's first order
  from `InsertedInv`; `StopCounting` and `CountAgain` map to themselves; every other
  step stutters.

Every step but three concerns one request and places nothing: `QuietInv` says once
what such a step must leave true of its request (`OwnInv`), and each of those actions
is shown to do so. `CommitOrder`, `StopCounting` and `CountAgain` change the orders;
the first is proved conjunct by conjunct, the other two once for both
(`RecountedInv`).

### Labels

`LabelsProofs` proves everything the run `labels` checks, for all orders, shipments,
handlers and jobs and any number of attempts, from `LabelsAssumption` alone. The proof
matters here more than elsewhere: the run has one order, two shipments and two jobs,
and its constraints leave out what follows a double overlap and most of what a second
shipment can do beside the first. The theorems have no such limits.
All nine theorems follow from `InvariantHolds`, `Spec => []LabelsInv`:

* references: a row belongs to an order, and a request, a job and a dispatch name a
  row that exists, of their own order (`RowsOwned`, `RequestsOwned`, `JobsOwned`,
  `DispatchesOwned`);
* `OrdersAlone`, of orders not in `overlapped`: one request at a time
  (`RequestAlone`), and what it has read is still so: a create has seen no live
  label but those taken up beside, a replay's row is not voided since, the label a
  dispatch will name is still a label; from which the order's own properties
  (`OrderFits`) survive the request's commit;
* `JobsFit`: what a job carries fits its row (`RecordFits`). A job that recorded a
  consignment carries that one, and one that will write has seen no void unless an
  overlap is noted. `RowFits` accounts for the carrier's answers: those made are at
  most those lost, plus one that is either recorded on the row or carried by the job
  in phase `recording`. `UnderWay` strengthens `UnderWayHasJob`: the job must be one
  that will yet write the row, since a job that saw a void files its label without
  touching the status.

`QuietJobInv` and `JobStepInv` say once what a step of a job must leave true of its
own shipment, and `OthersAlone` that a request about one order disturbs no other;
each action is then shown to fit one of them. `VoidsAreKept` is the action property:
only a replay and a job's write take `VOIDED` away, and each is of an order in
`overlapped`.

### Tracking

`TrackingProofs` proves `DeliveredWhenAllArrived`, `Spec => []WholeOrderArrived`, for any
orders, shipments and parcels, any number of runs at once and any batch, from
`TrackingAssumption`. It follows from `TrackingInv`: what is on file, and what a run
carries, was reported (`FiledIsReported`, `RunFits`); an order a run is about to move is
complete, and one it has moved is delivered still and complete (`MovedIsComplete`).
`Complete` leaves out the labels in `late`, and that is why it survives `FileLabel`.
`OutsideInv` says once what the carrier and staff may do to a complete order.

`TypeCorrect`, `Spec => []TypeOK /\ []QueueComplete`, is proved beside it: what runs read
from the queue and carry is of its types, and a shipment never falls out of the queue,
so that `StoreShipment` always finds its place there (`MovedToEnd` is the lemma about
sequences it needs). The theorem about deliveries does without it.

### Model-checked only

Liveness: `EveryRequestIsAnswered` of `Placement` and `DeliveryIsNoticed` of `Tracking`.
The prover handles neither fairness nor `ENABLED`. Every invariant and every action
property of a passing run, and both refinements, are proved, without any hypothesis on
what may overlap. Where the code can break a promise, the property itself names the
rows it excuses, by a history variable; what becomes of those rows is not claimed.

## 5. Not modelled, and the plan

Not modelled for good: screens, reports, audit, mail, cache, storage, image
library and record editing: they keep no state that the modelled operations read,
or are input and output only. Most of the repository by size is of this kind: its
screens (`src/src/app`, `src/src/components`) and a generated API manifest. Decimal
arithmetic of prices and tax is abstracted to integers or to sets of orders. Of
tracking, the daily flag on labels nobody scanned is a report and is left out.

Next, in this order:

1. Pickups (`shipping/pickups.service.ts`): the carrier is booked before anything is
   written, so a repeated, overlapping or half-finished booking brings a courier
   twice, and a label voided on a booking stays on it.
2. Approval rounds: rules whose named approver is the requester, resubmission, and
   steps decided in an earlier round, with `PlanApproval` and `EvaluateProgress`
   checked against reference definitions over all small inputs.
3. The import job (`catalog/product-import.service.ts`) with its retries and stalls.
