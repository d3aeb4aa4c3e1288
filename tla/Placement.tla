----------------------------- MODULE Placement -----------------------------
(***************************************************************************)
(* Baskets becoming orders: cart.service.ts, budget-lock.ts and the        *)
(* placeOrder of orders.service.ts, for the requests of one billing        *)
(* period.                                                                 *)
(*                                                                         *)
(* A request resolves the open basket of its buyer and branch (openCart),  *)
(* creating one when it reads none.  An edit then writes a line; a         *)
(* placement validates what it read (checkoutSession) and opens one        *)
(* transaction, which takes the two budget locks, counts what others have  *)
(* committed, inserts the order under the unique index on orders.cartId    *)
(* and closes the basket.  Reads see committed rows only and never wait.   *)
(* A basket is measured in units of one price.                             *)
(***************************************************************************)
EXTENDS Integers

CONSTANTS
    Null,
    Requests,
    Kinds,          \* what they may ask for: "add", "remove", "place"
    Baskets,        \* the basket rows that may come to exist
    Owner,
    Branch,
    SiteCap,
    BuyerCap,
    InitialUnits,   \* the baskets open at first, and their units; Null: not made
    MaxUnits        \* bound on the units of a basket

Buyers == {Owner[b] : b \in Baskets}
Sites == {Branch[b] : b \in Baskets}

Phases ==
    {"new", "open", "create", "write", "begin", "branchCounted", "counted",
     "inserted", "answered"}

CartStatus == {"OPEN", "CHECKED_OUT"}

\* Whether an order counts against the budgets: not once refused or cancelled,
\* and unchecked once a refusal or cancellation of it was overwritten.
Counts == {"CHECKED", "NO", "UNCHECKED"}

OrderRow == [basket : Baskets, total : 1..MaxUnits, counts : Counts]

ASSUME PlacementAssumption ==
    /\ Kinds \subseteq {"add", "remove", "place"}
    /\ MaxUnits \in Nat
    /\ InitialUnits \in [Baskets -> 0..MaxUnits \cup {Null}]
    /\ DOMAIN Owner = Baskets /\ DOMAIN Branch = Baskets
    /\ SiteCap \in [Sites -> Nat \cup {Null}]
    /\ BuyerCap \in [Buyers -> Nat \cup {Null}]
    /\ Buyers \cap Sites = {}
    /\ Null \notin Nat \cup Requests \cup Baskets \cup OrderRow \cup CartStatus

VARIABLES
    cartStatus,   \* carts.status; Null until the basket is created
    units,        \* what the lines of each basket add up to
    order,        \* the orders row a request's transaction committed, or Null
    lock,         \* sp_getapplock: the request holding each branch's and buyer's
    phase,        \* where each request is
    req,          \* what each request asks, and what it has read
    answer        \* the request whose order each request was answered with

cartVars == <<cartStatus, units>>
vars == <<cartVars, order, lock, phase, req, answer>>

Contract == INSTANCE Checkout WITH Totals <- 1..MaxUnits

Request ==
    [kind : Kinds, buyer : Buyers, site : Sites,
     names : Baskets \cup {Null},     \* dto.cartId, the basket reviewed
     basket : Baskets \cup {Null},    \* the open basket it resolved
     total : 0..MaxUnits]             \* session.totalCents

-----------------------------------------------------------------------------
At(r, p) == phase[r] = p

Goto(r, p) == phase' = [phase EXCEPT ![r] = p]

\* An error response, or an edit done: nothing was placed for this request.
Finish(r) == Goto(r, "answered") /\ UNCHANGED answer

AnswerWith(r, q) ==
    Goto(r, "answered") /\ answer' = [answer EXCEPT ![r] = q]

\* Mistaken variant: @LockOwner = 'Session', which outlives the transaction.
KeepLocks(r) == UNCHANGED lock

\* Commit or rollback: @LockOwner = 'Transaction'.
ReleaseLocks(r) == lock' = [k \in DOMAIN lock |-> IF lock[k] = r THEN Null ELSE lock[k]]

InTransaction(r) == phase[r] \in {"begin", "branchCounted", "counted", "inserted"}

\* Mistaken variant: any order this buyer has placed.
PlacedByOwner(b) == {q \in Contract!Placed : Owner[order[q].basket] = Owner[b]}

\* orderPlacedFromCart: the committed orders this buyer's basket became.
PlacedFrom(b) == {q \in Contract!Placed : order[q].basket = b}

-----------------------------------------------------------------------------
(* Arrival.  A placement that names the basket it reviewed, a retry perhaps *)
(* of one whose answer was lost, is first answered with the order that      *)
(* basket became, if it has become one.                                     *)

Submit(r, kind, b, names) ==
    /\ At(r, "new")
    /\ names = Null \/ (names = b /\ cartStatus[b] # Null)
    /\ kind # "place" => names = Null
    /\ req' = [req EXCEPT ![r] = [kind |-> kind, buyer |-> Owner[b], site |-> Branch[b],
                                  names |-> names, basket |-> Null, total |-> 0]]
    /\ IF names # Null /\ PlacedFrom(b) # {}
       THEN \E q \in PlacedFrom(b) : AnswerWith(r, q)
       ELSE Goto(r, "open") /\ UNCHANGED answer
    /\ UNCHANGED <<cartVars, order, lock>>

-----------------------------------------------------------------------------
(* openCart.  Nothing in the schema keeps two requests that read no open    *)
(* basket from creating one each.                                           *)

OpenBaskets(r) ==
    {b \in Baskets : /\ Owner[b] = req[r].buyer
                     /\ Branch[b] = req[r].site
                     /\ cartStatus[b] = "OPEN"}

NoOpenBasket(r) ==
    /\ At(r, "open")
    /\ OpenBaskets(r) = {}
    /\ IF req[r].kind = "remove"   \* the line it names is in a closed basket
       THEN Finish(r)
       ELSE Goto(r, "create") /\ UNCHANGED answer
    /\ UNCHANGED <<cartVars, order, lock, req>>

\* A basket just created is empty, so a placement is refused.
CreateBasket(r, b) ==
    /\ At(r, "create")
    /\ Owner[b] = req[r].buyer /\ Branch[b] = req[r].site
    /\ cartStatus[b] = Null
    /\ cartStatus' = [cartStatus EXCEPT ![b] = "OPEN"]
    /\ req' = [req EXCEPT ![r].basket = b]
    /\ IF req[r].kind = "add" THEN Goto(r, "write") /\ UNCHANGED answer
                              ELSE Finish(r)
    /\ UNCHANGED <<units, order, lock>>

\* The pool of basket rows is a bound of the model, not of the server.
NoBasketLeft(r) ==
    /\ At(r, "create")
    /\ \A b \in Baskets :
          Owner[b] = req[r].buyer /\ Branch[b] = req[r].site => cartStatus[b] # Null
    /\ Finish(r)
    /\ UNCHANGED <<cartVars, order, lock, req>>

\* addLine, removeLine: the basket is resolved here and written later.
FindBasketToEdit(r, b) ==
    /\ At(r, "open")
    /\ req[r].kind \in {"add", "remove"}
    /\ b \in OpenBaskets(r)
    /\ req' = [req EXCEPT ![r].basket = b]
    /\ Goto(r, "write")
    /\ UNCHANGED <<cartVars, order, lock, answer>>

EditBasket(r) ==
    LET b == req[r].basket
        n == IF req[r].kind = "add" THEN units[b] + 1 ELSE units[b] - 1
    IN  /\ At(r, "write")
        /\ units' = IF n \in 0..MaxUnits THEN [units EXCEPT ![b] = n] ELSE units
        /\ Finish(r)
        /\ UNCHANGED <<cartStatus, order, lock, req>>

-----------------------------------------------------------------------------
(* checkoutSession: the basket and what both budgets have left, as read.    *)

SiteFits(r, total) ==
    Contract!Fits(SiteCap[req[r].site],
                  Contract!SpendAtBranch(Contract!Counted, req[r].site), total)

BuyerFits(r, total) ==
    Contract!Fits(BuyerCap[req[r].buyer],
                  Contract!SpendOfBuyer(Contract!Counted, req[r].buyer), total)

\* Mistaken variant: an empty basket passes.
ValidateEmpty(r, b) ==
    /\ At(r, "open")
    /\ req[r].kind = "place"
    /\ b \in OpenBaskets(r)
    /\ req[r].names \in {Null, b}
    /\ SiteFits(r, units[b]) /\ BuyerFits(r, units[b])
    /\ req' = [req EXCEPT ![r].basket = b, ![r].total = units[b]]
    /\ Goto(r, "begin")
    /\ UNCHANGED <<cartVars, order, lock, answer>>

Validate(r, b) ==
    /\ At(r, "open")
    /\ req[r].kind = "place"
    /\ b \in OpenBaskets(r)
    /\ req[r].names \in {Null, b}
    /\ units[b] > 0
    /\ SiteFits(r, units[b]) /\ BuyerFits(r, units[b])
    /\ req' = [req EXCEPT ![r].basket = b, ![r].total = units[b]]
    /\ Goto(r, "begin")
    /\ UNCHANGED <<cartVars, order, lock, answer>>

\* Everything else validation may find wrong is one refusal: a basket other
\* than the one reviewed, an empty one, a budget already spent, and reasons
\* not modelled (a product withdrawn, a purchase order missing).
RefuseBasket(r) ==
    /\ At(r, "open")
    /\ req[r].kind = "place"
    /\ OpenBaskets(r) # {}
    /\ Finish(r)
    /\ UNCHANGED <<cartVars, order, lock, req>>

-----------------------------------------------------------------------------
(* The placement transaction.  assertBudgetsAllowOrder takes the branch's   *)
(* lock, then the buyer's, each only when there is a cap, and counts again. *)

Refuse(r) ==
    /\ Finish(r)
    /\ ReleaseLocks(r)
    /\ UNCHANGED <<cartVars, order, req>>

TakeLock(r, k) ==
    /\ lock[k] = Null
    /\ lock' = [lock EXCEPT ![k] = r]

\* Mistaken variant: the branch's spend is counted without its lock.
CountBranchUnlocked(r) ==
    /\ At(r, "begin")
    /\ SiteFits(r, req[r].total)
    /\ Goto(r, "branchCounted")
    /\ UNCHANGED <<cartVars, order, lock, req, answer>>

CountBranch(r) ==
    LET s == req[r].site
    IN  /\ At(r, "begin")
        /\ IF SiteCap[s] = Null THEN UNCHANGED lock ELSE TakeLock(r, s)
        /\ SiteFits(r, req[r].total)
        /\ Goto(r, "branchCounted")
        /\ UNCHANGED <<cartVars, order, req, answer>>

BranchOverBudget(r) ==
    /\ At(r, "begin")
    /\ SiteCap[req[r].site] # Null
    /\ lock[req[r].site] = Null
    /\ ~ SiteFits(r, req[r].total)
    /\ Refuse(r)

\* Mistaken variant: the buyer's spend is counted without their lock.
CountBuyerUnlocked(r) ==
    /\ At(r, "branchCounted")
    /\ BuyerFits(r, req[r].total)
    /\ Goto(r, "counted")
    /\ UNCHANGED <<cartVars, order, lock, req, answer>>

CountBuyer(r) ==
    LET u == req[r].buyer
    IN  /\ At(r, "branchCounted")
        /\ IF BuyerCap[u] = Null THEN UNCHANGED lock ELSE TakeLock(r, u)
        /\ BuyerFits(r, req[r].total)
        /\ Goto(r, "counted")
        /\ UNCHANGED <<cartVars, order, req, answer>>

BuyerOverBudget(r) ==
    /\ At(r, "branchCounted")
    /\ BuyerCap[req[r].buyer] # Null
    /\ lock[req[r].buyer] = Null
    /\ ~ BuyerFits(r, req[r].total)
    /\ Refuse(r)

\* The unique index on orders.cartId.  An uncommitted row of another
\* transaction makes the insert wait; a committed one refuses it, and the
\* request is answered with the order that won.
InsertOrder(r) ==
    /\ At(r, "counted")
    /\ PlacedFrom(req[r].basket) = {}
    /\ \A q \in Requests : At(q, "inserted") => req[q].basket # req[r].basket
    /\ Goto(r, "inserted")
    /\ UNCHANGED <<cartVars, order, lock, req, answer>>

LoseTheRace(r) ==
    /\ At(r, "counted")
    /\ \E q \in PlacedFrom(req[r].basket) : AnswerWith(r, q)
    /\ ReleaseLocks(r)
    /\ UNCHANGED <<cartVars, order, req>>

\* Mistaken variant: the basket stays open.
CommitOrderOnly(r) ==
    /\ At(r, "inserted")
    /\ order' = [order EXCEPT ![r] = [basket |-> req[r].basket, total |-> req[r].total,
                                      counts |-> "CHECKED"]]
    /\ ReleaseLocks(r)
    /\ AnswerWith(r, r)
    /\ UNCHANGED <<cartVars, req>>

\* Lines, stock, approval routing and the closing of the basket are the rest
\* of the same transaction; module Orders follows the order from here.
CommitOrder(r) ==
    LET b == req[r].basket
    IN  /\ At(r, "inserted")
        /\ order' = [order EXCEPT ![r] = [basket |-> b, total |-> req[r].total,
                                          counts |-> "CHECKED"]]
        /\ cartStatus' = [cartStatus EXCEPT ![b] = "CHECKED_OUT"]
        /\ ReleaseLocks(r)
        /\ AnswerWith(r, r)
        /\ UNCHANGED <<units, req>>

\* A transaction that does not commit: a lock not granted within five seconds,
\* no stock, a deadlock victim, the twenty-second limit.  It leaves nothing.
RollBack(r) ==
    /\ InTransaction(r)
    /\ Refuse(r)

\* An order that is refused or cancelled leaves the committed statuses.
StopCounting(r) ==
    /\ Contract!StopCounting(r)
    /\ UNCHANGED <<cartVars, lock, phase, req, answer>>

\* A status move that read the order before that overwrites it (module Orders
\* has the race) and puts the order back in a committed status, unchecked.
CountAgain(r) ==
    /\ Contract!CountAgain(r)
    /\ UNCHANGED <<cartVars, lock, phase, req, answer>>

-----------------------------------------------------------------------------
Init ==
    /\ cartStatus = [b \in Baskets |-> IF InitialUnits[b] = Null THEN Null ELSE "OPEN"]
    /\ units = [b \in Baskets |-> IF InitialUnits[b] = Null THEN 0 ELSE InitialUnits[b]]
    /\ order = [r \in Requests |-> Null]
    /\ lock = [k \in Sites \cup Buyers |-> Null]
    /\ phase = [r \in Requests |-> "new"]
    /\ req = [r \in Requests |-> Null]
    /\ answer = [r \in Requests |-> Null]

\* What the server does about a request it has begun, and will do.
ServerStep(r) ==
    \/ NoOpenBasket(r) \/ NoBasketLeft(r)
    \/ \E b \in Baskets : CreateBasket(r, b) \/ FindBasketToEdit(r, b) \/ Validate(r, b)
    \/ EditBasket(r)
    \/ RefuseBasket(r)
    \/ CountBranch(r) \/ BranchOverBudget(r)
    \/ CountBuyer(r) \/ BuyerOverBudget(r)
    \/ InsertOrder(r) \/ LoseTheRace(r) \/ CommitOrder(r)

Next ==
    \E r \in Requests :
        \/ \E kind \in Kinds, b \in Baskets, names \in Baskets \cup {Null} :
              Submit(r, kind, b, names)
        \/ ServerStep(r)
        \/ RollBack(r)
        \/ StopCounting(r)
        \/ CountAgain(r)

\* The server keeps working on a request; nothing makes a buyer submit one, a
\* transaction time out or an order be cancelled or brought back.
Fairness == \A r \in Requests : WF_vars(ServerStep(r))

Spec == Init /\ [][Next]_vars /\ Fairness
-----------------------------------------------------------------------------
TypeOK ==
    /\ cartStatus \in [Baskets -> CartStatus \cup {Null}]
    /\ units \in [Baskets -> 0..MaxUnits]
    /\ order \in [Requests -> OrderRow \cup {Null}]
    /\ lock \in [Sites \cup Buyers -> Requests \cup {Null}]
    /\ phase \in [Requests -> Phases]
    /\ req \in [Requests -> Request \cup {Null}]
    /\ answer \in [Requests -> Requests \cup {Null}]

\* However many placements overlap, each takes effect as one step: at most one
\* order per basket, and never over the branch's or the buyer's cap, counting
\* every order that committed before it and has not stopped counting since.  An
\* order that an overwritten refusal or cancellation brings back counts again
\* unchecked, and may do so between a placement's count and its commit.
PlacesAtomically == Contract!Spec

\* assertBudgetsAllowOrder: whatever placements, refusals and cancellations
\* overlap, the orders that have counted since they were placed never come to
\* more than a branch's or a buyer's monthly cap.  The orders brought back are
\* the exception, for changeOrderStatus asks no budget: with them a month's
\* orders can come to more.
WithinBudgets == Contract!WithinCaps

\* "A basket becomes at most one order", and exactly then is it closed.
ClosedExactlyWhenPlaced ==
    \A b \in Baskets :
        cartStatus[b] = "CHECKED_OUT"
            <=> \E r \in Contract!Placed : order[r].basket = b

\* "Safe to repeat": a placement answered with an order got the order of the
\* basket it named, or of the one it resolved, and that order is its buyer's.
AnsweredWithOwnOrder ==
    \A r \in Requests :
        answer[r] # Null =>
            /\ order[answer[r]] # Null
            /\ order[answer[r]].basket \in {req[r].names, req[r].basket}
            /\ Owner[order[answer[r]].basket] = req[r].buyer

\* budget-lock.ts: from its count to its commit a placement is alone under each
\* cap it counted, so no one counts past an order that is not yet committed.
CountsAlone ==
    \A q \in Requests, r \in Requests :
        /\ q # r
        /\ phase[q] \in {"branchCounted", "counted", "inserted"}
        /\ phase[r] \in {"branchCounted", "counted", "inserted"}
        => /\ SiteCap[req[q].site] # Null => req[q].site # req[r].site
           /\ /\ phase[q] # "branchCounted" /\ phase[r] # "branchCounted"
              /\ BuyerCap[req[q].buyer] # Null
              => req[q].buyer # req[r].buyer

\* Branch first, buyer second: no two placements wait on each other's lock, no
\* answer leaves a lock behind, and every request is answered even if no wait
\* ever times out.
EveryRequestIsAnswered ==
    \A r \in Requests : phase[r] # "new" ~> phase[r] = "answered"

-----------------------------------------------------------------------------
(* What comments in the code say of baskets, and overlapping requests break. *)

\* openCart: a "partial unique index in the migration is what keeps a double-tap from making two".
OneOpenBasket ==
    \A b \in Baskets, c \in Baskets :
        /\ cartStatus[b] = "OPEN" /\ cartStatus[c] = "OPEN"
        /\ Owner[b] = Owner[c] /\ Branch[b] = Branch[c]
        => b = c

\* placeOrder keeps the basket so that "the buyer can see what they submitted".
ClosedBasketIsWhatWasOrdered ==
    \A r \in Contract!Placed : units[order[r].basket] = order[r].total
=============================================================================
