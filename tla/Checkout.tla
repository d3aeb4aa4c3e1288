------------------------------ MODULE Checkout ------------------------------
(***************************************************************************)
(* What placing orders promises, with no mention of baskets being read,    *)
(* locks or transactions: an order is made in one step, out of a basket    *)
(* that has become no order before, and only while it fits in what is left *)
(* of its branch's and of its buyer's monthly cap.  An order stops         *)
(* counting once it is refused or cancelled, and may count again, for no   *)
(* cap is looked at when a refusal or cancellation is overwritten.  So the *)
(* promise is about the orders that have counted ever since they were      *)
(* placed within the caps.                                                 *)
(***************************************************************************)
EXTENDS Integers, Functions

CONSTANTS
    Null,        \* no order; no cap
    Requests,    \* the requests made in the period; at most one order each
    Baskets,
    Totals,      \* what an order may come to
    Owner,       \* the buyer each basket belongs to
    Branch,      \* the branch each basket is for
    SiteCap,     \* monthlyBudget of each branch, or Null
    BuyerCap     \* monthlyBudgetCap of each buyer, or Null

VARIABLE order   \* the order each request made, or Null

Placed == {r \in Requests : order[r] # Null}

\* The orders that count against a budget: those in a committed status.
Counted == {r \in Placed : order[r].counts # "NO"}

\* Those of them that counted when a cap was last looked at for them.
Checked == {r \in Placed : order[r].counts = "CHECKED"}

OrderTotal == [r \in Placed |-> order[r].total]

\* What the orders S spend of a branch's, or of a buyer's, budget.
SpendAtBranch(S, s) ==
    SumFunctionOnSet(OrderTotal, {r \in S : Branch[order[r].basket] = s})

SpendOfBuyer(S, u) ==
    SumFunctionOnSet(OrderTotal, {r \in S : Owner[order[r].basket] = u})

\* evaluateBudget: an order that lands exactly on the cap is within it.
Fits(cap, spent, total) == cap # Null => spent + total <= cap

Place(r, b, total) ==
    /\ order[r] = Null
    /\ \A q \in Placed : order[q].basket # b
    /\ Fits(SiteCap[Branch[b]], SpendAtBranch(Checked, Branch[b]), total)
    /\ Fits(BuyerCap[Owner[b]], SpendOfBuyer(Checked, Owner[b]), total)
    /\ order' = [order EXCEPT ![r] = [basket |-> b, total |-> total, counts |-> "CHECKED"]]

StopCounting(r) ==
    /\ r \in Counted
    /\ order' = [order EXCEPT ![r].counts = "NO"]

\* A status move that had read the order before it was refused or cancelled is
\* written over that, and no budget is looked at.
CountAgain(r) ==
    /\ r \in Placed \ Counted
    /\ order' = [order EXCEPT ![r].counts = "UNCHECKED"]

Init == order = [r \in Requests |-> Null]

Next ==
    \E r \in Requests :
        \/ \E b \in Baskets, total \in Totals : Place(r, b, total)
        \/ StopCounting(r)
        \/ CountAgain(r)

Spec == Init /\ [][Next]_order

\* What the budgets are for: the orders that count never come to more than the
\* monthly cap of any branch or of any buyer that has one, those left out that
\* were brought back after a refusal or cancellation.
WithinCaps ==
    /\ \A s \in DOMAIN SiteCap : Fits(SiteCap[s], SpendAtBranch(Checked, s), 0)
    /\ \A u \in DOMAIN BuyerCap : Fits(BuyerCap[u], SpendOfBuyer(Checked, u), 0)
=============================================================================
