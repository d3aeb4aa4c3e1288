------------------------------ MODULE Billing ------------------------------
(***************************************************************************)
(* Billing: consolidated invoices, drafted from what has been shipped,     *)
(* numbered and frozen when they are issued, then settled or voided.       *)
(*                                                                         *)
(* Everything here is done for one account and one month, a scope.  Each   *)
(* request reads first, checks what it read, and writes in a transaction   *)
(* that does not look again; generating reads the orders and what is       *)
(* already billed, and only then opens the transaction that finds the      *)
(* draft and rewrites its lines.  The number of an issued invoice comes    *)
(* from a counter row that stays locked to the end of the transaction.     *)
(***************************************************************************)
EXTENDS Integers, FiniteSets

CONSTANTS
    Null,            \* no value
    Scopes,          \* pairs of an account and a billing period
    Orders,          \* orders of those accounts and periods
    ScopeOf,         \* the scope of each order
    Invoices,        \* invoice rows that may come to exist
    Handlers,        \* server request slots
    MaxNumber        \* bound on the numbers given out in the year

ASSUME BillingAssumption ==
    /\ ScopeOf \in [Orders -> Scopes]
    /\ Null \notin Scopes \cup Invoices
    /\ MaxNumber \in Nat

VARIABLES
    shipped,         \* orders dispatched or delivered
    scope,           \* invoices.accountId and billingPeriod
    status,          \* invoices.status; "NONE" until the row exists
    number,          \* invoices.invoiceNumber, 0 while there is none
    lines,           \* the orders the invoice has lines for
    totals,          \* the orders its count and totals were added up from
    lastNumber,      \* invoice_sequences.lastNumber of the year
    inFlight,        \* what each busy handler is doing and has read
    overlapped       \* history: scopes two requests worked on at once

invoiceVars == <<scope, status, number, lines, totals>>
vars == <<shipped, invoiceVars, lastNumber, inFlight, overlapped>>

InvoiceStatus == {"NONE", "DRAFT", "ISSUED", "PAID", "VOID"}

-----------------------------------------------------------------------------
(* Requests in flight.  At "rebuild" a generation is in its transaction and *)
(* has deleted the draft's lines; at "number" an issue is in its own and    *)
(* holds the counter.                                                       *)

Idle == [at |-> "idle"]

Generation == [at : {"generate"}, scope : Scopes, billable : SUBSET Orders]

Rebuild == [at : {"rebuild"}, scope : Scopes, billable : SUBSET Orders,
            invoice : Invoices \cup {Null}, gone : SUBSET Orders]

Change == [at : {"issue", "pay", "void"}, scope : Scopes, invoice : Invoices]

Numbering == [at : {"number"}, scope : Scopes, invoice : Invoices,
              next : 1..MaxNumber]

Request == {Idle} \cup Generation \cup Rebuild \cup Change \cup Numbering

IsIdle(h) == inFlight[h] = Idle

\* A handler takes up a request about c, beside another one or not.
Start(h, c, req) ==
    /\ IsIdle(h)
    /\ inFlight' = [inFlight EXCEPT ![h] = req]
    /\ overlapped' = IF \E g \in Handlers : ~ IsIdle(g) /\ inFlight[g].scope = c
                     THEN overlapped \cup {c} ELSE overlapped
    /\ UNCHANGED <<shipped, invoiceVars, lastNumber>>

Goto(h, req) == inFlight' = [inFlight EXCEPT ![h] = req]

Finish(h) == Goto(h, Idle)

TypeOK ==
    /\ shipped \subseteq Orders
    /\ scope \in [Invoices -> Scopes \cup {Null}]
    /\ status \in [Invoices -> InvoiceStatus]
    /\ number \in [Invoices -> 0..MaxNumber]
    /\ lines \in [Invoices -> SUBSET Orders]
    /\ totals \in [Invoices -> SUBSET Orders]
    /\ lastNumber \in 0..MaxNumber
    /\ inFlight \in [Handlers -> Request]
    /\ overlapped \subseteq Scopes

-----------------------------------------------------------------------------
(* What has been billed.                                                   *)

Of(c) == {i \in Invoices : status[i] # "NONE" /\ scope[i] = c}

\* Mistaken variant: any invoice of the month that is not void will do.
NotVoid(c) == {i \in Of(c) : status[i] # "VOID"}

Drafts(c) == {i \in Of(c) : status[i] = "DRAFT"}

Live(i) == status[i] \in {"ISSUED", "PAID"}

\* Mistaken variant: a settled invoice no longer counts.
BilledUntilPaid(i) == IF status[i] = "ISSUED" THEN lines[i] ELSE {}

BilledOn(i) == IF Live(i) THEN lines[i] ELSE {}

Billed == UNION {BilledOn(i) : i \in Invoices}

\* An order is sent.
Ship(o) ==
    /\ o \notin shipped
    /\ shipped' = shipped \cup {o}
    /\ UNCHANGED <<invoiceVars, lastNumber, inFlight, overlapped>>

-----------------------------------------------------------------------------
(* generateInvoice.                                                        *)

Billable(c) == {o \in shipped : ScopeOf[o] = c} \ Billed

ReadForGenerate(h, c) ==
    Start(h, c, [at |-> "generate", scope |-> c, billable |-> Billable(c)])

\* Another generation that has deleted lines of the draft holds their locks.
LinesLocked(i) ==
    \E g \in Handlers :
        inFlight[g].at = "rebuild" /\ inFlight[g].invoice = i /\ inFlight[g].gone # {}

\* The draft is found by its status, and its lines are deleted.
FindDraft(h, i) ==
    LET req == inFlight[h]
    IN  /\ req.at = "generate"
        /\ i \in Drafts(req.scope)
        /\ lines[i] # {} => ~ LinesLocked(i)
        /\ Goto(h, [at |-> "rebuild", scope |-> req.scope, billable |-> req.billable,
                    invoice |-> i, gone |-> lines[i]])
        /\ UNCHANGED <<shipped, invoiceVars, lastNumber, overlapped>>

FindNoDraft(h) ==
    LET req == inFlight[h]
    IN  /\ req.at = "generate"
        /\ Drafts(req.scope) = {}
        /\ Goto(h, [at |-> "rebuild", scope |-> req.scope, billable |-> req.billable,
                    invoice |-> Null, gone |-> {}])
        /\ UNCHANGED <<shipped, invoiceVars, lastNumber, overlapped>>

CreateDraft(h, i) ==
    LET req == inFlight[h]
    IN  /\ req.at = "rebuild"
        /\ req.invoice = Null
        /\ status[i] = "NONE"
        /\ status' = [status EXCEPT ![i] = "DRAFT"]
        /\ scope' = [scope EXCEPT ![i] = req.scope]
        /\ lines' = [lines EXCEPT ![i] = req.billable]
        /\ totals' = [totals EXCEPT ![i] = req.billable]
        /\ Finish(h)
        /\ UNCHANGED <<shipped, number, lastNumber, overlapped>>

\* The lines that are left when the deleted ones are gone and the new are in.
Rewritten(req) == (lines[req.invoice] \ req.gone) \cup req.billable

\* Lines another generation has inserted since break the unique key of an order
\* on an invoice.
RewriteDraft(h) ==
    LET req == inFlight[h]
        i == req.invoice
    IN  /\ req.at = "rebuild"
        /\ i # Null
        /\ (lines[i] \ req.gone) \cap req.billable = {}
        /\ lines' = [lines EXCEPT ![i] = Rewritten(req)]
        /\ totals' = [totals EXCEPT ![i] = req.billable]
        /\ Finish(h)
        /\ UNCHANGED <<shipped, scope, status, number, lastNumber, overlapped>>

-----------------------------------------------------------------------------
(* issueInvoice and nextInvoiceNumber.                                     *)

\* Mistaken variant: an invoice for nothing is issued too.
ReadForIssueAny(h, i) ==
    /\ status[i] = "DRAFT"
    /\ Start(h, scope[i], [at |-> "issue", scope |-> scope[i], invoice |-> i])

ReadForIssue(h, i) ==
    /\ status[i] = "DRAFT"
    /\ totals[i] # {}
    /\ Start(h, scope[i], [at |-> "issue", scope |-> scope[i], invoice |-> i])

CounterIsFree == \A g \in Handlers : inFlight[g].at # "number"

NextNumber(h) ==
    /\ inFlight[h].at = "issue"
    /\ lastNumber < MaxNumber
    /\ Goto(h, [at |-> "number", scope |-> inFlight[h].scope,
                invoice |-> inFlight[h].invoice, next |-> lastNumber + 1])
    /\ UNCHANGED <<shipped, invoiceVars, lastNumber, overlapped>>

\* Mistaken variant: the counter is not held to the end of the transaction.
TakeNumberUnlocked(h) == NextNumber(h)

\* The counter row is taken, for a number nobody else sees before the commit.
TakeNumber(h) == CounterIsFree /\ NextNumber(h)

\* The commit, with the counter: whatever the row has become, it is issued.
IssueInvoice(h) ==
    LET req == inFlight[h]
        i == req.invoice
    IN  /\ req.at = "number"
        /\ lastNumber' = req.next
        /\ number' = [number EXCEPT ![i] = req.next]
        /\ status' = [status EXCEPT ![i] = "ISSUED"]
        /\ Finish(h)
        /\ UNCHANGED <<shipped, scope, lines, totals, overlapped>>

-----------------------------------------------------------------------------
(* markInvoicePaid, voidInvoice, and a request that ends without a commit.  *)

ReadForPaid(h, i) ==
    /\ status[i] = "ISSUED"
    /\ Start(h, scope[i], [at |-> "pay", scope |-> scope[i], invoice |-> i])

ReadForVoid(h, i) ==
    /\ Live(i)
    /\ Start(h, scope[i], [at |-> "void", scope |-> scope[i], invoice |-> i])

SetStatus(h, at, to) ==
    /\ inFlight[h].at = at
    /\ status' = [status EXCEPT ![inFlight[h].invoice] = to]
    /\ Finish(h)
    /\ UNCHANGED <<shipped, scope, lines, totals, lastNumber, overlapped>>

\* Mistaken variant: a status no other code knows.
MarkInvoiceSettled(h) == SetStatus(h, "pay", "SETTLED") /\ UNCHANGED number

MarkInvoicePaid(h) == SetStatus(h, "pay", "PAID") /\ UNCHANGED number

\* Mistaken variant: a voided invoice gives its number up.
VoidInvoiceAndNumber(h) ==
    /\ SetStatus(h, "void", "VOID")
    /\ number' = [number EXCEPT ![inFlight[h].invoice] = 0]

VoidInvoice(h) == SetStatus(h, "void", "VOID") /\ UNCHANGED number

\* A failed transaction leaves nothing; the counter goes back with it.
Abort(h) ==
    /\ ~ IsIdle(h)
    /\ Finish(h)
    /\ UNCHANGED <<shipped, invoiceVars, lastNumber, overlapped>>

-----------------------------------------------------------------------------
Init ==
    /\ shipped = {}
    /\ scope = [i \in Invoices |-> Null]
    /\ status = [i \in Invoices |-> "NONE"]
    /\ number = [i \in Invoices |-> 0]
    /\ lines = [i \in Invoices |-> {}]
    /\ totals = [i \in Invoices |-> {}]
    /\ lastNumber = 0
    /\ inFlight = [h \in Handlers |-> Idle]
    /\ overlapped = {}

Step(h) ==
    \/ \E c \in Scopes : ReadForGenerate(h, c)
    \/ \E i \in Invoices : FindDraft(h, i)
    \/ FindNoDraft(h)
    \/ \E i \in Invoices : CreateDraft(h, i)
    \/ RewriteDraft(h)
    \/ \E i \in Invoices : ReadForIssue(h, i)
    \/ TakeNumber(h)
    \/ IssueInvoice(h)
    \/ \E i \in Invoices : ReadForPaid(h, i)
    \/ MarkInvoicePaid(h)
    \/ \E i \in Invoices : ReadForVoid(h, i)
    \/ VoidInvoice(h)
    \/ Abort(h)

Next ==
    \/ \E o \in Orders : Ship(o)
    \/ \E h \in Handlers : Step(h)

Spec == Init /\ [][Next]_vars

-----------------------------------------------------------------------------
(* Properties.                                                             *)

\* An order is never on two invoices a customer owes or has paid, however often
\* drafts are rebuilt and invoices voided and reissued, as long as the requests
\* about its month come one at a time (generateInvoice's alreadyBilled).
BilledOnce ==
    \A i, j \in Invoices :
        i # j /\ Live(i) /\ Live(j) =>
            \A o \in lines[i] \cap lines[j] : ScopeOf[o] \in overlapped

\* The numbers given out are 1, 2, 3 and so on, each to one invoice that still
\* has it, whatever was aborted or voided between and however many months are
\* issued at once (nextInvoiceNumber), if no two requests met on one month.
NumbersAreUnbroken ==
    overlapped = {} =>
        /\ {number[i] : i \in Invoices} \ {0} = 1..lastNumber
        /\ \A i \in Invoices : number[i] = 0 <=> status[i] \in {"NONE", "DRAFT"}

\* No two invoices ever have one number, even of requests that overlap.
NumbersAreUnique ==
    \A i, j \in Invoices : i # j /\ number[i] # 0 => number[i] # number[j]

\* An invoice's count and totals are those of its lines, and it is not for
\* nothing once it is issued.
TotalsAreOfTheLines ==
    \A i \in Invoices :
        scope[i] \notin overlapped =>
            /\ totals[i] = lines[i]
            /\ status[i] \notin {"NONE", "DRAFT"} => lines[i] # {}

\* What an issued invoice says does not change again, and it is never a draft
\* again, as long as the requests about its month come one at a time.
IssuedIsFrozen ==
    [][\A i \in Invoices :
         status[i] \notin {"NONE", "DRAFT"} /\ scope[i] \notin overlapped =>
            /\ scope'[i] = scope[i]
            /\ lines'[i] = lines[i]
            /\ totals'[i] = totals[i]
            /\ number'[i] = number[i]
            /\ status'[i] \notin {"NONE", "DRAFT"}]_vars
=============================================================================
