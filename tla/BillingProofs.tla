--------------------------- MODULE BillingProofs ---------------------------
(***************************************************************************)
(* Proofs about Billing, for any scopes, orders, invoices and handlers,    *)
(* and any bound on the numbers given out.                                 *)
(***************************************************************************)
EXTENDS Billing, TLAPS

-----------------------------------------------------------------------------
(* Type correctness.                                                       *)

LEMMA IdleType == Idle \in Request
BY DEF Request

\* A handler's place says which kind of record it carries.
LEMMA CarriedType ==
    ASSUME TypeOK, NEW h \in Handlers
    PROVE  /\ inFlight[h].at = "generate" => inFlight[h] \in Generation
           /\ inFlight[h].at = "rebuild" => inFlight[h] \in Rebuild
           /\ inFlight[h].at \in {"issue", "pay", "void"} => inFlight[h] \in Change
           /\ inFlight[h].at = "number" => inFlight[h] \in Numbering
           /\ inFlight[h].at = "idle" => inFlight[h] = Idle
           /\ inFlight[h].at \in {"idle", "generate", "rebuild", "issue", "pay",
                                   "void", "number"}
<1>1. inFlight[h] \in Request
  BY DEF TypeOK
<1> QED
  BY <1>1 DEF Request, Idle, Generation, Rebuild, Change, Numbering

LEMMA GotoType ==
    ASSUME TypeOK, NEW h \in Handlers, NEW req \in Request, Goto(h, req)
    PROVE  inFlight' \in [Handlers -> Request]
BY DEF TypeOK, Goto

LEMMA FinishType ==
    ASSUME TypeOK, NEW h \in Handlers, Finish(h)
    PROVE  inFlight' \in [Handlers -> Request]
BY IdleType, GotoType DEF Finish

LEMMA StartTypeOK ==
    ASSUME TypeOK, NEW h \in Handlers, NEW c \in Scopes, NEW req \in Request,
           Start(h, c, req)
    PROVE  TypeOK'
<1>1. inFlight' \in [Handlers -> Request]
  BY DEF Start, TypeOK
<1>2. overlapped' \subseteq Scopes
  BY DEF Start, TypeOK
<1> QED
  BY <1>1, <1>2 DEF Start, TypeOK, invoiceVars

\* An invoice that exists is about a scope.
ScopesKnown == \A i \in Invoices : status[i] = "NONE" <=> scope[i] = Null

\* A request about an invoice has read it, with its scope.
OnInvoice(h) ==
    \/ inFlight[h].at \in {"issue", "number", "pay", "void"}
    \/ inFlight[h].at = "rebuild" /\ inFlight[h].invoice # Null

OwnScope ==
    \A h \in Handlers :
        OnInvoice(h) => /\ status[inFlight[h].invoice] # "NONE"
                        /\ scope[inFlight[h].invoice] = inFlight[h].scope

LEMMA KnownScope ==
    ASSUME TypeOK, ScopesKnown, NEW i \in Invoices, status[i] # "NONE"
    PROVE  scope[i] \in Scopes
BY DEF TypeOK, ScopesKnown

LEMMA InitTypeOK ==
    ASSUME BillingAssumption, Init
    PROVE  TypeOK /\ ScopesKnown
BY IdleType DEF BillingAssumption, Init, TypeOK, InvoiceStatus, ScopesKnown

LEMMA ReadsTypeOK ==
    ASSUME BillingAssumption, TypeOK, ScopesKnown, NEW h \in Handlers,
           \/ \E c \in Scopes : ReadForGenerate(h, c)
           \/ \E i \in Invoices : ReadForIssue(h, i) \/ ReadForPaid(h, i) \/ ReadForVoid(h, i)
    PROVE  TypeOK' /\ ScopesKnown'
<1>1. CASE \E c \in Scopes : ReadForGenerate(h, c)
  <2>1. PICK c \in Scopes : ReadForGenerate(h, c)
    BY <1>1
  <2>2. Billable(c) \subseteq Orders
    BY DEF Billable, TypeOK
  <2>3. [at |-> "generate", scope |-> c, billable |-> Billable(c)] \in Request
    BY <2>2 DEF Request, Generation
  <2>4. TypeOK'
    BY <2>1, <2>3, StartTypeOK DEF ReadForGenerate
  <2> QED
    BY <2>1, <2>4 DEF ReadForGenerate, Start, invoiceVars, ScopesKnown
<1>2. CASE \E i \in Invoices : ReadForIssue(h, i) \/ ReadForPaid(h, i) \/ ReadForVoid(h, i)
  <2>1. PICK i \in Invoices : ReadForIssue(h, i) \/ ReadForPaid(h, i) \/ ReadForVoid(h, i)
    BY <1>2
  <2>2. scope[i] \in Scopes
    BY <2>1, KnownScope DEF ReadForIssue, ReadForPaid, ReadForVoid, Live
  <2>3. PICK at \in {"issue", "pay", "void"} :
          Start(h, scope[i], [at |-> at, scope |-> scope[i], invoice |-> i])
    BY <2>1 DEF ReadForIssue, ReadForPaid, ReadForVoid
  <2>4. [at |-> at, scope |-> scope[i], invoice |-> i] \in Request
    BY <2>2 DEF Request, Change
  <2>5. TypeOK'
    BY <2>2, <2>3, <2>4, StartTypeOK
  <2> QED
    BY <2>3, <2>5 DEF Start, invoiceVars, ScopesKnown
<1> QED
  BY <1>1, <1>2

LEMMA GenerateTypeOK ==
    ASSUME BillingAssumption, TypeOK, ScopesKnown, NEW h \in Handlers,
           \/ \E i \in Invoices : FindDraft(h, i) \/ CreateDraft(h, i)
           \/ FindNoDraft(h)
           \/ RewriteDraft(h)
    PROVE  TypeOK' /\ ScopesKnown'
<1> DEFINE req == inFlight[h]
<1>1. ASSUME NEW i \in Invoices, FindDraft(h, i)
      PROVE  TypeOK' /\ ScopesKnown'
  <2>1. req \in Generation /\ lines[i] \in SUBSET Orders
    BY <1>1, CarriedType DEF FindDraft, TypeOK
  <2>2. [at |-> "rebuild", scope |-> req.scope, billable |-> req.billable,
         invoice |-> i, gone |-> lines[i]] \in Request
    BY <2>1 DEF Generation, Rebuild, Request
  <2>3. inFlight' \in [Handlers -> Request]
    BY <1>1, <2>2, GotoType DEF FindDraft
  <2> QED
    BY <1>1, <2>3 DEF FindDraft, TypeOK, ScopesKnown, invoiceVars
<1>2. ASSUME FindNoDraft(h)
      PROVE  TypeOK' /\ ScopesKnown'
  <2>1. req \in Generation
    BY <1>2, CarriedType DEF FindNoDraft
  <2>2. [at |-> "rebuild", scope |-> req.scope, billable |-> req.billable,
         invoice |-> Null, gone |-> {}] \in Request
    BY <2>1 DEF Generation, Rebuild, Request
  <2>3. inFlight' \in [Handlers -> Request]
    BY <1>2, <2>2, GotoType DEF FindNoDraft
  <2> QED
    BY <1>2, <2>3 DEF FindNoDraft, TypeOK, ScopesKnown, invoiceVars
<1>3. ASSUME NEW i \in Invoices, CreateDraft(h, i)
      PROVE  TypeOK' /\ ScopesKnown'
  <2>1. req \in Rebuild
    BY <1>3, CarriedType DEF CreateDraft
  <2>2. req.scope \in Scopes /\ req.scope # Null /\ req.billable \in SUBSET Orders
    BY <2>1 DEF Rebuild, BillingAssumption
  <2>3. inFlight' \in [Handlers -> Request]
    BY <1>3, FinishType DEF CreateDraft
  <2>4. status' \in [Invoices -> InvoiceStatus]
    BY <1>3 DEF CreateDraft, TypeOK, InvoiceStatus
  <2>5. /\ scope' \in [Invoices -> Scopes \cup {Null}]
        /\ lines' \in [Invoices -> SUBSET Orders]
        /\ totals' \in [Invoices -> SUBSET Orders]
    BY <1>3, <2>2 DEF CreateDraft, TypeOK
  <2>6. ScopesKnown'
    BY <1>3, <2>2 DEF CreateDraft, TypeOK, ScopesKnown
  <2> QED
    BY <1>3, <2>3, <2>4, <2>5, <2>6 DEF CreateDraft, TypeOK
<1>4. ASSUME RewriteDraft(h)
      PROVE  TypeOK' /\ ScopesKnown'
  <2>1. req \in Rebuild
    BY <1>4, CarriedType DEF RewriteDraft
  <2>2. req.invoice \in Invoices /\ req.billable \in SUBSET Orders
    BY <1>4, <2>1 DEF Rebuild, RewriteDraft
  <2>3. Rewritten(req) \in SUBSET Orders
    BY <2>2 DEF Rewritten, TypeOK
  <2>4. inFlight' \in [Handlers -> Request]
    BY <1>4, FinishType DEF RewriteDraft
  <2>5. /\ lines' \in [Invoices -> SUBSET Orders]
        /\ totals' \in [Invoices -> SUBSET Orders]
    BY <1>4, <2>2, <2>3 DEF RewriteDraft, TypeOK
  <2> QED
    BY <1>4, <2>4, <2>5 DEF RewriteDraft, TypeOK, ScopesKnown
<1> QED
  BY <1>1, <1>2, <1>3, <1>4

LEMMA IssueTypeOK ==
    ASSUME BillingAssumption, TypeOK, ScopesKnown, OwnScope, NEW h \in Handlers,
           TakeNumber(h) \/ IssueInvoice(h)
    PROVE  TypeOK' /\ ScopesKnown'
<1> DEFINE req == inFlight[h]
<1>1. CASE TakeNumber(h)
  <2>1. req \in Change
    BY <1>1, CarriedType DEF TakeNumber, NextNumber
  <2>2. lastNumber + 1 \in 1..MaxNumber
    BY <1>1 DEF TakeNumber, NextNumber, TypeOK, BillingAssumption
  <2>3. [at |-> "number", scope |-> req.scope, invoice |-> req.invoice,
         next |-> lastNumber + 1] \in Request
    BY <2>1, <2>2 DEF Change, Numbering, Request
  <2>4. inFlight' \in [Handlers -> Request]
    BY <1>1, <2>3, GotoType DEF TakeNumber, NextNumber
  <2> QED
    BY <1>1, <2>4 DEF TakeNumber, NextNumber, TypeOK, ScopesKnown, invoiceVars
<1>2. CASE IssueInvoice(h)
  <2>1. req \in Numbering
    BY <1>2, CarriedType DEF IssueInvoice
  <2>2. req.invoice \in Invoices /\ req.next \in 0..MaxNumber
    BY <2>1 DEF Numbering, BillingAssumption
  <2>3. inFlight' \in [Handlers -> Request]
    BY <1>2, FinishType DEF IssueInvoice
  <2>4. /\ status' \in [Invoices -> InvoiceStatus]
        /\ number' \in [Invoices -> 0..MaxNumber]
        /\ lastNumber' \in 0..MaxNumber
    BY <1>2, <2>2 DEF IssueInvoice, TypeOK, InvoiceStatus
  <2>5. status[req.invoice] # "NONE"
    BY <1>2, <2>1 DEF OwnScope, OnInvoice, IssueInvoice
  <2>6. ScopesKnown'
    BY <1>2, <2>2, <2>5 DEF IssueInvoice, TypeOK, ScopesKnown
  <2> QED
    BY <1>2, <2>3, <2>4, <2>6 DEF IssueInvoice, TypeOK
<1> QED
  BY <1>1, <1>2

LEMMA SettleTypeOK ==
    ASSUME BillingAssumption, TypeOK, ScopesKnown, OwnScope, NEW h \in Handlers,
           MarkInvoicePaid(h) \/ VoidInvoice(h) \/ Abort(h)
    PROVE  TypeOK' /\ ScopesKnown'
<1> DEFINE req == inFlight[h]
<1>1. ASSUME NEW at \in {"pay", "void"}, NEW to \in {"PAID", "VOID"},
             SetStatus(h, at, to), UNCHANGED number
      PROVE  TypeOK' /\ ScopesKnown'
  <2>1. req \in Change
    BY <1>1, CarriedType DEF SetStatus
  <2>2. req.invoice \in Invoices /\ status[req.invoice] # "NONE"
    BY <1>1, <2>1 DEF Change, OwnScope, OnInvoice, SetStatus
  <2>3. inFlight' \in [Handlers -> Request]
    BY <1>1, FinishType DEF SetStatus
  <2>4. status' \in [Invoices -> InvoiceStatus]
    BY <1>1, <2>2 DEF SetStatus, TypeOK, InvoiceStatus
  <2>5. ScopesKnown'
    BY <1>1, <2>2 DEF SetStatus, TypeOK, ScopesKnown
  <2> QED
    BY <1>1, <2>3, <2>4, <2>5 DEF SetStatus, TypeOK
<1>2. CASE Abort(h)
  BY <1>2, FinishType DEF Abort, TypeOK, ScopesKnown, invoiceVars
<1> QED
  BY <1>1, <1>2 DEF MarkInvoicePaid, VoidInvoice

-----------------------------------------------------------------------------
(* What holds however requests overlap.                                    *)

\* Orders are billed on invoices of their own scope.
OwnOrders ==
    /\ \A i \in Invoices : \A o \in lines[i] : ScopeOf[o] = scope[i]
    /\ \A h \in Handlers :
         inFlight[h].at \in {"generate", "rebuild"} =>
            \A o \in inFlight[h].billable : ScopeOf[o] = inFlight[h].scope

\* A row that does not exist has no lines, totals or number.
NothingYet ==
    \A i \in Invoices :
        status[i] = "NONE" => lines[i] = {} /\ totals[i] = {} /\ number[i] = 0

\* No number is beyond the counter; the number taken is the next one, and one
\* request at most has it.
NumbersInv ==
    /\ \A i \in Invoices : number[i] <= lastNumber
    /\ \A h \in Handlers : inFlight[h].at = "number" => inFlight[h].next = lastNumber + 1
    /\ \A g, h \in Handlers :
         inFlight[g].at = "number" /\ inFlight[h].at = "number" => g = h
    /\ NumbersAreUnique

FreeInv ==
    /\ TypeOK
    /\ ScopesKnown
    /\ OwnScope
    /\ OwnOrders
    /\ NothingYet
    /\ NumbersInv

LEMMA InitFreeInv ==
    ASSUME BillingAssumption, Init
    PROVE  FreeInv
<1>1. TypeOK /\ ScopesKnown
  BY InitTypeOK
<1>2. \A h \in Handlers : inFlight[h].at = "idle"
  BY DEF Init, Idle
<1>3. NumbersInv
  BY <1>2 DEF Init, NumbersInv, NumbersAreUnique
<1> QED
  BY <1>1, <1>2, <1>3 DEF Init, FreeInv, OwnScope, OnInvoice, OwnOrders, NothingYet

LEMMA ShipFreeInv ==
    ASSUME BillingAssumption, FreeInv, NEW o \in Orders, Ship(o)
    PROVE  FreeInv'
BY DEF Ship, FreeInv, TypeOK, ScopesKnown, OwnScope, OnInvoice, OwnOrders, NothingYet,
       NumbersInv, NumbersAreUnique, invoiceVars

\* A request that is taken up about invoices of its own scope, or none.
LEMMA ReadsFreeInv ==
    ASSUME BillingAssumption, FreeInv, NEW h \in Handlers,
           \/ \E c \in Scopes : ReadForGenerate(h, c)
           \/ \E i \in Invoices : ReadForIssue(h, i) \/ ReadForPaid(h, i) \/ ReadForVoid(h, i)
    PROVE  FreeInv'
<1>1. TypeOK' /\ ScopesKnown'
  BY ReadsTypeOK DEF FreeInv
<1>2. /\ UNCHANGED <<shipped, invoiceVars, lastNumber>>
      /\ \A g \in Handlers \ {h} : inFlight'[g] = inFlight[g]
      /\ inFlight'[h].at # "number"
  BY DEF ReadForGenerate, ReadForIssue, ReadForPaid, ReadForVoid, Start, FreeInv, TypeOK
<1>3. \/ inFlight'[h].at = "generate"
      \/ /\ inFlight'[h].at \in {"issue", "pay", "void"}
         /\ status[inFlight'[h].invoice] # "NONE"
         /\ scope[inFlight'[h].invoice] = inFlight'[h].scope
  BY DEF ReadForGenerate, ReadForIssue, ReadForPaid, ReadForVoid, Start, FreeInv, TypeOK, Live
<1>4. inFlight'[h].at = "generate" =>
        \A o \in inFlight'[h].billable : ScopeOf[o] = inFlight'[h].scope
  BY DEF ReadForGenerate, ReadForIssue, ReadForPaid, ReadForVoid, Start, FreeInv, TypeOK, Billable
<1>5. OwnScope'
  BY <1>2, <1>3 DEF FreeInv, OwnScope, OnInvoice, invoiceVars
<1>6. OwnOrders' /\ NothingYet'
  BY <1>2, <1>3, <1>4 DEF FreeInv, OwnOrders, NothingYet, invoiceVars
<1>7. NumbersInv'
  BY <1>2 DEF FreeInv, NumbersInv, NumbersAreUnique, invoiceVars
<1> QED
  BY <1>1, <1>5, <1>6, <1>7 DEF FreeInv

LEMMA GenerateFreeInv ==
    ASSUME BillingAssumption, FreeInv, NEW h \in Handlers,
           \/ \E i \in Invoices : FindDraft(h, i) \/ CreateDraft(h, i)
           \/ FindNoDraft(h)
           \/ RewriteDraft(h)
    PROVE  FreeInv'
<1> DEFINE req == inFlight[h]
<1> USE DEF Goto, Finish
<1>1. TypeOK' /\ ScopesKnown'
  BY GenerateTypeOK DEF FreeInv
<1>2. TypeOK
  BY DEF FreeInv
<1>3. /\ \A g \in Handlers \ {h} : inFlight'[g] = inFlight[g]
      /\ inFlight'[h].at # "number"
      /\ UNCHANGED lastNumber
      /\ UNCHANGED number
  BY <1>2 DEF FindDraft, CreateDraft, FindNoDraft, RewriteDraft, TypeOK, invoiceVars, Idle
<1>4. ASSUME NEW i \in Invoices, FindDraft(h, i)
      PROVE  OwnScope' /\ OwnOrders' /\ NothingYet'
  <2>1. /\ UNCHANGED invoiceVars
        /\ inFlight'[h] = [at |-> "rebuild", scope |-> req.scope,
                          billable |-> req.billable, invoice |-> i, gone |-> lines[i]]
        /\ status[i] = "DRAFT" /\ scope[i] = req.scope
        /\ req.at = "generate"
    BY <1>2, <1>4 DEF FindDraft, Drafts, Of, TypeOK
  <2> QED
    BY <1>3, <2>1 DEF FreeInv, OwnScope, OnInvoice, OwnOrders, NothingYet, invoiceVars
<1>5. ASSUME FindNoDraft(h)
      PROVE  OwnScope' /\ OwnOrders' /\ NothingYet'
  <2>1. /\ UNCHANGED invoiceVars
        /\ inFlight'[h] = [at |-> "rebuild", scope |-> req.scope,
                          billable |-> req.billable, invoice |-> Null, gone |-> {}]
        /\ req.at = "generate"
    BY <1>2, <1>5 DEF FindNoDraft, TypeOK
  <2> QED
    BY <1>3, <2>1 DEF FreeInv, OwnScope, OnInvoice, OwnOrders, NothingYet, invoiceVars
<1>6. ASSUME NEW i \in Invoices, CreateDraft(h, i)
      PROVE  OwnScope' /\ OwnOrders' /\ NothingYet'
  <2>1. /\ inFlight'[h] = Idle
        /\ status[i] = "NONE" /\ req.at = "rebuild"
        /\ status' = [status EXCEPT ![i] = "DRAFT"]
        /\ scope' = [scope EXCEPT ![i] = req.scope]
        /\ lines' = [lines EXCEPT ![i] = req.billable]
        /\ totals' = [totals EXCEPT ![i] = req.billable]
    BY <1>2, <1>6 DEF CreateDraft, TypeOK
  <2>2. OwnScope'
    BY <1>2, <1>3, <2>1 DEF FreeInv, OwnScope, OnInvoice, Idle, TypeOK
  <2>3. OwnOrders' /\ NothingYet'
    BY <1>2, <1>3, <2>1 DEF FreeInv, OwnOrders, NothingYet, Idle, TypeOK
  <2> QED
    BY <2>2, <2>3
<1>7. ASSUME RewriteDraft(h)
      PROVE  OwnScope' /\ OwnOrders' /\ NothingYet'
  <2>1. /\ inFlight'[h] = Idle
        /\ UNCHANGED <<status, scope, number>>
        /\ req.at = "rebuild"
        /\ lines' = [lines EXCEPT ![req.invoice] = Rewritten(req)]
        /\ totals' = [totals EXCEPT ![req.invoice] = req.billable]
        /\ OnInvoice(h)
    BY <1>2, <1>7 DEF RewriteDraft, OnInvoice, TypeOK
  <2>2. status[req.invoice] # "NONE" /\ scope[req.invoice] = req.scope
    BY <2>1 DEF FreeInv, OwnScope
  <2>3. req.invoice \in Invoices
    BY <1>2, <1>7, CarriedType DEF RewriteDraft, Rebuild
  <2>4. \A o \in Rewritten(req) : ScopeOf[o] = req.scope
    BY <2>1, <2>2, <2>3 DEF Rewritten, FreeInv, OwnOrders
  <2>5. OwnOrders'
    BY <1>2, <1>3, <2>1, <2>2, <2>4 DEF FreeInv, OwnOrders, Idle, TypeOK
  <2>6. OwnScope'
    BY <1>3, <2>1 DEF FreeInv, OwnScope, OnInvoice, Idle
  <2>7. NothingYet'
    BY <1>2, <2>1, <2>2 DEF FreeInv, NothingYet, TypeOK
  <2> QED
    BY <2>5, <2>6, <2>7
<1>8. NumbersInv'
  BY <1>3 DEF FreeInv, NumbersInv, NumbersAreUnique
<1> QED
  BY <1>1, <1>4, <1>5, <1>6, <1>7, <1>8 DEF FreeInv

LEMMA IssueFreeInv ==
    ASSUME BillingAssumption, FreeInv, NEW h \in Handlers,
           TakeNumber(h) \/ IssueInvoice(h)
    PROVE  FreeInv'
<1> DEFINE req == inFlight[h]
<1> USE DEF Goto, Finish
<1>1. TypeOK' /\ ScopesKnown'
  BY IssueTypeOK DEF FreeInv
<1>2. TypeOK
  BY DEF FreeInv
<1>3. CASE TakeNumber(h)
  <2>1. /\ UNCHANGED <<invoiceVars, lastNumber>>
        /\ inFlight'[h] = [at |-> "number", scope |-> req.scope,
                          invoice |-> req.invoice, next |-> lastNumber + 1]
        /\ \A g \in Handlers \ {h} : inFlight'[g] = inFlight[g]
        /\ \A g \in Handlers : inFlight[g].at # "number"
        /\ req.at = "issue"
    BY <1>2, <1>3 DEF TakeNumber, NextNumber, CounterIsFree, TypeOK
  <2>2. OwnScope' /\ OwnOrders' /\ NothingYet'
    BY <2>1 DEF FreeInv, OwnScope, OnInvoice, OwnOrders, NothingYet, invoiceVars
  <2>3. NumbersInv'
    BY <2>1 DEF FreeInv, NumbersInv, NumbersAreUnique, invoiceVars
  <2> QED
    BY <1>1, <2>2, <2>3 DEF FreeInv
<1>4. CASE IssueInvoice(h)
  <2>1. /\ inFlight'[h] = Idle
        /\ \A g \in Handlers \ {h} : inFlight'[g] = inFlight[g]
        /\ req.at = "number" /\ lastNumber' = req.next
        /\ number' = [number EXCEPT ![req.invoice] = req.next]
        /\ status' = [status EXCEPT ![req.invoice] = "ISSUED"]
        /\ UNCHANGED <<shipped, scope, lines, totals>>
    BY <1>2, <1>4 DEF IssueInvoice, TypeOK
  <2>2. OwnScope'
    BY <1>2, <2>1 DEF FreeInv, OwnScope, OnInvoice, Idle, TypeOK
  <2>3. OwnOrders' /\ NothingYet'
    BY <1>2, <2>1 DEF FreeInv, OwnOrders, NothingYet, Idle, TypeOK
  <2>4. req.next = lastNumber + 1 /\ \A g \in Handlers \ {h} : inFlight[g].at # "number"
    BY <2>1 DEF FreeInv, NumbersInv
  <2>5. number \in [Invoices -> Nat] /\ lastNumber \in Nat
    BY <1>2 DEF TypeOK, BillingAssumption
  <2>6. NumbersInv'
    <3>1. \A i \in Invoices : number'[i] = IF i = req.invoice THEN lastNumber + 1
                                                              ELSE number[i]
      BY <2>1, <2>4, <2>5
    <3>2. \A i \in Invoices : number[i] <= lastNumber
      BY DEF FreeInv, NumbersInv
    <3>3. NumbersAreUnique'
      BY <2>5, <3>1, <3>2 DEF FreeInv, NumbersInv, NumbersAreUnique
    <3>4. \A g \in Handlers : inFlight'[g].at # "number"
      BY <2>1, <2>4 DEF Idle
    <3> QED
      BY <2>1, <2>4, <2>5, <3>1, <3>2, <3>3, <3>4 DEF NumbersInv
  <2> QED
    BY <1>1, <2>2, <2>3, <2>6 DEF FreeInv
<1> QED
  BY <1>3, <1>4

LEMMA SettleFreeInv ==
    ASSUME BillingAssumption, FreeInv, NEW h \in Handlers,
           MarkInvoicePaid(h) \/ VoidInvoice(h) \/ Abort(h)
    PROVE  FreeInv'
<1> USE DEF Goto, Finish
<1>1. TypeOK' /\ ScopesKnown'
  BY SettleTypeOK DEF FreeInv
<1>2. TypeOK
  BY DEF FreeInv
<1>3. /\ inFlight'[h] = Idle
      /\ \A g \in Handlers \ {h} : inFlight'[g] = inFlight[g]
      /\ UNCHANGED <<scope, number, lines, totals, lastNumber>>
      /\ \A i \in Invoices : status'[i] = "NONE" <=> status[i] = "NONE"
  <2>1. \A i \in Invoices : scope'[i] = scope[i]
    BY DEF MarkInvoicePaid, VoidInvoice, SetStatus, Abort, invoiceVars
  <2>2. \A i \in Invoices : status'[i] = "NONE" <=> status[i] = "NONE"
    BY <1>1, <2>1 DEF FreeInv, ScopesKnown
  <2> QED
    BY <1>2, <2>2 DEF MarkInvoicePaid, VoidInvoice, SetStatus, Abort, TypeOK, invoiceVars
<1>4. OwnScope'
  <2>1. \A g \in Handlers \ {h} : OnInvoice(g) => inFlight[g].invoice \in Invoices
    BY <1>2, CarriedType DEF OnInvoice, Rebuild, Change, Numbering
  <2> QED
    BY <1>3, <2>1 DEF FreeInv, OwnScope, OnInvoice, Idle
<1>5. OwnOrders' /\ NothingYet'
  BY <1>3 DEF FreeInv, OwnOrders, NothingYet, Idle
<1>6. NumbersInv'
  BY <1>3 DEF FreeInv, NumbersInv, NumbersAreUnique, Idle
<1> QED
  BY <1>1, <1>4, <1>5, <1>6 DEF FreeInv

-----------------------------------------------------------------------------
(* What holds of a scope whose requests come one at a time.                *)

OneRequest ==
    \A g, h \in Handlers :
        g # h /\ ~ IsIdle(g) /\ ~ IsIdle(h) /\ inFlight[g].scope = inFlight[h].scope =>
            inFlight[g].scope \in overlapped

OneDraft ==
    \A i, j \in Invoices :
        i # j /\ status[i] = "DRAFT" /\ status[j] = "DRAFT" /\ scope[i] = scope[j] =>
            scope[i] \in overlapped

\* A draft has no order of a live invoice either.
BilledApart ==
    \A i, j \in Invoices :
        /\ i # j
        /\ Live(i) \/ status[i] = "DRAFT"
        /\ Live(j)
        /\ scope[i] = scope[j]
        => scope[i] \in overlapped \/ lines[i] \cap lines[j] = {}

\* What a request has read is still so.
StillSo(req) ==
    /\ req.at \in {"generate", "rebuild"} =>
         \A i \in Invoices : Live(i) => req.billable \cap lines[i] = {}
    /\ req.at = "rebuild" =>
         \/ req.invoice = Null /\ Drafts(req.scope) = {}
         \/ /\ req.invoice \in Invoices
            /\ status[req.invoice] = "DRAFT"
            /\ lines[req.invoice] = req.gone
    /\ req.at \in {"issue", "number"} =>
         status[req.invoice] = "DRAFT" /\ totals[req.invoice] # {}
    /\ req.at = "pay" => status[req.invoice] = "ISSUED"
    /\ req.at = "void" => Live(req.invoice)

ReadIsTrue ==
    \A h \in Handlers :
        ~ IsIdle(h) => inFlight[h].scope \in overlapped \/ StillSo(inFlight[h])

ApartInv ==
    /\ OneRequest
    /\ OneDraft
    /\ BilledApart
    /\ ReadIsTrue
    /\ TotalsAreOfTheLines
    /\ NumbersAreUnbroken

BillingInv == FreeInv /\ ApartInv

LEMMA InitApartInv ==
    ASSUME BillingAssumption, Init
    PROVE  ApartInv
<1>1. /\ \A h \in Handlers : IsIdle(h)
      /\ \A i \in Invoices : status[i] = "NONE" /\ lines[i] = {} /\ totals[i] = {} /\ number[i] = 0
      /\ lastNumber = 0
  BY DEF Init, IsIdle
<1>2. OneRequest /\ OneDraft /\ BilledApart /\ ReadIsTrue /\ TotalsAreOfTheLines
  BY <1>1 DEF OneRequest, OneDraft, BilledApart, ReadIsTrue, TotalsAreOfTheLines, Live
<1>3. {number[i] : i \in Invoices} \ {0} = 1..lastNumber
  BY <1>1
<1>4. NumbersAreUnbroken
  BY <1>1, <1>3 DEF NumbersAreUnbroken
<1> QED
  BY <1>2, <1>4 DEF ApartInv

\* What a step of h does to an invoice of its scope leaves the requests about
\* other scopes alone.
LEMMA OthersStillSo ==
    ASSUME BillingAssumption, FreeInv, FreeInv', OneRequest, ReadIsTrue,
           NEW h \in Handlers, ~ IsIdle(h), NEW i \in Invoices,
           scope'[i] = inFlight[h].scope,
           status[i] = "NONE" \/ scope[i] = inFlight[h].scope,
           \A j \in Invoices \ {i} :
               /\ status'[j] = status[j] /\ scope'[j] = scope[j]
               /\ lines'[j] = lines[j] /\ totals'[j] = totals[j],
           \A g \in Handlers \ {h} : inFlight'[g] = inFlight[g],
           overlapped' = overlapped
    PROVE  \A g \in Handlers \ {h} :
             ~ IsIdle(g) => inFlight[g].scope \in overlapped \/ StillSo(inFlight[g])'
<1> SUFFICES ASSUME NEW g \in Handlers \ {h}, ~ IsIdle(g),
                    inFlight[g].scope \notin overlapped
             PROVE  StillSo(inFlight[g])'
  OBVIOUS
<1> DEFINE req == inFlight[g]
<1>1. req.scope # inFlight[h].scope
  BY DEF OneRequest
<1>2. StillSo(req)
  BY DEF ReadIsTrue
<1>3. inFlight'[g] = inFlight[g]
  OBVIOUS
<1>4. OnInvoice(g) => req.invoice # i /\ req.invoice \in Invoices
  <2>1. OnInvoice(g) => status[req.invoice] # "NONE" /\ scope[req.invoice] = req.scope
    BY DEF FreeInv, OwnScope
  <2>2. OnInvoice(g) => req.invoice \in Invoices
    BY CarriedType DEF FreeInv, OnInvoice, Rebuild, Change, Numbering
  <2> QED
    BY <1>1, <2>1, <2>2
<1>5. req.at \in {"generate", "rebuild"} =>
        \A j \in Invoices : (status'[j] \in {"ISSUED", "PAID"}) => req.billable \cap lines'[j] = {}
  <2> SUFFICES ASSUME req.at \in {"generate", "rebuild"}, NEW j \in Invoices,
                      status'[j] \in {"ISSUED", "PAID"}
               PROVE  req.billable \cap lines'[j] = {}
    OBVIOUS
  <2>1. CASE j = i
    <3>1. \A o \in lines'[j] : ScopeOf[o] = inFlight[h].scope
      BY <2>1 DEF FreeInv, OwnOrders
    <3>2. \A o \in req.billable : ScopeOf[o] = req.scope
      BY DEF FreeInv, OwnOrders
    <3> QED
      BY <1>1, <3>1, <3>2
  <2>2. CASE j # i
    BY <1>2, <2>2 DEF StillSo, Live
  <2> QED
    BY <2>1, <2>2
<1>6. Drafts(req.scope) = {} => Drafts(req.scope)' = {}
  BY <1>1, <1>3 DEF Drafts, Of
<1>7. \A j \in Invoices \ {i} :
        (status[j] \in {"ISSUED", "PAID"}) => status'[j] \in {"ISSUED", "PAID"}
  OBVIOUS
<1> QED
  BY <1>2, <1>3, <1>4, <1>5, <1>6, <1>7 DEF StillSo, Live, OnInvoice

\* Reading changes nothing but what is being worked on.
LEMMA SameInvoices ==
    ASSUME ApartInv, UNCHANGED <<invoiceVars, lastNumber>>, overlapped \subseteq overlapped'
    PROVE  (OneDraft /\ BilledApart /\ TotalsAreOfTheLines /\ NumbersAreUnbroken)'
<1>1. OneDraft' /\ BilledApart' /\ TotalsAreOfTheLines'
  BY DEF ApartInv, OneDraft, BilledApart, TotalsAreOfTheLines, Live, invoiceVars
<1>2. NumbersAreUnbroken'
  <2>1. overlapped' = {} => overlapped = {}
    OBVIOUS
  <2> QED
    BY <2>1 DEF ApartInv, NumbersAreUnbroken, invoiceVars
<1> QED
  BY <1>1, <1>2

LEMMA ReadsApartInv ==
    ASSUME BillingAssumption, FreeInv, ApartInv, NEW h \in Handlers,
           \/ \E c \in Scopes : ReadForGenerate(h, c)
           \/ \E i \in Invoices : ReadForIssue(h, i) \/ ReadForPaid(h, i) \/ ReadForVoid(h, i)
    PROVE  ApartInv'
<1>1. PICK c, req : Start(h, c, req) /\ req.scope = c /\ StillSo(req) /\ req.at # "idle"
  <2>1. CASE \E c \in Scopes : ReadForGenerate(h, c)
    <3>1. PICK c \in Scopes : ReadForGenerate(h, c)
      BY <2>1
    <3> DEFINE req == [at |-> "generate", scope |-> c, billable |-> Billable(c)]
    <3>2. StillSo(req)
      BY DEF StillSo, Billable, Billed, BilledOn
    <3>3. Start(h, c, req) /\ req.scope = c /\ req.at # "idle"
      BY <3>1 DEF ReadForGenerate
    <3> QED
      BY <3>2, <3>3
  <2>2. CASE \E i \in Invoices : ReadForIssue(h, i) \/ ReadForPaid(h, i) \/ ReadForVoid(h, i)
    <3>1. PICK i \in Invoices : ReadForIssue(h, i) \/ ReadForPaid(h, i) \/ ReadForVoid(h, i)
      BY <2>2
    <3>2. PICK at \in {"issue", "pay", "void"} :
            /\ Start(h, scope[i], [at |-> at, scope |-> scope[i], invoice |-> i])
            /\ at = "issue" => status[i] = "DRAFT" /\ totals[i] # {}
            /\ at = "pay" => status[i] = "ISSUED"
            /\ at = "void" => Live(i)
      BY <3>1 DEF ReadForIssue, ReadForPaid, ReadForVoid
    <3> DEFINE req == [at |-> at, scope |-> scope[i], invoice |-> i]
    <3>3. StillSo(req) /\ req.scope = scope[i] /\ req.at # "idle"
      BY <3>2 DEF StillSo
    <3> QED
      BY <3>2, <3>3
  <2> QED
    BY <2>1, <2>2
<1>2. /\ UNCHANGED <<invoiceVars, lastNumber>>
      /\ inFlight[h] = Idle
      /\ inFlight'[h] = req
      /\ \A g \in Handlers \ {h} : inFlight'[g] = inFlight[g]
      /\ overlapped \subseteq overlapped'
      /\ \A g \in Handlers \ {h} : ~ IsIdle(g) /\ inFlight[g].scope = c => c \in overlapped'
  BY <1>1 DEF Start, IsIdle, FreeInv, TypeOK
<1>3. OneRequest'
  BY <1>1, <1>2 DEF ApartInv, OneRequest, IsIdle
<1>4. ASSUME NEW r, StillSo(r)
      PROVE  \A s : s = r => StillSo(s)'
  BY <1>2, <1>4 DEF StillSo, Live, Drafts, Of, invoiceVars
<1>5. ReadIsTrue'
  BY <1>1, <1>2, <1>4 DEF ApartInv, ReadIsTrue, IsIdle
<1> QED
  BY <1>2, <1>3, <1>5, SameInvoices DEF ApartInv

\* A request that goes on, or ends, leaves requests of one scope as apart as before.
LEMMA OneRequestKept ==
    ASSUME OneRequest, NEW h \in Handlers, ~ IsIdle(h),
           \A g \in Handlers \ {h} : inFlight'[g] = inFlight[g],
           inFlight'[h] = Idle \/ inFlight'[h].scope = inFlight[h].scope,
           overlapped' = overlapped
    PROVE  OneRequest'
BY DEF OneRequest, IsIdle

\* A request that goes on without touching an invoice.
LEMMA QuietApartInv ==
    ASSUME BillingAssumption, FreeInv, ApartInv, NEW h \in Handlers,
           \/ \E i \in Invoices : FindDraft(h, i)
           \/ FindNoDraft(h)
           \/ TakeNumber(h)
           \/ Abort(h)
    PROVE  ApartInv'
<1> DEFINE req == inFlight[h]
<1> USE DEF Goto, Finish
<1>1. TypeOK
  BY DEF FreeInv
<1>2. /\ UNCHANGED <<invoiceVars, lastNumber, overlapped>>
      /\ ~ IsIdle(h)
      /\ \A g \in Handlers \ {h} : inFlight'[g] = inFlight[g]
  BY <1>1 DEF FindDraft, FindNoDraft, TakeNumber, NextNumber, Abort, IsIdle, Idle, TypeOK
<1>3. /\ inFlight'[h] = Idle \/ inFlight'[h].scope = req.scope
      /\ StillSo(req) => inFlight'[h] = Idle \/ StillSo(inFlight'[h])
  <2>1. ASSUME NEW i \in Invoices, FindDraft(h, i)
        PROVE  inFlight'[h].scope = req.scope /\ (StillSo(req) => StillSo(inFlight'[h]))
    <3>1. /\ inFlight'[h] = [at |-> "rebuild", scope |-> req.scope,
                             billable |-> req.billable, invoice |-> i, gone |-> lines[i]]
          /\ req.at = "generate" /\ status[i] = "DRAFT"
      BY <1>1, <2>1 DEF FindDraft, Drafts, TypeOK
    <3> QED
      BY <3>1 DEF StillSo
  <2>2. ASSUME FindNoDraft(h)
        PROVE  inFlight'[h].scope = req.scope /\ (StillSo(req) => StillSo(inFlight'[h]))
    <3>1. /\ inFlight'[h] = [at |-> "rebuild", scope |-> req.scope,
                             billable |-> req.billable, invoice |-> Null, gone |-> {}]
          /\ req.at = "generate" /\ Drafts(req.scope) = {}
      BY <1>1, <2>2 DEF FindNoDraft, TypeOK
    <3> QED
      BY <3>1 DEF StillSo
  <2>3. ASSUME TakeNumber(h)
        PROVE  inFlight'[h].scope = req.scope /\ (StillSo(req) => StillSo(inFlight'[h]))
    <3>1. /\ inFlight'[h] = [at |-> "number", scope |-> req.scope,
                             invoice |-> req.invoice, next |-> lastNumber + 1]
          /\ req.at = "issue"
      BY <1>1, <2>3 DEF TakeNumber, NextNumber, TypeOK
    <3> QED
      BY <3>1 DEF StillSo
  <2>4. Abort(h) => inFlight'[h] = Idle
    BY <1>1 DEF Abort, TypeOK
  <2> QED
    BY <2>1, <2>2, <2>3, <2>4
<1>4. OneRequest'
  BY <1>2, <1>3, OneRequestKept DEF ApartInv
<1>5. ASSUME NEW r, StillSo(r)
      PROVE  \A s : s = r => StillSo(s)'
  BY <1>2, <1>5 DEF StillSo, Live, Drafts, Of, invoiceVars
<1>6. ReadIsTrue'
  <2> SUFFICES ASSUME NEW g \in Handlers, ~ IsIdle(g)', inFlight'[g].scope \notin overlapped
               PROVE  StillSo(inFlight[g])'
    BY <1>2 DEF ReadIsTrue
  <2>1. StillSo(inFlight'[g])
    BY <1>2, <1>3 DEF ApartInv, ReadIsTrue, IsIdle
  <2> QED
    BY <1>5, <2>1
<1> QED
  BY <1>2, <1>4, <1>6, SameInvoices DEF ApartInv

\* A request that ends by writing an invoice of its scope leaves what the others have
\* read as true as it was.
LEMMA CommitReadIsTrue ==
    ASSUME BillingAssumption, FreeInv, FreeInv', ApartInv,
           NEW h \in Handlers, ~ IsIdle(h), NEW i \in Invoices,
           scope'[i] = inFlight[h].scope,
           status[i] = "NONE" \/ scope[i] = inFlight[h].scope,
           \A j \in Invoices \ {i} :
               /\ status'[j] = status[j] /\ scope'[j] = scope[j]
               /\ lines'[j] = lines[j] /\ totals'[j] = totals[j],
           \A g \in Handlers \ {h} : inFlight'[g] = inFlight[g],
           inFlight'[h] = Idle,
           overlapped' = overlapped
    PROVE  OneRequest' /\ ReadIsTrue'
<1>1. OneRequest /\ ReadIsTrue
  BY DEF ApartInv
<1>2. OneRequest'
  BY <1>1, OneRequestKept
<1>3. \A g \in Handlers \ {h} :
        ~ IsIdle(g) => inFlight[g].scope \in overlapped \/ StillSo(inFlight[g])'
  BY <1>1, OthersStillSo
<1>4. ReadIsTrue'
  BY <1>3 DEF ReadIsTrue, IsIdle
<1> QED
  BY <1>2, <1>4

LEMMA CreateApartInv ==
    ASSUME BillingAssumption, FreeInv, FreeInv', ApartInv, NEW h \in Handlers,
           NEW i \in Invoices, CreateDraft(h, i)
    PROVE  ApartInv'
<1> DEFINE req == inFlight[h]
           c == req.scope
<1>1. /\ inFlight'[h] = Idle /\ ~ IsIdle(h)
      /\ \A g \in Handlers \ {h} : inFlight'[g] = inFlight[g]
      /\ req.at = "rebuild" /\ req.invoice = Null
      /\ status[i] = "NONE" /\ status'[i] = "DRAFT"
      /\ scope'[i] = c
      /\ lines'[i] = req.billable /\ totals'[i] = req.billable
      /\ \A j \in Invoices \ {i} : /\ status'[j] = status[j] /\ scope'[j] = scope[j]
                                   /\ lines'[j] = lines[j] /\ totals'[j] = totals[j]
      /\ UNCHANGED <<number, lastNumber, overlapped>>
  BY DEF CreateDraft, Finish, Goto, FreeInv, TypeOK, IsIdle, Idle
<1>2. OneRequest' /\ ReadIsTrue'
  BY <1>1, CommitReadIsTrue
<1>3. c \in overlapped \/ StillSo(req)
  BY <1>1 DEF ApartInv, ReadIsTrue
<1>4. Null \notin Invoices
  BY DEF BillingAssumption
<1>5. c \notin overlapped => \A j \in Invoices : status[j] = "DRAFT" => scope[j] # c
  BY <1>1, <1>3, <1>4 DEF StillSo, Drafts, Of
<1>6. OneDraft'
  BY <1>1, <1>5 DEF ApartInv, OneDraft
<1>7. c \notin overlapped => \A j \in Invoices : Live(j) => req.billable \cap lines[j] = {}
  BY <1>1, <1>3 DEF StillSo
<1>8. BilledApart'
  BY <1>1, <1>7 DEF ApartInv, BilledApart, Live
<1>9. TotalsAreOfTheLines'
  BY <1>1 DEF ApartInv, TotalsAreOfTheLines
<1>10. NumbersAreUnbroken'
  <2>1. number[i] = 0
    BY <1>1 DEF FreeInv, NothingYet
  <2>2. \A j \in Invoices : status'[j] \in {"NONE", "DRAFT"} <=> status[j] \in {"NONE", "DRAFT"}
    BY <1>1
  <2> QED
    BY <1>1, <2>2 DEF ApartInv, NumbersAreUnbroken
<1> QED
  BY <1>2, <1>6, <1>8, <1>9, <1>10 DEF ApartInv

LEMMA RewriteApartInv ==
    ASSUME BillingAssumption, FreeInv, FreeInv', ApartInv, NEW h \in Handlers, RewriteDraft(h)
    PROVE  ApartInv'
<1> DEFINE req == inFlight[h]
           i == req.invoice
           c == req.scope
<1>1. i \in Invoices /\ scope[i] = c
  <2>1. OnInvoice(h) /\ inFlight[h] \in Rebuild
    BY CarriedType DEF RewriteDraft, OnInvoice, FreeInv
  <2> QED
    BY <2>1 DEF RewriteDraft, FreeInv, OwnScope, Rebuild
<1>2. /\ inFlight'[h] = Idle /\ ~ IsIdle(h)
      /\ \A g \in Handlers \ {h} : inFlight'[g] = inFlight[g]
      /\ req.at = "rebuild"
      /\ lines'[i] = Rewritten(req) /\ totals'[i] = req.billable
      /\ UNCHANGED <<status, scope, number, lastNumber, overlapped>>
      /\ \A j \in Invoices \ {i} : lines'[j] = lines[j] /\ totals'[j] = totals[j]
  BY <1>1 DEF RewriteDraft, Finish, Goto, FreeInv, TypeOK, IsIdle, Idle
<1>3. OneRequest' /\ ReadIsTrue'
  BY <1>1, <1>2, CommitReadIsTrue
<1>4. c \in overlapped \/ StillSo(req)
  BY <1>2 DEF ApartInv, ReadIsTrue
<1>5. Null \notin Invoices
  BY DEF BillingAssumption
<1>6. c \notin overlapped =>
        /\ status[i] = "DRAFT"
        /\ lines'[i] = req.billable
        /\ \A j \in Invoices : Live(j) => req.billable \cap lines[j] = {}
  <2> SUFFICES ASSUME StillSo(req)
               PROVE  /\ status[i] = "DRAFT"
                      /\ lines'[i] = req.billable
                      /\ \A j \in Invoices : Live(j) => req.billable \cap lines[j] = {}
    BY <1>4
  <2>1. status[i] = "DRAFT" /\ lines[i] = req.gone
    BY <1>1, <1>2, <1>5 DEF StillSo
  <2>2. lines'[i] = req.billable
    BY <1>2, <2>1 DEF Rewritten
  <2> QED
    BY <1>2, <2>1, <2>2 DEF StillSo
<1>7. OneDraft' /\ NumbersAreUnbroken'
  BY <1>2 DEF ApartInv, OneDraft, NumbersAreUnbroken
<1>8. BilledApart'
  BY <1>1, <1>2, <1>6 DEF ApartInv, BilledApart, Live
<1>9. TotalsAreOfTheLines'
  BY <1>1, <1>2, <1>6 DEF ApartInv, TotalsAreOfTheLines
<1> QED
  BY <1>3, <1>7, <1>8, <1>9 DEF ApartInv

LEMMA IssueApartInv ==
    ASSUME BillingAssumption, FreeInv, FreeInv', ApartInv, NEW h \in Handlers, IssueInvoice(h)
    PROVE  ApartInv'
<1> DEFINE req == inFlight[h]
           i == req.invoice
           c == req.scope
<1>1. i \in Invoices /\ scope[i] = c
  <2>1. OnInvoice(h) /\ inFlight[h] \in Numbering
    BY CarriedType DEF IssueInvoice, OnInvoice, FreeInv
  <2> QED
    BY <2>1 DEF FreeInv, OwnScope, Numbering
<1>2. /\ inFlight'[h] = Idle /\ ~ IsIdle(h)
      /\ \A g \in Handlers \ {h} : inFlight'[g] = inFlight[g]
      /\ req.at = "number" /\ req.next = lastNumber + 1
      /\ lastNumber' = lastNumber + 1
      /\ status'[i] = "ISSUED"
      /\ \A j \in Invoices \ {i} : status'[j] = status[j]
      /\ \A j \in Invoices : number'[j] = IF j = i THEN lastNumber + 1 ELSE number[j]
      /\ UNCHANGED <<scope, lines, totals, overlapped>>
  BY <1>1 DEF IssueInvoice, Finish, Goto, FreeInv, TypeOK, NumbersInv, IsIdle, Idle
<1>3. OneRequest' /\ ReadIsTrue'
  BY <1>1, <1>2, CommitReadIsTrue
<1>4. c \notin overlapped => status[i] = "DRAFT" /\ totals[i] # {}
  BY <1>2 DEF ApartInv, ReadIsTrue, StillSo
<1>5. OneDraft'
  BY <1>1, <1>2 DEF ApartInv, OneDraft
<1>6. BilledApart'
  <2> SUFFICES ASSUME NEW k \in Invoices, NEW j \in Invoices, k # j,
                      Live(k)' \/ status'[k] = "DRAFT", Live(j)',
                      scope[k] = scope[j], scope[k] \notin overlapped
               PROVE  lines[k] \cap lines[j] = {}
    BY <1>2 DEF BilledApart
  <2>1. CASE j = i
    <3>1. status[i] = "DRAFT" /\ scope[k] = c
      BY <1>1, <1>4, <2>1
    <3>2. status[k] # "DRAFT"
      BY <1>1, <2>1, <3>1 DEF ApartInv, OneDraft
    <3>3. Live(k)
      BY <1>2, <2>1, <3>2 DEF Live
    <3> QED
      BY <2>1, <3>1, <3>3 DEF ApartInv, BilledApart
  <2>2. CASE j # i
    <3>1. Live(j)
      BY <1>2, <2>2 DEF Live
    <3>2. Live(k) \/ status[k] = "DRAFT"
      BY <1>1, <1>2, <1>4 DEF Live
    <3> QED
      BY <3>1, <3>2 DEF ApartInv, BilledApart
  <2> QED
    BY <2>1, <2>2
<1>7. TotalsAreOfTheLines'
  BY <1>1, <1>2, <1>4 DEF ApartInv, TotalsAreOfTheLines
<1>8. NumbersAreUnbroken'
  <2> SUFFICES ASSUME overlapped = {}
               PROVE  /\ {number'[j] : j \in Invoices} \ {0} = 1..(lastNumber + 1)
                      /\ \A j \in Invoices :
                           number'[j] = 0 <=> status'[j] \in {"NONE", "DRAFT"}
    BY <1>2 DEF NumbersAreUnbroken
  <2>1. status[i] = "DRAFT" /\ number[i] = 0
    BY <1>1, <1>4 DEF ApartInv, NumbersAreUnbroken
  <2>2. /\ {number[j] : j \in Invoices} \ {0} = 1..lastNumber
        /\ \A j \in Invoices : number[j] = 0 <=> status[j] \in {"NONE", "DRAFT"}
    BY DEF ApartInv, NumbersAreUnbroken
  <2>3. lastNumber \in Nat
    BY DEF FreeInv, TypeOK, BillingAssumption
  <2>4. {number'[j] : j \in Invoices} \ {0} \subseteq 1..(lastNumber + 1)
    BY <1>2, <2>2, <2>3
  <2>5. ASSUME NEW n \in 1..(lastNumber + 1)
        PROVE  n \in {number'[j] : j \in Invoices} \ {0}
    <3>1. CASE n = lastNumber + 1
      BY <1>1, <1>2, <2>3, <3>1
    <3>2. CASE n # lastNumber + 1
      <4>1. n \in 1..lastNumber
        BY <2>3, <3>2
      <4>2. PICK j \in Invoices : number[j] = n
        BY <2>2, <4>1
      <4>3. j # i
        BY <2>1, <2>3, <4>1, <4>2
      <4> QED
        BY <1>2, <2>3, <4>1, <4>2, <4>3
    <3> QED
      BY <3>1, <3>2
  <2>6. \A j \in Invoices : number'[j] = 0 <=> status'[j] \in {"NONE", "DRAFT"}
    BY <1>2, <2>2, <2>3
  <2> QED
    BY <2>4, <2>5, <2>6
<1> QED
  BY <1>3, <1>5, <1>6, <1>7, <1>8 DEF ApartInv

LEMMA SettleApartInv ==
    ASSUME BillingAssumption, FreeInv, FreeInv', ApartInv, NEW h \in Handlers,
           MarkInvoicePaid(h) \/ VoidInvoice(h)
    PROVE  ApartInv'
<1> DEFINE req == inFlight[h]
           i == req.invoice
           c == req.scope
<1>1. i \in Invoices /\ scope[i] = c
  <2>1. OnInvoice(h) /\ inFlight[h] \in Change
    BY CarriedType DEF MarkInvoicePaid, VoidInvoice, SetStatus, OnInvoice, FreeInv
  <2> QED
    BY <2>1 DEF FreeInv, OwnScope, Change
<1>2. /\ inFlight'[h] = Idle /\ ~ IsIdle(h)
      /\ \A g \in Handlers \ {h} : inFlight'[g] = inFlight[g]
      /\ \/ req.at = "pay" /\ status'[i] = "PAID"
         \/ req.at = "void" /\ status'[i] = "VOID"
      /\ \A j \in Invoices \ {i} : status'[j] = status[j]
      /\ UNCHANGED <<scope, number, lines, totals, lastNumber, overlapped>>
  <2>1. ASSUME NEW at, NEW to, at # "idle", SetStatus(h, at, to), UNCHANGED number
        PROVE  /\ inFlight'[h] = Idle /\ ~ IsIdle(h)
               /\ \A g \in Handlers \ {h} : inFlight'[g] = inFlight[g]
               /\ req.at = at /\ status'[i] = to
               /\ \A j \in Invoices \ {i} : status'[j] = status[j]
               /\ UNCHANGED <<scope, number, lines, totals, lastNumber, overlapped>>
    BY <1>1, <2>1 DEF SetStatus, Finish, Goto, FreeInv, TypeOK, IsIdle, Idle
  <2>2. CASE MarkInvoicePaid(h)
    BY <2>1, <2>2 DEF MarkInvoicePaid
  <2>3. CASE VoidInvoice(h)
    BY <2>1, <2>3 DEF VoidInvoice
  <2> QED
    BY <2>2, <2>3
<1>3. OneRequest' /\ ReadIsTrue'
  BY <1>1, <1>2, CommitReadIsTrue
<1>4. c \notin overlapped => Live(i)
  BY <1>2 DEF ApartInv, ReadIsTrue, StillSo, Live
<1>5. OneDraft'
  BY <1>2 DEF ApartInv, OneDraft
<1>6. BilledApart'
  BY <1>1, <1>2, <1>4 DEF ApartInv, BilledApart, Live
<1>7. TotalsAreOfTheLines'
  BY <1>1, <1>2, <1>4 DEF ApartInv, TotalsAreOfTheLines, Live
<1>8. NumbersAreUnbroken'
  <2>1. overlapped = {} =>
          \A j \in Invoices : status'[j] \in {"NONE", "DRAFT"} <=> status[j] \in {"NONE", "DRAFT"}
    BY <1>1, <1>2, <1>4 DEF Live
  <2> QED
    BY <1>2, <2>1 DEF ApartInv, NumbersAreUnbroken
<1> QED
  BY <1>3, <1>5, <1>6, <1>7, <1>8 DEF ApartInv

-----------------------------------------------------------------------------
(* The theorems.                                                           *)

LEMMA StepBillingInv ==
    ASSUME BillingAssumption, BillingInv, NEW h \in Handlers, Step(h)
    PROVE  BillingInv'
<1> USE DEF BillingInv
<1>1. CASE \/ \E c \in Scopes : ReadForGenerate(h, c)
           \/ \E i \in Invoices : ReadForIssue(h, i) \/ ReadForPaid(h, i) \/ ReadForVoid(h, i)
  BY <1>1, ReadsFreeInv, ReadsApartInv
<1>2. CASE \/ \E i \in Invoices : FindDraft(h, i)
           \/ FindNoDraft(h)
           \/ TakeNumber(h)
           \/ Abort(h)
  BY <1>2, GenerateFreeInv, IssueFreeInv, SettleFreeInv, QuietApartInv
<1>3. ASSUME NEW i \in Invoices, CreateDraft(h, i)
      PROVE  BillingInv'
  BY <1>3, GenerateFreeInv, CreateApartInv
<1>4. CASE RewriteDraft(h)
  BY <1>4, GenerateFreeInv, RewriteApartInv
<1>5. CASE IssueInvoice(h)
  BY <1>5, IssueFreeInv, IssueApartInv
<1>6. CASE MarkInvoicePaid(h) \/ VoidInvoice(h)
  BY <1>6, SettleFreeInv, SettleApartInv
<1> QED
  BY <1>1, <1>2, <1>3, <1>4, <1>5, <1>6 DEF Step

LEMMA ShipBillingInv ==
    ASSUME BillingAssumption, BillingInv, NEW o \in Orders, Ship(o)
    PROVE  BillingInv'
<1> USE DEF BillingInv
<1>1. FreeInv'
  BY ShipFreeInv
<1>2. UNCHANGED <<invoiceVars, lastNumber, inFlight, overlapped>>
  BY DEF Ship
<1>3. (OneRequest /\ ReadIsTrue)'
  BY <1>2 DEF ApartInv, OneRequest, ReadIsTrue, IsIdle, StillSo, Live, Drafts, Of, invoiceVars
<1> QED
  BY <1>1, <1>2, <1>3, SameInvoices DEF ApartInv

LEMMA NextBillingInv ==
    ASSUME BillingAssumption, BillingInv, [Next]_vars
    PROVE  BillingInv'
<1>1. CASE Next
  BY <1>1, StepBillingInv, ShipBillingInv DEF Next
<1>2. CASE UNCHANGED vars
  <2>1. FreeInv'
    BY <1>2 DEF vars, invoiceVars, BillingInv, FreeInv, TypeOK, ScopesKnown, OwnScope, OnInvoice,
                OwnOrders, NothingYet, NumbersInv, NumbersAreUnique
  <2>2. (OneRequest /\ ReadIsTrue)'
    BY <1>2 DEF vars, invoiceVars, BillingInv, ApartInv, OneRequest, ReadIsTrue, IsIdle,
                StillSo, Live, Drafts, Of
  <2> QED
    BY <1>2, <2>1, <2>2, SameInvoices DEF vars, BillingInv, ApartInv
<1> QED
  BY <1>1, <1>2

\* The account of what every invoice, number and request may be, on which the rest
\* stands, holds whatever the requests, their order and their overlaps.
THEOREM InvariantHolds == Spec => []BillingInv
<1>1. Init => BillingInv
  BY BillingAssumption, InitFreeInv, InitApartInv DEF BillingInv
<1>2. BillingInv /\ [Next]_vars => BillingInv'
  BY BillingAssumption, NextBillingInv
<1> QED
  BY <1>1, <1>2, PTL DEF Spec

\* Every invoice row and request keeps to its type (invoices, invoice_lines,
\* invoice_sequences).
THEOREM TypeCorrect == Spec => []TypeOK
<1>1. BillingInv => TypeOK
  BY DEF BillingInv, FreeInv
<1> QED
  BY <1>1, InvariantHolds, PTL

\* No two invoices of any number of handlers ever have one number
\* (nextInvoiceNumber).
THEOREM NumbersAreNeverShared == Spec => []NumbersAreUnique
<1>1. BillingInv => NumbersAreUnique
  BY DEF BillingInv, FreeInv, NumbersInv
<1> QED
  BY <1>1, InvariantHolds, PTL

\* No number is skipped or given up while requests about a month come one at a
\* time (nextInvoiceNumber, voidInvoice).
THEOREM NumbersHaveNoGap == Spec => []NumbersAreUnbroken
<1>1. BillingInv => NumbersAreUnbroken
  BY DEF BillingInv, ApartInv
<1> QED
  BY <1>1, InvariantHolds, PTL

\* No order is on two invoices a customer owes or has paid, unless requests about
\* its month met (generateInvoice's alreadyBilled).
THEOREM NothingIsBilledTwice == Spec => []BilledOnce
<1>1. ASSUME BillingInv, NEW i \in Invoices, NEW j \in Invoices, i # j, Live(i), Live(j),
             NEW o \in lines[i] \cap lines[j]
      PROVE  ScopeOf[o] \in overlapped
  <2>1. ScopeOf[o] = scope[i] /\ ScopeOf[o] = scope[j]
    BY <1>1 DEF BillingInv, FreeInv, OwnOrders
  <2> QED
    BY <1>1, <2>1 DEF BillingInv, ApartInv, BilledApart
<1>2. BillingInv => BilledOnce
  BY <1>1 DEF BilledOnce
<1> QED
  BY <1>2, InvariantHolds, PTL

\* What an invoice asks for is what its lines add up to, and it is issued for
\* something (generateInvoice, issueInvoice).
THEOREM InvoicesAddUp == Spec => []TotalsAreOfTheLines
<1>1. BillingInv => TotalsAreOfTheLines
  BY DEF BillingInv, ApartInv
<1> QED
  BY <1>1, InvariantHolds, PTL

LEMMA FrozenStep ==
    ASSUME BillingAssumption, BillingInv, Next,
           NEW i \in Invoices, status[i] \notin {"NONE", "DRAFT"}, scope[i] \notin overlapped
    PROVE  /\ scope'[i] = scope[i]
           /\ lines'[i] = lines[i]
           /\ totals'[i] = totals[i]
           /\ number'[i] = number[i]
           /\ status'[i] \notin {"NONE", "DRAFT"}
<1>1. CASE UNCHANGED invoiceVars
  BY <1>1 DEF invoiceVars
<1>2. ASSUME NEW h \in Handlers, NEW j \in Invoices, CreateDraft(h, j)
      PROVE  j # i /\ UNCHANGED number
  BY <1>2 DEF CreateDraft
<1>3. ASSUME NEW h \in Handlers, RewriteDraft(h)
      PROVE  inFlight[h].invoice # i
  <2>1. inFlight[h].invoice # Null /\ OnInvoice(h) /\ ~ IsIdle(h)
    BY <1>3 DEF RewriteDraft, OnInvoice, IsIdle, Idle
  <2>2. scope[inFlight[h].invoice] = inFlight[h].scope
    BY <2>1 DEF BillingInv, FreeInv, OwnScope
  <2>3. inFlight[h].scope \notin overlapped => status[inFlight[h].invoice] = "DRAFT"
    BY <1>3, <2>1 DEF BillingInv, ApartInv, ReadIsTrue, StillSo, RewriteDraft
  <2> QED
    BY <2>2, <2>3
<1>4. ASSUME NEW h \in Handlers, IssueInvoice(h)
      PROVE  inFlight[h].invoice # i
  <2>1. OnInvoice(h) /\ ~ IsIdle(h)
    BY <1>4 DEF IssueInvoice, OnInvoice, IsIdle, Idle
  <2>2. scope[inFlight[h].invoice] = inFlight[h].scope
    BY <2>1 DEF BillingInv, FreeInv, OwnScope
  <2>3. inFlight[h].scope \notin overlapped => status[inFlight[h].invoice] = "DRAFT"
    BY <1>4, <2>1 DEF BillingInv, ApartInv, ReadIsTrue, StillSo, IssueInvoice
  <2> QED
    BY <2>2, <2>3
<1>5. ASSUME NEW h \in Handlers, NEW j \in Invoices, CreateDraft(h, j)
      PROVE  UNCHANGED <<scope[i], lines[i], totals[i], number[i], status[i]>>
  BY <1>2, <1>5 DEF CreateDraft, BillingInv, FreeInv, TypeOK
<1>6. ASSUME NEW h \in Handlers, RewriteDraft(h)
      PROVE  UNCHANGED <<scope[i], lines[i], totals[i], number[i], status[i]>>
  BY <1>3, <1>6 DEF RewriteDraft, BillingInv, FreeInv, TypeOK
<1>7. ASSUME NEW h \in Handlers, IssueInvoice(h)
      PROVE  UNCHANGED <<scope[i], lines[i], totals[i], number[i], status[i]>>
  BY <1>4, <1>7 DEF IssueInvoice, BillingInv, FreeInv, TypeOK
<1>8. ASSUME NEW h \in Handlers, MarkInvoicePaid(h) \/ VoidInvoice(h)
      PROVE  /\ UNCHANGED <<scope, lines, totals, number>>
             /\ status'[i] \in {status[i], "PAID", "VOID"}
  BY <1>8 DEF MarkInvoicePaid, VoidInvoice, SetStatus, BillingInv, FreeInv, TypeOK
<1>9. ASSUME NEW h \in Handlers,
              \/ \E c \in Scopes : ReadForGenerate(h, c)
              \/ \E j \in Invoices : \/ FindDraft(h, j) \/ ReadForIssue(h, j)
                                     \/ ReadForPaid(h, j) \/ ReadForVoid(h, j)
              \/ FindNoDraft(h) \/ TakeNumber(h) \/ Abort(h)
       PROVE  UNCHANGED invoiceVars
  BY <1>9 DEF ReadForGenerate, FindDraft, ReadForIssue, ReadForPaid, ReadForVoid, Start,
               FindNoDraft, TakeNumber, NextNumber, Abort
<1>10. (\E o \in Orders : Ship(o)) => UNCHANGED invoiceVars
  BY DEF Ship
<1> QED
  BY <1>1, <1>5, <1>6, <1>7, <1>8, <1>9, <1>10 DEF Next, Step

\* What an issued invoice says stays as it was issued, unless requests about its
\* month met (issueInvoice, markInvoicePaid, voidInvoice).
THEOREM IssuedStaysIssued == Spec => IssuedIsFrozen
<1>1. BillingInv /\ [Next]_vars =>
        [\A i \in Invoices :
           status[i] \notin {"NONE", "DRAFT"} /\ scope[i] \notin overlapped =>
              /\ scope'[i] = scope[i]
              /\ lines'[i] = lines[i]
              /\ totals'[i] = totals[i]
              /\ number'[i] = number[i]
              /\ status'[i] \notin {"NONE", "DRAFT"}]_vars
  BY BillingAssumption, FrozenStep
<1> QED
  BY <1>1, InvariantHolds, PTL DEF Spec, IssuedIsFrozen
=============================================================================
