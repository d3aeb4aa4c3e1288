--------------------------- MODULE ApprovalEngine ---------------------------
(***************************************************************************)
(* The pure approval rules of src/server/approvals/approval-engine.ts:     *)
(* which rules an order trips, who may decide a step, and where a request  *)
(* stands after its steps are read.                                        *)
(***************************************************************************)
EXTENDS Integers

CONSTANT Null    \* SQL NULL: an unset condition, approver, or decision

Roles == {"ADMIN", "HEAD_OFFICE", "SITE_USER"}

StepStatus == {"PENDING", "APPROVED", "REJECTED", "CHANGES_REQUESTED", "SKIPPED"}

RequestOutcome == {"PENDING", "APPROVED", "REJECTED", "CHANGES_REQUESTED"}

\* A decision an approver can record on a step.
Decisions == {"APPROVED", "REJECTED", "CHANGES_REQUESTED"}

\* Every stated condition must hold; an unset one does not constrain, and the
\* total is compared inclusively.
RuleMatches(rule, facts) ==
    /\ rule.minTotal # Null => facts.total >= rule.minTotal
    /\ rule.site # Null => rule.site = facts.site
    /\ rule.requesterRole # Null => rule.requesterRole = facts.requesterRole
    /\ rule.category # Null => rule.category \in facts.categories

\* Whom a rule asks: the named user, or else anybody holding the role.
Approver(rule) ==
    IF rule.approverUser # Null THEN <<"user", rule.approverUser>>
                                ELSE <<"role", rule.approverRole>>

\* The rules that become steps, of a set of rules already read in (tier, id)
\* order: of the matching rules that ask the same approver at the same tier
\* only the first is kept.
PlanApproval(rules, facts) ==
    LET matched == {r \in rules : RuleMatches(r, facts)}
    IN  {r \in matched :
            \A s \in matched :
                s.tier = r.tier /\ Approver(s) = Approver(r) => r.id <= s.id}

\* The requester never decides; a step naming a user is that user's alone; one
\* naming a role is open to the role and to administrators.
CanDecideStep(step, userId, role, requesterId) ==
    /\ userId # requesterId
    /\ IF step.approverUser # Null
       THEN step.approverUser = userId
       ELSE /\ step.approverRole # Null
            /\ step.approverRole = role \/ role = "ADMIN"

\* assertStepOpen: still undecided, and at the tier the request has reached.
StepIsOpen(status, tier, currentTier) ==
    status = "PENDING" /\ tier = currentTier

(***************************************************************************)
(* Where a request with these steps stands.  The code walks an array the   *)
(* query returns in no stated order, and a refusal or a change request is  *)
(* reported at the tier of the first one found, so the answer is a set of  *)
(* possible results; it is a singleton unless steps at two tiers have been *)
(* refused.  The steps above `currentTier` are skipped on a rejection.     *)
(***************************************************************************)
EvaluateProgress(steps, tier, status) ==
    LET With(st)  == {s \in steps : status[s] = st}
        unsettled == {s \in steps : status[s] \notin {"APPROVED", "SKIPPED"}}
        At(outcome, t) == [outcome |-> outcome, currentTier |-> t]
    IN  IF With("REJECTED") # {}
        THEN {At("REJECTED", tier[s]) : s \in With("REJECTED")}
        ELSE IF With("CHANGES_REQUESTED") # {}
        THEN {At("CHANGES_REQUESTED", tier[s]) : s \in With("CHANGES_REQUESTED")}
        ELSE IF unsettled # {}
        THEN {At("PENDING", tier[s]) :
                s \in {u \in unsettled : \A v \in unsettled : tier[u] <= tier[v]}}
        ELSE {At("APPROVED", tier[s]) :
                s \in {u \in steps : \A v \in steps : tier[v] <= tier[u]}}
=============================================================================
