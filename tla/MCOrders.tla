------------------------------ MODULE MCOrders ------------------------------
(***************************************************************************)
(* Small instances of Orders for TLC.                                      *)
(***************************************************************************)
EXTENDS Orders, TLC

CONSTANTS buyer, manager, admin, o1, o2, s1, s2, s3, p1, h1, h2

\* A buyer who is also an approver, a second head-office approver, and the
\* portal's administrator.
MCRoleOf == (buyer :> "HEAD_OFFICE") @@ (manager :> "HEAD_OFFICE") @@ (admin :> "ADMIN")

MCGranted ==
    (buyer :> {"ORDER_CREATE", "APPROVAL_ACT"}) @@ (manager :> {"APPROVAL_ACT"})
      @@ (admin :> Permission)

MCSees == [u \in Users |-> Orders]

\* The manager works from the approval queue alone and may not list orders.
MCQueueOnly == [MCSees EXCEPT ![manager] = {}]

\* o1 belongs to the buyer, any other order to the administrator.
MCPlacer == [o \in Orders |-> IF o = o1 THEN buyer ELSE admin]

MCWant == [o \in Orders |-> [p \in Products |-> IF o = o1 THEN 2 ELSE 1]]

\* o1's account has three rules, all for totals of two and more: a head-office
\* signature and the administrator's at tier 1, a head-office one at tier 2.
MCTier == [s \in Steps |-> IF s = s3 THEN 2 ELSE 1]

MCAddressee ==
    [s \in Steps |-> [approverRole |-> IF s = s2 THEN Null ELSE "HEAD_OFFICE",
                      approverUser |-> IF s = s2 THEN admin ELSE Null]]

MCRule(s) ==
    [id |-> CASE s = s1 -> 1 [] s = s2 -> 2 [] OTHER -> 3, tier |-> MCTier[s],
     minTotal |-> 2, site |-> Null, requesterRole |-> Null, category |-> Null,
     approverRole |-> MCAddressee[s].approverRole,
     approverUser |-> MCAddressee[s].approverUser]

MCFacts(o) ==
    [total |-> IF o = o1 THEN 2 ELSE 1, site |-> Null, categories |-> {},
     requesterRole |-> MCRoleOf[MCPlacer[o]]]

MCPlanned == PlanApproval({MCRule(s) : s \in Steps}, MCFacts(o1))

MCPlan ==
    [o \in Orders |-> IF o = o1 THEN {s \in Steps : MCRule(s) \in MCPlanned} ELSE {}]

\* The other account has no rules, only the plain threshold.
MCOverThreshold ==
    {o \in Orders \ {o1} : RequiresApproval(MCFacts(o).total, 0, Null)}

MCOnHand == [p \in Products |-> 3]

Symmetry == Permutations(Handlers)

\* Bound of the run with two orders, whose properties say nothing of the stock
\* once an order that shares the shelf has been overwritten: such a state is
\* checked, and not followed further.
UntilOverwritten == overwritten = {}

-----------------------------------------------------------------------------
(* What the repository's comments say, and overlapping or repeated requests *)
(* break.                                                                   *)

\* order-status.ts: "DELIVERED, REJECTED and CANCELLED are terminal."
TerminalIsFinal ==
    [][\A o \in Orders : status[o] \in TERMINAL_STATUSES => status'[o] = status[o]]_status

\* approval-engine.ts: "The request completes when the highest tier is clear."
ClearRequestCompletes ==
    \A o \in Orders :
        request[o].status = "PENDING" => \E s \in Plan[o] : stepStatus[s] # "APPROVED"

\* orders.service.ts routes decisions through the steps so that no "two-tier
\* order would be approved on one signature".
SignedAtEveryTier ==
    \A o \in Orders :
        status[o] = "APPROVED" =>
            \A s \in Plan[o] : stepStatus[s] \in {"APPROVED", "SKIPPED"}

\* canDecideStep: "The requester can never decide their own order", and "An
\* administrator is not exempt".
NobodyApprovesOwnOrder ==
    \A o \in Orders : approvedBy[o] # Null => approvedBy[o] # Placer[o]
=============================================================================
