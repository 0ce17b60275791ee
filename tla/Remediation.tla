---------------------------- MODULE Remediation ----------------------------
(***************************************************************************)
(* One run of the remediation loop: it decides on its candidates in the    *)
(* order of their impact, the largest first, within the guardrails of the  *)
(* request.  The guardrails are chosen when a run begins.                  *)
(***************************************************************************)
EXTENDS Integers, FiniteSets, FiniteSetsExt

CONSTANTS
    Candidate,   \* actions that are proposed
    Impacts,     \* estimated monthly impacts
    MaxActions,  \* values of max_actions_per_run
    MaxTotal     \* values of max_total_impact_usd and require_approval_above_usd

ASSUME RemediationBounds ==
    /\ IsFiniteSet(Candidate)
    /\ Impacts \cup MaxActions \cup MaxTotal \subseteq Nat

VARIABLES
    request,   \* guardrails and candidates
    decided,   \* the decision on each candidate so far
    planned,   \* planned_count and planned_impact
    executed   \* audit entries: candidates whose execution is committed

remediationVars == <<request, decided, planned, executed>>

NoRequest == [impact |-> <<>>]

RemediationInit ==
    /\ request = NoRequest
    /\ decided = [c \in Candidate |-> "none"]
    /\ planned = [count |-> 0, impact |-> 0]
    /\ executed = {}

\* Begins once.  allowed says that provider and action type are, risky that the risk is high.
BeginLoop(impact, allowed, risky, most, total, approval, dry) ==
    /\ request' = [impact |-> impact, allowed |-> allowed, risky |-> risky, most |-> most,
                   total |-> total, approval |-> approval, dry |-> dry]
    /\ UNCHANGED <<decided, planned, executed>>

Left == {c \in Candidate : decided[c] = "none"}

\* Candidates of equal impact come in the order of the request.
Turn(c) ==
    /\ request # NoRequest
    /\ c \in Left
    /\ \A d \in Left : request.impact[d] <= request.impact[c]

Fits(c) == planned.impact + request.impact[c] <= request.total

\* Faulty variant of NeedsApproval: a high risk needs a high impact, too.
NeedsApprovalBoth(c) == c \in request.risky /\ request.impact[c] >= request.approval

NeedsApproval(c) == c \in request.risky \/ request.impact[c] >= request.approval

Decision(c) ==
    IF c \notin request.allowed THEN "disallowed"
    ELSE IF planned.count >= request.most THEN "too many"
    ELSE IF ~Fits(c) THEN "too much"
    ELSE IF NeedsApproval(c) THEN "requires approval"
    ELSE "planned"

Decide(c) ==
    /\ Turn(c)
    /\ decided' = [decided EXCEPT ![c] = Decision(c)]
    /\ planned' = IF Decision(c) = "planned"
                  THEN [count |-> planned.count + 1,
                        impact |-> planned.impact + request.impact[c]]
                  ELSE planned
    /\ UNCHANGED <<request, executed>>

Accepted == {c \in Candidate : decided[c] = "planned"}

\* Unless the run is dry, the audit entries are committed at its end.
EndLoop ==
    /\ request # NoRequest /\ Left = {} /\ ~request.dry
    /\ executed = {}
    /\ executed' = Accepted
    /\ UNCHANGED <<request, decided, planned>>

RemediationNext ==
    \/ /\ request = NoRequest
       /\ \E impact \in [Candidate -> Impacts], allowed, risky \in SUBSET Candidate,
             most \in MaxActions, total, approval \in MaxTotal, dry \in BOOLEAN :
            BeginLoop(impact, allowed, risky, most, total, approval, dry)
    \/ \E c \in Candidate : Decide(c)
    \/ EndLoop

RemediationSpec == RemediationInit /\ [][RemediationNext]_remediationVars

-----------------------------------------------------------------------------
Total(S) == MapThenSumSet(LAMBDA c : request.impact[c], S)

\* At the end the accepted actions together stay within the guardrails, and none of them
\* is risky or of an impact that needs approval.
GuardrailsHold ==
    request # NoRequest /\ Left = {} =>
        /\ Cardinality(Accepted) <= request.most
        /\ Total(Accepted) <= request.total
        /\ \A c \in Accepted : c \notin request.risky /\ request.impact[c] < request.approval
        /\ executed \subseteq Accepted

\* An action is left out for its impact only if the accepted ones of at least
\* that impact leave no room for it.
NoRoomLeft ==
    \A c \in Candidate :
        decided[c] = "too much" =>
            Total({d \in Accepted : request.impact[d] >= request.impact[c]})
              + request.impact[c] > request.total

\* A run accepts no action beyond its guardrails, and leaves none out that had room.
WithinGuardrails == GuardrailsHold /\ NoRoomLeft
=============================================================================
