------------------------- MODULE AutomaticDecision -------------------------
(***************************************************************************)
(* The local disposition of plankton-core: what the daemon concludes from  *)
(* a reviewer's suggestion (evaluate_automatic_disposition) or from a      *)
(* shared batch ticket (automatic_decision_from_batch).  Pure operators;   *)
(* Approval.tla applies them inside the store's transactions.              *)
(*                                                                         *)
(* Data abstraction.  A suggestion keeps the fields that the decision and  *)
(* the store look at:                                                      *)
(*   decision  suggested_decision                                          *)
(*   error     error.is_some()                                             *)
(*   trusted   template, contract, prompt digest, rationale and provider   *)
(*             kind all match the provider input (six guards of the code)  *)
(*   report    the exposure report after validation against the policy     *)
(*   digest    prompt_sha256, rationale_summary and risk_score together    *)
(*   batch     batch_decisions, a set of [selector, decision]              *)
(*   progress  provider_trace.review_progress.state                        *)
(***************************************************************************)

Verdict     == {"allow", "deny", "escalate"}
ReportState == {"missing", "invalid", "unknown", "within", "exceeded"}
Breach      == {"unset", "human_review", "deny"}

\* LlmApprovalDecisionPolicy as a set of enabled outcomes.  Only policies that
\* validate_llm_approval_decision_policy accepts are ever loaded or saved.
ValidPolicy == {p \in SUBSET Verdict : "allow" \in p /\ p # {"allow"}}

TraceSource == {"llm_suggestion", "combined_guardrail", "batch_ticket"}
Trace == [disposition : Verdict, source : TraceSource, failClosed : BOOLEAN,
          called : BOOLEAN]

\* The outcome of every guard: never allow.
SafeNonAllow(policy) ==
  IF "escalate" \in policy \/ "deny" \notin policy THEN "escalate" ELSE "deny"

Unrouted(policy, verdict) == verdict     \* mutant: disabled verdicts stand
\* A verdict the settings disable is routed to the other non-allow outcome.
Routed(policy, verdict) ==
  CASE verdict = "deny" /\ "deny" \notin policy         -> "escalate"
    [] verdict = "escalate" /\ "escalate" \notin policy -> "deny"
    [] OTHER                                            -> verdict

BreachDisposition(breach) == IF breach = "deny" THEN "deny" ELSE "escalate"

\* The guards that leave the base trace, CombinedGuardrail and fail_closed.
FailsClosedOnErrors(sug) == sug.error \/ ~sug.trusted   \* mutant: evidence ignored
FailsClosed(sug) ==
  sug.error \/ ~sug.trusted \/ sug.report \in {"invalid", "unknown"}

\* A configured exposure policy needs a report, and one within the policy.
BreaksExposure(sug, breach) ==
  breach # "unset" /\ sug.report \in {"missing", "exceeded"}

\* evaluate_automatic_disposition, for a request that has a provider input and
\* a valid policy (the store calls it with a suggestion present).
EvaluateAutomaticDisposition(policy, sug, breach) ==
  CASE FailsClosed(sug) ->
         [disposition |-> SafeNonAllow(policy), source |-> "combined_guardrail",
          failClosed |-> TRUE, called |-> TRUE]
    [] ~FailsClosed(sug) /\ BreaksExposure(sug, breach) ->
         [disposition |-> BreachDisposition(breach),
          source |-> "combined_guardrail", failClosed |-> FALSE, called |-> TRUE]
    [] OTHER ->
         [disposition |-> Routed(policy, sug.decision),
          source |-> IF sug.decision \in policy THEN "llm_suggestion"
                                                ELSE "combined_guardrail",
          failClosed |-> FALSE, called |-> TRUE]

\* automatic_decision_from_batch: `report` is the source's shared report as it
\* stands now, `verdict` the ticket's decision for this selector.

\* mutant: a source without a report passes a configured policy
GuardedIfExceeded(report, breach) ==
  \/ report \in {"invalid", "unknown"}
  \/ breach # "unset" /\ report = "exceeded"
GuardedBatch(report, breach) ==
  \/ report \in {"invalid", "unknown"}
  \/ breach # "unset" /\ report \in {"missing", "exceeded"}

AutomaticDecisionFromBatch(policy, verdict, report, breach) ==
  [disposition |->
     IF GuardedBatch(report, breach)
       THEN IF report = "exceeded" THEN BreachDisposition(breach)
                                   ELSE SafeNonAllow(policy)
       ELSE Routed(policy, verdict),
   source |-> "batch_ticket",
   failClosed |-> GuardedBatch(report, breach), called |-> FALSE]
=============================================================================
