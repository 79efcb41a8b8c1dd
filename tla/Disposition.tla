----------------------------- MODULE Disposition ----------------------------
(***************************************************************************)
(* Every input of the two disposition functions of AutomaticDecision: a    *)
(* valid policy, a suggestion, a configured breach action.  The first step *)
(* chooses the input of a review, whose verdict a ticket then carries to   *)
(* another request under the policy that request was submitted with.       *)
(***************************************************************************)
EXTENDS AutomaticDecision

VARIABLES policy, breach, sug, ticketed

vars == <<policy, breach, sug, ticketed>>

Sug == [decision : Verdict, error : BOOLEAN, trusted : BOOLEAN, report : ReportState]

Init == policy \in ValidPolicy /\ breach \in Breach /\ sug \in Sug /\ ticketed = FALSE

\* The source was decided by the model itself: it succeeded and was trusted.
Share ==
  /\ ~ticketed /\ ticketed' = TRUE
  /\ ~sug.error /\ sug.trusted
  /\ policy' \in ValidPolicy /\ breach' \in Breach
  /\ UNCHANGED sug

Spec == Init /\ [][Share]_vars

Reviewed == EvaluateAutomaticDisposition(policy, sug, breach)
Batched  == AutomaticDecisionFromBatch(policy, sug.decision, sug.report, breach)

\* What is shared was decided by a trusted review without an error.
SharedIsTrusted ==
  /\ policy \in ValidPolicy /\ breach \in Breach /\ sug \in Sug
  /\ ticketed => ~sug.error /\ sug.trusted

\* A ticket allows exactly what a review of the same evidence under the same
\* settings would allow: automatic_decision_from_batch repeats the guards of
\* evaluate_automatic_disposition and neither is weaker.
TicketAllowsAsReview ==
  ticketed => (Batched.disposition = "allow" <=> Reviewed.disposition = "allow")
=============================================================================
