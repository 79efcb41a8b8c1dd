----------------------------- MODULE MCApproval -----------------------------
(***************************************************************************)
(* Instances of Approval for TLC.                                          *)
(***************************************************************************)
EXTENDS Approval, TLC

CONSTANTS r1, r2

Sub(mode, direct, selector, admitted, policy, breach) ==
  [mode |-> mode, direct |-> direct, key |-> "k", selector |-> selector,
   admitted |-> admitted, policy |-> policy, breach |-> breach]

Sug(decision, error, trusted, report, digest, batch, progress) ==
  [decision |-> decision, error |-> error, trusted |-> trusted,
   report |-> report, digest |-> digest, batch |-> batch, progress |-> progress]

NoDeny == {"allow", "escalate"}
ForB == {[selector |-> "b", decision |-> "allow"]}

\* What the daemon submits is admitted for its own plan; the last one is a
\* request without a plan, which the store also accepts.
DaemonSubmissions ==
  {Sub("llm_automatic", FALSE, "a", TRUE, Verdict, "human_review"),
   Sub("llm_automatic", FALSE, "b", TRUE, NoDeny, "unset"),
   Sub("assisted", FALSE, "a", TRUE, Verdict, "unset"),
   Sub("manual_only", TRUE, "a", TRUE, Verdict, "unset"),
   Sub("assisted", FALSE, "b", FALSE, Verdict, "unset")}

\* What the store accepts: requests that share requester, chain and metadata,
\* with and without the plan that the daemon adds to the metadata.
SharedSubmissions ==
  {Sub("llm_automatic", FALSE, "a", FALSE, Verdict, "unset"),
   Sub("llm_automatic", FALSE, "b", FALSE, Verdict, "deny"),
   Sub("llm_automatic", FALSE, "a", TRUE, Verdict, "unset"),
   Sub("llm_automatic", FALSE, "b", TRUE, Verdict, "unset")}

\* Staged answers: the decision with running progress, then its completion.
StagedSuggestions ==
  {Sug("allow", FALSE, TRUE, "within", "d1", ForB, "running"),
   Sug("allow", FALSE, TRUE, "within", "d1", ForB, "complete"),
   Sug("deny", FALSE, TRUE, "exceeded", "d2", {}, "running"),
   Sug("allow", FALSE, TRUE, "unknown", "d3", {}, "none"),
   Sug("escalate", TRUE, TRUE, "missing", "error", {}, "none")}

Symmetry == Permutations({r1, r2})
=============================================================================
