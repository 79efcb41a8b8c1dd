------------------------------ MODULE Approval ------------------------------
(***************************************************************************)
(* The life of an access request: the SQLite store (plankton-store), the   *)
(* daemon's submission handlers and evaluation worker (plankton-daemon),   *)
(* and the human who decides from the desktop, which writes to the same    *)
(* database whether or not the daemon runs.                                *)
(*                                                                         *)
(* Each action is one SQLite transaction together with the in-memory steps *)
(* that follow it without another await, so actions interleave exactly     *)
(* where the code may be preempted, aborted or killed.                     *)
(***************************************************************************)
EXTENDS Naturals, Sequences, AutomaticDecision

CONSTANTS
  Request,      \* identifiers of access requests
  Key,          \* requester, reason, call chain and shared metadata
  Selector,     \* resource and field of a request
  Digest,       \* prompt digest, rationale and risk score of a suggestion
  Submission,   \* what handlers may submit
  Suggestion,   \* what the provider may answer
  MaxCrashes,   \* bound: kills of the daemon process
  MaxFaults,    \* bound: failed store calls, cancelled handlers
  MaxAudits     \* bound: audit rows per request that enrichment may add to

VARIABLES
  requests,     \* table access_requests
  operation,    \* table interrupted_operations, llm_evaluation rows: status
  audits,       \* table audit_records, per request in insertion order
  tickets,      \* table approval_batch_tickets, unexpired rows
  handler,      \* submission handlers of the daemon
  task,         \* evaluation tasks of the daemon and their monitors
  daemon,       \* start-up phase of the daemon process
  abandoned,    \* recover_abandoned_plans: rows it listed and has not denied
  crashes, faults

vars == <<requests, operation, audits, tickets, handler, task, daemon,
          abandoned, crashes, faults>>
store == <<requests, operation, audits, tickets>>

-----------------------------------------------------------------------------
\* Types and null values.
Mode     == {"manual_only", "assisted", "llm_automatic"}
Decision == {"allow", "deny"}
Status   == {"absent", "pending", "approved", "rejected"}
EvaluationState == {"not_required", "queued", "running", "completed", "failed",
                    "interrupted", "superseded"}
OperationStatus == {"none", "queued", "running", "completed", "failed",
                    "interrupted", "superseded"}
Progress == {"none", "running", "complete", "partial", "failed"}

\* admitted: the metadata carries the id of the execution plan that the
\* request was made for; direct: a resource that needs no review.
SubmissionType ==
  [mode : Mode, direct : BOOLEAN, key : Key, selector : Selector,
   admitted : BOOLEAN, policy : ValidPolicy, breach : Breach]

BatchDecision == [selector : Selector, decision : Verdict]
SuggestionType ==
  [decision : Verdict, error : BOOLEAN, trusted : BOOLEAN, report : ReportState,
   digest : Digest, batch : SUBSET BatchDecision, progress : Progress]

ASSUME RequestAssumption == "none" \notin Request /\ "unbound" \notin Request

ASSUME SubmissionAssumption ==
  /\ Submission \subseteq SubmissionType
  /\ \A s \in Submission : s.direct => s.mode = "manual_only"

ASSUME SuggestionAssumption == Suggestion \subseteq SuggestionType

\* The stages of one review agree: enrichment may annotate the assessment but
\* not change it (validate_staged_enrichment), nor turn it into an error
\* (mark_review_progress_failed touches the progress only).
ASSUME StagedReviewAssumption ==
  \A s, t \in Suggestion :
    s.digest = t.digest =>
      s.report = t.report /\ s.error = t.error /\ s.trusted = t.trusted

ASSUME BoundsAssumption ==
  MaxCrashes \in Nat /\ MaxFaults \in Nat /\ MaxAudits \in Nat

NoSuggestion == [decision |-> "none", error |-> FALSE, trusted |-> FALSE,
                 report |-> "missing", digest |-> "none", batch |-> {},
                 progress |-> "none"]
NoTrace == [disposition |-> "none", source |-> "none", failClosed |-> FALSE,
            called |-> FALSE]
NoSubmission == [mode |-> "manual_only", direct |-> FALSE, key |-> "none",
                 selector |-> "none", admitted |-> FALSE, policy |-> Verdict,
                 breach |-> "unset"]
NoRow == [sub |-> NoSubmission, status |-> "absent", eval |-> "not_required",
          final |-> "none", sug |-> NoSuggestion, auto |-> NoTrace,
          batchSource |-> "none"]
IdleHandler == [pc |-> "idle", row |-> NoRow, log |-> <<>>]

Audit(action, actor, decision) ==
  [action |-> action, actor |-> actor, decision |-> decision]

StatusUnmapped(d) == d          \* mutant: the decision stored as the status
StatusOf(d) == IF d = "allow" THEN "approved" ELSE "rejected"
Preemptible == {"queued", "running"}

-----------------------------------------------------------------------------
\* plankton-core domain.rs: the aggregate's own transitions.

NewPending(sub) ==
  [NoRow EXCEPT !.sub = sub, !.status = "pending",
     !.eval = IF sub.mode = "manual_only" THEN "not_required" ELSE "queued"]

\* should_record_human_override: disagreement with a suggestion that succeeded.
DisagreesWithSuggestion(row, d) ==
  row.sug # NoSuggestion /\ ~row.sug.error /\ row.sug.decision # d

ManualKeepsEvaluation(row, d) ==    \* mutant: the evaluation is not preempted
  [row EXCEPT !.final = d, !.status = StatusOf(d)]
ManualDecision(row, d) ==
  [row EXCEPT !.final = d, !.status = StatusOf(d),
     !.eval = IF @ \in Preemptible THEN "superseded" ELSE @]

\* mutant: an override is noticed only by comparing suggestions
AuditsOfDisagreement(row, d, actor) ==
  <<Audit("approval_recorded", actor, d)>> \o
  IF DisagreesWithSuggestion(row, d)
    THEN <<Audit("human_decision_overrode_llm", actor, d)>> ELSE <<>>
ManualAudits(row, d, actor) ==
  <<Audit("approval_recorded", actor, d)>> \o
  IF row.eval \in Preemptible \/ DisagreesWithSuggestion(row, d)
    THEN <<Audit("human_decision_overrode_llm", actor, d)>> ELSE <<>>

AutomaticDecision(row, trace) ==
  IF trace.disposition = "escalate"
    THEN [row EXCEPT !.auto = trace, !.final = "none", !.status = "pending"]
    ELSE [row EXCEPT !.auto = trace, !.final = trace.disposition,
                     !.status = StatusOf(trace.disposition)]

\* mutant: an escalation also records an approval
AuditsOfEveryTrace(trace) ==
  <<Audit("automatic_decision_recorded", "system_auto", trace.disposition),
    Audit("approval_recorded", "system_auto", trace.disposition)>>
AutomaticAudits(trace) ==
  <<Audit("automatic_decision_recorded", "system_auto", trace.disposition),
    Audit(IF trace.disposition = "escalate" THEN "automatic_escalated_to_human"
                                            ELSE "approval_recorded",
          "system_auto", trace.disposition)>>

SuggestionAudit(sug) ==
  Audit(IF sug.error THEN "llm_suggestion_failed" ELSE "llm_suggestion_generated",
        "provider", sug.decision)

\* Only an update that carries progress is audited.
DetailsAudits(sug) ==
  IF sug.progress = "none" THEN <<>>
  ELSE <<Audit("llm_review_details_updated", "provider", sug.decision)>>

HumanReviewRequired(row) ==
  /\ row.status = "pending"
  /\ row.sub.mode = "manual_only" \/ row.eval \notin Preemptible

-----------------------------------------------------------------------------
\* Batch tickets.  An admitted request's shared metadata holds its plan id.
ShareKeyWithoutPlan(r, sub) == <<sub.key, "unbound">>    \* mutant
ShareKey(r, sub) == <<sub.key, IF sub.admitted THEN r ELSE "unbound">>

MatchingTickets(r, sub) ==
  {t \in tickets : t.key = ShareKey(r, sub) /\ t.selector = sub.selector}

\* insert_batch_tickets: only a decision the model itself made is shared.
TicketsFrom(r, row) ==
  IF /\ row.sub.mode = "llm_automatic" /\ ~row.sug.error
     /\ row.auto.source = "llm_suggestion" /\ ~row.auto.failClosed
     /\ row.auto.called
    THEN {[source |-> r, key |-> ShareKey(r, row.sub), selector |-> b.selector,
           decision |-> b.decision] : b \in row.sug.batch}
    ELSE {}

\* submit_request with a ticket: the source's suggestion as it is stored now,
\* under the ticket's decision for this selector.
FromTicket(row, t) ==
  LET shared == requests[t.source].sug
      trace  == AutomaticDecisionFromBatch(row.sub.policy, t.decision,
                                           shared.report, row.sub.breach)
  IN [AutomaticDecision(row, trace) EXCEPT
        !.eval = "completed", !.batchSource = t.source,
        !.sug = [shared EXCEPT !.decision = t.decision, !.digest = "ticket"]]

-----------------------------------------------------------------------------
\* finalize_evaluation: the effect of one transaction on the request's rows.
\* finish_evaluation_operation_in_tx refuses an operation that ended otherwise;
\* OperationAgrees shows that it never has to.
Stored(row, op, log) == [row |-> row, op |-> op, log |-> log]

Judged(row, sug) ==
  IF row.sub.mode = "llm_automatic"
    THEN AutomaticDecision([row EXCEPT !.sug = sug],
           EvaluateAutomaticDisposition(row.sub.policy, sug, row.sub.breach))
    ELSE [row EXCEPT !.sug = sug]

\* A superseded evaluation leaves its suggestion as advice.
AdviceDecides(row, sug) == Judged(row, sug)    \* mutant: the late answer decides
AdviceOnly(row, sug) == [row EXCEPT !.sug = sug]

Finalized(row, op, sug) ==
  LET outcome == IF sug.error THEN "failed" ELSE "completed"
  IN CASE row.eval = "superseded" /\ row.sug = NoSuggestion ->
            Stored(AdviceOnly(row, sug), op, <<SuggestionAudit(sug)>>)
       [] row.eval = "running" /\ row.status = "pending" ->
            Stored([Judged(row, sug) EXCEPT !.eval = outcome], outcome,
                   <<SuggestionAudit(sug)>> \o
                   IF row.sub.mode = "llm_automatic"
                     THEN AutomaticAudits(Judged(row, sug).auto) ELSE <<>>)
       [] row.eval = "running" /\ row.status # "pending" ->
            Stored([row EXCEPT !.eval = "superseded"], "superseded", <<>>)
       [] OTHER -> Stored(row, op, <<>>)

\* update_evaluation_details accepts the same verdict only.  The exposure
\* report, the error and the progress are replaced without comparison.
SameVerdict(old, new) ==
  /\ old # NoSuggestion
  /\ old.digest = new.digest /\ old.decision = new.decision
  /\ old.batch = new.batch

\* recover_interrupted_review_details leaves rows decided by a ticket alone.
InterruptedProgress == {"partial", "failed"}
WithProgress(row, p) == [row EXCEPT !.sug.progress = p]
HasRunningProgress(row) ==
  row.sug.progress = "running" /\ row.auto.source # "batch_ticket"

-----------------------------------------------------------------------------
Init ==
  /\ requests  = [r \in Request |-> NoRow]
  /\ operation = [r \in Request |-> "none"]
  /\ audits    = [r \in Request |-> <<>>]
  /\ tickets   = {}
  /\ handler   = [r \in Request |-> IdleHandler]
  /\ task      = [r \in Request |-> "none"]
  /\ daemon    = "up"
  /\ abandoned = {}
  /\ crashes   = 0
  /\ faults    = 0

\* submit_request up to its transaction: the ticket lookup reads outside it.
SubmitLookup(r, sub) ==
  /\ daemon = "up" /\ handler[r].pc = "idle" /\ requests[r] = NoRow
  /\ LET row     == NewPending(sub)
         matches == IF sub.mode = "llm_automatic" THEN MatchingTickets(r, sub)
                                                  ELSE {}
         submit  == Audit("request_submitted", "requester", "none")
     IN \/ /\ matches = {}
           /\ handler' = [handler EXCEPT ![r] =
                [pc |-> "looked", row |-> row, log |-> <<submit>>]]
        \/ \E t \in matches :
             handler' = [handler EXCEPT ![r] =
               [pc |-> "looked", row |-> FromTicket(row, t),
                log |-> <<submit>> \o AutomaticAudits(FromTicket(row, t).auto)]]
  /\ UNCHANGED <<store, task, daemon, abandoned, crashes, faults>>

\* The rest of submit_request, one transaction.
SubmitCommit(r) ==
  /\ daemon = "up" /\ handler[r].pc = "looked"
  /\ requests'  = [requests EXCEPT ![r] = handler[r].row]
  /\ audits'    = [audits EXCEPT ![r] = handler[r].log]
  /\ operation' = [operation EXCEPT ![r] =
                     IF handler[r].row.eval = "queued" THEN "queued" ELSE "none"]
  /\ handler'   = [handler EXCEPT ![r].pc = "committed"]
  /\ UNCHANGED <<tickets, task, daemon, abandoned, crashes, faults>>

\* admitted_access_resource after submit_request, protected resource.
SpawnEvaluation(r) ==
  /\ daemon = "up" /\ handler[r].pc = "committed" /\ ~handler[r].row.sub.direct
  /\ task' = [task EXCEPT ![r] = IF handler[r].row.eval = "queued"
                                   THEN "spawned" ELSE @]
  /\ handler' = [handler EXCEPT ![r] = [IdleHandler EXCEPT !.pc = "done"]]
  /\ UNCHANGED <<store, daemon, abandoned, crashes, faults>>

\* record_decision_internal: one transaction that holds the write lock.
RecordDecision(r, d, actor) ==
  LET row == requests[r] IN
  /\ row.status = "pending"
  /\ requests'  = [requests EXCEPT ![r] = ManualDecision(row, d)]
  /\ operation' = [operation EXCEPT ![r] =
                     IF ManualDecision(row, d).eval = "superseded"
                       THEN "superseded" ELSE @]
  /\ audits'    = [audits EXCEPT ![r] = @ \o ManualAudits(row, d, actor)]
  /\ UNCHANGED tickets

\* record_direct_policy_decision, the second transaction of a direct access.
DirectPolicyDecision(r) ==
  /\ daemon = "up" /\ handler[r].pc = "committed" /\ handler[r].row.sub.direct
  /\ \/ RecordDecision(r, "allow", "field_exposure_policy")
     \/ requests[r].status # "pending" /\ UNCHANGED store   \* AlreadyResolved
  /\ handler' = [handler EXCEPT ![r] = [IdleHandler EXCEPT !.pc = "done"]]
  /\ UNCHANGED <<task, daemon, abandoned, crashes, faults>>

\* The desktop decides any pending request, at any time.
HumanDecide(r, d) ==
  /\ RecordDecision(r, d, "human")
  /\ UNCHANGED <<handler, task, daemon, abandoned, crashes, faults>>

\* expire_plans denies the request of a plan that was not used in time.
ExpirePlan(r) ==
  /\ daemon = "up" /\ handler[r].pc = "done" /\ requests[r].sub.admitted
  /\ RecordDecision(r, "deny", "execution-expiry")
  /\ UNCHANGED <<handler, task, daemon, abandoned, crashes, faults>>

TicketsExpire(r) ==
  /\ \E t \in tickets : t.source = r
  /\ tickets' = {t \in tickets : t.source # r}
  /\ UNCHANGED <<requests, operation, audits, handler, task, daemon, abandoned,
                 crashes, faults>>

-----------------------------------------------------------------------------
\* evaluate_request and the monitor that waits for it.
WorkerStep(r, from, to) ==
  /\ daemon = "up" /\ task[r] = from
  /\ task' = [task EXCEPT ![r] = to]
  /\ UNCHANGED <<handler, daemon, abandoned, crashes, faults>>

\* claim_evaluation.
ClaimEvaluation(r) ==
  LET row == requests[r] IN
  \/ /\ row.eval = "queued" /\ row.status = "pending" /\ operation[r] = "queued"
     /\ WorkerStep(r, "spawned", "evaluating")
     /\ requests'  = [requests EXCEPT ![r].eval = "running"]
     /\ operation' = [operation EXCEPT ![r] = "running"]
     /\ UNCHANGED <<audits, tickets>>
  \/ /\ ~(row.eval = "queued" /\ row.status = "pending")
     /\ WorkerStep(r, "spawned", "none")
     /\ requests' = [requests EXCEPT ![r].eval =
                       IF @ = "queued" THEN "superseded" ELSE @]
     /\ operation' = [operation EXCEPT ![r] =
                        IF row.eval = "queued" THEN "superseded" ELSE @]
     /\ UNCHANGED <<audits, tickets>>

FinalizeEvaluation(r, sug) ==
  LET tx == Finalized(requests[r], operation[r], sug) IN
  /\ requests'  = [requests EXCEPT ![r] = tx.row]
  /\ operation' = [operation EXCEPT ![r] = tx.op]
  /\ audits'    = [audits EXCEPT ![r] = @ \o tx.log]
  /\ tickets'   = tickets \cup
       IF requests[r].eval = "running" /\ requests[r].status = "pending"
         THEN TicketsFrom(r, tx.row) ELSE {}

\* mutant: the comparison with the stored verdict is missing
UpdateDetailsUnchecked(r, sug) ==
  /\ requests' = [requests EXCEPT ![r].sug = sug]
  /\ audits'   = [audits EXCEPT ![r] = @ \o DetailsAudits(sug)]
  /\ UNCHANGED <<operation, tickets>>
UpdateEvaluationDetails(r, sug) ==
  /\ SameVerdict(requests[r].sug, sug)
  /\ requests' = [requests EXCEPT ![r].sug = sug]
  /\ audits'   = [audits EXCEPT ![r] = @ \o DetailsAudits(sug)]
  /\ UNCHANGED <<operation, tickets>>

\* The staged decision arrives: decision_finalized becomes true.
DecisionReady(r, sug) ==
  /\ WorkerStep(r, "evaluating", "finalized")
  /\ FinalizeEvaluation(r, sug)

\* A details update (or a second staged decision) after that.
DetailsUpdated(r, sug) ==
  /\ Len(audits[r]) < MaxAudits
  /\ \/ WorkerStep(r, "finalized", "finalized") /\ UpdateEvaluationDetails(r, sug)
     \/ /\ ~SameVerdict(requests[r].sug, sug)
        /\ WorkerStep(r, "finalized", "failed") /\ UNCHANGED store

\* The provider's final suggestion ends the loop.
FinalSuggestion(r, sug) ==
  \/ WorkerStep(r, "evaluating", "none") /\ FinalizeEvaluation(r, sug)
  \/ WorkerStep(r, "finalized", "none") /\ UpdateEvaluationDetails(r, sug)
  \/ /\ ~SameVerdict(requests[r].sug, sug)
     /\ WorkerStep(r, "finalized", "failed") /\ UNCHANGED store

\* settings.current(), a store call or the provider code fails or panics.
WorkerFails(r) ==
  /\ daemon = "up" /\ task[r] \in {"spawned", "evaluating", "finalized"}
  /\ faults < MaxFaults /\ faults' = faults + 1
  /\ task' = [task EXCEPT ![r] = "failed"]
  /\ UNCHANGED <<store, handler, daemon, abandoned, crashes>>

\* finalize_worker_failure: interrupt_evaluation.
MonitorInterrupts(r) ==
  LET live == requests[r].eval \in Preemptible /\ requests[r].status = "pending" IN
  /\ WorkerStep(r, "failed", "none")
  /\ requests'  = [requests EXCEPT ![r].eval = IF live THEN "interrupted" ELSE @]
  /\ operation' = [operation EXCEPT ![r] = IF live THEN "interrupted" ELSE @]
  /\ UNCHANGED <<audits, tickets>>

\* The same when interrupt_evaluation fails too: logged and given up.
MonitorFails(r) ==
  /\ daemon = "up" /\ task[r] = "failed"
  /\ faults < MaxFaults /\ faults' = faults + 1
  /\ task' = [task EXCEPT ![r] = "none"]
  /\ UNCHANGED <<store, handler, daemon, abandoned, crashes>>

-----------------------------------------------------------------------------
\* A handler is dropped when its client disconnects.
HandlerCancelled(r) ==
  /\ handler[r].pc \in {"looked", "committed"}
  /\ faults < MaxFaults /\ faults' = faults + 1
  /\ handler' = [handler EXCEPT ![r] = [IdleHandler EXCEPT !.pc = "done"]]
  /\ UNCHANGED <<store, task, daemon, abandoned, crashes>>

StopProcess ==
  /\ daemon' = "down"
  /\ abandoned' = {}
  /\ task'    = [r \in Request |-> "none"]
  /\ handler' = [r \in Request |->
                   IF handler[r].pc = "idle" THEN handler[r]
                   ELSE [IdleHandler EXCEPT !.pc = "done"]]

Crash ==
  /\ daemon # "down" /\ crashes < MaxCrashes
  /\ crashes' = crashes + 1
  /\ StopProcess
  /\ UNCHANGED <<store, faults>>

OperationOnly(r) == requests[r]     \* mutant: recovery forgets the request table
\* recover_stale_operations with zero staleness, of one request.
RecoveredRow(r) ==
  IF operation[r] = "running" /\ requests[r].eval = "running"
    THEN [requests[r] EXCEPT !.eval = "interrupted"] ELSE requests[r]
RecoveredOperation ==
  [r \in Request |-> IF operation[r] = "running" THEN "interrupted" ELSE operation[r]]

RecoverStaleOperations ==
  /\ requests'  = [r \in Request |-> RecoveredRow(r)]
  /\ operation' = RecoveredOperation

\* mutant: only reviews of undecided requests are recovered
RecoverPendingDetails(outcome) ==
  requests' = [r \in Request |->
    IF HasRunningProgress(requests[r]) /\ requests[r].status = "pending"
      THEN WithProgress(requests[r], outcome[r]) ELSE requests[r]]
\* recover_interrupted_review_details.
RecoverReviewDetails(outcome) ==
  requests' = [r \in Request |->
    IF HasRunningProgress(requests[r])
      THEN WithProgress(requests[r], outcome[r]) ELSE requests[r]]

\* start: list the abandoned plans' requests ...
StartDaemon ==
  /\ daemon = "down"
  /\ daemon' = "denying"
  /\ abandoned' = {r \in Request : requests[r].status = "pending"
                                     /\ requests[r].sub.admitted}
  /\ UNCHANGED <<store, handler, task, crashes, faults>>

\* mutant: a request that was decided meanwhile is waited for
RecoverUndecidedPlan(r) ==
  /\ daemon = "denying" /\ r \in abandoned
  /\ RecordDecision(r, "deny", "execution-recovery")
  /\ abandoned' = abandoned \ {r}
  /\ UNCHANGED <<daemon, handler, task, crashes, faults>>
\* ... and deny each; a decision that slipped in fails the whole start.
RecoverAbandonedPlan(r) ==
  /\ daemon = "denying" /\ r \in abandoned
  /\ \/ /\ RecordDecision(r, "deny", "execution-recovery")
        /\ abandoned' = abandoned \ {r} /\ daemon' = daemon
     \/ /\ requests[r].status # "pending" /\ UNCHANGED store
        /\ abandoned' = {} /\ daemon' = "down"
  /\ UNCHANGED <<handler, task, crashes, faults>>

RecoverStale ==
  /\ daemon = "denying" /\ abandoned = {}
  /\ daemon' = "details"
  /\ RecoverStaleOperations
  /\ UNCHANGED <<audits, tickets, handler, task, abandoned, crashes, faults>>

RecoverDetails ==
  /\ daemon = "details"
  /\ daemon' = "resuming"
  /\ \E outcome \in [Request -> InterruptedProgress] : RecoverReviewDetails(outcome)
  /\ UNCHANGED <<operation, audits, tickets, handler, task, abandoned, crashes,
                 faults>>

\* mutant: queued evaluations are not resumed
ResumeNothing ==
  /\ daemon = "resuming" /\ daemon' = "up"
  /\ UNCHANGED <<store, handler, task, abandoned, crashes, faults>>
\* resume_queued, after which the listener starts to serve.
ResumeQueued ==
  /\ daemon = "resuming"
  /\ daemon' = "up"
  /\ task' = [r \in Request |->
       IF requests[r].eval = "queued" /\ requests[r].status = "pending"
         THEN "spawned" ELSE "none"]
  /\ UNCHANGED <<store, handler, abandoned, crashes, faults>>

\* shutdown once handlers drained and monitors of failed tasks were awaited.  It
\* recovers evaluations and then reviews, which a human's decision in between
\* cannot tell from both at once.
Shutdown ==
  /\ daemon = "up" /\ crashes < MaxCrashes
  /\ \A r \in Request : handler[r].pc \in {"idle", "done"} /\ task[r] # "failed"
  /\ crashes' = crashes + 1
  /\ \E outcome \in [Request -> InterruptedProgress] :
       requests' = [r \in Request |->
         IF HasRunningProgress(requests[r])
           THEN WithProgress(RecoveredRow(r), outcome[r]) ELSE RecoveredRow(r)]
  /\ operation' = RecoveredOperation
  /\ StopProcess
  /\ UNCHANGED <<audits, tickets, faults>>

-----------------------------------------------------------------------------
Handle(r) ==
  \/ \E sub \in Submission : SubmitLookup(r, sub)
  \/ SubmitCommit(r)
  \/ SpawnEvaluation(r)
  \/ DirectPolicyDecision(r)

Evaluate(r) ==
  \/ ClaimEvaluation(r)
  \/ \E sug \in Suggestion : DecisionReady(r, sug) \/ FinalSuggestion(r, sug)
  \/ \E sug \in Suggestion : DetailsUpdated(r, sug)
  \/ MonitorInterrupts(r)

Fault(r) == WorkerFails(r) \/ MonitorFails(r) \/ HandlerCancelled(r)

Restart ==
  \/ StartDaemon
  \/ \E r \in Request : RecoverAbandonedPlan(r)
  \/ RecoverStale
  \/ RecoverDetails
  \/ ResumeQueued

Next ==
  \/ \E r \in Request :
       \/ Handle(r) \/ Evaluate(r) \/ Fault(r)
       \/ \E d \in Decision : HumanDecide(r, d)
       \/ ExpirePlan(r) \/ TicketsExpire(r)
  \/ Crash \/ Shutdown \/ Restart

Spec == Init /\ [][Next]_vars
-----------------------------------------------------------------------------
\* Properties.
Resolved(r) == requests[r].status \in {"approved", "rejected"}
AuditsOf(r, action) == {i \in DOMAIN audits[r] : audits[r][i].action = action}
Approvals(r) == AuditsOf(r, "approval_recorded")
Overrides(r) == AuditsOf(r, "human_decision_overrode_llm")
LiveTask(r) == task[r] \in {"spawned", "evaluating", "finalized", "failed"}

StoredSuggestion ==
  [decision : Verdict \cup {"none"}, error : BOOLEAN, trusted : BOOLEAN,
   report : ReportState, digest : Digest \cup {"none", "ticket"},
   batch : SUBSET BatchDecision, progress : Progress]

Row ==
  [sub : Submission \cup {NoSubmission}, status : Status, eval : EvaluationState,
   final : Decision \cup {"none"}, sug : StoredSuggestion,
   auto : Trace \cup {NoTrace}, batchSource : Request \cup {"none"}]

Actor == {"requester", "provider", "system_auto", "human", "field_exposure_policy",
          "execution-expiry", "execution-recovery"}
AuditAction == {"request_submitted", "approval_recorded", "human_decision_overrode_llm",
                "automatic_decision_recorded", "automatic_escalated_to_human",
                "llm_suggestion_generated", "llm_suggestion_failed",
                "llm_review_details_updated"}
AuditRecord == [action : AuditAction, actor : Actor, decision : Verdict \cup {"none"}]

Ticket == [source : Request, key : Key \X (Request \cup {"unbound"}),
           selector : Selector, decision : Verdict]

\* Types of the stored rows and of the daemon's memory.
TypeOK ==
  /\ requests \in [Request -> Row]
  /\ operation \in [Request -> OperationStatus]
  /\ audits \in [Request -> Seq(AuditRecord)]
  /\ tickets \subseteq Ticket
  /\ handler \in [Request -> [pc : {"idle", "looked", "committed", "done"},
                             row : Row, log : Seq(AuditRecord)]]
  /\ task \in [Request -> {"none", "spawned", "evaluating", "finalized", "failed"}]
  /\ daemon \in {"up", "down", "denying", "details", "resuming"}
  /\ abandoned \subseteq Request
  /\ crashes \in 0..MaxCrashes /\ faults \in 0..MaxFaults

\* The two tables that record an evaluation never disagree, whatever was
\* aborted, killed or recovered: finish_evaluation_operation_in_tx never meets
\* the status that makes it fail the transaction of a decision.
OperationAgrees ==
  \A r \in Request :
    operation[r] = IF requests[r].eval = "not_required"
                      \/ requests[r].batchSource # "none"
                   THEN "none" ELSE requests[r].eval

\* A row built by submit_request and not stored yet.
FreshRow(row) ==
  /\ row.status # "absent"
  /\ row.eval \in Preemptible => row.status = "pending"
  /\ IF row.batchSource # "none" THEN row.eval = "completed"
                                 ELSE row.eval \in {"not_required", "queued"}

\* What makes OperationAgrees inductive.  Only a pending request is evaluated,
\* so claim_evaluation and finalize_evaluation never meet a resolved request
\* whose evaluation is still running; and between its ticket lookup and its
\* transaction a handler owns an identifier that the table does not hold.
EvaluationOnlyWhilePending ==
  \A r \in Request :
    /\ requests[r].status = "absent" => requests[r] = NoRow
    /\ requests[r].eval \in Preemptible => requests[r].status = "pending"
    /\ requests[r].batchSource # "none" => requests[r].eval = "completed"
    /\ handler[r].pc = "looked" =>
         requests[r] = NoRow /\ FreshRow(handler[r].row)

\* The audit trail of record_decision_internal, finalize_evaluation and
\* submit_request: a resolved request has exactly one approval record, with the
\* decision that stands; an unresolved one has none.
ApprovalAuditedOnce ==
  \A r \in Request :
    IF Resolved(r)
      THEN /\ \E i \in Approvals(r) :
                /\ Approvals(r) = {i}
                /\ audits[r][i].decision = requests[r].final
           /\ requests[r].status = StatusOf(requests[r].final)
      ELSE Approvals(r) = {} /\ requests[r].final = "none"

\* Only a stored automatic decision speaks for system_auto, and it never speaks
\* when the request was decided by somebody else (apply_automatic_decision).
AuthorityMatchesTrace ==
  \A r \in Request :
    \A i \in Approvals(r) :
      audits[r][i].actor = "system_auto"
        <=> requests[r].auto.disposition = requests[r].final

\* A decision that preempts the evaluation ends its authority: the superseded
\* request keeps no automatic decision, shares no ticket, and the override is
\* audited, while the provider may still deliver advice (finalize_evaluation).
SupersededHasNoAuthority ==
  \A r \in Request :
    requests[r].eval = "superseded" =>
      /\ Resolved(r) /\ requests[r].auto = NoTrace
      /\ \A t \in tickets : t.source # r
      /\ \E i \in Overrides(r) : Overrides(r) = {i}

\* A request that a batch ticket decided shares requester, reason, chain and
\* metadata with a source that the model itself decided, and which named this
\* selector.  Metadata includes the execution plan: an admitted request never
\* inherits another plan's decision.
Shares(src, selector, decision) ==
  /\ src.auto.source = "llm_suggestion" /\ ~src.auto.failClosed
  /\ \E b \in src.sug.batch : b.selector = selector /\ b.decision = decision
ByTicket(row) ==
  LET src == requests[row.batchSource]
  IN row.batchSource # "none" =>
       /\ ~row.sub.admitted /\ ~src.sub.admitted
       /\ row.sub.key = src.sub.key
       /\ Shares(src, row.sub.selector, row.sug.decision)
TicketAuthority == \A r \in Request : ByTicket(requests[r])

\* What makes it inductive: every ticket has such a source, and so has the row that a handler
\* made of a ticket and has not stored yet.
TicketsHaveSources ==
  /\ \A t \in tickets :
       /\ t.key = ShareKey(t.source, requests[t.source].sub)
       /\ Shares(requests[t.source], t.selector, t.decision)
  /\ \A r \in Request : handler[r].pc = "looked" => ByTicket(handler[r].row)

\* An automatic allow rests on a stored suggestion that allows and is no error, with a report
\* of its evidence that is known and, where the request configures a limit, within it
\* (evaluate_automatic_disposition and automatic_decision_from_batch), also after later
\* enrichment, which the store writes over the evidence without comparing it.  Whether the
\* suggestion is trusted and the mode lets it decide is compared in the step that decides.
AutomaticAllowIsSupported ==
  \A r \in Request :
    requests[r].auto.disposition = "allow" =>
      /\ requests[r].sug.decision = "allow" /\ ~requests[r].sug.error
      /\ requests[r].sug.report \notin {"invalid", "unknown"}
      /\ requests[r].sub.breach # "unset" => requests[r].sug.report = "within"

\* What start-up leaves behind before it serves: recover_abandoned_plans,
\* recover_stale_operations and recover_interrupted_review_details.
RecoveredBeforeServing ==
  /\ daemon \in {"details", "resuming"} =>
       \A r \in Request :
         /\ ~(requests[r].status = "pending" /\ requests[r].sub.admitted)
         /\ requests[r].eval # "running" /\ operation[r] # "running"
  /\ daemon = "resuming" => \A r \in Request : ~HasRunningProgress(requests[r])

\* While the daemon serves, a request that is hidden from the review prompts
\* because its evaluation is queued or running has somebody who will finish it,
\* up to the first cancelled handler or failed store call, which the code repairs
\* at its next start only (evaluation.rs, spawn and resume_queued).
HiddenRequestIsOwned ==
  daemon = "up" /\ faults = 0 =>
    \A r \in Request :
      requests[r].status = "pending" /\ ~HumanReviewRequired(requests[r]) =>
        LiveTask(r) \/ handler[r].pc = "committed"

\* docs/automatic-approval.md: audit failures remain visible as partial or
\* failed audit progress, so a review is shown as running only while its
\* evaluation task lives.
AuditFailureIsVisible ==
  daemon = "up" =>
    \A r \in Request : HasRunningProgress(requests[r]) => LiveTask(r)

\* docs/automatic-approval.md: an already resolved request remains immutable.
\* Late decisions, retries, recovery and the expiry of a plan change neither
\* the status, nor the decision, nor the automatic trace.
ResolvedIsImmutable ==
  [][\A r \in Request :
       Resolved(r) => /\ requests'[r].status = requests[r].status
                      /\ requests'[r].final = requests[r].final
                      /\ requests'[r].auto = requests[r].auto]_vars

\* docs/automatic-approval.md: the audit cannot change the decision.  Once a
\* suggestion is stored, its verdict and batch decisions stay.
StoredVerdictIsFinal ==
  [][\A r \in Request :
       requests[r].sug # NoSuggestion =>
         SameVerdict(requests[r].sug, requests'[r].sug)]_vars

\* An allowed request has one approval in the audit trail, a verdict that was superseded
\* has decided nothing, and an automatic allow rests on a suggestion that allows, is no error
\* and stays within the limit its request configures.  (The types are part of it.)
ApprovalsAreSupported ==
  TypeOK /\ ApprovalAuditedOnce /\ SupersededHasNoAuthority /\ AutomaticAllowIsSupported

\* The store implements the abstract outcome, with the approval record of the audit trail
\* as the decider: a request is decided once, by the one whom the trail names.
OutcomeOf == [r \in Request |-> requests[r].status]
DeciderOf == [r \in Request |->
  IF Approvals(r) = {} THEN "none"
  ELSE audits[r][CHOOSE i \in Approvals(r) : TRUE].actor]

Outcome == INSTANCE ApprovalOutcome WITH
  Decider <- {"system_auto", "human", "field_exposure_policy",
              "execution-expiry", "execution-recovery"},
  outcome <- OutcomeOf, decider <- DeciderOf

ImplementsOutcome == Outcome!Spec

-----------------------------------------------------------------------------
\* Liveness.  A spawned task runs, the provider answers (its calls time out),
\* a handler that is not cancelled runs on, and clients restart a daemon that
\* is down.
Fairness ==
  /\ \A r \in Request :
       /\ WF_vars(SubmitCommit(r)) /\ WF_vars(SpawnEvaluation(r))
       /\ WF_vars(DirectPolicyDecision(r))
       /\ WF_vars(ClaimEvaluation(r)) /\ WF_vars(MonitorInterrupts(r))
       /\ WF_vars(\E sug \in Suggestion : FinalSuggestion(r, sug))
  /\ WF_vars(Restart)

FairSpec == Spec /\ Fairness

\* Every request that starts out hidden behind an evaluation is eventually
\* decided or shown to a human, across crashes, failed starts and restarts, unless
\* a handler is cancelled or a store call fails.
HiddenEventuallySurfaces ==
  \A r \in Request :
    requests[r].status = "pending" /\ ~HumanReviewRequired(requests[r])
      ~> Resolved(r) \/ HumanReviewRequired(requests[r]) \/ faults > 0

\* A daemon that went down serves again, even when a start fails because a
\* human decided a request that recovery had listed.
DaemonComesBack == daemon = "down" ~> daemon = "up"
=============================================================================
