--------------------------- MODULE ApprovalProofs ---------------------------
(***************************************************************************)
(* Theorems about Approval, for every set of requests, submissions and     *)
(* suggestions and every bound: types, the agreement of the two tables     *)
(* that record an evaluation, and the immutability of resolved requests.   *)
(***************************************************************************)
EXTENDS Approval, TLAPS

\* The inductive invariant.  OperationAgrees alone is not inductive: the
\* transaction of submit_request overwrites a row, so it needs that the row was
\* absent, and claim_evaluation needs that a queued request is pending.
IInv == TypeOK /\ OperationAgrees /\ EvaluationOnlyWhilePending

-----------------------------------------------------------------------------
\* Facts about the operators that build a row.

\* Null values have the types of the fields they stand in.
LEMMA NullTypes ==
  /\ NoSubmission.policy \in ValidPolicy /\ NoSubmission.breach \in Breach
  /\ NoSuggestion \in StoredSuggestion
  /\ NoRow \in Row
  /\ NoRow.status = "absent" /\ NoRow.eval = "not_required"
  /\ NoRow.batchSource = "none"
<1>1. NoSuggestion \in StoredSuggestion
  BY DEF NoSuggestion, StoredSuggestion, ReportState, Progress
<1>2. NoSubmission.policy \in ValidPolicy /\ NoSubmission.breach \in Breach
  BY DEF NoSubmission, ValidPolicy, Verdict, Breach
<1>3. NoRow \in Row
  BY <1>1 DEF NoRow, Row, Status, EvaluationState
<1> QED BY <1>1, <1>2, <1>3 DEF NoRow

\* Whoever submitted a row, its policy and its breach setting are valid.
LEMMA SubmittedPolicy ==
  ASSUME NEW row \in Row
  PROVE  row.sub.policy \in ValidPolicy /\ row.sub.breach \in Breach
BY SubmissionAssumption, NullTypes DEF Row, SubmissionType

\* What the provider answers can be stored.
LEMMA StorableSuggestion ==
  ASSUME NEW sug \in Suggestion
  PROVE  sug \in StoredSuggestion /\ sug.decision \in Verdict
BY SuggestionAssumption DEF SuggestionType, StoredSuggestion

\* new_pending: a pending row whose evaluation has not started.
LEMMA NewPendingRow ==
  ASSUME NEW sub \in Submission
  PROVE  /\ NewPending(sub) \in Row
         /\ NewPending(sub).status = "pending"
         /\ NewPending(sub).eval \in {"not_required", "queued"}
         /\ NewPending(sub).batchSource = "none"
BY NullTypes DEF NewPending, Row, Status, EvaluationState, NoRow

\* apply_manual_decision: resolves, and supersedes a running evaluation.
LEMMA ManualDecisionRow ==
  ASSUME NEW row \in Row, NEW d \in Decision
  PROVE  /\ ManualDecision(row, d) \in Row
         /\ ManualDecision(row, d).status \in {"approved", "rejected"}
         /\ ManualDecision(row, d).eval =
              IF row.eval \in Preemptible THEN "superseded" ELSE row.eval
         /\ ManualDecision(row, d).batchSource = row.batchSource
BY DEF ManualDecision, Row, Status, StatusOf, EvaluationState, Decision, Preemptible

\* apply_automatic_decision: never touches the evaluation.
LEMMA AutomaticDecisionRow ==
  ASSUME NEW row \in Row, NEW trace \in Trace
  PROVE  /\ AutomaticDecision(row, trace) \in Row
         /\ AutomaticDecision(row, trace).status # "absent"
         /\ AutomaticDecision(row, trace).eval = row.eval
         /\ AutomaticDecision(row, trace).sug = row.sug
         /\ AutomaticDecision(row, trace).batchSource = row.batchSource
BY DEF AutomaticDecision, Row, Trace, Verdict, Status, StatusOf, Decision

\* Every guard ends in a verdict that is not allow.
LEMMA GuardedVerdict ==
  ASSUME NEW policy, NEW breach
  PROVE  /\ SafeNonAllow(policy) \in Verdict \ {"allow"}
         /\ BreachDisposition(breach) \in Verdict \ {"allow"}
BY DEF SafeNonAllow, BreachDisposition, Verdict

\* evaluate_automatic_disposition returns a trace.
LEMMA EvaluatedTrace ==
  ASSUME NEW policy \in ValidPolicy, NEW sug \in StoredSuggestion,
         sug.decision \in Verdict, NEW breach \in Breach
  PROVE  EvaluateAutomaticDisposition(policy, sug, breach) \in Trace
<1>1. FailsClosed(sug) \in BOOLEAN /\ BreaksExposure(sug, breach) \in BOOLEAN
  BY DEF FailsClosed, BreaksExposure, StoredSuggestion
<1>2. Routed(policy, sug.decision) \in Verdict
  BY DEF Routed, Verdict
<1> QED
  BY <1>1, <1>2, GuardedVerdict
     DEF EvaluateAutomaticDisposition, Trace, TraceSource

\* automatic_decision_from_batch returns a trace.
LEMMA BatchTrace ==
  ASSUME NEW policy \in ValidPolicy, NEW verdict \in Verdict,
         NEW report \in ReportState, NEW breach \in Breach
  PROVE  AutomaticDecisionFromBatch(policy, verdict, report, breach) \in Trace
<1>1. GuardedBatch(report, breach) \in BOOLEAN
  BY DEF GuardedBatch
<1>2. Routed(policy, verdict) \in Verdict
  BY DEF Routed, Verdict
<1> QED
  BY <1>1, <1>2, GuardedVerdict
     DEF AutomaticDecisionFromBatch, Trace, TraceSource

\* A request answered by a ticket is a fresh row with that ticket as its source.
LEMMA TicketRow ==
  ASSUME TypeOK, NEW sub \in Submission, NEW t \in tickets
  PROVE  /\ FromTicket(NewPending(sub), t) \in Row
         /\ FromTicket(NewPending(sub), t).auto \in Trace
         /\ FreshRow(FromTicket(NewPending(sub), t))
<1> DEFINE row    == NewPending(sub)
           shared == requests[t.source].sug
           trace  == AutomaticDecisionFromBatch(row.sub.policy, t.decision,
                                                shared.report, row.sub.breach)
           given  == [shared EXCEPT !.decision = t.decision, !.digest = "ticket"]
           judged == AutomaticDecision(row, trace)
           full   == [judged EXCEPT !.eval = "completed", !.batchSource = t.source,
                                    !.sug = given]
<1>1. row \in Row /\ row.sub.policy \in ValidPolicy /\ row.sub.breach \in Breach
  BY NewPendingRow, SubmittedPolicy
<1>2. t.source \in Request /\ t.decision \in Verdict /\ t.source # "none"
  BY RequestAssumption DEF TypeOK, Ticket
<1>3. requests[t.source] \in Row
  BY <1>2 DEF TypeOK
<1>4. shared \in StoredSuggestion /\ shared.report \in ReportState
  BY <1>3 DEF Row, StoredSuggestion
<1>5. trace \in Trace
  BY <1>1, <1>2, <1>4, BatchTrace
<1>6. given \in StoredSuggestion
  BY <1>2, <1>4 DEF StoredSuggestion
<1>7. /\ judged \in Row /\ judged.status # "absent"
      /\ judged.auto = trace
  <2>1. judged \in Row /\ judged.status # "absent"
    BY <1>1, <1>5, AutomaticDecisionRow
  <2>2. judged.auto = trace
    BY <1>1 DEF AutomaticDecision, Row
  <2> QED BY <2>1, <2>2
<1> HIDE DEF judged, given, trace
<1>8. /\ full \in Row /\ full.eval = "completed" /\ full.batchSource = t.source
      /\ full.status = judged.status /\ full.auto = trace
  BY <1>2, <1>6, <1>7 DEF Row, EvaluationState
<1>9. FromTicket(NewPending(sub), t) = full
  BY DEF FromTicket, judged, given, trace
<1>10. FreshRow(full)
  BY <1>2, <1>7, <1>8 DEF FreshRow, Preemptible
<1> QED BY <1>5, <1>8, <1>9, <1>10

-----------------------------------------------------------------------------
\* Audit logs.

\* What the constructor of audit records returns.
LEMMA AuditType ==
  ASSUME NEW action \in AuditAction, NEW actor \in Actor,
         NEW decision \in Verdict \cup {"none"}
  PROVE  Audit(action, actor, decision) \in AuditRecord
BY DEF Audit, AuditRecord

\* record_decision_internal appends audit records.
LEMMA ManualAuditsType ==
  ASSUME NEW row, NEW d \in Decision, NEW actor \in Actor
  PROVE  ManualAudits(row, d, actor) \in Seq(AuditRecord)
<1> DEFINE approval == Audit("approval_recorded", actor, d)
           override == Audit("human_decision_overrode_llm", actor, d)
<1>1. approval \in AuditRecord /\ override \in AuditRecord
  BY AuditType DEF AuditAction, Decision, Verdict
<1>2. ManualAudits(row, d, actor) =
        <<approval>> \o
        IF row.eval \in Preemptible \/ DisagreesWithSuggestion(row, d)
          THEN <<override>> ELSE <<>>
  BY DEF ManualAudits
<1> HIDE DEF approval, override
<1>3. CASE row.eval \in Preemptible \/ DisagreesWithSuggestion(row, d)
  BY <1>1, <1>2, <1>3
<1>4. CASE ~(row.eval \in Preemptible \/ DisagreesWithSuggestion(row, d))
  BY <1>1, <1>2, <1>4
<1> QED BY <1>3, <1>4

\* finalize_evaluation and submit_request append two records for a trace.
LEMMA AutomaticAuditsType ==
  ASSUME NEW trace \in Trace
  PROVE  AutomaticAudits(trace) \in Seq(AuditRecord)
<1>1. trace.disposition \in Verdict \cup {"none"}
  BY DEF Trace
<1>2. /\ Audit("automatic_decision_recorded", "system_auto", trace.disposition)
           \in AuditRecord
      /\ Audit(IF trace.disposition = "escalate" THEN "automatic_escalated_to_human"
                                                ELSE "approval_recorded",
               "system_auto", trace.disposition) \in AuditRecord
  BY <1>1, AuditType DEF AuditAction, Actor
<1> QED BY <1>2 DEF AutomaticAudits

\* The records of a suggestion and of its details.
LEMMA SuggestionAuditsType ==
  ASSUME NEW sug \in StoredSuggestion
  PROVE  /\ SuggestionAudit(sug) \in AuditRecord
         /\ DetailsAudits(sug) \in Seq(AuditRecord)
<1>1. sug.decision \in Verdict \cup {"none"}
  BY DEF StoredSuggestion
<1>2. SuggestionAudit(sug) \in AuditRecord
  BY <1>1, AuditType DEF SuggestionAudit, AuditAction, Actor
<1>3. Audit("llm_review_details_updated", "provider", sug.decision) \in AuditRecord
  BY <1>1, AuditType DEF AuditAction, Actor
<1> QED BY <1>2, <1>3 DEF DetailsAudits

-----------------------------------------------------------------------------
\* finalize_evaluation.

\* The judged row: typed, present, its evaluation untouched.
LEMMA JudgedRow ==
  ASSUME NEW row \in Row, NEW sug \in Suggestion, row.status = "pending"
  PROVE  /\ Judged(row, sug) \in Row
         /\ Judged(row, sug).status # "absent"
         /\ Judged(row, sug).eval = row.eval
         /\ Judged(row, sug).batchSource = row.batchSource
         /\ row.sub.mode = "llm_automatic" => Judged(row, sug).auto \in Trace
<1> DEFINE advised == [row EXCEPT !.sug = sug]
           trace   == EvaluateAutomaticDisposition(row.sub.policy, sug, row.sub.breach)
<1>1. sug \in StoredSuggestion /\ sug.decision \in Verdict
  BY StorableSuggestion
<1>2. trace \in Trace
  BY <1>1, SubmittedPolicy, EvaluatedTrace
<1>3. /\ advised \in Row /\ advised.status = "pending" /\ advised.eval = row.eval
      /\ advised.batchSource = row.batchSource
  BY <1>1 DEF Row
<1>4. CASE row.sub.mode = "llm_automatic"
  <2>1. Judged(row, sug) = AutomaticDecision(advised, trace)
    BY <1>4 DEF Judged
  <2> HIDE DEF advised, trace
  <2>2. AutomaticDecision(advised, trace).auto = trace
    BY <1>3 DEF AutomaticDecision, Row
  <2> QED BY <1>2, <1>3, <2>1, <2>2, AutomaticDecisionRow
<1>5. CASE row.sub.mode # "llm_automatic"
  BY <1>3, <1>5 DEF Judged
<1> QED BY <1>4, <1>5

\* The transaction of finalize_evaluation keeps the types, the agreement of the
\* two tables and the shape of the row.
LEMMA FinalizedRow ==
  ASSUME NEW row \in Row, NEW op \in OperationStatus, NEW sug \in Suggestion,
         op = IF row.eval = "not_required" \/ row.batchSource # "none"
                THEN "none" ELSE row.eval,
         row.eval \in Preemptible => row.status = "pending",
         row.batchSource # "none" => row.eval = "completed"
  PROVE  LET tx == Finalized(row, op, sug)
         IN /\ tx.row \in Row /\ tx.op \in OperationStatus
            /\ tx.log \in Seq(AuditRecord)
            /\ tx.op = IF tx.row.eval = "not_required" \/ tx.row.batchSource # "none"
                         THEN "none" ELSE tx.row.eval
            /\ tx.row.batchSource = row.batchSource
            /\ tx.row.eval \in Preemptible => tx.row.status = "pending"
            /\ tx.row.status = "absent" => row.status = "absent"
            /\ tx.row # row =>
                 row.eval = "running" \/ row.eval = "superseded"
            /\ tx.row.eval \in {row.eval, "completed", "failed"}
            /\ row.eval # "running" =>
                 tx.row.eval = row.eval /\ tx.row.status = row.status
                 /\ tx.row.final = row.final /\ tx.row.auto = row.auto
<1> DEFINE outcome == IF sug.error THEN "failed" ELSE "completed"
           judged  == [Judged(row, sug) EXCEPT !.eval = outcome]
           decided == <<SuggestionAudit(sug)>> \o
                        IF row.sub.mode = "llm_automatic"
                          THEN AutomaticAudits(Judged(row, sug).auto) ELSE <<>>
<1>1. sug \in StoredSuggestion
  BY StorableSuggestion
<1>2. SuggestionAudit(sug) \in AuditRecord
  BY <1>1, SuggestionAuditsType
<1>3. CASE row.eval = "superseded" /\ row.sug = NoSuggestion
  <2>1. /\ Finalized(row, op, sug).row = AdviceOnly(row, sug)
        /\ Finalized(row, op, sug).op = op
        /\ Finalized(row, op, sug).log = <<SuggestionAudit(sug)>>
    BY <1>3 DEF Finalized, Stored
  <2>2. /\ AdviceOnly(row, sug) \in Row
        /\ AdviceOnly(row, sug).eval = row.eval
        /\ AdviceOnly(row, sug).status = row.status
        /\ AdviceOnly(row, sug).final = row.final
        /\ AdviceOnly(row, sug).auto = row.auto
        /\ AdviceOnly(row, sug).batchSource = row.batchSource
    BY <1>1 DEF AdviceOnly, Row
  <2>3. <<SuggestionAudit(sug)>> \in Seq(AuditRecord)
    BY <1>2
  <2> HIDE DEF outcome, judged, decided
  <2> QED BY <1>3, <2>1, <2>2, <2>3 DEF Preemptible
<1>4. CASE row.eval = "running" /\ row.status = "pending"
  <2>1. /\ Finalized(row, op, sug).row = judged
        /\ Finalized(row, op, sug).op = outcome
        /\ Finalized(row, op, sug).log = decided
    BY <1>4 DEF Finalized, Stored
  <2>2. /\ judged \in Row /\ judged.eval = outcome /\ judged.status # "absent"
        /\ judged.batchSource = row.batchSource
    BY <1>4, JudgedRow DEF Row, EvaluationState
  <2>3. decided \in Seq(AuditRecord)
    <3>1. CASE row.sub.mode = "llm_automatic"
      <4>1. AutomaticAudits(Judged(row, sug).auto) \in Seq(AuditRecord)
        BY <1>4, <3>1, JudgedRow, AutomaticAuditsType
      <4> QED BY <1>2, <3>1, <4>1
    <3>2. CASE row.sub.mode # "llm_automatic"
      BY <1>2, <3>2
    <3> QED BY <3>1, <3>2
  <2>4. row.batchSource = "none"
    BY <1>4
  <2>5. outcome \in {"completed", "failed"}
    OBVIOUS
  <2> HIDE DEF outcome, judged, decided
  <2> QED BY <1>4, <2>1, <2>2, <2>3, <2>4, <2>5 DEF Preemptible, OperationStatus
<1>5. CASE ~(row.eval = "superseded" /\ row.sug = NoSuggestion) /\ row.eval # "running"
  <2>1. /\ Finalized(row, op, sug).row = row
        /\ Finalized(row, op, sug).op = op
        /\ Finalized(row, op, sug).log = <<>>
    BY <1>5 DEF Finalized, Stored
  <2>2. <<>> \in Seq(AuditRecord)
    OBVIOUS
  <2> HIDE DEF outcome, judged, decided
  <2> QED BY <1>5, <2>1, <2>2
<1> QED BY <1>3, <1>4, <1>5 DEF Preemptible

-----------------------------------------------------------------------------
\* One lemma per action.  A step of request r leaves the other rows alone, so
\* each lemma shows the invariant for the row it writes.

\* The invariant of one request, apart from types.
RowInv(r) ==
  /\ operation[r] = IF requests[r].eval = "not_required"
                       \/ requests[r].batchSource # "none"
                    THEN "none" ELSE requests[r].eval
  /\ requests[r].status = "absent" => requests[r] = NoRow
  /\ requests[r].eval \in Preemptible => requests[r].status = "pending"
  /\ requests[r].batchSource # "none" => requests[r].eval = "completed"
  /\ handler[r].pc = "looked" => requests[r] = NoRow /\ FreshRow(handler[r].row)

\* The invariant, row by row, before and after a step.
LEMMA ByRow ==
  /\ IInv <=> TypeOK /\ \A r \in Request : RowInv(r)
  /\ IInv' <=> TypeOK' /\ \A r \in Request : RowInv(r)'
BY DEF IInv, OperationAgrees, EvaluationOnlyWhilePending, RowInv

\* No handler looks up tickets in this step.
NoLookup == \A q \in Request : handler'[q].pc = "looked" => handler'[q] = handler[q]

HandlerType == [pc : {"idle", "looked", "committed", "done"},
                row : Row, log : Seq(AuditRecord)]

\* An idle or finished handler has a type.
LEMMA IdleType == IdleHandler \in HandlerType /\ [IdleHandler EXCEPT !.pc = "done"] \in HandlerType
<1>1. <<>> \in Seq(AuditRecord)
  OBVIOUS
<1>2. IdleHandler = [pc |-> "idle", row |-> NoRow, log |-> <<>>]
  BY DEF IdleHandler
<1>3. [IdleHandler EXCEPT !.pc = "done"] = [pc |-> "done", row |-> NoRow, log |-> <<>>]
  BY <1>2
<1> QED BY <1>1, <1>2, <1>3, NullTypes DEF HandlerType

\* A step that writes neither table keeps the invariant.
LEMMA TablesUnchanged ==
  ASSUME IInv, TypeOK', NoLookup, UNCHANGED <<requests, operation>>
  PROVE  IInv'
BY ByRow DEF NoLookup, RowInv

\* The invariant holds initially.
LEMMA InitIInv == Init => IInv
<1> SUFFICES ASSUME Init PROVE IInv
  OBVIOUS
<1>1. TypeOK
  BY IdleType, NullTypes, BoundsAssumption DEF Init, TypeOK, OperationStatus, HandlerType
<1>2. ASSUME NEW r \in Request PROVE RowInv(r)
  BY NullTypes DEF Init, RowInv, IdleHandler, Preemptible
<1> QED BY <1>1, <1>2, ByRow

\* Looking up tickets prepares a fresh row.
LEMMA SubmitLookupStep ==
  ASSUME IInv, NEW r \in Request, NEW sub \in Submission, SubmitLookup(r, sub)
  PROVE  IInv'
<1> DEFINE submit == Audit("request_submitted", "requester", "none")
<1>1. submit \in AuditRecord
  BY AuditType DEF AuditAction, Actor
<1>2. PICK row \in Row, log \in Seq(AuditRecord) :
        /\ FreshRow(row)
        /\ handler' = [handler EXCEPT ![r] = [pc |-> "looked", row |-> row, log |-> log]]
  <2>1. CASE handler' = [handler EXCEPT ![r] =
               [pc |-> "looked", row |-> NewPending(sub), log |-> <<submit>>]]
    <3>1. NewPending(sub) \in Row /\ FreshRow(NewPending(sub))
      BY NewPendingRow DEF FreshRow
    <3> HIDE DEF submit
    <3>2. <<submit>> \in Seq(AuditRecord)
      BY <1>1
    <3> QED BY <2>1, <3>1, <3>2
  <2>2. ASSUME NEW t \in tickets,
               handler' = [handler EXCEPT ![r] =
                 [pc |-> "looked", row |-> FromTicket(NewPending(sub), t),
                  log |-> <<submit>> \o AutomaticAudits(FromTicket(NewPending(sub), t).auto)]]
        PROVE  \E row \in Row, log \in Seq(AuditRecord) :
                 /\ FreshRow(row)
                 /\ handler' = [handler EXCEPT ![r] =
                                  [pc |-> "looked", row |-> row, log |-> log]]
    <3>1. FromTicket(NewPending(sub), t) \in Row /\ FreshRow(FromTicket(NewPending(sub), t))
          /\ FromTicket(NewPending(sub), t).auto \in Trace
      BY TicketRow DEF IInv
    <3>2. AutomaticAudits(FromTicket(NewPending(sub), t).auto) \in Seq(AuditRecord)
      BY <3>1, AutomaticAuditsType
    <3> HIDE DEF submit
    <3>3. <<submit>> \o AutomaticAudits(FromTicket(NewPending(sub), t).auto)
            \in Seq(AuditRecord)
      BY <1>1, <3>2
    <3> QED BY <2>2, <3>1, <3>3
  <2> QED BY <2>1, <2>2 DEF SubmitLookup, MatchingTickets
<1>3. requests[r] = NoRow /\ UNCHANGED <<store, task, daemon, abandoned, crashes, faults>>
  BY DEF SubmitLookup
<1>4. TypeOK'
  BY <1>2, <1>3 DEF IInv, TypeOK, store
<1>5. ASSUME NEW q \in Request PROVE RowInv(q)'
  BY <1>2, <1>3, ByRow DEF RowInv, TypeOK, store
<1> QED BY <1>4, <1>5, ByRow

\* Storing the fresh row puts the operation in agreement with it.
LEMMA SubmitCommitStep ==
  ASSUME IInv, NEW r \in Request, SubmitCommit(r)
  PROVE  IInv'
<1> DEFINE row == handler[r].row
<1>1. /\ row \in Row /\ handler[r].log \in Seq(AuditRecord)
      /\ FreshRow(row) /\ handler[r].pc = "looked"
  BY ByRow DEF SubmitCommit, TypeOK, RowInv
<1>2. /\ requests' = [requests EXCEPT ![r] = row]
      /\ audits' = [audits EXCEPT ![r] = handler[r].log]
      /\ operation' = [operation EXCEPT ![r] =
                         IF row.eval = "queued" THEN "queued" ELSE "none"]
      /\ handler' = [handler EXCEPT ![r].pc = "committed"]
      /\ UNCHANGED <<tickets, task, daemon, abandoned, crashes, faults>>
  BY DEF SubmitCommit
<1> HIDE DEF row
<1>3. TypeOK'
  BY <1>1, <1>2 DEF IInv, TypeOK, OperationStatus
<1>4. RowInv(r)'
  BY <1>1, <1>2 DEF IInv, TypeOK, RowInv, FreshRow, Preemptible
<1>5. ASSUME NEW q \in Request, q # r PROVE RowInv(q)'
  BY <1>2, <1>5, ByRow DEF TypeOK, RowInv
<1> QED BY <1>3, <1>4, <1>5, ByRow

\* A decision resolves the row, supersedes its evaluation and the operation.
LEMMA RecordDecisionStep ==
  ASSUME IInv, NEW r \in Request, NEW d \in Decision, NEW actor \in Actor,
         RecordDecision(r, d, actor)
  PROVE  /\ requests' \in [Request -> Row] /\ operation' \in [Request -> OperationStatus]
         /\ audits' \in [Request -> Seq(AuditRecord)] /\ tickets' = tickets
         /\ NoLookup => \A q \in Request : RowInv(q)'
         /\ requests[r] # NoRow
         /\ \A q \in Request \ {r} : requests'[q] = requests[q]
                                        /\ operation'[q] = operation[q]
         /\ requests[r].status = "pending"
<1> DEFINE row == ManualDecision(requests[r], d)
<1>1. requests[r] \in Row /\ requests[r].status = "pending" /\ requests[r] # NoRow
  BY NullTypes DEF RecordDecision, IInv, TypeOK
<1>2. /\ row \in Row
      /\ row.status \in {"approved", "rejected"}
      /\ row.eval = IF requests[r].eval \in Preemptible THEN "superseded"
                                                       ELSE requests[r].eval
      /\ row.batchSource = requests[r].batchSource
  BY <1>1, ManualDecisionRow
<1>3. ManualAudits(requests[r], d, actor) \in Seq(AuditRecord)
  BY ManualAuditsType
<1>4. /\ requests'  = [requests EXCEPT ![r] = row]
      /\ operation' = [operation EXCEPT ![r] =
                         IF row.eval = "superseded" THEN "superseded" ELSE @]
      /\ audits'    = [audits EXCEPT ![r] = @ \o ManualAudits(requests[r], d, actor)]
      /\ tickets'   = tickets
  BY DEF RecordDecision
<1> HIDE DEF row
<1>5. /\ requests' \in [Request -> Row] /\ operation' \in [Request -> OperationStatus]
  BY <1>2, <1>4 DEF IInv, TypeOK, OperationStatus
<1>6. audits' \in [Request -> Seq(AuditRecord)]
  <2>1. audits[r] \o ManualAudits(requests[r], d, actor) \in Seq(AuditRecord)
    BY <1>3 DEF IInv, TypeOK
  <2> QED BY <1>4, <2>1 DEF IInv, TypeOK
<1>7. ASSUME NoLookup PROVE RowInv(r)'
  BY <1>1, <1>2, <1>4, <1>7, ByRow DEF TypeOK, RowInv, Preemptible, NoLookup
<1>8. ASSUME NoLookup, NEW q \in Request, q # r PROVE RowInv(q)'
  BY <1>4, <1>8, ByRow DEF TypeOK, RowInv, NoLookup
<1>9. \A q \in Request \ {r} : requests'[q] = requests[q] /\ operation'[q] = operation[q]
  BY <1>4 DEF IInv, TypeOK
<1> QED BY <1>1, <1>4, <1>5, <1>6, <1>7, <1>8, <1>9

\* Every decision path of a handler, a human or the expiry of a plan.
LEMMA DecisionSteps ==
  ASSUME IInv, NEW r \in Request,
         \/ DirectPolicyDecision(r)
         \/ \E d \in Decision : HumanDecide(r, d)
         \/ ExpirePlan(r)
         \/ RecoverAbandonedPlan(r)
  PROVE  IInv'
<1>1. CASE DirectPolicyDecision(r)
  <2>1. /\ handler' = [handler EXCEPT ![r] = [IdleHandler EXCEPT !.pc = "done"]]
        /\ UNCHANGED <<task, daemon, abandoned, crashes, faults>>
    BY <1>1 DEF DirectPolicyDecision
  <2>2. NoLookup /\ handler' \in [Request -> HandlerType]
    BY <2>1, IdleType DEF NoLookup, HandlerType, IdleHandler, IInv, TypeOK
  <2>3. CASE RecordDecision(r, "allow", "field_exposure_policy")
    <3>1. "allow" \in Decision /\ "field_exposure_policy" \in Actor
      BY DEF Decision, Actor
    <3> QED BY <2>1, <2>2, <2>3, <3>1, RecordDecisionStep, ByRow
            DEF IInv, TypeOK, HandlerType
  <2>4. CASE UNCHANGED store
    <3>1. TypeOK'
      BY <2>1, <2>2, <2>4 DEF IInv, TypeOK, HandlerType, store
    <3> QED BY <2>2, <2>4, <3>1, TablesUnchanged DEF store
  <2> QED BY <1>1, <2>3, <2>4 DEF DirectPolicyDecision
<1>2. ASSUME NEW d \in Decision, HumanDecide(r, d) PROVE IInv'
  <2>1. RecordDecision(r, d, "human")
        /\ UNCHANGED <<handler, task, daemon, abandoned, crashes, faults>>
    BY <1>2 DEF HumanDecide
  <2> QED BY <2>1, RecordDecisionStep, ByRow DEF IInv, TypeOK, Actor, NoLookup
<1>3. CASE ExpirePlan(r)
  <2>1. RecordDecision(r, "deny", "execution-expiry")
        /\ UNCHANGED <<handler, task, daemon, abandoned, crashes, faults>>
    BY <1>3 DEF ExpirePlan
  <2> QED BY <2>1, RecordDecisionStep, ByRow DEF IInv, TypeOK, Actor, Decision, NoLookup
<1>4. CASE RecoverAbandonedPlan(r)
  <2>1. UNCHANGED <<handler, task, crashes, faults>> /\ NoLookup
    BY <1>4 DEF RecoverAbandonedPlan, NoLookup
  <2>2. CASE /\ RecordDecision(r, "deny", "execution-recovery")
             /\ abandoned' = abandoned \ {r} /\ daemon' = daemon
    BY <2>1, <2>2, RecordDecisionStep, ByRow DEF IInv, TypeOK, Actor, Decision
  <2>3. CASE UNCHANGED store /\ abandoned' = {} /\ daemon' = "down"
    <3>1. TypeOK'
      BY <2>1, <2>3 DEF IInv, TypeOK, store
    <3> QED BY <2>1, <2>3, <3>1, TablesUnchanged DEF store
  <2> QED BY <1>4, <2>2, <2>3 DEF RecoverAbandonedPlan
<1> QED BY <1>1, <1>2, <1>3, <1>4

\* Steps that write no request and no operation.
LEMMA OtherSteps ==
  ASSUME IInv, NEW r \in Request,
         \/ SpawnEvaluation(r) \/ TicketsExpire(r) \/ WorkerFails(r)
         \/ MonitorFails(r) \/ HandlerCancelled(r)
  PROVE  IInv'
<1> USE DEF IInv, TypeOK, NoLookup, store, HandlerType, IdleHandler
<1>1. CASE SpawnEvaluation(r) \/ HandlerCancelled(r)
  <2>1. UNCHANGED <<store, daemon, abandoned, crashes>>
        /\ handler' = [handler EXCEPT ![r] = [IdleHandler EXCEPT !.pc = "done"]]
    BY <1>1 DEF SpawnEvaluation, HandlerCancelled
  <2>2. task' \in [Request -> {"none", "spawned", "evaluating", "finalized", "failed"}]
        /\ faults' \in 0..MaxFaults
    <3>1. CASE SpawnEvaluation(r)
      <4>1. task' = [task EXCEPT ![r] = "spawned"] \/ task' = [task EXCEPT ![r] = @]
        BY <3>1 DEF SpawnEvaluation
      <4> QED BY <3>1, <4>1 DEF SpawnEvaluation
    <3>2. CASE HandlerCancelled(r)
      BY <3>2, BoundsAssumption DEF HandlerCancelled
    <3> QED BY <1>1, <3>1, <3>2
  <2>3. TypeOK' /\ NoLookup
    BY <2>1, <2>2, IdleType
  <2> QED BY <2>1, <2>3, TablesUnchanged
<1>2. CASE TicketsExpire(r)
  <2>1. TypeOK' /\ NoLookup /\ UNCHANGED <<requests, operation>>
    BY <1>2 DEF TicketsExpire
  <2> QED BY <2>1, TablesUnchanged
<1>3. CASE WorkerFails(r) \/ MonitorFails(r)
  <2>1. faults' \in 0..MaxFaults
    BY <1>3, BoundsAssumption DEF WorkerFails, MonitorFails
  <2>2. task' \in [Request -> {"none", "spawned", "evaluating", "finalized", "failed"}]
    BY <1>3 DEF WorkerFails, MonitorFails
  <2>3. UNCHANGED <<store, handler, daemon, abandoned, crashes>>
    BY <1>3 DEF WorkerFails, MonitorFails
  <2>4. TypeOK' /\ NoLookup /\ UNCHANGED <<requests, operation>>
    BY <2>1, <2>2, <2>3
  <2> QED BY <2>4, TablesUnchanged
<1> QED BY <1>1, <1>2, <1>3

\* Steps of the process as a whole that write neither table.
LEMMA ProcessSteps ==
  ASSUME IInv, Crash \/ StartDaemon \/ ResumeQueued
  PROVE  IInv'
<1> USE DEF IInv, TypeOK, NoLookup, store, HandlerType, IdleHandler
<1>1. CASE Crash
  <2>1. /\ UNCHANGED <<store, faults>> /\ daemon' = "down" /\ abandoned' = {}
        /\ task' = [q \in Request |-> "none"]
        /\ handler' = [q \in Request |->
                         IF handler[q].pc = "idle" THEN handler[q]
                         ELSE [IdleHandler EXCEPT !.pc = "done"]]
        /\ crashes' \in 0..MaxCrashes
    BY <1>1, BoundsAssumption DEF Crash, StopProcess
  <2>2. TypeOK' /\ NoLookup
    BY <2>1, IdleType
  <2> QED BY <2>1, <2>2, TablesUnchanged
<1>2. CASE StartDaemon \/ ResumeQueued
  <2>1. TypeOK' /\ NoLookup /\ UNCHANGED <<requests, operation>>
    BY <1>2 DEF StartDaemon, ResumeQueued
  <2> QED BY <2>1, TablesUnchanged
<1> QED BY <1>1, <1>2

TaskState == {"none", "spawned", "evaluating", "finalized", "failed"}

\* The parts of the invariant that a worker leaves alone.
LEMMA WorkerStepFrame ==
  ASSUME IInv, NEW r \in Request, NEW from, NEW to \in TaskState,
         WorkerStep(r, from, to)
  PROVE  /\ task' \in [Request -> TaskState]
         /\ UNCHANGED <<handler, daemon, abandoned, crashes, faults>>
         /\ NoLookup
BY DEF WorkerStep, IInv, TypeOK, TaskState, NoLookup

\* A step of a worker that rewrites the row and the operation of its request.
LEMMA WorkerWrites ==
  ASSUME IInv, NEW r \in Request, NEW row \in Row, NEW op \in OperationStatus,
         NEW log \in Seq(AuditRecord),
         requests' = [requests EXCEPT ![r] = row],
         operation' = [operation EXCEPT ![r] = op],
         audits' = [audits EXCEPT ![r] = @ \o log],
         tickets' \subseteq Ticket,
         task' \in [Request -> TaskState],
         UNCHANGED <<handler, daemon, abandoned, crashes, faults>>,
         op = IF row.eval = "not_required" \/ row.batchSource # "none"
                THEN "none" ELSE row.eval,
         row.batchSource # "none" => row.eval = "completed",
         row.eval \in Preemptible => row.status = "pending",
         row # requests[r] => requests[r] # NoRow,
         row.status = "absent" => row = requests[r]
  PROVE  IInv'
<1>1. audits[r] \o log \in Seq(AuditRecord)
  BY DEF IInv, TypeOK
<1>2. TypeOK'
  BY <1>1 DEF IInv, TypeOK, TaskState
<1>3. RowInv(r)'
  BY ByRow DEF TypeOK, RowInv
<1>4. ASSUME NEW q \in Request, q # r PROVE RowInv(q)'
  BY <1>4, ByRow DEF TypeOK, RowInv
<1> QED BY <1>2, <1>3, <1>4, ByRow

\* insert_batch_tickets inserts tickets.
LEMMA TicketsType ==
  ASSUME NEW r \in Request, NEW row \in Row
  PROVE  TicketsFrom(r, row) \subseteq Ticket
<1>1. CASE row.sub.mode = "llm_automatic"
  <2>1. row.sub \in Submission
    BY <1>1 DEF Row, NoSubmission
  <2>2. row.sub.key \in Key /\ row.sub.admitted \in BOOLEAN
    BY <2>1, SubmissionAssumption DEF SubmissionType
  <2>3. ShareKey(r, row.sub) \in Key \X (Request \cup {"unbound"})
    BY <2>2 DEF ShareKey
  <2>4. \A b \in row.sug.batch : b.selector \in Selector /\ b.decision \in Verdict
    BY DEF Row, StoredSuggestion, BatchDecision
  <2> QED BY <2>3, <2>4 DEF TicketsFrom, Ticket
<1>2. CASE row.sub.mode # "llm_automatic"
  BY <1>2 DEF TicketsFrom
<1> QED BY <1>1, <1>2

\* claim_evaluation and interrupt_evaluation move both tables together.
LEMMA ClaimAndInterruptSteps ==
  ASSUME IInv, NEW r \in Request, ClaimEvaluation(r) \/ MonitorInterrupts(r)
  PROVE  IInv'
<1>1. /\ requests[r] \in Row /\ operation[r] \in OperationStatus /\ RowInv(r)
      /\ tickets \subseteq Ticket /\ audits \in [Request -> Seq(AuditRecord)]
  BY ByRow DEF TypeOK
<1>2. PICK from, to \in TaskState : WorkerStep(r, from, to)
  BY DEF ClaimEvaluation, MonitorInterrupts, TaskState
<1>3. /\ task' \in [Request -> TaskState]
      /\ UNCHANGED <<handler, daemon, abandoned, crashes, faults>>
  BY <1>2, WorkerStepFrame
<1>4. /\ audits' = [audits EXCEPT ![r] = @ \o <<>>] /\ tickets' = tickets
      /\ <<>> \in Seq(AuditRecord)
  BY <1>1 DEF ClaimEvaluation, MonitorInterrupts
<1>5. ASSUME NEW e \in {"running", "superseded", "interrupted"},
             requests' = [requests EXCEPT ![r].eval = e],
             operation' = [operation EXCEPT ![r] = e],
             requests[r].eval \in Preemptible
      PROVE  IInv'
  <2> DEFINE row == [requests[r] EXCEPT !.eval = e]
  <2>1. row \in Row /\ row.eval = e /\ row.status = requests[r].status
        /\ row.batchSource = requests[r].batchSource
    BY <1>1 DEF Row, EvaluationState
  <2>2. requests' = [requests EXCEPT ![r] = row]
    BY <1>5
  <2>3. row.batchSource = "none" /\ requests[r].status = "pending" /\ requests[r] # NoRow
    BY <1>1, <1>5, <2>1, NullTypes DEF RowInv, Preemptible
  <2>4. e \in OperationStatus
    BY DEF OperationStatus
  <2> HIDE DEF row
  <2> QED BY <1>1, <1>3, <1>4, <1>5, <2>1, <2>2, <2>3, <2>4, WorkerWrites DEF Preemptible
<1>6. ASSUME requests' = requests, operation' = operation PROVE IInv'
  <2>1. /\ requests' = [requests EXCEPT ![r] = requests[r]]
        /\ operation' = [operation EXCEPT ![r] = operation[r]]
    BY <1>6 DEF IInv, TypeOK
  <2>2. tickets' \subseteq Ticket
    BY <1>1, <1>4
  <2> QED BY <1>1, <1>3, <1>4, <2>1, <2>2, WorkerWrites DEF RowInv
<1>7. CASE ClaimEvaluation(r)
  <2>1. CASE requests[r].eval = "queued"
    BY <1>5, <1>7, <2>1 DEF ClaimEvaluation, Preemptible
  <2>2. CASE requests[r].eval # "queued"
    <3>1. /\ requests' = [requests EXCEPT ![r].eval = requests[r].eval]
          /\ operation' = [operation EXCEPT ![r] = operation[r]]
      BY <1>7, <2>2 DEF ClaimEvaluation
    <3>2. requests' = requests /\ operation' = operation
      BY <1>1, <3>1 DEF Row, IInv, TypeOK
    <3> QED BY <1>6, <3>2
  <2> QED BY <2>1, <2>2
<1>8. CASE MonitorInterrupts(r)
  <2>1. CASE requests[r].eval \in Preemptible /\ requests[r].status = "pending"
    BY <1>5, <1>8, <2>1 DEF MonitorInterrupts
  <2>2. CASE ~(requests[r].eval \in Preemptible /\ requests[r].status = "pending")
    <3>1. /\ requests' = [requests EXCEPT ![r].eval = requests[r].eval]
          /\ operation' = [operation EXCEPT ![r] = operation[r]]
      BY <1>8, <2>2 DEF MonitorInterrupts
    <3>2. requests' = requests /\ operation' = operation
      BY <1>1, <3>1 DEF Row, IInv, TypeOK
    <3> QED BY <1>6, <3>2
  <2> QED BY <2>1, <2>2
<1> QED BY <1>7, <1>8

\* Answers of the provider: finalize_evaluation and update_evaluation_details.
LEMMA AnswerSteps ==
  ASSUME IInv, NEW r \in Request, NEW sug \in Suggestion,
         DecisionReady(r, sug) \/ DetailsUpdated(r, sug) \/ FinalSuggestion(r, sug)
  PROVE  IInv'
<1>1. /\ requests[r] \in Row /\ operation[r] \in OperationStatus /\ RowInv(r)
      /\ tickets \subseteq Ticket
  BY ByRow DEF TypeOK
<1>2. PICK from, to \in TaskState : WorkerStep(r, from, to)
  BY DEF DecisionReady, DetailsUpdated, FinalSuggestion, TaskState
<1>3. /\ task' \in [Request -> TaskState]
      /\ UNCHANGED <<handler, daemon, abandoned, crashes, faults>> /\ NoLookup
  BY <1>2, WorkerStepFrame
<1>4. CASE FinalizeEvaluation(r, sug)
  <2> DEFINE tx == Finalized(requests[r], operation[r], sug)
  <2>1. /\ tx.row \in Row /\ tx.op \in OperationStatus /\ tx.log \in Seq(AuditRecord)
        /\ tx.op = IF tx.row.eval = "not_required" \/ tx.row.batchSource # "none"
                     THEN "none" ELSE tx.row.eval
        /\ tx.row.batchSource = requests[r].batchSource
        /\ tx.row.eval \in Preemptible => tx.row.status = "pending"
        /\ tx.row.status = "absent" => requests[r].status = "absent"
        /\ tx.row # requests[r] =>
             requests[r].eval = "running" \/ requests[r].eval = "superseded"
        /\ tx.row.eval \in {requests[r].eval, "completed", "failed"}
    BY <1>1, FinalizedRow DEF RowInv
  <2>2. /\ requests' = [requests EXCEPT ![r] = tx.row]
        /\ operation' = [operation EXCEPT ![r] = tx.op]
        /\ audits' = [audits EXCEPT ![r] = @ \o tx.log]
        /\ tickets' \subseteq tickets \cup TicketsFrom(r, tx.row)
    BY <1>4 DEF FinalizeEvaluation
  <2> HIDE DEF tx
  <2>3. tickets' \subseteq Ticket
    BY <1>1, <2>1, <2>2, TicketsType
  <2>4. tx.row # requests[r] => requests[r] # NoRow
    BY <2>1, NullTypes
  <2>5. tx.row.status = "absent" => tx.row = requests[r]
    BY <1>1, <2>1, <2>4 DEF RowInv
  <2>6. tx.row.batchSource # "none" => tx.row.eval = "completed"
    BY <1>1, <2>1, <2>4, FinalizedRow DEF RowInv
  <2> QED BY <1>3, <2>1, <2>2, <2>3, <2>4, <2>5, <2>6, WorkerWrites
<1>5. CASE UpdateEvaluationDetails(r, sug)
  <2> DEFINE row == [requests[r] EXCEPT !.sug = sug]
             log == DetailsAudits(sug)
  <2>1. sug \in StoredSuggestion /\ log \in Seq(AuditRecord)
    BY StorableSuggestion, SuggestionAuditsType
  <2>2. /\ row \in Row /\ row.eval = requests[r].eval
        /\ row.status = requests[r].status /\ row.batchSource = requests[r].batchSource
    BY <1>1, <2>1 DEF Row
  <2>3. requests[r] # NoRow
    BY <1>5 DEF UpdateEvaluationDetails, SameVerdict, NoRow
  <2>4. /\ requests' = [requests EXCEPT ![r] = row]
        /\ operation' = [operation EXCEPT ![r] = operation[r]]
        /\ audits' = [audits EXCEPT ![r] = @ \o log] /\ tickets' = tickets
    BY <1>5 DEF UpdateEvaluationDetails, IInv, TypeOK
  <2> HIDE DEF row, log
  <2> QED BY <1>1, <1>3, <2>1, <2>2, <2>3, <2>4, WorkerWrites DEF RowInv
<1>6. CASE UNCHANGED store
  <2>1. TypeOK'
    BY <1>3, <1>6 DEF IInv, TypeOK, TaskState, store
  <2> QED BY <1>3, <1>6, <2>1, TablesUnchanged DEF store
<1> QED BY <1>4, <1>5, <1>6 DEF DecisionReady, DetailsUpdated, FinalSuggestion

-----------------------------------------------------------------------------
\* Start-up recovery and shutdown rewrite every row.

\* recover_stale_operations and recover_interrupted_review_details, alone or
\* together, keep the invariant: what they write agrees in both tables.
LEMMA RecoveryWrites ==
  ASSUME IInv, NoLookup,
         requests' \in [Request -> Row], operation' \in [Request -> OperationStatus],
         \A q \in Request :
           /\ operation'[q] = operation[q] \/ operation'[q] = "interrupted"
           /\ operation'[q] = operation[q] => requests'[q].eval = requests[q].eval
           /\ operation'[q] # operation[q] =>
                operation[q] = "running" /\ requests'[q].eval = "interrupted"
           /\ requests'[q].status = requests[q].status
           /\ requests'[q].batchSource = requests[q].batchSource
           /\ requests[q] = NoRow => requests'[q] = requests[q]
  PROVE  \A q \in Request : RowInv(q)'
<1> TAKE q \in Request
<1>1. RowInv(q) /\ requests[q] \in Row
  BY ByRow DEF TypeOK
<1>2. requests'[q].status = "absent" => requests'[q] = NoRow
  BY <1>1 DEF RowInv
<1>3. CASE operation'[q] = operation[q]
  BY <1>1, <1>2, <1>3 DEF RowInv, NoLookup
<1>4. CASE operation'[q] # operation[q]
  <2>1. /\ operation[q] = "running" /\ operation'[q] = "interrupted"
        /\ requests'[q].eval = "interrupted" /\ requests[q] # NoRow
    BY <1>1, <1>4, NullTypes DEF RowInv
  <2>2. requests[q].batchSource = "none"
    BY <1>1, <2>1 DEF RowInv
  <2> QED BY <1>1, <1>2, <2>1, <2>2 DEF RowInv, NoLookup, Preemptible
<1> QED BY <1>3, <1>4

\* Recovery ends the evaluation of a row, or the progress of its review.
LEMMA InterruptedRow ==
  ASSUME NEW row \in Row
  PROVE  [row EXCEPT !.eval = "interrupted"] \in Row
BY DEF Row, EvaluationState

\* Progress of an evaluation changes nothing of the decision.
LEMMA ProgressRow ==
  ASSUME NEW row \in Row, NEW e \in InterruptedProgress
  PROVE  /\ WithProgress(row, e) \in Row
         /\ WithProgress(row, e).eval = row.eval
         /\ WithProgress(row, e).status = row.status
         /\ WithProgress(row, e).final = row.final
         /\ WithProgress(row, e).auto = row.auto
         /\ WithProgress(row, e).batchSource = row.batchSource
<1>1. [row.sug EXCEPT !.progress = e] \in StoredSuggestion
  BY DEF Row, StoredSuggestion, InterruptedProgress, Progress
<1>2. WithProgress(row, e) = [row EXCEPT !.sug = [row.sug EXCEPT !.progress = e]]
  BY DEF Row, WithProgress
<1> QED BY <1>1, <1>2 DEF Row, EvaluationState

\* An absent row has nothing to recover, and a running operation is a running
\* evaluation.
LEMMA NothingToRecover ==
  ASSUME IInv, NEW q \in Request
  PROVE  /\ requests[q] \in Row
         /\ requests[q] = NoRow => operation[q] = "none" /\ ~HasRunningProgress(requests[q])
         /\ operation[q] = "running" => requests[q].eval = "running"
<1>1. RowInv(q) /\ requests[q] \in Row
  BY ByRow DEF TypeOK
<1>2. ~HasRunningProgress(NoRow)
  BY DEF HasRunningProgress, NoRow, NoSuggestion
<1> QED BY <1>1, <1>2, NullTypes DEF RowInv

\* recover_stale_operations.
LEMMA RecoverStaleStep ==
  ASSUME IInv, RecoverStale
  PROVE  IInv'
<1>1. /\ UNCHANGED <<audits, tickets, handler, task, abandoned, crashes, faults>>
      /\ daemon' = "details" /\ NoLookup
  BY DEF RecoverStale, NoLookup
<1>2. ASSUME NEW q \in Request
      PROVE  /\ requests'[q] = IF operation[q] = "running"
                                 THEN [requests[q] EXCEPT !.eval = "interrupted"]
                                 ELSE requests[q]
             /\ operation'[q] = IF operation[q] = "running" THEN "interrupted"
                                                             ELSE operation[q]
  BY NothingToRecover
     DEF RecoverStale, RecoverStaleOperations, RecoveredRow, RecoveredOperation
<1>3. ASSUME NEW q \in Request
      PROVE  /\ requests'[q] \in Row /\ operation'[q] \in OperationStatus
             /\ operation'[q] = operation[q] => requests'[q].eval = requests[q].eval
             /\ operation'[q] # operation[q] =>
                  operation[q] = "running" /\ requests'[q].eval = "interrupted"
             /\ requests'[q].status = requests[q].status
             /\ requests'[q].batchSource = requests[q].batchSource
             /\ requests[q] = NoRow => requests'[q] = requests[q]
  <2>1. requests[q] \in Row /\ operation[q] \in OperationStatus
    BY DEF IInv, TypeOK
  <2>2. CASE operation[q] = "running"
    <3>1. [requests[q] EXCEPT !.eval = "interrupted"] \in Row
      BY <2>1, InterruptedRow
    <3> QED BY <1>2, <2>1, <2>2, <3>1, NothingToRecover DEF OperationStatus, Row
  <2>3. CASE operation[q] # "running"
    BY <1>2, <2>1, <2>3
  <2> QED BY <2>2, <2>3
<1>4. DOMAIN requests' = Request /\ DOMAIN operation' = Request
      /\ requests' = [q \in Request |-> requests'[q]]
      /\ operation' = [q \in Request |-> operation'[q]]
  BY DEF RecoverStale, RecoverStaleOperations, RecoveredOperation
<1>5. requests' \in [Request -> Row] /\ operation' \in [Request -> OperationStatus]
  BY <1>3, <1>4
<1>6. \A q \in Request : RowInv(q)'
  BY <1>1, <1>2, <1>3, <1>5, RecoveryWrites
<1> QED BY <1>1, <1>5, <1>6, ByRow DEF IInv, TypeOK

\* recover_interrupted_review_details.
LEMMA RecoverDetailsStep ==
  ASSUME IInv, RecoverDetails
  PROVE  IInv'
<1>1. PICK outcome \in [Request -> InterruptedProgress] : RecoverReviewDetails(outcome)
  BY DEF RecoverDetails
<1>2. /\ UNCHANGED <<operation, audits, tickets, handler, task, abandoned, crashes, faults>>
      /\ daemon' = "resuming" /\ NoLookup
  BY DEF RecoverDetails, NoLookup
<1>3. ASSUME NEW q \in Request
      PROVE  /\ requests'[q] \in Row
             /\ requests'[q].eval = requests[q].eval
             /\ requests'[q].status = requests[q].status
             /\ requests'[q].batchSource = requests[q].batchSource
             /\ requests[q] = NoRow => requests'[q] = requests[q]
  <2>1. outcome[q] \in InterruptedProgress
    BY <1>1
  <2>2. requests'[q] = IF HasRunningProgress(requests[q])
                         THEN WithProgress(requests[q], outcome[q])
                         ELSE requests[q]
    BY <1>1 DEF RecoverReviewDetails
  <2>3. requests[q] \in Row
    BY NothingToRecover
  <2>4. CASE HasRunningProgress(requests[q])
    <3>1. requests'[q] = WithProgress(requests[q], outcome[q])
      BY <2>2, <2>4
    <3>2. requests[q] # NoRow
      BY <2>4, NothingToRecover
    <3> QED BY <2>1, <2>3, <3>1, <3>2, ProgressRow
  <2>5. CASE ~HasRunningProgress(requests[q])
    BY <2>2, <2>3, <2>5
  <2> QED BY <2>4, <2>5
<1>4. requests' \in [Request -> Row]
  BY <1>1, <1>3 DEF RecoverReviewDetails
<1>5. \A q \in Request : RowInv(q)'
  BY <1>2, <1>3, <1>4, RecoveryWrites DEF IInv, TypeOK
<1> QED BY <1>2, <1>4, <1>5, ByRow DEF IInv, TypeOK

\* shutdown recovers both tables in one go.
LEMMA ShutdownStep ==
  ASSUME IInv, Shutdown
  PROVE  IInv'
<1>1. PICK outcome \in [Request -> InterruptedProgress] :
        requests' = [r \in Request |->
          IF HasRunningProgress(requests[r])
            THEN WithProgress(RecoveredRow(r), outcome[r]) ELSE RecoveredRow(r)]
  BY DEF Shutdown
<1>2. /\ operation' = [r \in Request |->
           IF operation[r] = "running" THEN "interrupted" ELSE operation[r]]
      /\ UNCHANGED <<audits, tickets, faults>>
      /\ crashes' \in 0..MaxCrashes /\ daemon' = "down" /\ abandoned' = {}
      /\ task' = [r \in Request |-> "none"]
      /\ handler' = [r \in Request |->
                       IF handler[r].pc = "idle" THEN handler[r]
                       ELSE [IdleHandler EXCEPT !.pc = "done"]]
  BY BoundsAssumption DEF Shutdown, StopProcess, RecoveredOperation, IInv, TypeOK
<1>3. NoLookup /\ handler' \in [Request -> HandlerType]
  BY <1>2, IdleType DEF NoLookup, IInv, TypeOK, HandlerType, IdleHandler
<1>4. ASSUME NEW q \in Request
      PROVE  /\ requests'[q] \in Row /\ operation'[q] \in OperationStatus
             /\ operation'[q] = operation[q] \/ operation'[q] = "interrupted"
             /\ operation'[q] = operation[q] => requests'[q].eval = requests[q].eval
             /\ operation'[q] # operation[q] =>
                  operation[q] = "running" /\ requests'[q].eval = "interrupted"
             /\ requests'[q].status = requests[q].status
             /\ requests'[q].batchSource = requests[q].batchSource
             /\ requests[q] = NoRow => requests'[q] = requests[q]
  <2> DEFINE cut == IF operation[q] = "running"
                      THEN [requests[q] EXCEPT !.eval = "interrupted"]
                      ELSE requests[q]
  <2>1. /\ requests[q] \in Row /\ operation[q] \in OperationStatus
        /\ outcome[q] \in InterruptedProgress
        /\ operation'[q] = IF operation[q] = "running" THEN "interrupted"
                                                       ELSE operation[q]
    BY <1>1, <1>2 DEF IInv, TypeOK
  <2>2. requests'[q] = IF HasRunningProgress(requests[q])
                         THEN WithProgress(cut, outcome[q]) ELSE cut
    BY <1>1, NothingToRecover DEF RecoveredRow
  <2>3. /\ cut \in Row /\ cut.status = requests[q].status
        /\ cut.eval = IF operation[q] = "running" THEN "interrupted"
                                                  ELSE requests[q].eval
        /\ cut.batchSource = requests[q].batchSource
    BY <2>1, InterruptedRow DEF Row
  <2>4. requests[q] = NoRow => cut = requests[q] /\ ~HasRunningProgress(requests[q])
    BY NothingToRecover
  <2> HIDE DEF cut
  <2>5. CASE HasRunningProgress(requests[q])
    <3>1. requests'[q] = WithProgress(cut, outcome[q])
      BY <2>2, <2>5
    <3>2. /\ requests'[q] \in Row /\ requests'[q].eval = cut.eval
          /\ requests'[q].status = cut.status
          /\ requests'[q].batchSource = cut.batchSource
      BY <2>1, <2>3, <3>1, ProgressRow
    <3> QED BY <2>1, <2>3, <2>4, <2>5, <3>2 DEF OperationStatus
  <2>6. CASE ~HasRunningProgress(requests[q])
    BY <2>1, <2>2, <2>3, <2>4, <2>6 DEF OperationStatus
  <2> QED BY <2>5, <2>6
<1>5. requests' \in [Request -> Row] /\ operation' \in [Request -> OperationStatus]
  BY <1>1, <1>2, <1>4
<1>6. \A q \in Request : RowInv(q)'
  BY <1>3, <1>4, <1>5, RecoveryWrites
<1>7. TypeOK'
  BY <1>2, <1>3, <1>5 DEF IInv, TypeOK, HandlerType
<1> QED BY <1>6, <1>7, ByRow

-----------------------------------------------------------------------------
\* Every step preserves the invariant.
LEMMA NextIInv == IInv /\ [Next]_vars => IInv'
<1> SUFFICES ASSUME IInv, [Next]_vars PROVE IInv'
  OBVIOUS
<1>1. CASE UNCHANGED vars
  BY <1>1 DEF IInv, TypeOK, OperationAgrees, EvaluationOnlyWhilePending, vars
<1>2. ASSUME NEW r \in Request, Handle(r) PROVE IInv'
  BY <1>2, SubmitLookupStep, SubmitCommitStep, DecisionSteps, OtherSteps DEF Handle
<1>3. ASSUME NEW r \in Request, Evaluate(r) PROVE IInv'
  BY <1>3, ClaimAndInterruptSteps, AnswerSteps DEF Evaluate
<1>4. ASSUME NEW r \in Request,
             Fault(r) \/ (\E d \in Decision : HumanDecide(r, d))
             \/ ExpirePlan(r) \/ TicketsExpire(r)
      PROVE  IInv'
  BY <1>4, DecisionSteps, OtherSteps DEF Fault
<1>5. CASE Crash \/ StartDaemon \/ ResumeQueued
  BY <1>5, ProcessSteps
<1>6. CASE Shutdown \/ RecoverStale \/ RecoverDetails
           \/ \E r \in Request : RecoverAbandonedPlan(r)
  BY <1>6, ShutdownStep, RecoverStaleStep, RecoverDetailsStep, DecisionSteps
<1> QED BY <1>1, <1>2, <1>3, <1>4, <1>5, <1>6 DEF Next, Restart

\* The inductive invariant holds in every reachable state.
THEOREM Inductive == Spec => []IInv
<1>1. Init => IInv
  BY InitIInv
<1>2. IInv /\ [Next]_vars => IInv'
  BY NextIInv
<1> QED BY <1>1, <1>2, PTL DEF Spec

\* Every stored row, operation, audit record and ticket has its type, for any
\* number of requests, submissions, suggestions, crashes and faults.
THEOREM Types == Spec => []TypeOK
<1>1. IInv => TypeOK
  BY DEF IInv
<1> QED BY <1>1, Inductive, PTL

\* The request table and the operation table never disagree about an
\* evaluation: finish_evaluation_operation_in_tx never refuses a transition.
THEOREM Agreement == Spec => []OperationAgrees
<1>1. IInv => OperationAgrees
  BY DEF IInv
<1> QED BY <1>1, Inductive, PTL

\* Only a pending request has an evaluation that is queued or running.
THEOREM EvaluationPending == Spec => []EvaluationOnlyWhilePending
<1>1. IInv => EvaluationOnlyWhilePending
  BY DEF IInv
<1> QED BY <1>1, Inductive, PTL

-----------------------------------------------------------------------------
\* A resolved request keeps its outcome.

Frozen(q) == /\ requests'[q].status = requests[q].status
             /\ requests'[q].final = requests[q].final
             /\ requests'[q].auto = requests[q].auto

\* A step that writes one row keeps the outcome of the others.
LEMMA OneRowWritten ==
  ASSUME IInv, NEW r \in Request, NEW row, requests' = [requests EXCEPT ![r] = row],
         NEW q \in Request, q # r
  PROVE  Frozen(q)
BY DEF Frozen, IInv, TypeOK

\* Decisions and the commit of a submission write rows that are not resolved.
LEMMA DecisionFrozen ==
  ASSUME IInv, NEW r \in Request, NEW q \in Request, Resolved(q),
         \/ SubmitCommit(r)
         \/ \E d, actor : RecordDecision(r, d, actor)
  PROVE  Frozen(q)
<1>1. PICK row : requests' = [requests EXCEPT ![r] = row]
  BY DEF SubmitCommit, RecordDecision
<1>2. requests[r].status \in {"absent", "pending"}
  BY ByRow, NullTypes DEF SubmitCommit, RecordDecision, RowInv
<1>3. q # r
  BY <1>2 DEF Resolved
<1> QED BY <1>1, <1>3, OneRowWritten

\* A worker writes the evaluation and the suggestion of a resolved request only.
LEMMA WorkerFrozen ==
  ASSUME IInv, NEW r \in Request, NEW q \in Request, Resolved(q), Evaluate(r)
  PROVE  Frozen(q)
<1>1. /\ requests[r] \in Row /\ operation[r] \in OperationStatus /\ RowInv(r)
      /\ requests[q] \in Row
  BY ByRow DEF TypeOK
<1>2. ASSUME NEW e, requests' = [requests EXCEPT ![r].eval = e] PROVE Frozen(q)
  BY <1>1, <1>2 DEF Frozen, IInv, TypeOK, Row
<1>3. ASSUME NEW sug, requests' = [requests EXCEPT ![r].sug = sug] PROVE Frozen(q)
  BY <1>1, <1>3 DEF Frozen, IInv, TypeOK, Row
<1>4. ASSUME requests' = requests PROVE Frozen(q)
  BY <1>4 DEF Frozen
<1>5. CASE ClaimEvaluation(r)
  <2>1. PICK e : requests' = [requests EXCEPT ![r].eval = e]
    BY <1>5 DEF ClaimEvaluation
  <2> QED BY <1>2, <2>1
<1>6. CASE MonitorInterrupts(r)
  <2>1. PICK e : requests' = [requests EXCEPT ![r].eval = e]
    BY <1>6 DEF MonitorInterrupts
  <2> QED BY <1>2, <2>1
<1>7. ASSUME NEW sug \in Suggestion, FinalizeEvaluation(r, sug) PROVE Frozen(q)
  <2> DEFINE tx == Finalized(requests[r], operation[r], sug)
  <2>1. requests' = [requests EXCEPT ![r] = tx.row]
    BY <1>7 DEF FinalizeEvaluation
  <2>2. requests[r].eval # "running" =>
          tx.row.status = requests[r].status /\ tx.row.final = requests[r].final
          /\ tx.row.auto = requests[r].auto
    BY <1>1, FinalizedRow DEF RowInv
  <2>3. q = r => requests[r].eval # "running"
    BY <1>1 DEF RowInv, Resolved, Preemptible
  <2> HIDE DEF tx
  <2> QED BY <2>1, <2>2, <2>3, OneRowWritten DEF Frozen, IInv, TypeOK
<1>8. ASSUME NEW sug \in Suggestion,
             DecisionReady(r, sug) \/ DetailsUpdated(r, sug) \/ FinalSuggestion(r, sug)
      PROVE  Frozen(q)
  BY <1>3, <1>4, <1>7, <1>8
     DEF DecisionReady, DetailsUpdated, FinalSuggestion, UpdateEvaluationDetails, store
<1> QED BY <1>5, <1>6, <1>8 DEF Evaluate

\* Recovery and shutdown write the evaluation and the progress only.
LEMMA RecoveryFrozen ==
  ASSUME IInv, NEW q \in Request, RecoverStale \/ RecoverDetails \/ Shutdown
  PROVE  Frozen(q)
<1> DEFINE cut == [requests[q] EXCEPT !.eval = "interrupted"]
<1>1. requests[q] \in Row
  BY DEF IInv, TypeOK
<1>2. /\ cut \in Row /\ cut.status = requests[q].status
      /\ cut.final = requests[q].final /\ cut.auto = requests[q].auto
  BY <1>1, InterruptedRow DEF Row
<1>3. \/ requests'[q] = requests[q]
      \/ requests'[q] = cut
      \/ \E e \in InterruptedProgress : requests'[q] = WithProgress(requests[q], e)
      \/ \E e \in InterruptedProgress : requests'[q] = WithProgress(cut, e)
  <2>1. CASE RecoverStale
    BY <2>1 DEF RecoverStale, RecoverStaleOperations, RecoveredRow
  <2>2. CASE RecoverDetails
    BY <2>2 DEF RecoverDetails, RecoverReviewDetails
  <2>3. CASE Shutdown
    BY <2>3 DEF Shutdown, RecoveredRow
  <2> QED BY <2>1, <2>2, <2>3
<1> HIDE DEF cut
<1> QED BY <1>1, <1>2, <1>3, ProgressRow DEF Frozen

\* Every step keeps the outcome of a resolved request.
LEMMA NextFrozen ==
  ASSUME IInv, [Next]_vars, NEW q \in Request, Resolved(q)
  PROVE  Frozen(q)
<1>1. ASSUME UNCHANGED requests PROVE Frozen(q)
  BY <1>1 DEF Frozen
<1>2. ASSUME NEW r \in Request, Handle(r) PROVE Frozen(q)
  BY <1>1, <1>2, DecisionFrozen
     DEF Handle, SubmitLookup, SpawnEvaluation, DirectPolicyDecision, store
<1>3. ASSUME NEW r \in Request, Evaluate(r) PROVE Frozen(q)
  BY <1>3, WorkerFrozen
<1>4. ASSUME NEW r \in Request,
             Fault(r) \/ (\E d \in Decision : HumanDecide(r, d))
             \/ ExpirePlan(r) \/ TicketsExpire(r) \/ RecoverAbandonedPlan(r)
      PROVE  Frozen(q)
  BY <1>1, <1>4, DecisionFrozen
     DEF Fault, WorkerFails, MonitorFails, HandlerCancelled, HumanDecide, ExpirePlan,
         TicketsExpire, RecoverAbandonedPlan, store
<1>5. CASE Crash \/ StartDaemon \/ ResumeQueued
  BY <1>1, <1>5 DEF Crash, StartDaemon, ResumeQueued, store
<1>6. CASE RecoverStale \/ RecoverDetails \/ Shutdown
  BY <1>6, RecoveryFrozen
<1>7. CASE UNCHANGED vars
  BY <1>1, <1>7 DEF vars
<1> QED BY <1>2, <1>3, <1>4, <1>5, <1>6, <1>7 DEF Next, Restart

\* docs/automatic-approval.md: a resolved request remains immutable.  Late
\* suggestions, second decisions, recovery and the expiry of a plan leave its
\* status, its decision and its automatic trace as they are.
THEOREM Immutability == Spec => ResolvedIsImmutable
<1>1. IInv /\ [Next]_vars => [\A r \in Request :
        Resolved(r) => /\ requests'[r].status = requests[r].status
                       /\ requests'[r].final = requests[r].final
                       /\ requests'[r].auto = requests[r].auto]_vars
  BY NextFrozen DEF Frozen
<1> QED BY <1>1, Inductive, PTL DEF Spec, ResolvedIsImmutable
=============================================================================
