--------------------------- MODULE AuthorityProofs ---------------------------
(***************************************************************************)
(* Who decided a request, and on what: theorems about Approval that relate *)
(* the row of a request, its audit trail, the handler and the task that    *)
(* work for it and the tickets it shares.  They rest on the invariant of   *)
(* ApprovalProofs (types, agreement of the tables) and on one of their     *)
(* own, AInv, and end in the refinement of ApprovalOutcome.                *)
(***************************************************************************)
EXTENDS ApprovalProofs

\* The positions of one kind of record in a log.
Marks(log, action) == {i \in DOMAIN log : log[i].action = action}

\* What a log says: nothing was decided; d was decided, by whom; an override is on record.
Silent(log) ==
  Marks(log, "approval_recorded") = {} /\ Marks(log, "human_decision_overrode_llm") = {}
Decides(log, d, who) ==
  \E i \in DOMAIN log :
    Marks(log, "approval_recorded") = {i} /\ log[i].decision = d /\ log[i].actor = who
Overridden(log) ==
  \E i \in DOMAIN log : Marks(log, "human_decision_overrode_llm") = {i}

Deciders == {"system_auto", "human", "field_exposure_policy", "execution-expiry",
             "execution-recovery"}
Resolves(row) == row.status \in {"approved", "rejected"}

\* A row and its log: the log decides exactly the rows that are resolved, in the name of the
\* one whose decision the row holds, and a superseded evaluation has no authority.
TrailOf(row, log) ==
  /\ IF Resolves(row)
       THEN /\ row.status = StatusOf(row.final)
            /\ \E who \in Deciders :
                 /\ Decides(log, row.final, who)
                 /\ who = "system_auto" <=> row.auto.disposition = row.final
       ELSE /\ Silent(log) /\ row.final = "none"
            /\ row.auto.disposition \in {"none", "escalate"}
  /\ row.eval \in Preemptible \cup {"superseded"} => row.auto = NoTrace
  /\ row.eval = "superseded" => Resolves(row) /\ Overridden(log)

\* An allow that the machine decided rests on the suggestion that the row holds.
Supported(row) ==
  row.auto.disposition = "allow" =>
    /\ row.sug.decision = "allow" /\ ~row.sug.error
    /\ row.sug.report \notin {"invalid", "unknown"}
    /\ row.sub.breach # "unset" => row.sug.report = "within"

\* A suggestion of the row's own review is one that the provider made.
Staged(row) ==
  row.sug # NoSuggestion /\ row.batchSource = "none" =>
    \E s \in Suggestion : /\ s.digest = row.sug.digest /\ s.report = row.sug.report
                          /\ s.error = row.sug.error

RowSound(row, log) == TrailOf(row, log) /\ Supported(row) /\ Staged(row)

\* A handler owns its identifier until it has committed, and then knows its row.
HandlerSound(r) ==
  /\ handler[r].pc \in {"idle", "looked"} => requests[r] = NoRow
  /\ handler[r].pc # "done" => task[r] = "none"
  /\ handler[r].pc \in {"looked", "committed"} => daemon = "up"
  /\ handler[r].pc = "looked" =>
       /\ RowSound(handler[r].row, handler[r].log)
       /\ Resolves(handler[r].row) =>
            handler[r].row.auto.disposition = handler[r].row.final
  /\ handler[r].pc = "committed" =>
       /\ FreshRow(handler[r].row)
       /\ requests[r].batchSource = handler[r].row.batchSource
       /\ requests[r].sub = handler[r].row.sub
       /\ requests[r].eval # "running"
       /\ requests[r].eval = "queued" => handler[r].row.eval = "queued"

\* A task evaluates a request that no ticket answered, and knows how far it is.
TaskSound(r) ==
  /\ task[r] # "none" => requests[r].batchSource = "none" /\ daemon = "up"
  /\ task[r] = "spawned" => requests[r].eval # "running"
  /\ task[r] = "evaluating" => requests[r].eval # "queued"
  /\ task[r] = "finalized" => requests[r].eval \notin Preemptible
  /\ daemon \in {"details", "resuming"} => requests[r].eval # "running"

\* While nothing failed, an evaluation that is under way has an owner.
Owned(r) ==
  daemon = "up" /\ faults = 0 /\ requests[r].eval \in Preemptible =>
    LiveTask(r) \/ handler[r].pc = "committed"

\* A ticket comes from a review of its own that completed without an error.
TicketSource(r) ==
  /\ requests[r].eval = "completed" /\ requests[r].batchSource = "none"
  /\ requests[r].sug # NoSuggestion /\ ~requests[r].sug.error

RequestSound(r) ==
  /\ RowSound(requests[r], audits[r]) /\ HandlerSound(r) /\ TaskSound(r) /\ Owned(r)

AInv == (\A r \in Request : RequestSound(r)) /\ (\A t \in tickets : TicketSource(t.source))

-----------------------------------------------------------------------------
\* Logs.

\* Appending to a log keeps its marks and adds those of what is appended.
LEMMA MarksAppend ==
  ASSUME NEW s \in Seq(AuditRecord), NEW t \in Seq(AuditRecord), NEW action
  PROVE  /\ \A i : i \in Marks(s \o t, action) <=>
                  i \in Marks(s, action) \/ \E j \in Marks(t, action) : i = Len(s) + j
         /\ \A i \in DOMAIN s : i \in DOMAIN (s \o t) /\ (s \o t)[i] = s[i]
         /\ \A j \in DOMAIN t : Len(s) + j \in DOMAIN (s \o t) /\ (s \o t)[Len(s) + j] = t[j]
<1>1. /\ Len(s) \in Nat /\ Len(t) \in Nat
      /\ DOMAIN s = 1..Len(s) /\ DOMAIN t = 1..Len(t)
      /\ DOMAIN (s \o t) = 1..(Len(s) + Len(t))
  OBVIOUS
<1>2. \A i \in DOMAIN s : i \in DOMAIN (s \o t) /\ (s \o t)[i] = s[i]
  BY <1>1
<1>3. \A j \in DOMAIN t : Len(s) + j \in DOMAIN (s \o t) /\ (s \o t)[Len(s) + j] = t[j]
  BY <1>1
<1>4. \A i \in DOMAIN (s \o t) :
        i \in DOMAIN s \/ \E j \in DOMAIN t : i = Len(s) + j
  <2>1. SUFFICES ASSUME NEW i \in 1..(Len(s) + Len(t)), i \notin 1..Len(s)
                 PROVE  i - Len(s) \in 1..Len(t) /\ i = Len(s) + (i - Len(s))
    BY <1>1
  <2> QED BY <1>1, <2>1
<1>5. \A i \in DOMAIN s : i \in Marks(s \o t, action) <=> i \in Marks(s, action)
  BY <1>2 DEF Marks
<1>6. \A j \in DOMAIN t : Len(s) + j \in Marks(s \o t, action) <=> j \in Marks(t, action)
  BY <1>3 DEF Marks
<1>7. Marks(s \o t, action) \subseteq DOMAIN (s \o t) /\ Marks(s, action) \subseteq DOMAIN s
      /\ Marks(t, action) \subseteq DOMAIN t
  BY DEF Marks
<1>8. \A i : i \in Marks(s \o t, action) <=>
             i \in Marks(s, action) \/ \E j \in Marks(t, action) : i = Len(s) + j
  BY <1>2, <1>3, <1>4, <1>5, <1>6, <1>7
<1> QED BY <1>2, <1>3, <1>8

\* Records of another kind add no mark.
LEMMA NoMarks ==
  ASSUME NEW s \in Seq(AuditRecord), NEW t \in Seq(AuditRecord), NEW action,
         Marks(t, action) = {}
  PROVE  Marks(s \o t, action) = Marks(s, action)
<1>1. \A i : i \in Marks(s \o t, action) <=> i \in Marks(s, action)
  BY MarksAppend
<1> QED BY <1>1

\* The first mark of its kind.
LEMMA FirstMark ==
  ASSUME NEW s \in Seq(AuditRecord), NEW t \in Seq(AuditRecord), NEW action,
         Marks(s, action) = {}, NEW j \in DOMAIN t, Marks(t, action) = {j}
  PROVE  \E i \in DOMAIN (s \o t) : Marks(s \o t, action) = {i} /\ (s \o t)[i] = t[j]
<1> DEFINE k == Len(s) + j
<1>1. k \in DOMAIN (s \o t) /\ (s \o t)[k] = t[j]
  BY MarksAppend
<1>2. \A i : i \in Marks(s \o t, action) <=> i = k
  BY MarksAppend
<1> QED BY <1>1, <1>2

\* A mark that stays the only one.
LEMMA KeptMark ==
  ASSUME NEW s \in Seq(AuditRecord), NEW t \in Seq(AuditRecord), NEW action,
         NEW i \in DOMAIN s, Marks(s, action) = {i}, Marks(t, action) = {}
  PROVE  i \in DOMAIN (s \o t) /\ Marks(s \o t, action) = {i} /\ (s \o t)[i] = s[i]
<1>1. i \in DOMAIN (s \o t) /\ (s \o t)[i] = s[i]
  BY MarksAppend
<1> QED BY <1>1, NoMarks

\* Appending silence changes nothing that a log says.
LEMMA AppendSilent ==
  ASSUME NEW s \in Seq(AuditRecord), NEW t \in Seq(AuditRecord), Silent(t)
  PROVE  /\ Silent(s) => Silent(s \o t)
         /\ \A d, who : Decides(s, d, who) => Decides(s \o t, d, who)
         /\ Overridden(s) => Overridden(s \o t)
<1>0. Marks(t, "approval_recorded") = {} /\ Marks(t, "human_decision_overrode_llm") = {}
  BY DEF Silent
<1>1. ASSUME Silent(s) PROVE Silent(s \o t)
  BY <1>1, NoMarks DEF Silent
<1>2. ASSUME NEW d, NEW who, Decides(s, d, who) PROVE Decides(s \o t, d, who)
  <2>1. PICK i \in DOMAIN s : /\ Marks(s, "approval_recorded") = {i}
                              /\ s[i].decision = d /\ s[i].actor = who
    BY <1>2 DEF Decides
  <2>2. /\ i \in DOMAIN (s \o t) /\ Marks(s \o t, "approval_recorded") = {i}
        /\ (s \o t)[i] = s[i]
    BY <1>0, <2>1, NoMarks, MarksAppend
  <2> QED BY <2>1, <2>2 DEF Decides
<1>3. ASSUME Overridden(s) PROVE Overridden(s \o t)
  <2>1. PICK i \in DOMAIN s : Marks(s, "human_decision_overrode_llm") = {i}
    BY <1>3 DEF Overridden
  <2>2. i \in DOMAIN (s \o t) /\ Marks(s \o t, "human_decision_overrode_llm") = {i}
    BY <1>0, <2>1, NoMarks, MarksAppend
  <2> QED BY <2>2 DEF Overridden
<1> QED BY <1>1, <1>2, <1>3

\* A silent log takes over what is appended.
LEMMA AppendToSilent ==
  ASSUME NEW s \in Seq(AuditRecord), NEW t \in Seq(AuditRecord), Silent(s)
  PROVE  /\ \A d, who : Decides(t, d, who) => Decides(s \o t, d, who)
         /\ Overridden(t) => Overridden(s \o t)
<1>1. ASSUME NEW d, NEW who, Decides(t, d, who) PROVE Decides(s \o t, d, who)
  <2>1. PICK j \in DOMAIN t : /\ Marks(t, "approval_recorded") = {j}
                              /\ t[j].decision = d /\ t[j].actor = who
    BY <1>1 DEF Decides
  <2>2. \E i \in DOMAIN (s \o t) :
          Marks(s \o t, "approval_recorded") = {i} /\ (s \o t)[i] = t[j]
    BY <2>1, FirstMark DEF Silent
  <2> QED BY <2>1, <2>2 DEF Decides
<1>2. ASSUME Overridden(t) PROVE Overridden(s \o t)
  <2>1. PICK j \in DOMAIN t : Marks(t, "human_decision_overrode_llm") = {j}
    BY <1>2 DEF Overridden
  <2>2. \E i \in DOMAIN (s \o t) :
          Marks(s \o t, "human_decision_overrode_llm") = {i} /\ (s \o t)[i] = t[j]
    BY <2>1, FirstMark DEF Silent
  <2> QED BY <2>2 DEF Overridden
<1> QED BY <1>1, <1>2

\* A log decides one thing, and an older part of it decided the same.
LEMMA OneDecider ==
  ASSUME NEW s \in Seq(AuditRecord), NEW t \in Seq(AuditRecord),
         NEW d, NEW who, NEW e, NEW other, Decides(s, d, who), Decides(s \o t, e, other)
  PROVE  d = e /\ who = other
<1>1. PICK i \in DOMAIN s : /\ Marks(s, "approval_recorded") = {i}
                            /\ s[i].decision = d /\ s[i].actor = who
  BY DEF Decides
<1>2. PICK j \in DOMAIN (s \o t) :
        /\ Marks(s \o t, "approval_recorded") = {j}
        /\ (s \o t)[j].decision = e /\ (s \o t)[j].actor = other
  BY DEF Decides
<1>3. i \in Marks(s \o t, "approval_recorded") /\ (s \o t)[i] = s[i]
  BY <1>1, MarksAppend
<1> QED BY <1>1, <1>2, <1>3

\* A log of one record.
LEMMA SingleRecord ==
  ASSUME NEW a \in AuditRecord
  PROVE  /\ <<a>> \in Seq(AuditRecord)
         /\ a.action \notin {"approval_recorded", "human_decision_overrode_llm"} => Silent(<<a>>)
         /\ a.action = "approval_recorded" => Decides(<<a>>, a.decision, a.actor)
         /\ a.action = "human_decision_overrode_llm" => Overridden(<<a>>)
         /\ \A action : a.action # action => Marks(<<a>>, action) = {}
<1>1. DOMAIN <<a>> = {1} /\ <<a>>[1] = a
  OBVIOUS
<1>2. \A action : a.action # action => Marks(<<a>>, action) = {}
  BY <1>1 DEF Marks
<1>3. \A action : a.action = action => Marks(<<a>>, action) = {1}
  BY <1>1 DEF Marks
<1>4. a.action = "approval_recorded" => Decides(<<a>>, a.decision, a.actor)
  BY <1>1, <1>3 DEF Decides
<1>5. a.action = "human_decision_overrode_llm" => Overridden(<<a>>)
  BY <1>1, <1>3 DEF Overridden
<1>6. <<a>> \in Seq(AuditRecord)
  OBVIOUS
<1> QED BY <1>2, <1>4, <1>5, <1>6 DEF Silent

\* The empty log.
LEMMA EmptyLog == <<>> \in Seq(AuditRecord) /\ Silent(<<>>)
<1>1. DOMAIN <<>> = {}
  OBVIOUS
<1> QED BY <1>1 DEF Silent, Marks

\* What a constructor writes.
LEMMA AuditFields ==
  ASSUME NEW action, NEW actor, NEW decision
  PROVE  /\ Audit(action, actor, decision).action = action
         /\ Audit(action, actor, decision).actor = actor
         /\ Audit(action, actor, decision).decision = decision
BY DEF Audit

\* A submission, a suggestion and its details decide nothing.
LEMMA AdviceIsSilent ==
  /\ Audit("request_submitted", "requester", "none") \in AuditRecord
  /\ Silent(<<Audit("request_submitted", "requester", "none")>>)
  /\ \A sug \in StoredSuggestion :
       Silent(<<SuggestionAudit(sug)>>) /\ Silent(DetailsAudits(sug))
<1>1. Audit("request_submitted", "requester", "none") \in AuditRecord
  BY AuditType DEF AuditAction, Actor
<1>2. ASSUME NEW sug \in StoredSuggestion
      PROVE  Silent(<<SuggestionAudit(sug)>>) /\ Silent(DetailsAudits(sug))
  <2>1. /\ SuggestionAudit(sug) \in AuditRecord
        /\ SuggestionAudit(sug).action \in {"llm_suggestion_failed", "llm_suggestion_generated"}
    BY SuggestionAuditsType, AuditFields DEF SuggestionAudit
  <2>2. Silent(<<SuggestionAudit(sug)>>)
    BY <2>1, SingleRecord
  <2>3. sug.decision \in Verdict \cup {"none"}
    BY DEF StoredSuggestion
  <2>4. Audit("llm_review_details_updated", "provider", sug.decision) \in AuditRecord
    BY <2>3, AuditType DEF AuditAction, Actor
  <2>5. Silent(<<Audit("llm_review_details_updated", "provider", sug.decision)>>)
    BY <2>4, SingleRecord, AuditFields
  <2> QED BY <2>2, <2>5, EmptyLog DEF DetailsAudits
<1> QED BY <1>1, <1>2, SingleRecord, AuditFields

\* apply_automatic_decision records an approval of the system unless it escalates.
LEMMA AutomaticTrail ==
  ASSUME NEW trace \in Trace
  PROVE  /\ AutomaticAudits(trace) \in Seq(AuditRecord)
         /\ trace.disposition = "escalate" => Silent(AutomaticAudits(trace))
         /\ trace.disposition # "escalate" =>
              Decides(AutomaticAudits(trace), trace.disposition, "system_auto")
<1> DEFINE a == Audit("automatic_decision_recorded", "system_auto", trace.disposition)
           kind == IF trace.disposition = "escalate" THEN "automatic_escalated_to_human"
                                                    ELSE "approval_recorded"
           b == Audit(kind, "system_auto", trace.disposition)
<1>1. trace.disposition \in Verdict \cup {"none"}
  BY DEF Trace
<1>2. a \in AuditRecord /\ b \in AuditRecord
  BY <1>1, AuditType DEF AuditAction, Actor
<1>3. /\ a.action = "automatic_decision_recorded"
      /\ b.action = kind /\ b.decision = trace.disposition /\ b.actor = "system_auto"
  BY AuditFields
<1>4. AutomaticAudits(trace) = <<a, b>>
  BY DEF AutomaticAudits
<1> HIDE DEF a, b
<1>5. DOMAIN <<a, b>> = {1, 2} /\ <<a, b>>[1] = a /\ <<a, b>>[2] = b
  OBVIOUS
<1>6. Marks(<<a, b>>, "human_decision_overrode_llm") = {}
  BY <1>3, <1>5 DEF Marks
<1>7. ASSUME trace.disposition = "escalate" PROVE Silent(<<a, b>>)
  <2>1. Marks(<<a, b>>, "approval_recorded") = {}
    BY <1>3, <1>5, <1>7 DEF Marks
  <2> QED BY <1>6, <2>1 DEF Silent
<1>8. ASSUME trace.disposition # "escalate"
      PROVE  Decides(<<a, b>>, trace.disposition, "system_auto")
  <2>1. Marks(<<a, b>>, "approval_recorded") = {2}
    BY <1>3, <1>5, <1>8 DEF Marks
  <2> QED BY <1>3, <1>5, <2>1 DEF Decides
<1> QED BY <1>4, <1>7, <1>8, AutomaticAuditsType

\* record_decision_internal records the approval and, when it preempts, the override.
LEMMA ManualTrail ==
  ASSUME NEW row, NEW d \in Decision, NEW actor \in Actor
  PROVE  /\ ManualAudits(row, d, actor) \in Seq(AuditRecord)
         /\ Decides(ManualAudits(row, d, actor), d, actor)
         /\ row.eval \in Preemptible => Overridden(ManualAudits(row, d, actor))
<1> DEFINE a == Audit("approval_recorded", actor, d)
           b == Audit("human_decision_overrode_llm", actor, d)
           over == row.eval \in Preemptible \/ DisagreesWithSuggestion(row, d)
<1>1. ManualAudits(row, d, actor) = <<a>> \o IF over THEN <<b>> ELSE <<>>
  BY DEF ManualAudits
<1>2. /\ a.action = "approval_recorded" /\ a.actor = actor /\ a.decision = d
      /\ b.action = "human_decision_overrode_llm"
  BY AuditFields
<1>3. a \in AuditRecord /\ b \in AuditRecord
  BY AuditType DEF AuditAction, Decision, Verdict
<1> HIDE DEF a, b, over
<1>4. <<a>> \in Seq(AuditRecord) /\ <<b>> \in Seq(AuditRecord)
  BY <1>3
<1>5. Decides(<<a>>, d, actor)
  BY <1>2, <1>3, SingleRecord
<1>6. CASE over
  <2>1. Decides(<<a>> \o <<b>>, d, actor)
    <3>1. PICK i \in DOMAIN <<a>> : /\ Marks(<<a>>, "approval_recorded") = {i}
                                    /\ <<a>>[i].decision = d /\ <<a>>[i].actor = actor
      BY <1>5 DEF Decides
    <3>2. Marks(<<b>>, "approval_recorded") = {}
      BY <1>2, <1>3, SingleRecord
    <3>3. i \in DOMAIN (<<a>> \o <<b>>) /\ Marks(<<a>> \o <<b>>, "approval_recorded") = {i}
          /\ (<<a>> \o <<b>>)[i] = <<a>>[i]
      BY <1>4, <3>1, <3>2, KeptMark
    <3> QED BY <3>1, <3>3 DEF Decides
  <2>2. Overridden(<<a>> \o <<b>>)
    <3>1. Marks(<<a>>, "human_decision_overrode_llm") = {}
      BY <1>2, <1>3, SingleRecord
    <3>2. PICK j \in DOMAIN <<b>> : Marks(<<b>>, "human_decision_overrode_llm") = {j}
      BY <1>2, <1>3, SingleRecord DEF Overridden
    <3>3. \E i \in DOMAIN (<<a>> \o <<b>>) :
            Marks(<<a>> \o <<b>>, "human_decision_overrode_llm") = {i}
      BY <1>4, <3>1, <3>2, FirstMark
    <3> QED BY <3>3 DEF Overridden
  <2> QED BY <1>1, <1>6, <2>1, <2>2, ManualAuditsType
<1>7. CASE ~over
  <2>1. ManualAudits(row, d, actor) = <<a>>
    BY <1>1, <1>7, <1>4
  <2>2. row.eval \notin Preemptible
    BY <1>7 DEF over
  <2> QED BY <1>4, <1>5, <2>1, <2>2
<1> QED BY <1>6, <1>7

-----------------------------------------------------------------------------
\* Rows.  What each transition of the aggregate does to a sound row and its log.

\* Null rows and null values decide nothing.
LEMMA NullValues ==
  /\ NoTrace.disposition = "none" /\ NoSuggestion.decision = "none"
  /\ NoSuggestion.progress = "none"
  /\ NoRow.final = "none" /\ NoRow.auto = NoTrace /\ NoRow.sug = NoSuggestion
  /\ NoRow.status = "absent" /\ NoRow.eval = "not_required" /\ NoRow.batchSource = "none"
  /\ NoRow.sub = NoSubmission
BY DEF NoRow, NoTrace, NoSuggestion

\* An absent row is sound.
LEMMA AbsentSound == RowSound(NoRow, <<>>)
BY NullValues, EmptyLog
   DEF RowSound, TrailOf, Resolves, Supported, Staged, Preemptible

\* new_pending.
LEMMA PendingSound ==
  ASSUME NEW sub \in Submission
  PROVE  RowSound(NewPending(sub), <<Audit("request_submitted", "requester", "none")>>)
<1>1. /\ NewPending(sub).status = "pending" /\ NewPending(sub).final = "none"
      /\ NewPending(sub).auto = NoTrace /\ NewPending(sub).sug = NoSuggestion
      /\ NewPending(sub).eval \in {"not_required", "queued"}
  BY NullValues, NewPendingRow DEF NewPending, NoRow
<1> QED BY <1>1, NullValues, AdviceIsSilent
        DEF RowSound, TrailOf, Resolves, Supported, Staged, Preemptible

\* apply_automatic_decision: the fields of the row that it returns.
LEMMA AutomaticFields ==
  ASSUME NEW row \in Row, NEW trace \in Trace
  PROVE  LET after == AutomaticDecision(row, trace) IN
         /\ after \in Row /\ after.auto = trace /\ after.sub = row.sub
         /\ after.eval = row.eval /\ after.sug = row.sug
         /\ after.batchSource = row.batchSource
         /\ trace.disposition = "escalate" =>
              after.final = "none" /\ after.status = "pending"
         /\ trace.disposition # "escalate" =>
              /\ after.final = trace.disposition /\ after.status = StatusOf(after.final)
              /\ Resolves(after)
<1>1. LET after == AutomaticDecision(row, trace) IN
      /\ after \in Row /\ after.eval = row.eval /\ after.sug = row.sug
      /\ after.batchSource = row.batchSource
  BY AutomaticDecisionRow
<1>2. CASE trace.disposition = "escalate"
  <2>1. AutomaticDecision(row, trace) =
          [row EXCEPT !.auto = trace, !.final = "none", !.status = "pending"]
    BY <1>2 DEF AutomaticDecision
  <2>2. /\ AutomaticDecision(row, trace).auto = trace
        /\ AutomaticDecision(row, trace).sub = row.sub
        /\ AutomaticDecision(row, trace).final = "none"
        /\ AutomaticDecision(row, trace).status = "pending"
    BY <2>1 DEF Row
  <2> QED BY <1>1, <1>2, <2>2
<1>3. CASE trace.disposition # "escalate"
  <2> DEFINE d == trace.disposition
  <2>1. AutomaticDecision(row, trace) =
          [row EXCEPT !.auto = trace, !.final = d, !.status = StatusOf(d)]
    BY <1>3 DEF AutomaticDecision
  <2>2. /\ AutomaticDecision(row, trace).auto = trace
        /\ AutomaticDecision(row, trace).sub = row.sub
        /\ AutomaticDecision(row, trace).final = d
        /\ AutomaticDecision(row, trace).status = StatusOf(d)
    BY <2>1 DEF Row
  <2>3. StatusOf(d) \in {"approved", "rejected"}
    BY DEF StatusOf
  <2> QED BY <1>1, <1>3, <2>2, <2>3 DEF Resolves
<1> QED BY <1>2, <1>3

\* automatic_decision_from_batch allows only what the ticket allows, on known evidence.
LEMMA BatchAllow ==
  ASSUME NEW policy, NEW verdict, NEW report \in ReportState, NEW breach,
         AutomaticDecisionFromBatch(policy, verdict, report, breach).disposition = "allow"
  PROVE  /\ verdict = "allow" /\ report \notin {"invalid", "unknown"}
         /\ breach # "unset" => report = "within"
BY GuardedVerdict DEF AutomaticDecisionFromBatch, GuardedBatch, Routed, ReportState

\* evaluate_automatic_disposition allows only a suggestion to allow that fails no guard.
LEMMA EvaluatedAllow ==
  ASSUME NEW policy, NEW sug, sug.report \in ReportState, sug.error \in BOOLEAN, NEW breach,
         EvaluateAutomaticDisposition(policy, sug, breach).disposition = "allow"
  PROVE  /\ sug.decision = "allow" /\ ~sug.error /\ sug.report \notin {"invalid", "unknown"}
         /\ breach # "unset" => sug.report = "within"
BY GuardedVerdict
   DEF EvaluateAutomaticDisposition, FailsClosed, BreaksExposure, Routed, ReportState

\* submit_request with a ticket.
LEMMA TicketRowSound ==
  ASSUME TypeOK, NEW sub \in Submission, NEW t \in tickets, TicketSource(t.source)
  PROVE  LET row == FromTicket(NewPending(sub), t)
             submit == Audit("request_submitted", "requester", "none")
         IN /\ RowSound(row, <<submit>> \o AutomaticAudits(row.auto))
            /\ Resolves(row) => row.auto.disposition = row.final
<1> DEFINE row    == NewPending(sub)
           shared == requests[t.source].sug
           trace  == AutomaticDecisionFromBatch(row.sub.policy, t.decision,
                                                shared.report, row.sub.breach)
           given  == [shared EXCEPT !.decision = t.decision, !.digest = "ticket"]
           judged == AutomaticDecision(row, trace)
           full   == [judged EXCEPT !.eval = "completed", !.batchSource = t.source,
                                    !.sug = given]
           submit == Audit("request_submitted", "requester", "none")
<1>1. row \in Row /\ row.sub.policy \in ValidPolicy /\ row.sub.breach \in Breach
  BY NewPendingRow, SubmittedPolicy
<1>2. t.source \in Request /\ t.decision \in Verdict /\ t.source # "none"
  BY RequestAssumption DEF TypeOK, Ticket
<1>3. requests[t.source] \in Row
  BY <1>2 DEF TypeOK
<1>4. shared \in StoredSuggestion /\ shared.report \in ReportState /\ ~shared.error
  BY <1>3 DEF Row, StoredSuggestion, TicketSource
<1>5. trace \in Trace
  BY <1>1, <1>2, <1>4, BatchTrace
<1>6. /\ given.decision = t.decision /\ given.report = shared.report
      /\ given.error = shared.error
  BY <1>4 DEF StoredSuggestion
<1>7. /\ judged \in Row /\ judged.auto = trace /\ judged.sub = row.sub
      /\ trace.disposition = "escalate" =>
           judged.final = "none" /\ judged.status = "pending"
      /\ trace.disposition # "escalate" =>
           /\ judged.final = trace.disposition /\ judged.status = StatusOf(judged.final)
           /\ Resolves(judged)
  BY <1>1, <1>5, AutomaticFields
<1>8. trace.disposition = "allow" =>
        /\ t.decision = "allow" /\ shared.report \notin {"invalid", "unknown"}
        /\ row.sub.breach # "unset" => shared.report = "within"
  BY <1>4, BatchAllow
<1> HIDE DEF judged, given, trace, shared, row, submit
<1>9. /\ full.eval = "completed" /\ full.batchSource = t.source /\ full.sug = given
      /\ full.status = judged.status /\ full.final = judged.final /\ full.auto = trace
      /\ full.sub = row.sub
  BY <1>7 DEF Row
<1> HIDE DEF full
<1>10. Supported(full)
  BY <1>4, <1>6, <1>8, <1>9 DEF Supported
<1>11. /\ <<submit>> \in Seq(AuditRecord) /\ Silent(<<submit>>)
  BY AdviceIsSilent, SingleRecord DEF submit
<1>12. TrailOf(full, <<submit>> \o AutomaticAudits(trace))
  <2>1. AutomaticAudits(trace) \in Seq(AuditRecord)
    BY <1>5, AutomaticTrail
  <2>2. CASE trace.disposition = "escalate"
    <3>1. Silent(<<submit>> \o AutomaticAudits(trace))
      BY <1>5, <1>11, <2>1, <2>2, AppendSilent, AutomaticTrail
    <3> QED BY <1>7, <1>9, <2>2, <3>1 DEF TrailOf, Resolves, Preemptible
  <2>3. CASE trace.disposition # "escalate"
    <3>1. Decides(<<submit>> \o AutomaticAudits(trace), trace.disposition, "system_auto")
      BY <1>5, <1>11, <2>1, <2>3, AppendToSilent, AutomaticTrail
    <3> QED BY <1>7, <1>9, <2>3, <3>1 DEF TrailOf, Resolves, Preemptible, Deciders
  <2> QED BY <2>2, <2>3
<1>13. Resolves(full) => full.auto.disposition = full.final
  BY <1>7, <1>9 DEF Resolves
<1>14. FromTicket(NewPending(sub), t) = full
  BY DEF FromTicket, full, judged, given, trace, shared, row
<1>15. Staged(full)
  BY <1>2, <1>9 DEF Staged
<1> QED BY <1>9, <1>10, <1>12, <1>13, <1>14, <1>15 DEF RowSound, submit

\* apply_manual_decision of a pending request.
LEMMA ManualSound ==
  ASSUME NEW row \in Row, NEW log \in Seq(AuditRecord), NEW d \in Decision,
         NEW actor \in (Deciders \ {"system_auto"}), row.status = "pending", RowSound(row, log)
  PROVE  RowSound(ManualDecision(row, d), log \o ManualAudits(row, d, actor))
<1> DEFINE after == ManualDecision(row, d)
           added == ManualAudits(row, d, actor)
<1>1. /\ after.final = d /\ after.status = StatusOf(d) /\ after.auto = row.auto
      /\ after.sug = row.sug /\ after.sub = row.sub /\ after.batchSource = row.batchSource
      /\ after.eval = IF row.eval \in Preemptible THEN "superseded" ELSE row.eval
  BY DEF ManualDecision, Row
<1>2. actor \in Actor /\ actor \in Deciders /\ actor # "system_auto"
  BY DEF Actor, Deciders
<1>3. /\ added \in Seq(AuditRecord) /\ Decides(added, d, actor)
      /\ row.eval \in Preemptible => Overridden(added)
  BY <1>2, ManualTrail
<1>4. /\ Silent(log) /\ row.auto.disposition \in {"none", "escalate"}
      /\ row.eval # "superseded"
      /\ row.eval \in Preemptible => row.auto = NoTrace
  BY DEF RowSound, TrailOf, Resolves, Preemptible
<1> HIDE DEF after, added
<1>5. /\ Decides(log \o added, d, actor)
      /\ row.eval \in Preemptible => Overridden(log \o added)
  BY <1>3, <1>4, AppendToSilent
<1>6. row.auto.disposition # d
  BY <1>4 DEF Decision
<1>7. Resolves(after)
  BY <1>1 DEF Resolves, StatusOf
<1>8. TrailOf(after, log \o added)
  BY <1>1, <1>2, <1>4, <1>5, <1>6, <1>7 DEF TrailOf, Preemptible
<1>9. Supported(after) /\ Staged(after)
  BY <1>1 DEF RowSound, Supported, Staged
<1> QED BY <1>8, <1>9 DEF RowSound, after, added

\* A transition of the evaluation of a pending request; recovery and interruption.
LEMMA EvaluationSound ==
  ASSUME NEW row \in Row, NEW log, NEW e \in {"running", "interrupted"},
         row.eval \in Preemptible, row.status = "pending", RowSound(row, log)
  PROVE  RowSound([row EXCEPT !.eval = e], log)
<1> DEFINE after == [row EXCEPT !.eval = e]
<1>1. /\ after.eval = e /\ after.status = row.status /\ after.final = row.final
      /\ after.auto = row.auto /\ after.sug = row.sug /\ after.sub = row.sub
      /\ after.batchSource = row.batchSource
  BY DEF Row
<1> HIDE DEF after
<1>2. TrailOf(after, log)
  BY <1>1 DEF RowSound, TrailOf, Resolves, Preemptible
<1>3. Supported(after) /\ Staged(after)
  BY <1>1 DEF RowSound, Supported, Staged
<1> QED BY <1>2, <1>3 DEF RowSound, after

\* A new suggestion that a row may hold, with advice added to the log.
LEMMA AdvisedSound ==
  ASSUME NEW row \in Row, NEW log \in Seq(AuditRecord), NEW t \in Seq(AuditRecord), Silent(t),
         RowSound(row, log), NEW sug,
         LET after == [row EXCEPT !.sug = sug] IN Supported(after) /\ Staged(after)
  PROVE  RowSound([row EXCEPT !.sug = sug], log \o t)
<1> DEFINE after == [row EXCEPT !.sug = sug]
<1>1. /\ after.eval = row.eval /\ after.status = row.status /\ after.final = row.final
      /\ after.auto = row.auto
  BY DEF Row
<1>2. Supported(after) /\ Staged(after)
  OBVIOUS
<1> HIDE DEF after
<1>3. TrailOf(after, log \o t)
  BY <1>1, AppendSilent DEF RowSound, TrailOf, Resolves
<1> QED BY <1>2, <1>3 DEF RowSound, after

\* recover_interrupted_review_details.
LEMMA ProgressSound ==
  ASSUME NEW row \in Row, NEW log \in Seq(AuditRecord), NEW p \in InterruptedProgress,
         HasRunningProgress(row), RowSound(row, log)
  PROVE  /\ RowSound(WithProgress(row, p), log)
         /\ WithProgress(row, p).sub = row.sub
         /\ WithProgress(row, p).sug # NoSuggestion
         /\ WithProgress(row, p).sug.error = row.sug.error
<1> DEFINE sug == [row.sug EXCEPT !.progress = p]
           after == [row EXCEPT !.sug = sug]
<1>1. WithProgress(row, p) = after
  BY DEF Row, WithProgress
<1>2. /\ sug.digest = row.sug.digest /\ sug.report = row.sug.report /\ sug.progress = p
      /\ sug.error = row.sug.error /\ sug.decision = row.sug.decision
  BY DEF Row, StoredSuggestion
<1>3. row.sug # NoSuggestion /\ sug # NoSuggestion
  BY <1>2, NullValues DEF HasRunningProgress, InterruptedProgress
<1> HIDE DEF sug
<1>4. /\ after.sug = sug /\ after.sub = row.sub /\ after.auto = row.auto
      /\ after.batchSource = row.batchSource /\ after.eval = row.eval
      /\ after.status = row.status /\ after.final = row.final
  BY DEF Row
<1> HIDE DEF after
<1>5. Supported(after) /\ Staged(after)
  BY <1>2, <1>3, <1>4 DEF RowSound, Supported, Staged
<1>6. TrailOf(after, log)
  BY <1>4 DEF RowSound, TrailOf, Resolves
<1> QED BY <1>1, <1>2, <1>3, <1>4, <1>5, <1>6 DEF RowSound

\* The provider's suggestion is one that a row may hold.
LEMMA StagedSuggestion ==
  ASSUME NEW sug \in Suggestion, NEW row, row.sug = sug
  PROVE  Staged(row) /\ sug # NoSuggestion
BY StorableSuggestion, NullValues DEF Staged, Verdict

\* What finalize_evaluation stores of a request that is being evaluated, and logs.
Evaluated(row, sug, e) == [Judged(row, sug) EXCEPT !.eval = e]
EvaluatedLog(row, sug) ==
  <<SuggestionAudit(sug)>> \o
  IF row.sub.mode = "llm_automatic" THEN AutomaticAudits(Judged(row, sug).auto) ELSE <<>>

\* The verdict of finalize_evaluation.
LEMMA JudgedSound ==
  ASSUME NEW row \in Row, NEW log \in Seq(AuditRecord), NEW sug \in Suggestion,
         NEW e \in {"completed", "failed"}, row.eval = "running", row.status = "pending",
         RowSound(row, log)
  PROVE  /\ RowSound(Evaluated(row, sug, e), log \o EvaluatedLog(row, sug))
         /\ EvaluatedLog(row, sug) \in Seq(AuditRecord)
         /\ Evaluated(row, sug, e).eval = e /\ Evaluated(row, sug, e).sug = sug
         /\ Evaluated(row, sug, e).sub = row.sub
         /\ Evaluated(row, sug, e).batchSource = row.batchSource
<1> DEFINE advised == [row EXCEPT !.sug = sug]
           trace   == EvaluateAutomaticDisposition(row.sub.policy, sug, row.sub.breach)
           judged  == Judged(row, sug)
           after   == [judged EXCEPT !.eval = e]
           verdict == IF row.sub.mode = "llm_automatic" THEN AutomaticAudits(judged.auto)
                                                       ELSE <<>>
           advice  == <<SuggestionAudit(sug)>>
<1>1. /\ sug \in StoredSuggestion /\ sug.decision \in Verdict
      /\ sug.report \in ReportState /\ sug.error \in BOOLEAN
  BY StorableSuggestion DEF StoredSuggestion
<1>2. trace \in Trace
  BY <1>1, SubmittedPolicy, EvaluatedTrace
<1>3. /\ advised \in Row /\ advised.status = "pending" /\ advised.final = row.final
      /\ advised.auto = row.auto /\ advised.sug = sug /\ advised.sub = row.sub
      /\ advised.batchSource = row.batchSource
  BY <1>1 DEF Row
<1>4. /\ Silent(log) /\ row.auto = NoTrace /\ row.final = "none"
  BY DEF RowSound, TrailOf, Resolves, Preemptible
<1>5. /\ advice \in Seq(AuditRecord) /\ Silent(advice)
  BY <1>1, SuggestionAuditsType, AdviceIsSilent, SingleRecord
<1>6. trace.disposition = "allow" =>
        /\ sug.decision = "allow" /\ ~sug.error /\ sug.report \notin {"invalid", "unknown"}
        /\ row.sub.breach # "unset" => sug.report = "within"
  BY <1>1, EvaluatedAllow
<1>7. judged = IF row.sub.mode = "llm_automatic" THEN AutomaticDecision(advised, trace)
                                                ELSE advised
  BY DEF Judged
<1> HIDE DEF trace, advised, judged, advice
<1>8. /\ judged \in Row /\ judged.sug = sug /\ judged.sub = row.sub
      /\ judged.batchSource = row.batchSource
  BY <1>2, <1>3, <1>7, AutomaticFields
<1>9. /\ after.eval = e /\ after.sug = sug /\ after.sub = row.sub
      /\ after.status = judged.status /\ after.final = judged.final
      /\ after.auto = judged.auto /\ after.batchSource = row.batchSource
  BY <1>8 DEF Row
<1>10. Staged(after)
  BY <1>9, StagedSuggestion
<1> HIDE DEF after
<1>11. CASE row.sub.mode = "llm_automatic"
  <2>1. /\ judged.auto = trace
        /\ trace.disposition = "escalate" =>
             judged.final = "none" /\ judged.status = "pending"
        /\ trace.disposition # "escalate" =>
             /\ judged.final = trace.disposition /\ judged.status = StatusOf(judged.final)
             /\ Resolves(judged)
    BY <1>2, <1>3, <1>7, <1>11, AutomaticFields
  <2>2. verdict = AutomaticAudits(trace) /\ verdict \in Seq(AuditRecord)
    BY <1>2, <1>11, <2>1, AutomaticTrail
  <2> HIDE DEF verdict
  <2>3. advice \o verdict \in Seq(AuditRecord)
    BY <1>5, <2>2
  <2>4. Supported(after)
    BY <1>6, <1>9, <2>1 DEF Supported
  <2>5. CASE trace.disposition = "escalate"
    <3>1. Silent(advice \o verdict)
      BY <1>2, <1>5, <2>2, <2>5, AutomaticTrail, AppendSilent
    <3>2. Silent(log \o (advice \o verdict))
      BY <1>4, <2>3, <3>1, AppendSilent
    <3>3. TrailOf(after, log \o (advice \o verdict))
      BY <1>9, <2>1, <2>5, <3>2 DEF TrailOf, Resolves, Preemptible
    <3> QED BY <1>9, <1>10, <2>3, <2>4, <3>3
            DEF RowSound, after, verdict, judged, advice, Evaluated, EvaluatedLog
  <2>6. CASE trace.disposition # "escalate"
    <3>1. Decides(advice \o verdict, trace.disposition, "system_auto")
      BY <1>2, <1>5, <2>2, <2>6, AutomaticTrail, AppendToSilent
    <3>2. Decides(log \o (advice \o verdict), trace.disposition, "system_auto")
      BY <1>4, <2>3, <3>1, AppendToSilent
    <3>3. TrailOf(after, log \o (advice \o verdict))
      BY <1>9, <2>1, <2>6, <3>2 DEF TrailOf, Resolves, Preemptible, Deciders
    <3> QED BY <1>9, <1>10, <2>3, <2>4, <3>3
            DEF RowSound, after, verdict, judged, advice, Evaluated, EvaluatedLog
  <2> QED BY <2>5, <2>6
<1>12. CASE row.sub.mode # "llm_automatic"
  <2>1. judged.auto = NoTrace /\ judged.status = "pending" /\ judged.final = "none"
    BY <1>3, <1>4, <1>7, <1>12
  <2>2. verdict = <<>> /\ verdict \in Seq(AuditRecord) /\ Silent(verdict)
    BY <1>12, EmptyLog
  <2> HIDE DEF verdict
  <2>3. advice \o verdict \in Seq(AuditRecord) /\ Silent(advice \o verdict)
    BY <1>5, <2>2, AppendSilent
  <2>4. Silent(log \o (advice \o verdict))
    BY <1>4, <2>3, AppendSilent
  <2>5. Supported(after) /\ TrailOf(after, log \o (advice \o verdict))
    BY <1>9, <2>1, <2>4, NullValues DEF Supported, TrailOf, Resolves, Preemptible
  <2> QED BY <1>9, <1>10, <2>3, <2>5
            DEF RowSound, after, verdict, judged, advice, Evaluated, EvaluatedLog
<1> QED BY <1>11, <1>12

\* finalize_evaluation.
LEMMA FinalSound ==
  ASSUME NEW row \in Row, NEW log \in Seq(AuditRecord), NEW sug \in Suggestion, NEW op,
         row.eval \in Preemptible => row.status = "pending", RowSound(row, log)
  PROVE  LET tx == Finalized(row, op, sug) IN
         /\ RowSound(tx.row, log \o tx.log) /\ tx.log \in Seq(AuditRecord)
         /\ tx.row.sub = row.sub /\ tx.row.batchSource = row.batchSource
         /\ tx.row.eval # "running"
         /\ tx.row.eval = "queued" => row.eval = "queued"
         /\ row.eval \notin {"running", "superseded"} => tx.row = row
         /\ row.eval = "running" =>
              tx.row.sug = sug /\ (~sug.error => tx.row.eval = "completed")
<1> DEFINE outcome == IF sug.error THEN "failed" ELSE "completed"
           judged  == Evaluated(row, sug, outcome)
           decided == EvaluatedLog(row, sug)
<1>1. CASE row.eval = "superseded" /\ row.sug = NoSuggestion
  <2>1. /\ Finalized(row, op, sug).row = [row EXCEPT !.sug = sug]
        /\ Finalized(row, op, sug).log = <<SuggestionAudit(sug)>>
    BY <1>1 DEF Finalized, Stored, AdviceOnly
  <2>2. sug \in StoredSuggestion
    BY StorableSuggestion
  <2>3. <<SuggestionAudit(sug)>> \in Seq(AuditRecord) /\ Silent(<<SuggestionAudit(sug)>>)
    BY <2>2, SuggestionAuditsType, AdviceIsSilent, SingleRecord
  <2> DEFINE after == [row EXCEPT !.sug = sug]
  <2>4. /\ after.sug = sug /\ after.auto = row.auto /\ after.eval = row.eval
        /\ after.sub = row.sub /\ after.batchSource = row.batchSource
    BY DEF Row
  <2>5. row.auto = NoTrace
    BY <1>1 DEF RowSound, TrailOf
  <2>6. Supported(after) /\ Staged(after)
    BY <2>4, <2>5, NullValues, StagedSuggestion DEF Supported
  <2>7. RowSound(after, log \o <<SuggestionAudit(sug)>>)
    BY <2>3, <2>6, AdvisedSound
  <2> HIDE DEF after, outcome, judged, decided
  <2> QED BY <1>1, <2>1, <2>3, <2>4, <2>7 DEF after
<1>2. CASE row.eval = "running"
  <2>1. /\ Finalized(row, op, sug).row = judged
        /\ Finalized(row, op, sug).log = decided
    BY <1>2 DEF Finalized, Stored, Preemptible, Evaluated, EvaluatedLog
  <2>2. outcome \in {"completed", "failed"} /\ (~sug.error => outcome = "completed")
    OBVIOUS
  <2>4. row.status = "pending"
    BY <1>2 DEF Preemptible
  <2> HIDE DEF outcome
  <2>3. /\ RowSound(judged, log \o decided) /\ decided \in Seq(AuditRecord)
        /\ judged.eval = outcome /\ judged.sug = sug /\ judged.sub = row.sub
        /\ judged.batchSource = row.batchSource
    BY <1>2, <2>2, <2>4, JudgedSound
  <2> HIDE DEF judged, decided
  <2> QED BY <1>2, <2>1, <2>2, <2>3
<1>3. CASE ~(row.eval = "superseded" /\ row.sug = NoSuggestion) /\ row.eval # "running"
  <2>1. Finalized(row, op, sug).row = row /\ Finalized(row, op, sug).log = <<>>
    BY <1>3 DEF Finalized, Stored
  <2>2. log \o <<>> = log
    OBVIOUS
  <2> HIDE DEF judged, decided, outcome
  <2> QED BY <1>3, <2>1, <2>2, EmptyLog
<1> QED BY <1>1, <1>2, <1>3

\* update_evaluation_details: the verdict is the same and so is the evidence, because both
\* stages belong to one review.
LEMMA UpdatedSound ==
  ASSUME NEW row \in Row, NEW log \in Seq(AuditRecord), NEW sug \in Suggestion,
         SameVerdict(row.sug, sug), row.batchSource = "none", RowSound(row, log)
  PROVE  /\ RowSound([row EXCEPT !.sug = sug], log \o DetailsAudits(sug))
         /\ sug.error = row.sug.error /\ sug # NoSuggestion
<1> DEFINE after == [row EXCEPT !.sug = sug]
<1>1. PICK s \in Suggestion : /\ s.digest = row.sug.digest /\ s.report = row.sug.report
                              /\ s.error = row.sug.error
  BY DEF RowSound, Staged, SameVerdict
<1>2. sug.digest = row.sug.digest /\ sug.decision = row.sug.decision
  BY DEF SameVerdict
<1>3. sug.report = row.sug.report /\ sug.error = row.sug.error
  BY <1>1, <1>2, StagedReviewAssumption
<1>4. after.sug = sug /\ after.auto = row.auto /\ after.sub = row.sub
  BY DEF Row
<1>5. Supported(after) /\ Staged(after) /\ sug # NoSuggestion
  BY <1>2, <1>3, <1>4, StagedSuggestion DEF RowSound, Supported
<1>6. DetailsAudits(sug) \in Seq(AuditRecord) /\ Silent(DetailsAudits(sug))
  BY StorableSuggestion, SuggestionAuditsType, AdviceIsSilent
<1> QED BY <1>3, <1>5, <1>6, AdvisedSound

-----------------------------------------------------------------------------
\* One lemma per action.  Most actions write one request: the others keep what they had.

OtherRequestsKept(r) ==
  \A q \in Request \ {r} :
    /\ requests'[q] = requests[q] /\ audits'[q] = audits[q]
    /\ handler'[q] = handler[q] /\ task'[q] = task[q]

\* A step of request r that leaves r sound, and the source of its tickets.
LEMMA OneRequest ==
  ASSUME IInv, AInv, NEW r \in Request, OtherRequestsKept(r), daemon' = daemon,
         faults' = 0 => faults = 0, RequestSound(r)',
         TicketSource(r) => TicketSource(r)',
         \A t \in tickets' : t \in tickets \/ (t.source = r /\ TicketSource(r)')
  PROVE  AInv'
<1>1. ASSUME NEW q \in Request, q # r PROVE RequestSound(q)'
  <2>1. RequestSound(q)
    BY DEF AInv
  <2>2. /\ requests'[q] = requests[q] /\ audits'[q] = audits[q]
        /\ handler'[q] = handler[q] /\ task'[q] = task[q]
    BY <1>1 DEF OtherRequestsKept
  <2>3. RowSound(requests[q], audits[q])'
    BY <2>1, <2>2 DEF RequestSound
  <2>4. HandlerSound(q)'
    BY <2>1, <2>2 DEF RequestSound, HandlerSound
  <2>5. TaskSound(q)' /\ Owned(q)'
    BY <2>1, <2>2 DEF RequestSound, TaskSound, Owned, LiveTask
  <2> QED BY <2>3, <2>4, <2>5 DEF RequestSound
<1>2. ASSUME NEW t \in tickets' PROVE TicketSource(t.source)'
  <2>1. CASE t \in tickets
    <3>1. t.source \in Request /\ TicketSource(t.source)
      BY <2>1 DEF IInv, TypeOK, Ticket, AInv
    <3> QED BY <3>1 DEF OtherRequestsKept, TicketSource
  <2>2. CASE t.source = r /\ TicketSource(r)'
    BY <2>2
  <2> QED BY <2>1, <2>2
<1> QED BY <1>1, <1>2 DEF AInv

\* What an ordinary row of the table is.
LEMMA StoredRow ==
  ASSUME IInv, AInv, NEW r \in Request
  PROVE  /\ requests[r] \in Row /\ audits[r] \in Seq(AuditRecord)
         /\ requests[r].status = "absent" => requests[r] = NoRow
         /\ requests[r].eval \in Preemptible => requests[r].status = "pending"
         /\ RowSound(requests[r], audits[r]) /\ HandlerSound(r) /\ TaskSound(r) /\ Owned(r)
         /\ handler[r].row \in Row /\ handler[r].log \in Seq(AuditRecord)
BY ByRow DEF RowInv, TypeOK, AInv, RequestSound

\* The handler prepares a row, from the submission or from a ticket.
LEMMA LookupSound ==
  ASSUME IInv, AInv, NEW r \in Request, NEW sub \in Submission, SubmitLookup(r, sub)
  PROVE  AInv'
<1> DEFINE submit == Audit("request_submitted", "requester", "none")
<1>1. PICK row, log :
        /\ RowSound(row, log) /\ (Resolves(row) => row.auto.disposition = row.final)
        /\ handler' = [handler EXCEPT ![r] = [pc |-> "looked", row |-> row, log |-> log]]
  <2>1. CASE handler' = [handler EXCEPT ![r] =
               [pc |-> "looked", row |-> NewPending(sub), log |-> <<submit>>]]
    <3>1. ~Resolves(NewPending(sub))
      BY NewPendingRow DEF Resolves
    <3> QED BY <2>1, <3>1, PendingSound
  <2>2. ASSUME NEW t \in tickets,
               handler' = [handler EXCEPT ![r] =
                 [pc |-> "looked", row |-> FromTicket(NewPending(sub), t),
                  log |-> <<submit>> \o AutomaticAudits(FromTicket(NewPending(sub), t).auto)]]
        PROVE  \E row, log :
                 /\ RowSound(row, log) /\ (Resolves(row) => row.auto.disposition = row.final)
                 /\ handler' = [handler EXCEPT ![r] =
                                  [pc |-> "looked", row |-> row, log |-> log]]
    BY <2>2, TicketRowSound DEF IInv, AInv
  <2> QED BY <2>1, <2>2 DEF SubmitLookup, MatchingTickets
<1>2. /\ daemon = "up" /\ handler[r].pc = "idle" /\ requests[r] = NoRow
      /\ UNCHANGED <<store, task, daemon, abandoned, crashes, faults>>
  BY DEF SubmitLookup
<1>3. /\ handler'[r].pc = "looked" /\ handler'[r].row = row /\ handler'[r].log = log
      /\ OtherRequestsKept(r)
  BY <1>1, <1>2 DEF IInv, TypeOK, OtherRequestsKept, store
<1>4. HandlerSound(r)'
  BY <1>1, <1>2, <1>3, StoredRow DEF HandlerSound, store
<1>5. TaskSound(r)' /\ Owned(r)' /\ RowSound(requests[r], audits[r])'
  BY <1>2, <1>3, StoredRow, NullValues DEF TaskSound, Owned, LiveTask, store, Preemptible
<1>6. RequestSound(r)' /\ tickets' = tickets /\ faults' = faults /\ daemon' = daemon
      /\ requests' = requests
  BY <1>2, <1>4, <1>5 DEF RequestSound, store
<1> QED BY <1>3, <1>6, OneRequest DEF TicketSource

\* The prepared row is stored.
LEMMA CommitSound ==
  ASSUME IInv, AInv, NEW r \in Request, SubmitCommit(r)
  PROVE  AInv'
<1>1. /\ handler[r].row \in Row /\ FreshRow(handler[r].row) /\ requests[r] = NoRow
      /\ handler[r].pc = "looked" /\ daemon = "up"
      /\ task[r] = "none" /\ RowSound(handler[r].row, handler[r].log)
  BY ByRow, StoredRow DEF SubmitCommit, RowInv, HandlerSound
<1>2. /\ requests'[r] = handler[r].row /\ audits'[r] = handler[r].log
      /\ handler'[r].pc = "committed" /\ handler'[r].row = handler[r].row
      /\ OtherRequestsKept(r)
      /\ UNCHANGED <<tickets, task, daemon, abandoned, crashes, faults>>
  BY DEF SubmitCommit, IInv, TypeOK, OtherRequestsKept
<1>3. HandlerSound(r)'
  BY <1>1, <1>2 DEF HandlerSound, FreshRow
<1>4. TaskSound(r)' /\ Owned(r)' /\ RowSound(requests[r], audits[r])'
  BY <1>1, <1>2 DEF TaskSound, Owned, LiveTask, FreshRow
<1>5. ~TicketSource(r)
  BY <1>1, NullValues DEF TicketSource
<1>6. RequestSound(r)' /\ tickets' = tickets /\ faults' = faults /\ daemon' = daemon
  BY <1>2, <1>3, <1>4 DEF RequestSound
<1> QED BY <1>2, <1>5, <1>6, OneRequest DEF TicketSource

\* The transaction of record_decision_internal.
LEMMA DecisionWrites ==
  ASSUME IInv, AInv, NEW r \in Request, NEW d \in Decision,
         NEW actor \in (Deciders \ {"system_auto"}), RecordDecision(r, d, actor)
  PROVE  /\ RowSound(requests[r], audits[r])' /\ requests[r] # NoRow
         /\ requests'[r].sub = requests[r].sub /\ requests'[r].sug = requests[r].sug
         /\ requests'[r].batchSource = requests[r].batchSource
         /\ requests'[r].eval = IF requests[r].eval \in Preemptible THEN "superseded"
                                                                   ELSE requests[r].eval
         /\ Resolves(requests'[r])
         /\ \A q \in Request \ {r} : requests'[q] = requests[q] /\ audits'[q] = audits[q]
         /\ tickets' = tickets
<1>1. /\ requests[r] \in Row /\ audits[r] \in Seq(AuditRecord)
      /\ RowSound(requests[r], audits[r]) /\ requests[r].status = "pending"
  BY StoredRow DEF RecordDecision
<1>2. /\ requests'[r] = ManualDecision(requests[r], d) /\ tickets' = tickets
      /\ audits'[r] = audits[r] \o ManualAudits(requests[r], d, actor)
      /\ \A q \in Request \ {r} : requests'[q] = requests[q] /\ audits'[q] = audits[q]
  BY DEF RecordDecision, IInv, TypeOK
<1>3. RowSound(ManualDecision(requests[r], d),
               audits[r] \o ManualAudits(requests[r], d, actor))
  BY <1>1, ManualSound
<1>4. /\ ManualDecision(requests[r], d).sub = requests[r].sub
      /\ ManualDecision(requests[r], d).sug = requests[r].sug
      /\ ManualDecision(requests[r], d).batchSource = requests[r].batchSource
      /\ ManualDecision(requests[r], d).eval =
           IF requests[r].eval \in Preemptible THEN "superseded" ELSE requests[r].eval
      /\ Resolves(ManualDecision(requests[r], d))
  BY <1>1, ManualDecisionRow DEF ManualDecision, Row, Resolves
<1> QED BY <1>1, <1>2, <1>3, <1>4, NullValues

\* A decision while the handler and the task of the request go on, or the handler ends.
LEMMA DecidedSound ==
  ASSUME IInv, AInv, NEW r \in Request, NEW d \in Decision,
         NEW actor \in (Deciders \ {"system_auto"}), RecordDecision(r, d, actor),
         task' = task, daemon' = daemon, faults' = faults,
         \/ handler' = handler
         \/ handler' = [handler EXCEPT ![r] = [IdleHandler EXCEPT !.pc = "done"]]
  PROVE  AInv'
<1>1. /\ RowSound(requests[r], audits[r])' /\ requests[r] # NoRow /\ tickets' = tickets
      /\ requests'[r].sub = requests[r].sub /\ requests'[r].sug = requests[r].sug
      /\ requests'[r].batchSource = requests[r].batchSource
      /\ requests'[r].eval = IF requests[r].eval \in Preemptible THEN "superseded"
                                                                ELSE requests[r].eval
      /\ \A q \in Request \ {r} : requests'[q] = requests[q] /\ audits'[q] = audits[q]
  BY DecisionWrites
<1>2. HandlerSound(r) /\ TaskSound(r) /\ handler \in [Request -> HandlerType]
  BY StoredRow DEF IInv, TypeOK, HandlerType
<1>3. OtherRequestsKept(r) /\ (handler'[r] = handler[r] \/ handler'[r].pc = "done")
  BY <1>1, <1>2 DEF OtherRequestsKept, IdleHandler
<1>4. HandlerSound(r)'
  BY <1>1, <1>2, <1>3 DEF HandlerSound, Preemptible
<1>5. TaskSound(r)' /\ Owned(r)'
  BY <1>1, <1>2 DEF TaskSound, Owned, Preemptible
<1>6. TicketSource(r) => TicketSource(r)'
  BY <1>1 DEF TicketSource, Preemptible
<1>7. RequestSound(r)'
  BY <1>1, <1>4, <1>5 DEF RequestSound
<1> QED BY <1>1, <1>3, <1>6, <1>7, OneRequest

\* Every path that ends in a decision by somebody.
LEMMA DecisionsSound ==
  ASSUME IInv, AInv, NEW r \in Request,
         \/ DirectPolicyDecision(r)
         \/ \E d \in Decision : HumanDecide(r, d)
         \/ ExpirePlan(r)
         \/ RecoverAbandonedPlan(r)
  PROVE  AInv'
<1>1. /\ "human" \in Deciders \ {"system_auto"}
      /\ "field_exposure_policy" \in Deciders \ {"system_auto"}
      /\ "execution-expiry" \in Deciders \ {"system_auto"}
      /\ "execution-recovery" \in Deciders \ {"system_auto"}
      /\ "allow" \in Decision /\ "deny" \in Decision
  BY DEF Deciders, Decision
<1>2. CASE DirectPolicyDecision(r)
  <2>1. /\ handler' = [handler EXCEPT ![r] = [IdleHandler EXCEPT !.pc = "done"]]
        /\ UNCHANGED <<task, daemon, abandoned, crashes, faults>>
        /\ daemon = "up" /\ handler[r].pc = "committed"
    BY <1>2 DEF DirectPolicyDecision
  <2>2. CASE RecordDecision(r, "allow", "field_exposure_policy")
    BY <1>1, <2>1, <2>2, DecidedSound
  <2>3. CASE requests[r].status # "pending" /\ UNCHANGED store
    <3>1. requests[r].eval \notin Preemptible /\ RowSound(requests[r], audits[r])
          /\ TaskSound(r) /\ HandlerSound(r)
      BY <2>3, StoredRow
    <3>2. /\ handler'[r].pc = "done" /\ OtherRequestsKept(r)
          /\ tickets' = tickets /\ requests' = requests
      BY <2>1, <2>3 DEF IInv, TypeOK, OtherRequestsKept, IdleHandler, store
    <3>3. HandlerSound(r)' /\ TaskSound(r)' /\ Owned(r)'
      BY <2>1, <3>1, <3>2 DEF HandlerSound, TaskSound, Owned
    <3>4. RequestSound(r)'
      BY <2>3, <3>1, <3>3 DEF RequestSound, store
    <3> QED BY <2>1, <3>2, <3>4, OneRequest DEF TicketSource
  <2> QED BY <1>2, <2>2, <2>3 DEF DirectPolicyDecision
<1>3. ASSUME NEW d \in Decision, HumanDecide(r, d) PROVE AInv'
  BY <1>1, <1>3, DecidedSound DEF HumanDecide
<1>4. CASE ExpirePlan(r)
  BY <1>1, <1>4, DecidedSound DEF ExpirePlan
<1>5. CASE RecoverAbandonedPlan(r)
  <2>1. CASE RecordDecision(r, "deny", "execution-recovery") /\ daemon' = daemon
    BY <1>1, <1>5, <2>1, DecidedSound DEF RecoverAbandonedPlan
  <2>2. CASE UNCHANGED store /\ daemon' = "down"
    <3>1. daemon = "denying" /\ UNCHANGED <<handler, task, faults>>
      BY <1>5 DEF RecoverAbandonedPlan
    <3>2. ASSUME NEW q \in Request PROVE RequestSound(q)'
      <4>1. HandlerSound(q)' /\ TaskSound(q)' /\ Owned(q)'
        BY <2>2, <3>1, StoredRow DEF HandlerSound, TaskSound, Owned, store
      <4> QED BY <2>2, <4>1, StoredRow DEF RequestSound, store
    <3> QED BY <2>2, <3>2 DEF AInv, TicketSource, store
  <2> QED BY <1>5, <2>1, <2>2 DEF RecoverAbandonedPlan
<1> QED BY <1>2, <1>3, <1>4, <1>5

\* The handler of a protected request starts its evaluation.
LEMMA SpawnSound ==
  ASSUME IInv, AInv, NEW r \in Request, SpawnEvaluation(r)
  PROVE  AInv'
<1>1. /\ HandlerSound(r) /\ TaskSound(r) /\ RowSound(requests[r], audits[r])
      /\ handler[r].pc = "committed" /\ daemon = "up"
      /\ handler \in [Request -> HandlerType] /\ task \in [Request -> TaskState]
  BY StoredRow DEF SpawnEvaluation, IInv, TypeOK, HandlerType, TaskState
<1>2. /\ UNCHANGED <<store, daemon, abandoned, crashes, faults>>
      /\ handler'[r].pc = "done" /\ OtherRequestsKept(r)
      /\ task'[r] = IF handler[r].row.eval = "queued" THEN "spawned" ELSE task[r]
  BY <1>1 DEF SpawnEvaluation, OtherRequestsKept, IdleHandler, store
<1>3. HandlerSound(r)'
  BY <1>2 DEF HandlerSound
<1>4. TaskSound(r)' /\ Owned(r)'
  BY <1>1, <1>2 DEF TaskSound, Owned, LiveTask, HandlerSound, FreshRow, Preemptible, store
<1>5. RequestSound(r)'
  BY <1>1, <1>2, <1>3, <1>4 DEF RequestSound, store
<1> QED BY <1>2, <1>5, OneRequest DEF TicketSource, store

\* Failures of a task or a handler, and the expiry of tickets.
LEMMA FaultSound ==
  ASSUME IInv, AInv, NEW r \in Request, Fault(r) \/ TicketsExpire(r)
  PROVE  AInv'
<1>1. CASE TicketsExpire(r)
  <2>1. /\ tickets' \subseteq tickets
        /\ UNCHANGED <<requests, operation, audits, handler, task, daemon, faults>>
    BY <1>1 DEF TicketsExpire
  <2>2. ASSUME NEW q \in Request PROVE RequestSound(q)'
    <3>1. HandlerSound(q)' /\ TaskSound(q)' /\ Owned(q)'
      BY <2>1, StoredRow DEF HandlerSound, TaskSound, Owned, LiveTask
    <3> QED BY <2>1, <3>1, StoredRow DEF RequestSound
  <2> QED BY <2>1, <2>2 DEF AInv, TicketSource
<1>2. CASE Fault(r)
  <2>1. /\ UNCHANGED <<store, daemon>> /\ faults' # 0
        /\ HandlerSound(r) /\ TaskSound(r) /\ RowSound(requests[r], audits[r])
        /\ handler \in [Request -> HandlerType] /\ task \in [Request -> TaskState]
    BY <1>2, StoredRow, BoundsAssumption
       DEF Fault, WorkerFails, MonitorFails, HandlerCancelled, IInv, TypeOK, HandlerType,
           TaskState
  <2>2. /\ OtherRequestsKept(r)
        /\ handler'[r] = handler[r] \/ (handler'[r].pc = "done" /\ task'[r] = task[r])
        /\ task'[r] = task[r] \/ (task[r] # "none" /\ daemon = "up"
                                    /\ task'[r] \in {"none", "failed"})
    BY <1>2, <2>1
       DEF Fault, WorkerFails, MonitorFails, HandlerCancelled, OtherRequestsKept,
           IdleHandler, store
  <2>3. HandlerSound(r)' /\ TaskSound(r)' /\ Owned(r)'
    BY <2>1, <2>2 DEF HandlerSound, TaskSound, Owned, store
  <2>4. RequestSound(r)'
    BY <2>1, <2>3 DEF RequestSound, store
  <2> QED BY <2>1, <2>2, <2>4, OneRequest DEF TicketSource, store
<1> QED BY <1>1, <1>2

\* What a task leaves alone.
LEMMA TaskFrame ==
  ASSUME IInv, NEW r \in Request, NEW from, NEW to, WorkerStep(r, from, to)
  PROVE  /\ daemon = "up" /\ task[r] = from /\ task'[r] = to
         /\ UNCHANGED <<handler, daemon, faults>>
         /\ \A q \in Request \ {r} : handler'[q] = handler[q] /\ task'[q] = task[q]
BY DEF WorkerStep, IInv, TypeOK

\* claim_evaluation and interrupt_evaluation.
LEMMA ClaimSound ==
  ASSUME IInv, AInv, NEW r \in Request, ClaimEvaluation(r) \/ MonitorInterrupts(r)
  PROVE  AInv'
<1>1. PICK from \in {"spawned", "failed"}, to \in {"evaluating", "none"} :
        WorkerStep(r, from, to)
  BY DEF ClaimEvaluation, MonitorInterrupts
<1>2. /\ daemon = "up" /\ task[r] = from /\ task'[r] = to
      /\ UNCHANGED <<handler, daemon, faults>>
      /\ \A q \in Request \ {r} : handler'[q] = handler[q] /\ task'[q] = task[q]
  BY <1>1, TaskFrame
<1>3. /\ requests[r] \in Row /\ audits[r] \in Seq(AuditRecord)
      /\ requests[r].eval \in Preemptible => requests[r].status = "pending"
      /\ RowSound(requests[r], audits[r]) /\ HandlerSound(r) /\ TaskSound(r)
  BY StoredRow
<1>4. UNCHANGED <<audits, tickets>> /\ requests' = [requests EXCEPT ![r] = requests'[r]]
  BY DEF ClaimEvaluation, MonitorInterrupts, IInv, TypeOK
<1>5. OtherRequestsKept(r)
  BY <1>2, <1>4 DEF IInv, TypeOK, OtherRequestsKept
<1>6. \/ /\ requests'[r] = requests[r] /\ to = "none"
         /\ requests[r].eval \notin Preemptible
      \/ /\ requests[r].eval \in Preemptible /\ to = "evaluating"
         /\ requests'[r] = [requests[r] EXCEPT !.eval = "running"]
      \/ /\ requests[r].eval \in Preemptible /\ to = "none"
         /\ requests'[r] = [requests[r] EXCEPT !.eval = "interrupted"]
  <2>1. CASE ClaimEvaluation(r)
    <3>1. CASE requests[r].eval = "queued"
      <4>1. /\ requests' = [requests EXCEPT ![r].eval = "running"]
            /\ WorkerStep(r, "spawned", "evaluating")
        BY <1>3, <2>1, <3>1 DEF ClaimEvaluation, Preemptible
      <4>2. to = "evaluating"
        BY <1>2, <4>1, TaskFrame
      <4> QED BY <3>1, <4>1, <4>2 DEF IInv, TypeOK, Preemptible
    <3>2. CASE requests[r].eval # "queued"
      <4>1. /\ requests' = [requests EXCEPT ![r].eval = requests[r].eval]
            /\ WorkerStep(r, "spawned", "none")
        BY <2>1, <3>2 DEF ClaimEvaluation
      <4>2. to = "none" /\ task[r] = "spawned"
        BY <1>2, <4>1, TaskFrame
      <4>3. requests'[r] = requests[r]
        BY <1>3, <4>1 DEF IInv, TypeOK, Row
      <4> QED BY <1>3, <3>2, <4>2, <4>3 DEF Preemptible, TaskSound
    <3> QED BY <3>1, <3>2
  <2>2. CASE MonitorInterrupts(r)
    <3>1. WorkerStep(r, "failed", "none")
      BY <2>2 DEF MonitorInterrupts
    <3>2. to = "none"
      BY <1>2, <3>1, TaskFrame
    <3>3. CASE requests[r].eval \in Preemptible
      <4>1. requests' = [requests EXCEPT ![r].eval = "interrupted"]
        BY <1>3, <2>2, <3>3 DEF MonitorInterrupts
      <4> QED BY <3>2, <3>3, <4>1 DEF IInv, TypeOK
    <3>4. CASE requests[r].eval \notin Preemptible
      <4>1. requests' = [requests EXCEPT ![r].eval = requests[r].eval]
        BY <2>2, <3>4 DEF MonitorInterrupts
      <4>2. requests'[r] = requests[r]
        BY <1>3, <4>1 DEF IInv, TypeOK, Row
      <4> QED BY <3>2, <3>4, <4>2
    <3> QED BY <3>3, <3>4
  <2> QED BY <2>1, <2>2
<1>7. /\ RowSound(requests[r], audits[r])'
      /\ requests'[r].eval = requests[r].eval
           \/ requests'[r].eval \in {"running", "interrupted"}
      /\ requests'[r].batchSource = requests[r].batchSource
      /\ requests'[r].sug = requests[r].sug
  <2>1. CASE requests'[r] = requests[r]
    BY <1>3, <1>4, <2>1
  <2>2. ASSUME NEW e \in {"running", "interrupted"}, requests[r].eval \in Preemptible,
               requests'[r] = [requests[r] EXCEPT !.eval = e]
        PROVE  /\ RowSound(requests[r], audits[r])'
               /\ requests'[r].eval = e
               /\ requests'[r].batchSource = requests[r].batchSource
               /\ requests'[r].sug = requests[r].sug
    <3>1. RowSound([requests[r] EXCEPT !.eval = e], audits[r])
      BY <1>3, <2>2, EvaluationSound
    <3> QED BY <1>3, <1>4, <2>2, <3>1 DEF Row
  <2> QED BY <1>6, <2>1, <2>2
<1>8. handler[r].pc = "done"
  BY <1>2, <1>3 DEF HandlerSound
<1>9. HandlerSound(r)' /\ TaskSound(r)' /\ Owned(r)'
  <2>1. HandlerSound(r)'
    BY <1>2, <1>8 DEF HandlerSound
  <2>2. CASE requests'[r] = requests[r] /\ to = "none" /\ requests[r].eval \notin Preemptible
    BY <1>2, <1>3, <2>1, <2>2 DEF TaskSound, Owned
  <2>3. CASE to = "evaluating" /\ requests'[r] = [requests[r] EXCEPT !.eval = "running"]
    BY <1>2, <1>3, <2>1, <2>3 DEF TaskSound, Owned, LiveTask, Row
  <2>4. CASE to = "none" /\ requests'[r] = [requests[r] EXCEPT !.eval = "interrupted"]
    BY <1>2, <1>3, <2>1, <2>4 DEF TaskSound, Owned, Row, Preemptible
  <2> QED BY <1>6, <2>1, <2>2, <2>3, <2>4
<1>10. TicketSource(r) => TicketSource(r)'
  BY <1>6, <1>7 DEF TicketSource, Preemptible
<1>11. RequestSound(r)'
  BY <1>7, <1>9 DEF RequestSound
<1> QED BY <1>2, <1>4, <1>5, <1>10, <1>11, OneRequest

\* The provider's answers.
LEMMA AnswerSound ==
  ASSUME IInv, AInv, NEW r \in Request, NEW sug \in Suggestion,
         DecisionReady(r, sug) \/ DetailsUpdated(r, sug) \/ FinalSuggestion(r, sug)
  PROVE  AInv'
<1>1. PICK from \in {"evaluating", "finalized"}, to \in {"finalized", "failed", "none"} :
        /\ WorkerStep(r, from, to)
        /\ \/ FinalizeEvaluation(r, sug) /\ from = "evaluating" /\ to # "failed"
           \/ UpdateEvaluationDetails(r, sug) /\ from = "finalized" /\ to # "failed"
           \/ UNCHANGED store /\ from = "finalized" /\ to = "failed"
  BY DEF DecisionReady, DetailsUpdated, FinalSuggestion
<1>2. /\ daemon = "up" /\ task[r] = from /\ task'[r] = to
      /\ UNCHANGED <<handler, daemon, faults>>
      /\ \A q \in Request \ {r} : handler'[q] = handler[q] /\ task'[q] = task[q]
  BY <1>1, TaskFrame
<1>3. /\ requests[r] \in Row /\ audits[r] \in Seq(AuditRecord)
      /\ requests[r].eval \in Preemptible => requests[r].status = "pending"
      /\ RowSound(requests[r], audits[r]) /\ HandlerSound(r) /\ TaskSound(r)
  BY StoredRow
<1>4. handler[r].pc = "done" /\ handler'[r].pc = "done" /\ requests[r].batchSource = "none"
  BY <1>2, <1>3 DEF HandlerSound, TaskSound
<1>5. HandlerSound(r)'
  BY <1>4 DEF HandlerSound
<1>6. CASE FinalizeEvaluation(r, sug) /\ from = "evaluating" /\ to # "failed"
  <2> DEFINE tx == Finalized(requests[r], operation[r], sug)
  <2>1. /\ RowSound(tx.row, audits[r] \o tx.log)
        /\ tx.row.batchSource = "none" /\ tx.row.eval # "running"
        /\ tx.row.eval = "queued" => requests[r].eval = "queued"
        /\ requests[r].eval \notin {"running", "superseded"} => tx.row = requests[r]
        /\ requests[r].eval = "running" =>
             tx.row.sug = sug /\ (~sug.error => tx.row.eval = "completed")
    BY <1>3, <1>4, FinalSound
  <2>2. /\ requests' = [requests EXCEPT ![r] = tx.row]
        /\ audits' = [audits EXCEPT ![r] = @ \o tx.log]
        /\ tickets' = tickets \cup
             IF requests[r].eval = "running" /\ requests[r].status = "pending"
               THEN TicketsFrom(r, tx.row) ELSE {}
    BY <1>6 DEF FinalizeEvaluation
  <2> HIDE DEF tx
  <2>3. requests'[r] = tx.row /\ audits'[r] = audits[r] \o tx.log /\ OtherRequestsKept(r)
    BY <1>2, <2>2 DEF IInv, TypeOK, OtherRequestsKept
  <2>4. RowSound(requests[r], audits[r])'
    BY <2>1, <2>3
  <2>5. tx.row.eval \notin Preemptible
    BY <1>2, <1>3, <1>6, <2>1 DEF TaskSound, Preemptible
  <2>6. TaskSound(r)' /\ Owned(r)'
    BY <1>2, <1>6, <2>1, <2>3, <2>5 DEF TaskSound, Owned, Preemptible
  <2>7. TicketSource(r) => TicketSource(r)'
    BY <2>1, <2>3 DEF TicketSource
  <2>8. ASSUME NEW t \in tickets', t \notin tickets
        PROVE  t.source = r /\ TicketSource(r)'
    <3>1. requests[r].eval = "running" /\ t \in TicketsFrom(r, tx.row)
      BY <2>2, <2>8
    <3>2. t.source = r /\ ~tx.row.sug.error
      BY <3>1 DEF TicketsFrom
    <3> QED BY <2>1, <2>3, <3>1, <3>2, StagedSuggestion DEF TicketSource
  <2>9. RequestSound(r)'
    BY <1>5, <2>4, <2>6 DEF RequestSound
  <2> QED BY <1>2, <2>3, <2>7, <2>8, <2>9, OneRequest
<1>7. CASE UpdateEvaluationDetails(r, sug) /\ from = "finalized" /\ to # "failed"
  <2> DEFINE row == [requests[r] EXCEPT !.sug = sug]
  <2>1. /\ SameVerdict(requests[r].sug, sug) /\ tickets' = tickets
        /\ requests' = [requests EXCEPT ![r].sug = sug]
        /\ audits' = [audits EXCEPT ![r] = @ \o DetailsAudits(sug)]
    BY <1>7 DEF UpdateEvaluationDetails
  <2>2. /\ RowSound(row, audits[r] \o DetailsAudits(sug))
        /\ sug.error = requests[r].sug.error /\ sug # NoSuggestion
    BY <1>3, <1>4, <2>1, UpdatedSound
  <2>3. row.eval = requests[r].eval /\ row.batchSource = "none" /\ row.sug = sug
    BY <1>3, <1>4 DEF Row
  <2>4. /\ requests'[r] = row /\ audits'[r] = audits[r] \o DetailsAudits(sug)
        /\ OtherRequestsKept(r)
    BY <1>2, <2>1 DEF IInv, TypeOK, OtherRequestsKept
  <2> HIDE DEF row
  <2>5. RowSound(requests[r], audits[r])'
    BY <2>2, <2>4
  <2>6. requests'[r].eval \notin Preemptible
    BY <1>2, <1>3, <1>7, <2>3, <2>4 DEF TaskSound
  <2>7. TaskSound(r)' /\ Owned(r)'
    BY <1>2, <1>7, <2>3, <2>4, <2>6 DEF TaskSound, Owned, Preemptible
  <2>8. TicketSource(r) => TicketSource(r)'
    BY <2>2, <2>3, <2>4 DEF TicketSource
  <2>9. RequestSound(r)'
    BY <1>5, <2>5, <2>7 DEF RequestSound
  <2> QED BY <1>2, <2>1, <2>4, <2>8, <2>9, OneRequest
<1>8. CASE UNCHANGED store /\ from = "finalized" /\ to = "failed"
  <2>1. requests' = requests /\ audits' = audits /\ tickets' = tickets
    BY <1>8 DEF store
  <2>2. OtherRequestsKept(r) /\ TaskSound(r)' /\ Owned(r)'
    BY <1>2, <1>3, <1>8, <2>1 DEF OtherRequestsKept, TaskSound, Owned, LiveTask
  <2>3. RequestSound(r)'
    BY <1>3, <1>5, <2>1, <2>2 DEF RequestSound
  <2> QED BY <1>2, <2>1, <2>2, <2>3, OneRequest DEF TicketSource
<1> QED BY <1>1, <1>6, <1>7, <1>8

\* Start-up, recovery and the end of the process leave no task and no busy handler.
LEMMA StoppedSound ==
  ASSUME IInv, AInv, daemon' # "up", tickets' = tickets,
         \A q \in Request :
           /\ task'[q] = "none"
           /\ handler'[q].pc = "done" \/ (handler'[q].pc = "idle" /\ handler[q].pc = "idle")
           /\ RowSound(requests[q], audits[q])'
           /\ requests[q] = NoRow => requests'[q] = NoRow
           /\ TicketSource(q) => TicketSource(q)'
           /\ daemon' \in {"details", "resuming"} => requests'[q].eval # "running"
  PROVE  AInv'
<1>1. ASSUME NEW q \in Request PROVE RequestSound(q)'
  <2>1. HandlerSound(q)'
    BY <1>1, StoredRow DEF HandlerSound
  <2>2. TaskSound(q)' /\ Owned(q)'
    BY <1>1 DEF TaskSound, Owned
  <2> QED BY <1>1, <2>1, <2>2 DEF RequestSound
<1>2. ASSUME NEW t \in tickets PROVE TicketSource(t.source)'
  BY <1>2 DEF AInv, IInv, TypeOK, Ticket
<1> QED BY <1>1, <1>2 DEF AInv

\* While the daemon does not serve, it has neither tasks nor busy handlers.
LEMMA NotServing ==
  ASSUME IInv, AInv, daemon # "up", NEW q \in Request
  PROVE  task[q] = "none" /\ handler[q].pc \in {"idle", "done"}
<1>1. handler[q].pc \in {"idle", "looked", "committed", "done"}
  BY DEF IInv, TypeOK
<1> QED BY <1>1, StoredRow DEF HandlerSound, TaskSound

\* recover_stale_operations, on one row.
LEMMA RecoveredSound ==
  ASSUME IInv, AInv, NEW q \in Request
  PROVE  /\ RecoveredRow(q) \in Row /\ RowSound(RecoveredRow(q), audits[q])
         /\ RecoveredRow(q).eval # "running"
         /\ requests[q].eval = "completed" => RecoveredRow(q) = requests[q]
         /\ requests[q] = NoRow => RecoveredRow(q) = NoRow
         /\ RecoveredRow(q).batchSource = requests[q].batchSource
         /\ RecoveredRow(q).sug = requests[q].sug /\ RecoveredRow(q).auto = requests[q].auto
         /\ RecoveredRow(q).status = requests[q].status
<1>1. /\ requests[q] \in Row /\ RowSound(requests[q], audits[q]) /\ RowInv(q)
      /\ requests[q].eval \in Preemptible => requests[q].status = "pending"
  BY ByRow, StoredRow
<1>2. CASE operation[q] = "running"
  <2>1. requests[q].eval = "running" /\ requests[q].status = "pending"
    BY <1>1, <1>2, NothingToRecover DEF Preemptible
  <2>2. RecoveredRow(q) = [requests[q] EXCEPT !.eval = "interrupted"]
    BY <1>2, <2>1 DEF RecoveredRow
  <2>3. RowSound([requests[q] EXCEPT !.eval = "interrupted"], audits[q])
    BY <1>1, <2>1, EvaluationSound DEF Preemptible
  <2>4. [requests[q] EXCEPT !.eval = "interrupted"] \in Row
    BY <1>1, InterruptedRow
  <2> QED BY <1>1, <2>1, <2>2, <2>3, <2>4, NullValues DEF Row
<1>3. CASE operation[q] # "running"
  <2>1. RecoveredRow(q) = requests[q]
    BY <1>3 DEF RecoveredRow
  <2>2. requests[q].eval # "running"
    BY <1>1, <1>3 DEF RowInv
  <2> QED BY <1>1, <2>1, <2>2
<1> QED BY <1>2, <1>3

\* recover_interrupted_review_details, on one row, with or without that.
LEMMA EndedProgress ==
  ASSUME NEW row \in Row, NEW log \in Seq(AuditRecord), RowSound(row, log),
         NEW p \in InterruptedProgress, NEW after,
         after = IF HasRunningProgress(row) THEN WithProgress(row, p) ELSE row
  PROVE  /\ RowSound(after, log) /\ after.eval = row.eval
         /\ after.batchSource = row.batchSource /\ after.status = row.status
         /\ row = NoRow => after = NoRow
         /\ row.sug # NoSuggestion => after.sug # NoSuggestion
         /\ after.sug.error = row.sug.error
<1>1. CASE HasRunningProgress(row)
  <2>1. row # NoRow
    BY <1>1, NullValues DEF HasRunningProgress
  <2> QED BY <1>1, <2>1, ProgressSound, ProgressRow
<1>2. CASE ~HasRunningProgress(row)
  BY <1>2
<1> QED BY <1>1, <1>2

\* Steps of the process as a whole.
LEMMA ProcessSound ==
  ASSUME IInv, AInv,
         Crash \/ StartDaemon \/ RecoverStale \/ RecoverDetails \/ Shutdown
  PROVE  AInv'
<1>1. CASE Crash
  <2>1. /\ UNCHANGED store /\ daemon' = "down"
        /\ \A q \in Request :
             /\ task'[q] = "none"
             /\ handler'[q] = IF handler[q].pc = "idle" THEN handler[q]
                              ELSE [IdleHandler EXCEPT !.pc = "done"]
    BY <1>1 DEF Crash, StopProcess
  <2>2. \A q \in Request : handler'[q].pc = "done"
                             \/ (handler'[q].pc = "idle" /\ handler[q].pc = "idle")
    BY <2>1 DEF IdleHandler
  <2> QED BY <2>1, <2>2, StoredRow, StoppedSound DEF store, TicketSource
<1>2. CASE StartDaemon
  <2>1. daemon = "down" /\ daemon' = "denying" /\ UNCHANGED <<store, handler, task, faults>>
    BY <1>2 DEF StartDaemon
  <2>2. \A q \in Request : task[q] = "none" /\ handler[q].pc \in {"idle", "done"}
    BY <2>1, NotServing
  <2> QED BY <2>1, <2>2, StoredRow, StoppedSound DEF store, TicketSource
<1>3. CASE RecoverStale
  <2>1. /\ daemon = "denying" /\ daemon' = "details"
        /\ UNCHANGED <<audits, tickets, handler, task, faults>>
        /\ \A q \in Request : requests'[q] = RecoveredRow(q)
    BY <1>3 DEF RecoverStale, RecoverStaleOperations
  <2>2. \A q \in Request : task[q] = "none" /\ handler[q].pc \in {"idle", "done"}
    BY <2>1, NotServing
  <2>3. ASSUME NEW q \in Request
        PROVE  /\ RowSound(requests[q], audits[q])'
               /\ requests[q] = NoRow => requests'[q] = NoRow
               /\ TicketSource(q) => TicketSource(q)'
               /\ requests'[q].eval # "running"
    BY <2>1, RecoveredSound DEF TicketSource
  <2> QED BY <2>1, <2>2, <2>3, StoppedSound
<1>4. CASE RecoverDetails
  <2>1. PICK outcome \in [Request -> InterruptedProgress] : RecoverReviewDetails(outcome)
    BY <1>4 DEF RecoverDetails
  <2>2. /\ daemon = "details" /\ daemon' = "resuming"
        /\ UNCHANGED <<audits, tickets, handler, task, faults>>
    BY <1>4 DEF RecoverDetails
  <2>3. \A q \in Request : task[q] = "none" /\ handler[q].pc \in {"idle", "done"}
    BY <2>2, NotServing
  <2>4. ASSUME NEW q \in Request
        PROVE  /\ RowSound(requests[q], audits[q])'
               /\ requests[q] = NoRow => requests'[q] = NoRow
               /\ TicketSource(q) => TicketSource(q)'
               /\ requests'[q].eval # "running"
    <3>1. /\ outcome[q] \in InterruptedProgress
          /\ requests'[q] = IF HasRunningProgress(requests[q])
                              THEN WithProgress(requests[q], outcome[q]) ELSE requests[q]
      BY <2>1 DEF RecoverReviewDetails
    <3>2. /\ RowSound(requests'[q], audits[q]) /\ requests'[q].eval = requests[q].eval
          /\ requests'[q].batchSource = requests[q].batchSource
          /\ requests[q] = NoRow => requests'[q] = NoRow
          /\ requests[q].sug # NoSuggestion => requests'[q].sug # NoSuggestion
          /\ requests'[q].sug.error = requests[q].sug.error
      BY <3>1, StoredRow, EndedProgress
    <3>3. requests[q].eval # "running"
      BY <2>2, StoredRow DEF TaskSound
    <3> QED BY <2>2, <3>2, <3>3 DEF TicketSource
  <2> QED BY <2>2, <2>3, <2>4, StoppedSound
<1>5. CASE Shutdown
  <2>1. PICK outcome \in [Request -> InterruptedProgress] :
          requests' = [r \in Request |->
            IF HasRunningProgress(requests[r])
              THEN WithProgress(RecoveredRow(r), outcome[r]) ELSE RecoveredRow(r)]
    BY <1>5 DEF Shutdown
  <2>2. /\ daemon' = "down" /\ UNCHANGED <<audits, tickets, faults>>
        /\ \A q \in Request :
             /\ task'[q] = "none"
             /\ handler'[q] = IF handler[q].pc = "idle" THEN handler[q]
                              ELSE [IdleHandler EXCEPT !.pc = "done"]
    BY <1>5 DEF Shutdown, StopProcess
  <2>3. \A q \in Request : handler'[q].pc = "done"
                             \/ (handler'[q].pc = "idle" /\ handler[q].pc = "idle")
    BY <2>2 DEF IdleHandler
  <2>4. ASSUME NEW q \in Request
        PROVE  /\ RowSound(requests[q], audits[q])'
               /\ requests[q] = NoRow => requests'[q] = NoRow
               /\ TicketSource(q) => TicketSource(q)'
    <3> DEFINE row == RecoveredRow(q)
    <3>1. /\ row \in Row /\ RowSound(row, audits[q])
          /\ requests[q].eval = "completed" => row = requests[q]
          /\ requests[q] = NoRow => row = NoRow
          /\ row.sug = requests[q].sug /\ row.auto = requests[q].auto
      BY RecoveredSound
    <3>2. HasRunningProgress(row) <=> HasRunningProgress(requests[q])
      BY <3>1 DEF HasRunningProgress
    <3>3. /\ outcome[q] \in InterruptedProgress
          /\ requests'[q] = IF HasRunningProgress(requests[q])
                              THEN WithProgress(row, outcome[q]) ELSE row
      BY <2>1
    <3> HIDE DEF row
    <3>4. /\ RowSound(requests'[q], audits[q]) /\ requests'[q].eval = row.eval
          /\ requests'[q].batchSource = row.batchSource
          /\ row = NoRow => requests'[q] = NoRow
          /\ row.sug # NoSuggestion => requests'[q].sug # NoSuggestion
          /\ requests'[q].sug.error = row.sug.error
      <4>1. requests'[q] = IF HasRunningProgress(row)
                             THEN WithProgress(row, outcome[q]) ELSE row
        BY <3>2, <3>3
      <4> QED BY <3>1, <3>3, <4>1, StoredRow, EndedProgress
    <3> QED BY <2>2, <3>1, <3>4 DEF TicketSource
  <2> QED BY <2>2, <2>3, <2>4, StoppedSound
<1> QED BY <1>1, <1>2, <1>3, <1>4, <1>5

\* resume_queued spawns the evaluations that are queued; none is running.
LEMMA ResumeSound ==
  ASSUME IInv, AInv, ResumeQueued
  PROVE  AInv'
<1>1. /\ daemon = "resuming" /\ daemon' = "up"
      /\ UNCHANGED <<store, handler, abandoned, crashes, faults>>
      /\ \A q \in Request : task'[q] =
           IF requests[q].eval = "queued" /\ requests[q].status = "pending"
             THEN "spawned" ELSE "none"
  BY DEF ResumeQueued
<1>2. ASSUME NEW q \in Request PROVE RequestSound(q)'
  <2>1. /\ handler[q].pc \in {"idle", "done"} /\ RowInv(q)
        /\ RowSound(requests[q], audits[q]) /\ HandlerSound(q) /\ TaskSound(q)
    BY <1>1, ByRow, NotServing, StoredRow
  <2>2. HandlerSound(q)'
    BY <1>1, <2>1, NullValues DEF HandlerSound, store
  <2>3. TaskSound(q)' /\ Owned(q)'
    BY <1>1, <2>1 DEF TaskSound, Owned, LiveTask, RowInv, Preemptible, store
  <2> QED BY <1>1, <2>1, <2>2, <2>3 DEF RequestSound, store
<1> QED BY <1>1, <1>2 DEF AInv, TicketSource, store

-----------------------------------------------------------------------------
\* The two invariants hold initially and every step preserves them.
LEMMA InitSound == Init => AInv
<1> SUFFICES ASSUME Init PROVE AInv
  OBVIOUS
<1>1. ASSUME NEW r \in Request PROVE RequestSound(r)
  <2>1. RowSound(requests[r], audits[r])
    BY AbsentSound DEF Init
  <2>2. HandlerSound(r)
    BY DEF Init, HandlerSound, IdleHandler
  <2>3. TaskSound(r) /\ Owned(r)
    BY NullValues DEF Init, TaskSound, Owned, Preemptible
  <2> QED BY <2>1, <2>2, <2>3 DEF RequestSound
<1> QED BY <1>1 DEF AInv, Init


\* Every step keeps both: an action in flight is accounted for by its own lemma.
LEMMA NextSound == IInv /\ AInv /\ [Next]_vars => AInv'
<1> SUFFICES ASSUME IInv, AInv, [Next]_vars PROVE AInv'
  OBVIOUS
<1>1. CASE UNCHANGED vars
  <2>1. /\ UNCHANGED <<requests, operation, audits, tickets, handler, task, daemon, faults>>
    BY <1>1 DEF vars
  <2>2. ASSUME NEW q \in Request PROVE RequestSound(q)'
    <3>1. HandlerSound(q)' /\ TaskSound(q)' /\ Owned(q)'
      BY <2>1, StoredRow DEF HandlerSound, TaskSound, Owned, LiveTask
    <3> QED BY <2>1, <3>1, StoredRow DEF RequestSound
  <2> QED BY <2>1, <2>2 DEF AInv, TicketSource
<1>2. ASSUME NEW r \in Request, Handle(r) PROVE AInv'
  BY <1>2, LookupSound, CommitSound, SpawnSound, DecisionsSound DEF Handle
<1>3. ASSUME NEW r \in Request, Evaluate(r) PROVE AInv'
  BY <1>3, ClaimSound, AnswerSound DEF Evaluate
<1>4. ASSUME NEW r \in Request,
             Fault(r) \/ (\E d \in Decision : HumanDecide(r, d))
             \/ ExpirePlan(r) \/ TicketsExpire(r) \/ RecoverAbandonedPlan(r)
      PROVE  AInv'
  BY <1>4, FaultSound, DecisionsSound
<1>5. CASE Crash \/ StartDaemon \/ RecoverStale \/ RecoverDetails \/ Shutdown \/ ResumeQueued
  BY <1>5, ProcessSound, ResumeSound
<1> QED BY <1>1, <1>2, <1>3, <1>4, <1>5 DEF Next, Restart

\* The strengthened invariant holds in every reachable state.
THEOREM Authority == Spec => [](IInv /\ AInv)
<1>1. Init => IInv /\ AInv
  BY InitIInv, InitSound
<1>2. (IInv /\ AInv) /\ [Next]_vars => (IInv /\ AInv)'
  BY NextIInv, NextSound
<1> QED BY <1>1, <1>2, PTL DEF Spec

-----------------------------------------------------------------------------
\* What follows for the properties of Approval.

\* A resolved request has one approval record, with the decision that stands; a request
\* that was superseded kept neither its automatic decision nor a ticket; and an automatic
\* allow rests on a stored suggestion to allow whose evidence is known and within the
\* policy (submit_request, record_decision_internal, finalize_evaluation and
\* update_evaluation_details, in any order and with any failure between them).
THEOREM Supporting == Spec => []ApprovalsAreSupported
<1>1. IInv /\ AInv => ApprovalsAreSupported
  <2> SUFFICES ASSUME IInv, AInv PROVE ApprovalsAreSupported
    OBVIOUS
  <2>1. TypeOK
    BY DEF IInv
  <2>2. ApprovalAuditedOnce
    <3> SUFFICES ASSUME NEW r \in Request
                 PROVE  IF Resolved(r)
                          THEN /\ \E i \in Approvals(r) :
                                    /\ Approvals(r) = {i}
                                    /\ audits[r][i].decision = requests[r].final
                               /\ requests[r].status = StatusOf(requests[r].final)
                          ELSE Approvals(r) = {} /\ requests[r].final = "none"
      BY DEF ApprovalAuditedOnce
    <3>1. Approvals(r) = Marks(audits[r], "approval_recorded")
      BY DEF Approvals, AuditsOf, Marks
    <3>2. TrailOf(requests[r], audits[r])
      BY StoredRow DEF RowSound
    <3>3. CASE Resolved(r)
      <4>1. /\ requests[r].status = StatusOf(requests[r].final)
            /\ \E who : Decides(audits[r], requests[r].final, who)
        BY <3>2, <3>3 DEF TrailOf, Resolves, Resolved
      <4> QED BY <3>1, <3>3, <4>1 DEF Decides
    <3>4. CASE ~Resolved(r)
      BY <3>1, <3>2, <3>4 DEF TrailOf, Resolves, Resolved, Silent
    <3> QED BY <3>3, <3>4
  <2>3. SupersededHasNoAuthority
    <3> SUFFICES ASSUME NEW r \in Request, requests[r].eval = "superseded"
                 PROVE  /\ Resolved(r) /\ requests[r].auto = NoTrace
                        /\ \A t \in tickets : t.source # r
                        /\ \E i \in Overrides(r) : Overrides(r) = {i}
      BY DEF SupersededHasNoAuthority
    <3>1. Overrides(r) = Marks(audits[r], "human_decision_overrode_llm")
      BY DEF Overrides, AuditsOf, Marks
    <3>2. TrailOf(requests[r], audits[r])
      BY StoredRow DEF RowSound
    <3>3. \A t \in tickets : t.source # r
      BY DEF AInv, TicketSource
    <3>4. Overridden(audits[r]) /\ Resolved(r) /\ requests[r].auto = NoTrace
      BY <3>2 DEF TrailOf, Resolved, Resolves
    <3> QED BY <3>1, <3>3, <3>4 DEF Overridden
  <2>4. AutomaticAllowIsSupported
    BY StoredRow DEF AutomaticAllowIsSupported, RowSound, Supported
  <2> QED BY <2>1, <2>2, <2>3, <2>4 DEF ApprovalsAreSupported
<1> QED BY <1>1, Authority, PTL

\* Up to the first failed store call or cancelled handler, a request that is hidden from
\* the review prompts has a task or a handler that will finish its evaluation
\* (evaluation.rs, spawn and resume_queued).
THEOREM Ownership == Spec => []HiddenRequestIsOwned
<1>1. AInv => HiddenRequestIsOwned
  BY DEF AInv, RequestSound, Owned, HiddenRequestIsOwned, HumanReviewRequired
<1> QED BY <1>1, Authority, PTL

\* The approval record names system_auto exactly when the decision that stands is the one
\* of the stored automatic trace (apply_automatic_decision).
THEOREM TraceAuthority == Spec => []AuthorityMatchesTrace
<1>1. IInv /\ AInv => AuthorityMatchesTrace
  <2> SUFFICES ASSUME IInv, AInv, NEW r \in Request, NEW i \in Approvals(r)
               PROVE  audits[r][i].actor = "system_auto"
                        <=> requests[r].auto.disposition = requests[r].final
    BY DEF AuthorityMatchesTrace
  <2>1. i \in Marks(audits[r], "approval_recorded")
    BY DEF Approvals, AuditsOf, Marks
  <2>2. TrailOf(requests[r], audits[r])
    BY StoredRow DEF RowSound
  <2>3. PICK who : /\ Decides(audits[r], requests[r].final, who)
                   /\ who = "system_auto" <=> requests[r].auto.disposition = requests[r].final
    BY <2>1, <2>2 DEF TrailOf, Silent
  <2>4. audits[r][i].actor = who
    BY <2>1, <2>3 DEF Decides
  <2> QED BY <2>3, <2>4
<1> QED BY <1>1, Authority, PTL

-----------------------------------------------------------------------------
\* The store implements ApprovalOutcome.

\* Whom a log names.
Named(log) == IF Marks(log, "approval_recorded") = {} THEN "none"
              ELSE log[CHOOSE i \in Marks(log, "approval_recorded") : TRUE].actor

\* The trail names the decider of a resolved request, and of no other.
LEMMA NamedDecider ==
  ASSUME NEW row, NEW log, TrailOf(row, log)
  PROVE  /\ ~Resolves(row) => Named(log) = "none"
         /\ Resolves(row) => Decides(log, row.final, Named(log)) /\ Named(log) \in Deciders
         /\ \A who : Decides(log, row.final, who) => Named(log) = who
         /\ Resolves(row) =>
              (Named(log) = "system_auto" <=> row.auto.disposition = row.final)
<1>1. ASSUME ~Resolves(row) PROVE Named(log) = "none"
  BY <1>1 DEF TrailOf, Silent, Named
<1>2. ASSUME NEW d, NEW who, Decides(log, d, who) PROVE Named(log) = who
  <2>1. PICK i \in DOMAIN log :
          Marks(log, "approval_recorded") = {i} /\ log[i].actor = who
    BY <1>2 DEF Decides
  <2>2. (CHOOSE j \in Marks(log, "approval_recorded") : TRUE) = i
    BY <2>1
  <2> QED BY <2>1, <2>2 DEF Named
<1>3. ASSUME Resolves(row)
      PROVE  /\ Decides(log, row.final, Named(log)) /\ Named(log) \in Deciders
             /\ Named(log) = "system_auto" <=> row.auto.disposition = row.final
  <2>1. PICK who \in Deciders :
          /\ Decides(log, row.final, who)
          /\ who = "system_auto" <=> row.auto.disposition = row.final
    BY <1>3 DEF TrailOf
  <2> QED BY <1>2, <2>1
<1> QED BY <1>1, <1>2, <1>3

LogGrows(r) == \E t \in Seq(AuditRecord) : audits'[r] = audits[r] \o t
\* What a step may do to a request and its trail.
Moves(r) ==
  \/ requests'[r].status = requests[r].status /\ LogGrows(r)
  \/ /\ requests[r].status = "pending" /\ requests'[r].status # "absent"
  \/ /\ requests[r] = NoRow /\ requests'[r].status # "absent"
     /\ Resolves(requests'[r]) => requests'[r].auto.disposition = requests'[r].final

\* A step moves one request, or none.
LEMMA StepMoves ==
  ASSUME IInv, AInv, [Next]_vars
  PROVE  \/ \E r \in Request :
              /\ Moves(r)
              /\ \A q \in Request \ {r} : requests'[q] = requests[q] /\ audits'[q] = audits[q]
         \/ /\ audits' = audits
            /\ \A q \in Request : requests'[q].status = requests[q].status
<1> DEFINE Goal == \/ \E r \in Request :
                        /\ Moves(r)
                        /\ \A q \in Request \ {r} :
                             requests'[q] = requests[q] /\ audits'[q] = audits[q]
                   \/ /\ audits' = audits
                      /\ \A q \in Request : requests'[q].status = requests[q].status
<1> SUFFICES Goal
  OBVIOUS
<1>1. ASSUME UNCHANGED <<requests, audits>> PROVE Goal
  BY <1>1
<1>2. ASSUME NEW r \in Request, NEW d \in Decision, NEW actor \in (Deciders \ {"system_auto"}),
             RecordDecision(r, d, actor)
      PROVE  Goal
  <2>1. requests[r].status = "pending" /\ requests'[r].status # "absent"
    BY <1>2, DecisionWrites DEF Resolves, RecordDecision
  <2> QED BY <1>2, <2>1, DecisionWrites DEF Moves
<1>3. ASSUME NEW r \in Request, SubmitCommit(r) PROVE Goal
  <2>1. /\ requests[r] = NoRow /\ FreshRow(handler[r].row)
        /\ Resolves(handler[r].row) => handler[r].row.auto.disposition = handler[r].row.final
    BY <1>3, ByRow, StoredRow DEF SubmitCommit, RowInv, HandlerSound
  <2>2. requests'[r] = handler[r].row
        /\ \A q \in Request \ {r} : requests'[q] = requests[q] /\ audits'[q] = audits[q]
    BY <1>3 DEF SubmitCommit, IInv, TypeOK
  <2>3. Moves(r)
    BY <2>1, <2>2 DEF Moves, FreshRow
  <2> QED BY <2>2, <2>3
<1>4. ASSUME NEW r \in Request, NEW sug \in Suggestion, FinalizeEvaluation(r, sug) PROVE Goal
  <2> DEFINE tx == Finalized(requests[r], operation[r], sug)
  <2>1. RowInv(r) /\ requests[r] \in Row /\ operation[r] \in OperationStatus
        /\ RowSound(requests[r], audits[r]) /\ audits[r] \in Seq(AuditRecord)
    BY ByRow, StoredRow DEF TypeOK
  <2>2. /\ tx.log \in Seq(AuditRecord)
        /\ tx.row.status = "absent" => requests[r].status = "absent"
        /\ requests[r].eval # "running" => tx.row.status = requests[r].status
    BY <2>1, FinalizedRow DEF RowInv
  <2>3. requests' = [requests EXCEPT ![r] = tx.row]
        /\ audits' = [audits EXCEPT ![r] = @ \o tx.log]
    BY <1>4 DEF FinalizeEvaluation
  <2> HIDE DEF tx
  <2>4. /\ requests'[r] = tx.row /\ LogGrows(r)
        /\ \A q \in Request \ {r} : requests'[q] = requests[q] /\ audits'[q] = audits[q]
    BY <2>2, <2>3 DEF LogGrows, IInv, TypeOK
  <2>5. requests[r].eval = "running" => requests[r].status = "pending"
    BY <2>1 DEF RowInv, Preemptible
  <2>6. Moves(r)
    BY <2>2, <2>4, <2>5 DEF Moves
  <2> QED BY <2>4, <2>6
<1>5. ASSUME NEW r \in Request, NEW sug \in Suggestion, UpdateEvaluationDetails(r, sug)
      PROVE  Goal
  <2>1. DetailsAudits(sug) \in Seq(AuditRecord)
    BY StorableSuggestion, SuggestionAuditsType
  <2>2. requests' = [requests EXCEPT ![r].sug = sug]
        /\ audits' = [audits EXCEPT ![r] = @ \o DetailsAudits(sug)]
    BY <1>5 DEF UpdateEvaluationDetails
  <2>3. requests[r] \in Row
    BY StoredRow
  <2>4. /\ requests'[r].status = requests[r].status /\ LogGrows(r)
        /\ \A q \in Request \ {r} : requests'[q] = requests[q] /\ audits'[q] = audits[q]
    BY <2>1, <2>2, <2>3 DEF LogGrows, IInv, TypeOK, Row
  <2>5. Moves(r)
    BY <2>4 DEF Moves
  <2> QED BY <2>4, <2>5
<1>6. ASSUME NEW r \in Request, ClaimEvaluation(r) \/ MonitorInterrupts(r) PROVE Goal
  <2>1. PICK e : requests' = [requests EXCEPT ![r].eval = e]
    BY <1>6 DEF ClaimEvaluation, MonitorInterrupts
  <2>2. audits' = audits
    BY <1>6 DEF ClaimEvaluation, MonitorInterrupts
  <2>3. \A q \in Request : requests[q] \in Row
    BY StoredRow
  <2>4. \A q \in Request : requests'[q].status = requests[q].status
    BY <2>1, <2>3 DEF IInv, TypeOK, Row
  <2> QED BY <2>2, <2>4
<1>7. ASSUME RecoverStale \/ RecoverDetails \/ Shutdown PROVE Goal
  <2>1. \A q \in Request : requests'[q].status = requests[q].status
    BY <1>7, RecoveryFrozen DEF Frozen
  <2>2. audits' = audits
    BY <1>7 DEF RecoverStale, RecoverDetails, Shutdown
  <2> QED BY <2>1, <2>2
<1>8. /\ "human" \in Deciders \ {"system_auto"}
      /\ "field_exposure_policy" \in Deciders \ {"system_auto"}
      /\ "execution-expiry" \in Deciders \ {"system_auto"}
      /\ "execution-recovery" \in Deciders \ {"system_auto"}
      /\ "allow" \in Decision /\ "deny" \in Decision
  BY DEF Deciders, Decision
<1> HIDE DEF Goal
<1>9. ASSUME NEW r \in Request, Handle(r) PROVE Goal
  BY <1>1, <1>2, <1>3, <1>8, <1>9
     DEF Handle, SubmitLookup, SpawnEvaluation, DirectPolicyDecision, store
<1>10. ASSUME NEW r \in Request, Evaluate(r) PROVE Goal
  BY <1>1, <1>4, <1>5, <1>6, <1>10
     DEF Evaluate, DecisionReady, DetailsUpdated, FinalSuggestion, store
<1>11. ASSUME NEW r \in Request,
              Fault(r) \/ (\E d \in Decision : HumanDecide(r, d))
              \/ ExpirePlan(r) \/ TicketsExpire(r) \/ RecoverAbandonedPlan(r)
       PROVE  Goal
  BY <1>1, <1>2, <1>8, <1>11
     DEF Fault, WorkerFails, MonitorFails, HandlerCancelled, HumanDecide, ExpirePlan,
         TicketsExpire, RecoverAbandonedPlan, store
<1>12. CASE Crash \/ StartDaemon \/ ResumeQueued
  BY <1>1, <1>12 DEF Crash, StartDaemon, ResumeQueued, store
<1>13. CASE UNCHANGED vars
  BY <1>1, <1>13 DEF vars
<1> QED BY <1>7, <1>9, <1>10, <1>11, <1>12, <1>13 DEF Next, Restart

\* Such a step is a step of ApprovalOutcome: a submission, a decision, or nothing.
LEMMA OutcomeStep ==
  ASSUME IInv, AInv, IInv', AInv', [Next]_vars
  PROVE  Outcome!Next \/ UNCHANGED <<OutcomeOf, DeciderOf>>
<1>1. ASSUME NEW q \in Request
      PROVE  /\ TrailOf(requests[q], audits[q]) /\ TrailOf(requests'[q], audits'[q])
             /\ audits[q] \in Seq(AuditRecord)
             /\ requests[q].status \in Status /\ requests'[q].status \in Status
  <2>1. requests[q] \in Row /\ requests'[q] \in Row
    BY DEF IInv, TypeOK
  <2>2. TrailOf(requests[q], audits[q])
    BY StoredRow DEF RowSound
  <2>3. RowSound(requests[q], audits[q])'
    BY DEF AInv, RequestSound
  <2>4. TrailOf(requests'[q], audits'[q])
    BY <2>3 DEF RowSound
  <2> QED BY <2>1, <2>2, <2>4, StoredRow DEF Row
<1>2. /\ OutcomeOf = [q \in Request |-> requests[q].status]
      /\ OutcomeOf' = [q \in Request |-> requests'[q].status]
      /\ DeciderOf = [q \in Request |-> Named(audits[q])]
      /\ DeciderOf' = [q \in Request |-> Named(audits'[q])]
  BY DEF OutcomeOf, DeciderOf, Approvals, AuditsOf, Named, Marks
<1> HIDE DEF OutcomeOf, DeciderOf
\* A request whose status stays keeps its decider, if its log only grew.
<1>3. ASSUME NEW q \in Request, requests'[q].status = requests[q].status, LogGrows(q)
      PROVE  Named(audits'[q]) = Named(audits[q])
  <2>1. CASE Resolves(requests[q])
    <3>1. Resolves(requests'[q])
      BY <1>3, <2>1 DEF Resolves
    <3>2. /\ Decides(audits[q], requests[q].final, Named(audits[q]))
          /\ Decides(audits'[q], requests'[q].final, Named(audits'[q]))
      BY <1>1, <2>1, <3>1, NamedDecider
    <3>3. PICK t \in Seq(AuditRecord) : audits'[q] = audits[q] \o t
      BY <1>3 DEF LogGrows
    <3> QED BY <1>1, <3>2, <3>3, OneDecider
  <2>2. CASE ~Resolves(requests[q])
    <3>1. ~Resolves(requests'[q])
      BY <1>3, <2>2 DEF Resolves
    <3> QED BY <1>1, <2>2, <3>1, NamedDecider
  <2> QED BY <2>1, <2>2
<1>4. CASE /\ audits' = audits
           /\ \A q \in Request : requests'[q].status = requests[q].status
  BY <1>2, <1>4
<1>5. ASSUME NEW r \in Request, Moves(r),
             \A q \in Request \ {r} : requests'[q] = requests[q] /\ audits'[q] = audits[q]
      PROVE  Outcome!Next \/ UNCHANGED <<OutcomeOf, DeciderOf>>
  <2>1. /\ OutcomeOf' = [OutcomeOf EXCEPT ![r] = requests'[r].status]
        /\ DeciderOf' = [DeciderOf EXCEPT ![r] = Named(audits'[r])]
        /\ OutcomeOf[r] = requests[r].status /\ DeciderOf[r] = Named(audits[r])
    BY <1>2, <1>5
  <2>2. ASSUME requests'[r].status = requests[r].status, Named(audits'[r]) = Named(audits[r])
        PROVE  UNCHANGED <<OutcomeOf, DeciderOf>>
    BY <1>2, <1>5, <2>2
  <2>3. ASSUME requests[r].status \in {"absent", "pending"}, requests'[r].status # "absent",
               requests[r].status = "absent" /\ Resolves(requests'[r]) =>
                 requests'[r].auto.disposition = requests'[r].final
        PROVE  Outcome!Next \/ UNCHANGED <<OutcomeOf, DeciderOf>>
    <3>1. Named(audits[r]) = "none"
      BY <1>1, <2>3, NamedDecider DEF Resolves
    <3>2. CASE Resolves(requests'[r])
      <4>1. /\ Named(audits'[r]) \in Deciders
            /\ requests[r].status = "absent" => Named(audits'[r]) = "system_auto"
        BY <1>1, <2>3, <3>2, NamedDecider
      <4>2. requests'[r].status \in {"approved", "rejected"}
        BY <3>2 DEF Resolves
      <4>3. Outcome!Decide(r, Named(audits'[r]), requests'[r].status)
        BY <2>1, <2>3, <4>1 DEF Outcome!Decide
      <4> QED BY <4>1, <4>2, <4>3 DEF Outcome!Next, Outcome!Outcome, Deciders
    <3>3. CASE ~Resolves(requests'[r])
      <4>1. requests'[r].status = "pending" /\ Named(audits'[r]) = "none"
        BY <1>1, <2>3, <3>3, NamedDecider DEF Resolves, Status
      <4>2. CASE requests[r].status = "absent"
        <5>1. DeciderOf' = DeciderOf
          BY <1>2, <2>1, <3>1, <4>1
        <5>2. Outcome!Submit(r)
          BY <2>1, <4>1, <4>2, <5>1 DEF Outcome!Submit
        <5> QED BY <5>2 DEF Outcome!Next
      <4>3. CASE requests[r].status = "pending"
        BY <2>2, <3>1, <4>1, <4>3
      <4> QED BY <2>3, <4>2, <4>3
    <3> QED BY <3>2, <3>3
  <2>4. CASE requests'[r].status = requests[r].status /\ LogGrows(r)
    BY <1>3, <2>2, <2>4
  <2>5. CASE requests[r].status = "pending" /\ requests'[r].status # "absent"
    BY <2>3, <2>5
  <2>6. CASE /\ requests[r] = NoRow /\ requests'[r].status # "absent"
             /\ Resolves(requests'[r]) => requests'[r].auto.disposition = requests'[r].final
    BY <2>3, <2>6, NullValues
  <2> QED BY <1>5, <2>4, <2>5, <2>6 DEF Moves
<1> QED BY <1>4, <1>5, StepMoves

\* The daemon, its workers, the desktop and recovery together implement ApprovalOutcome: a
\* request is submitted once and decided once, by the one whom the audit trail names.
THEOREM Refinement == Spec => ImplementsOutcome
<1>1. Init => Outcome!Init
  <2> SUFFICES ASSUME Init PROVE Outcome!Init
    OBVIOUS
  <2>1. ASSUME NEW r \in Request PROVE OutcomeOf[r] = "absent" /\ DeciderOf[r] = "none"
    <3>1. Approvals(r) = {}
      BY DEF Init, Approvals, AuditsOf
    <3> QED BY <3>1, NullValues DEF Init, OutcomeOf, DeciderOf
  <2> QED BY <2>1 DEF Outcome!Init, OutcomeOf, DeciderOf
<1>2. (IInv /\ AInv) /\ (IInv /\ AInv)' /\ [Next]_vars
        => [Outcome!Next]_<<OutcomeOf, DeciderOf>>
  BY OutcomeStep
<1> QED BY <1>1, <1>2, Authority, PTL DEF Spec, ImplementsOutcome, Outcome!Spec
-----------------------------------------------------------------------------
\* Tickets.

\* A request is judged before it has a suggestion of its own.
Unjudged(row) == row.eval \in Preemptible => row.sug = NoSuggestion
VInv ==
  \A r \in Request :
    Unjudged(requests[r]) /\ (handler[r].pc = "looked" => Unjudged(handler[r].row))

\* What a stored request keeps: its submission, its source, its verdict and its trace.
Keeps(old, new) ==
  /\ new.sub = old.sub /\ new.batchSource = old.batchSource
  /\ old.auto # NoTrace => new.auto = old.auto
  /\ old.sug # NoSuggestion => SameVerdict(old.sug, new.sug)
  /\ Unjudged(new)
Stores(r) == requests[r] = NoRow /\ handler[r].pc = "looked" /\ requests'[r] = handler[r].row

\* What does not change is kept.
LEMMA SameKeeps == ASSUME NEW row, Unjudged(row) PROVE Keeps(row, row)
BY DEF Keeps, SameVerdict

\* A change of the evaluation that does not make it preemptible, a decision and the end of a
\* progress keep it too.
LEMMA PartsKeep ==
  ASSUME NEW row \in Row, Unjudged(row)
  PROVE  /\ \A e : (e \in Preemptible => row.eval \in Preemptible) =>
              Keeps(row, [row EXCEPT !.eval = e])
         /\ \A d : Keeps(row, ManualDecision(row, d))
<1>1. ASSUME NEW e, e \in Preemptible => row.eval \in Preemptible
      PROVE  Keeps(row, [row EXCEPT !.eval = e])
  <2> DEFINE new == [row EXCEPT !.eval = e]
  <2>1. /\ new.sub = row.sub /\ new.batchSource = row.batchSource /\ new.auto = row.auto
        /\ new.sug = row.sug /\ new.eval = e
    BY DEF Row
  <2> HIDE DEF new
  <2> QED BY <1>1, <2>1 DEF Keeps, SameVerdict, Unjudged
<1>2. ASSUME NEW d PROVE Keeps(row, ManualDecision(row, d))
  <2>1. /\ ManualDecision(row, d).sub = row.sub /\ ManualDecision(row, d).sug = row.sug
        /\ ManualDecision(row, d).batchSource = row.batchSource
        /\ ManualDecision(row, d).auto = row.auto
        /\ ManualDecision(row, d).eval =
             IF row.eval \in Preemptible THEN "superseded" ELSE row.eval
    BY DEF ManualDecision, Row
  <2> QED BY <2>1 DEF Keeps, SameVerdict, Unjudged, Preemptible
<1> QED BY <1>1, <1>2

\* A progress that ends, of an evaluation that may have ended with it.
LEMMA ProgressKeeps ==
  ASSUME NEW row \in Row, Unjudged(row), HasRunningProgress(row), NEW p,
         NEW base \in {row, [row EXCEPT !.eval = "interrupted"]}
  PROVE  Keeps(row, WithProgress(base, p))
<1>1. row.sug # NoSuggestion
  BY NullValues DEF HasRunningProgress
<1>2. row.eval \notin Preemptible /\ base.eval \notin Preemptible
  BY <1>1 DEF Unjudged, Preemptible, Row
<1>3. base \in Row /\ base.sub = row.sub /\ base.batchSource = row.batchSource
      /\ base.auto = row.auto /\ base.sug = row.sug
  BY InterruptedRow DEF Row
<1> DEFINE new == WithProgress(base, p)
<1>4. /\ new.sub = row.sub /\ new.batchSource = row.batchSource /\ new.auto = row.auto
      /\ new.eval = base.eval /\ SameVerdict(row.sug, new.sug)
  BY <1>1, <1>3 DEF WithProgress, SameVerdict, Row, StoredSuggestion
<1> HIDE DEF new
<1>5. Keeps(row, new)
  BY <1>2, <1>4 DEF Keeps, Unjudged
<1> QED BY <1>5 DEF new

\* What finalize_evaluation stores.
LEMMA FinalKeeps ==
  ASSUME NEW row \in Row, NEW log \in Seq(AuditRecord), NEW sug \in Suggestion,
         NEW op \in OperationStatus, RowSound(row, log), Unjudged(row),
         row.eval \in Preemptible => row.status = "pending"
  PROVE  Keeps(row, Finalized(row, op, sug).row)
<1> DEFINE outcome == IF sug.error THEN "failed" ELSE "completed"
           new == Finalized(row, op, sug).row
<1>1. row.eval \in Preemptible \cup {"superseded"} => row.auto = NoTrace
  BY DEF RowSound, TrailOf
<1>2. CASE row.eval = "superseded" /\ row.sug = NoSuggestion
  <2>1. new = [row EXCEPT !.sug = sug]
    BY <1>2 DEF Finalized, Stored, AdviceOnly
  <2>2. /\ new.sub = row.sub /\ new.batchSource = row.batchSource /\ new.auto = row.auto
        /\ new.eval = "superseded"
    BY <1>2, <2>1 DEF Row
  <2> HIDE DEF new
  <2>3. Keeps(row, new)
    BY <1>2, <2>2 DEF Keeps, Unjudged, Preemptible
  <2> QED BY <2>3 DEF new
<1>3. CASE row.eval = "running"
  <2>1. row.status = "pending" /\ row.sug = NoSuggestion /\ row.auto = NoTrace
    BY <1>1, <1>3 DEF Unjudged, Preemptible
  <2>2. outcome \in {"completed", "failed"}
    OBVIOUS
  <2>3. new = Evaluated(row, sug, outcome)
    BY <1>3, <2>1 DEF Finalized, Stored, Evaluated
  <2> HIDE DEF outcome, new
  <2>4. new.eval = outcome /\ new.sub = row.sub /\ new.batchSource = row.batchSource
    BY <1>3, <2>1, <2>2, <2>3, JudgedSound
  <2>5. Keeps(row, new)
    BY <2>1, <2>2, <2>4 DEF Keeps, Unjudged, Preemptible
  <2> QED BY <2>5 DEF new
<1>4. CASE row.eval # "running" /\ ~(row.eval = "superseded" /\ row.sug = NoSuggestion)
  <2>1. new = row
    BY <1>4 DEF Finalized, Stored
  <2> QED BY <2>1, SameKeeps
<1> QED BY <1>2, <1>3, <1>4

\* A transaction writes one row.
LEMMA OneRowKeeps ==
  ASSUME IInv, VInv, NEW r \in Request, NEW row,
         requests' = [requests EXCEPT ![r] = row], Keeps(requests[r], row)
  PROVE  \A q \in Request : Keeps(requests[q], requests'[q])
<1>1. \A q \in Request : requests'[q] = IF q = r THEN row ELSE requests[q]
  BY DEF IInv, TypeOK
<1>2. \A q \in Request : Keeps(requests[q], requests[q])
  BY SameKeeps DEF VInv
<1> QED BY <1>1, <1>2

\* Every step keeps every stored request, or stores what its handler prepared.
LEMMA RequestsKept ==
  ASSUME IInv, AInv, VInv, [Next]_vars
  PROVE  \A q \in Request : Keeps(requests[q], requests'[q]) \/ Stores(q)
<1> DEFINE Goal == \A q \in Request : Keeps(requests[q], requests'[q]) \/ Stores(q)
<1> SUFFICES Goal
  OBVIOUS
<1>1. ASSUME UNCHANGED requests PROVE Goal
  BY <1>1, SameKeeps DEF VInv
<1>2. ASSUME NEW r \in Request, NEW d, NEW actor, RecordDecision(r, d, actor) PROVE Goal
  <2>1. Keeps(requests[r], ManualDecision(requests[r], d))
    BY StoredRow, PartsKeep DEF VInv
  <2>2. requests' = [requests EXCEPT ![r] = ManualDecision(requests[r], d)]
    BY <1>2 DEF RecordDecision
  <2> QED BY <2>1, <2>2, OneRowKeeps
<1>3. ASSUME NEW r \in Request, SubmitCommit(r) PROVE Goal
  <2>1. Stores(r)
    BY <1>3, ByRow DEF SubmitCommit, Stores, RowInv, IInv, TypeOK
  <2>2. \A q \in Request \ {r} : requests'[q] = requests[q]
    BY <1>3 DEF SubmitCommit, IInv, TypeOK
  <2> QED BY <2>1, <2>2, SameKeeps DEF VInv
<1>4. ASSUME NEW r \in Request, NEW sug \in Suggestion, FinalizeEvaluation(r, sug) PROVE Goal
  <2>1. /\ requests[r] \in Row /\ operation[r] \in OperationStatus
        /\ audits[r] \in Seq(AuditRecord) /\ RowSound(requests[r], audits[r])
        /\ requests[r].eval \in Preemptible => requests[r].status = "pending"
    BY StoredRow DEF IInv, TypeOK
  <2>2. Unjudged(requests[r])
    BY DEF VInv
  <2>3. Keeps(requests[r], Finalized(requests[r], operation[r], sug).row)
    BY <2>1, <2>2, FinalKeeps
  <2>4. requests' = [requests EXCEPT ![r] = Finalized(requests[r], operation[r], sug).row]
    BY <1>4 DEF FinalizeEvaluation
  <2> QED BY <2>3, <2>4, OneRowKeeps
<1>5. ASSUME NEW r \in Request, NEW sug \in Suggestion, UpdateEvaluationDetails(r, sug)
      PROVE  Goal
  <2> DEFINE new == [requests[r] EXCEPT !.sug = sug]
  <2>1. requests' = [requests EXCEPT ![r] = new] /\ SameVerdict(requests[r].sug, sug)
    BY <1>5 DEF UpdateEvaluationDetails
  <2>2. requests[r] \in Row /\ Unjudged(requests[r])
    BY StoredRow DEF VInv
  <2>3. /\ new.sub = requests[r].sub /\ new.batchSource = requests[r].batchSource
        /\ new.auto = requests[r].auto /\ new.eval = requests[r].eval /\ new.sug = sug
    BY <2>2 DEF Row
  <2> HIDE DEF new
  <2>4. Keeps(requests[r], new)
    BY <2>1, <2>2, <2>3 DEF Keeps, Unjudged, SameVerdict
  <2> QED BY <2>1, <2>4, OneRowKeeps
<1>6. ASSUME NEW r \in Request, ClaimEvaluation(r) \/ MonitorInterrupts(r) PROVE Goal
  <2>1. PICK e : /\ requests' = [requests EXCEPT ![r] = [requests[r] EXCEPT !.eval = e]]
                 /\ e \in Preemptible => requests[r].eval \in Preemptible
    BY <1>6 DEF ClaimEvaluation, MonitorInterrupts, Preemptible
  <2>2. Keeps(requests[r], [requests[r] EXCEPT !.eval = e])
    BY <2>1, StoredRow, PartsKeep DEF VInv
  <2> QED BY <2>1, <2>2, OneRowKeeps
<1>7. ASSUME RecoverStale \/ RecoverDetails \/ Shutdown PROVE Goal
  <2> SUFFICES ASSUME NEW q \in Request PROVE Keeps(requests[q], requests'[q])
    OBVIOUS
  <2> DEFINE cut == [requests[q] EXCEPT !.eval = "interrupted"]
  <2>1. \/ requests'[q] \in {requests[q], cut}
        \/ /\ HasRunningProgress(requests[q])
           /\ \E p \in InterruptedProgress : requests'[q] \in {WithProgress(requests[q], p),
                                                             WithProgress(cut, p)}
    <3>1. CASE RecoverStale
      BY <3>1 DEF RecoverStale, RecoverStaleOperations, RecoveredRow
    <3>2. CASE RecoverDetails
      BY <3>2 DEF RecoverDetails, RecoverReviewDetails
    <3>3. CASE Shutdown
      BY <3>3 DEF Shutdown, RecoveredRow
    <3> QED BY <1>7, <3>1, <3>2, <3>3
  <2>2. requests[q] \in Row /\ Unjudged(requests[q])
    BY StoredRow DEF VInv
  <2>3. "interrupted" \notin Preemptible
    BY DEF Preemptible
  <2>4. Keeps(requests[q], requests[q]) /\ Keeps(requests[q], cut)
    BY <2>2, <2>3, SameKeeps, PartsKeep
  <2>5. HasRunningProgress(requests[q]) => \A p \in InterruptedProgress :
          Keeps(requests[q], WithProgress(requests[q], p))
          /\ Keeps(requests[q], WithProgress(cut, p))
    BY <2>2, ProgressKeeps
  <2> HIDE DEF cut
  <2> QED BY <2>1, <2>4, <2>5
<1> HIDE DEF Goal
<1>9. ASSUME NEW r \in Request, Handle(r) PROVE Goal
  BY <1>1, <1>2, <1>3, <1>9
     DEF Handle, SubmitLookup, SpawnEvaluation, DirectPolicyDecision, store
<1>10. ASSUME NEW r \in Request, Evaluate(r) PROVE Goal
  BY <1>1, <1>4, <1>5, <1>6, <1>10
     DEF Evaluate, DecisionReady, DetailsUpdated, FinalSuggestion, store
<1>11. ASSUME NEW r \in Request,
              Fault(r) \/ (\E d \in Decision : HumanDecide(r, d))
              \/ ExpirePlan(r) \/ TicketsExpire(r) \/ RecoverAbandonedPlan(r)
       PROVE  Goal
  BY <1>1, <1>2, <1>11
     DEF Fault, WorkerFails, MonitorFails, HandlerCancelled, HumanDecide, ExpirePlan,
         TicketsExpire, RecoverAbandonedPlan, store
<1>12. CASE Crash \/ StartDaemon \/ ResumeQueued
  BY <1>1, <1>12 DEF Crash, StartDaemon, ResumeQueued, store
<1>13. CASE UNCHANGED vars
  BY <1>1, <1>13 DEF vars
<1> QED BY <1>7, <1>9, <1>10, <1>11, <1>12, <1>13 DEF Next, Restart

\* Only a lookup prepares a row, only a final verdict adds tickets.
LEMMA OthersPrepareNothing ==
  ASSUME IInv, [Next]_vars, NEW q \in Request, handler'[q].pc = "looked"
  PROVE  handler'[q] = handler[q] \/ \E sub \in Submission : SubmitLookup(q, sub)
<1> DEFINE Goal == handler'[q] = handler[q] \/ \E sub \in Submission : SubmitLookup(q, sub)
<1> SUFFICES Goal
  OBVIOUS
<1>0. /\ handler \in [Request -> HandlerType]
      /\ [IdleHandler EXCEPT !.pc = "done"].pc = "done"
  BY DEF IInv, TypeOK, HandlerType, IdleHandler
<1>1. ASSUME NEW r \in Request, NEW done, done.pc # "looked",
             handler' = [handler EXCEPT ![r] = done]
      PROVE  Goal
  BY <1>0, <1>1
<1>2. ASSUME NEW r \in Request, Handle(r) PROVE Goal
  <2>1. ASSUME NEW sub \in Submission, SubmitLookup(r, sub) PROVE Goal
    BY <1>0, <2>1 DEF SubmitLookup
  <2>2. CASE SubmitCommit(r)
    <3>1. handler'[r].pc = "committed" /\ \A p \in Request \ {r} : handler'[p] = handler[p]
      BY <1>0, <2>2 DEF SubmitCommit, HandlerType
    <3> QED BY <3>1
  <2>3. CASE SpawnEvaluation(r) \/ DirectPolicyDecision(r)
    BY <1>0, <1>1, <2>3 DEF SpawnEvaluation, DirectPolicyDecision
  <2> QED BY <1>2, <2>1, <2>2, <2>3 DEF Handle
<1>3. ASSUME NEW r \in Request, Evaluate(r) \/ (\E d \in Decision : HumanDecide(r, d))
             \/ ExpirePlan(r) \/ TicketsExpire(r) \/ RecoverAbandonedPlan(r)
             \/ WorkerFails(r) \/ MonitorFails(r)
      PROVE  Goal
  <2>1. handler' = handler
    BY <1>3 DEF Evaluate, ClaimEvaluation, DecisionReady, FinalSuggestion, DetailsUpdated,
       MonitorInterrupts, WorkerStep, HumanDecide, ExpirePlan, TicketsExpire,
       RecoverAbandonedPlan, WorkerFails, MonitorFails
  <2> QED BY <2>1
<1>4. ASSUME NEW r \in Request, HandlerCancelled(r) PROVE Goal
  BY <1>0, <1>1, <1>4 DEF HandlerCancelled
<1>5. CASE Crash \/ Shutdown
  <2>1. handler'[q] = handler[q] \/ handler'[q] = [IdleHandler EXCEPT !.pc = "done"]
    BY <1>5 DEF Crash, Shutdown, StopProcess
  <2> QED BY <1>0, <2>1
<1>6. CASE StartDaemon \/ RecoverStale \/ RecoverDetails \/ ResumeQueued \/ UNCHANGED vars
  <2>1. handler' = handler
    BY <1>6 DEF StartDaemon, RecoverStale, RecoverDetails, ResumeQueued, vars
  <2> QED BY <2>1
<1> HIDE DEF Goal
<1> QED BY <1>2, <1>3, <1>4, <1>5, <1>6 DEF Next, Restart, Fault

\* A ticket that is new was made of the verdict that its source now holds.
LEMMA NewTickets ==
  ASSUME IInv, [Next]_vars, NEW t \in tickets', t \notin tickets
  PROVE  \E r \in Request : t \in TicketsFrom(r, requests'[r])
<1> DEFINE Goal == \E r \in Request : t \in TicketsFrom(r, requests'[r])
<1> SUFFICES Goal
  OBVIOUS
<1>1. tickets' \subseteq tickets => Goal
  OBVIOUS
<1>2. ASSUME NEW r \in Request, NEW sug \in Suggestion, FinalizeEvaluation(r, sug) PROVE Goal
  <2>1. requests'[r] = Finalized(requests[r], operation[r], sug).row
    BY <1>2 DEF FinalizeEvaluation, IInv, TypeOK
  <2> QED BY <1>2, <2>1 DEF FinalizeEvaluation
<1> HIDE DEF Goal
<1>3. ASSUME NEW r \in Request, Evaluate(r) PROVE Goal
  BY <1>1, <1>2, <1>3 DEF Evaluate, ClaimEvaluation, MonitorInterrupts, DecisionReady,
     DetailsUpdated, FinalSuggestion, UpdateEvaluationDetails, store
<1>4. ASSUME NEW r \in Request, Handle(r) \/ Fault(r) \/ ExpirePlan(r) \/ TicketsExpire(r)
             \/ (\E d \in Decision : HumanDecide(r, d)) \/ RecoverAbandonedPlan(r)
      PROVE  Goal
  BY <1>1, <1>4 DEF Handle, SubmitLookup, SubmitCommit, SpawnEvaluation,
     DirectPolicyDecision, RecordDecision, Fault, WorkerFails, MonitorFails,
     HandlerCancelled, ExpirePlan, TicketsExpire, HumanDecide, RecoverAbandonedPlan, store
<1>5. CASE Crash \/ Shutdown \/ StartDaemon \/ RecoverStale \/ RecoverDetails
           \/ ResumeQueued \/ UNCHANGED vars
  BY <1>1, <1>5 DEF Crash, Shutdown, StartDaemon, RecoverStale, RecoverDetails,
     ResumeQueued, vars, store
<1> QED BY <1>3, <1>4, <1>5 DEF Next, Restart

\* The fields of a row made of a ticket.
LEMMA FromTicketFields ==
  ASSUME TypeOK, NEW sub \in Submission, NEW t \in tickets
  PROVE  LET row == FromTicket(NewPending(sub), t) IN
         /\ row.batchSource = t.source /\ row.sub = sub /\ row.sug.decision = t.decision
<1> DEFINE row    == NewPending(sub)
           shared == requests[t.source].sug
           trace  == AutomaticDecisionFromBatch(row.sub.policy, t.decision,
                                                shared.report, row.sub.breach)
           given  == [shared EXCEPT !.decision = t.decision, !.digest = "ticket"]
           judged == AutomaticDecision(row, trace)
           full   == [judged EXCEPT !.eval = "completed", !.batchSource = t.source,
                                    !.sug = given]
<1>1. row \in Row /\ row.sub.policy \in ValidPolicy /\ row.sub.breach \in Breach
      /\ row.sub = sub
  BY NewPendingRow, SubmittedPolicy DEF NewPending, NoRow
<1>2. t.source \in Request /\ t.decision \in Verdict /\ shared \in StoredSuggestion
  BY DEF TypeOK, Ticket, Row
<1>3. trace \in Trace
  BY <1>1, <1>2, BatchTrace DEF StoredSuggestion
<1> HIDE DEF trace, row, shared
<1>4. judged \in Row /\ judged.sub = row.sub
  BY <1>1, <1>3, AutomaticFields
<1>5. given.decision = t.decision
  BY <1>2 DEF StoredSuggestion
<1> HIDE DEF judged, given
<1>6. full.batchSource = t.source /\ full.sub = row.sub /\ full.sug = given
  BY <1>4 DEF Row
<1>7. FromTicket(NewPending(sub), t) = full
  BY DEF FromTicket, row, shared, trace, judged, given
<1> HIDE DEF full
<1> QED BY <1>1, <1>5, <1>6, <1>7

\* A prepared row that is preemptible is one without a suggestion, so VInv is kept.
LEMMA NextUnjudged == ASSUME IInv, AInv, VInv, [Next]_vars PROVE VInv'
<1>1. ASSUME NEW q \in Request PROVE Unjudged(requests'[q])
  <2>1. Keeps(requests[q], requests'[q]) \/ Stores(q)
    BY RequestsKept
  <2> QED BY <2>1 DEF Keeps, Stores, VInv
<1>2. ASSUME NEW q \in Request, handler'[q].pc = "looked" PROVE Unjudged(handler'[q].row)
  <2>1. ASSUME NEW sub \in Submission, SubmitLookup(q, sub) PROVE Unjudged(handler'[q].row)
    <3>1. \/ handler'[q].row = NewPending(sub)
          \/ \E t \in tickets : handler'[q].row = FromTicket(NewPending(sub), t)
      BY <2>1 DEF SubmitLookup, MatchingTickets, IInv, TypeOK
    <3>2. NewPending(sub).sug = NoSuggestion
      BY DEF NewPending, NoRow
    <3>3. ASSUME NEW t \in tickets
          PROVE  FromTicket(NewPending(sub), t).eval \notin Preemptible
      <4>1. FromTicket(NewPending(sub), t).batchSource = t.source /\ t.source # "none"
            /\ FreshRow(FromTicket(NewPending(sub), t))
        <5>1. FromTicket(NewPending(sub), t) \in Row
              /\ FreshRow(FromTicket(NewPending(sub), t))
          BY TicketRow DEF IInv
        <5>2. t.source # "none"
          BY RequestAssumption DEF IInv, TypeOK, Ticket
        <5>3. FromTicket(NewPending(sub), t).batchSource = t.source
          BY FromTicketFields DEF IInv
        <5> QED BY <5>1, <5>2, <5>3
      <4> QED BY <4>1 DEF FreshRow, Preemptible
    <3> QED BY <3>1, <3>2, <3>3 DEF Unjudged
  <2>2. handler'[q] = handler[q] => Unjudged(handler'[q].row)
    BY <1>2 DEF VInv
  <2> QED BY <1>2, <2>1, <2>2, OthersPrepareNothing
<1> QED BY <1>1, <1>2 DEF VInv

\* A source goes on sharing what it shares.
LEMMA SharesOn ==
  ASSUME IInv, AInv, VInv, [Next]_vars, NEW s \in Request, NEW a, NEW d,
         Shares(requests[s], a, d)
  PROVE  Shares(requests'[s], a, d) /\ requests'[s].sub = requests[s].sub
<1>1. requests[s].auto # NoTrace /\ requests[s].sug # NoSuggestion /\ requests[s] # NoRow
  BY NullValues DEF Shares, NoTrace, NoSuggestion
<1>2. Keeps(requests[s], requests'[s])
  BY <1>1, RequestsKept DEF Stores
<1> QED BY <1>1, <1>2 DEF Keeps, SameVerdict, Shares

\* A row that rests on a ticket has a verdict.
LEMMA TicketedRow ==
  ASSUME IInv, NEW row \in Row, row.batchSource # "none", ByTicket(row)
  PROVE  row.batchSource \in Request /\ row.sug # NoSuggestion
<1>1. row.batchSource \in Request
  BY DEF Row
<1>2. PICK b \in requests[row.batchSource].sug.batch : b.decision = row.sug.decision
  BY DEF ByTicket, Shares
<1>3. b \in BatchDecision
  BY <1>1, <1>2 DEF IInv, TypeOK, Row, StoredSuggestion
<1> QED BY <1>1, <1>2, <1>3, NullValues DEF BatchDecision, Verdict

\* Every step keeps the sources of tickets and of the rows that rest on them.
LEMMA NextTickets ==
  ASSUME IInv, AInv, VInv, TicketAuthority, TicketsHaveSources, [Next]_vars
  PROVE  TicketAuthority' /\ TicketsHaveSources'
<1> DEFINE Rests(row) ==
      row.batchSource # "none" =>
        /\ ~row.sub.admitted /\ ~requests'[row.batchSource].sub.admitted
        /\ row.sub.key = requests'[row.batchSource].sub.key
        /\ Shares(requests'[row.batchSource], row.sub.selector, row.sug.decision)
<1>1. ASSUME NEW row \in Row, ByTicket(row) PROVE Rests(row)
  <2> SUFFICES ASSUME row.batchSource # "none" PROVE Rests(row)
    OBVIOUS
  <2>1. row.batchSource \in Request
    BY <1>1, TicketedRow
  <2> QED BY <1>1, <2>1, SharesOn DEF ByTicket
<1>2. ASSUME NEW q \in Request PROVE Rests(requests'[q])
  <2>1. CASE Stores(q)
    <3>1. requests'[q] \in Row /\ ByTicket(requests'[q])
      BY <2>1, StoredRow DEF Stores, TicketsHaveSources
    <3> HIDE DEF Rests
    <3> QED BY <1>1, <3>1
  <2>2. CASE Keeps(requests[q], requests'[q])
    <3> SUFFICES ASSUME requests'[q].batchSource # "none" PROVE Rests(requests'[q])
      OBVIOUS
    <3>1. requests[q].batchSource # "none" /\ requests[q] \in Row /\ ByTicket(requests[q])
      BY <2>2, StoredRow DEF Keeps, TicketAuthority
    <3>2. Rests(requests[q]) /\ requests[q].sug # NoSuggestion
      BY <1>1, <3>1, TicketedRow
    <3> QED BY <2>2, <3>2 DEF Keeps, SameVerdict
  <2> QED BY <2>1, <2>2, RequestsKept
<1>3. ASSUME NEW t \in tickets'
      PROVE  /\ t.key = ShareKey(t.source, requests'[t.source].sub)
             /\ Shares(requests'[t.source], t.selector, t.decision)
  <2>1. CASE t \in tickets
    <3>1. /\ t.source \in Request /\ t.key = ShareKey(t.source, requests[t.source].sub)
          /\ Shares(requests[t.source], t.selector, t.decision)
      BY <2>1 DEF TicketsHaveSources, IInv, TypeOK, Ticket
    <3> QED BY <3>1, SharesOn
  <2>2. CASE t \notin tickets
    BY <2>2, NewTickets DEF TicketsFrom, Shares
  <2> QED BY <2>1, <2>2
<1>4. ASSUME NEW q \in Request, handler'[q].pc = "looked" PROVE Rests(handler'[q].row)
  <2>1. CASE handler'[q] = handler[q]
    <3>1. handler[q].row \in Row /\ ByTicket(handler[q].row)
      BY <1>4, <2>1, StoredRow DEF TicketsHaveSources
    <3> HIDE DEF Rests
    <3> QED BY <1>1, <2>1, <3>1
  <2>2. ASSUME NEW sub \in Submission, SubmitLookup(q, sub) PROVE Rests(handler'[q].row)
    <3>1. requests' = requests /\ requests[q] = NoRow
      BY <2>2 DEF SubmitLookup, store
    <3>2. \/ handler'[q].row = NewPending(sub)
          \/ \E t \in MatchingTickets(q, sub) : handler'[q].row = FromTicket(NewPending(sub), t)
      BY <2>2 DEF SubmitLookup, IInv, TypeOK
    <3>3. Rests(NewPending(sub))
      BY DEF NewPending, NoRow
    <3>4. ASSUME NEW t \in MatchingTickets(q, sub)
          PROVE  Rests(FromTicket(NewPending(sub), t))
      <4>1. /\ t \in tickets /\ t.source \in Request /\ t.key = ShareKey(q, sub)
            /\ t.selector = sub.selector
            /\ t.key = ShareKey(t.source, requests[t.source].sub)
            /\ Shares(requests[t.source], t.selector, t.decision)
        BY DEF MatchingTickets, TicketsHaveSources, IInv, TypeOK, Ticket
      <4>2. t.source # q
        BY <3>1, <4>1, NullValues DEF Shares, NoTrace
      <4>3. /\ ~sub.admitted /\ ~requests[t.source].sub.admitted
            /\ sub.key = requests[t.source].sub.key
        BY <4>1, <4>2, RequestAssumption DEF ShareKey
      <4>4. /\ FromTicket(NewPending(sub), t).batchSource = t.source
            /\ FromTicket(NewPending(sub), t).sub = sub
            /\ FromTicket(NewPending(sub), t).sug.decision = t.decision
        BY <4>1, FromTicketFields DEF IInv
      <4> QED BY <3>1, <4>1, <4>3, <4>4
    <3> HIDE DEF Rests
    <3> QED BY <3>2, <3>3, <3>4
  <2> QED BY <1>4, <2>1, <2>2, OthersPrepareNothing
<1> QED BY <1>2, <1>3, <1>4 DEF TicketAuthority, TicketsHaveSources, ByTicket

\* A request that a ticket decided rests on a source that the model itself decided, with its
\* requester, reason and chain, and never on that of another execution plan.
THEOREM Sharing == Spec => []TicketAuthority
<1>1. Init => VInv /\ TicketAuthority /\ TicketsHaveSources
  <2> SUFFICES ASSUME Init PROVE VInv /\ TicketAuthority /\ TicketsHaveSources
    OBVIOUS
  <2>1. \A r \in Request : requests[r] = NoRow /\ handler[r].pc = "idle"
    BY DEF Init, IdleHandler
  <2> QED BY <2>1, NullValues DEF Init, VInv, Unjudged, TicketAuthority, ByTicket,
     TicketsHaveSources
<1>2. (IInv /\ AInv) /\ (VInv /\ TicketAuthority /\ TicketsHaveSources) /\ [Next]_vars
        => (VInv /\ TicketAuthority /\ TicketsHaveSources)'
  BY NextUnjudged, NextTickets
<1> QED BY <1>1, <1>2, Authority, PTL DEF Spec

\* The verdict that a review stored is the one it keeps, whatever the audit, a late answer or
\* recovery writes afterwards.
THEOREM VerdictStays == Spec => StoredVerdictIsFinal
<1>1. Init => VInv
  <2> SUFFICES ASSUME Init PROVE VInv
    OBVIOUS
  <2>1. \A r \in Request : requests[r] = NoRow /\ handler[r].pc = "idle"
    BY DEF Init, IdleHandler
  <2> QED BY <2>1, NullValues DEF VInv, Unjudged
<1>2. (IInv /\ AInv) /\ VInv /\ [Next]_vars => VInv'
  BY NextUnjudged
<1>3. (IInv /\ AInv) /\ VInv /\ [Next]_vars
        => [\A r \in Request :
              requests[r].sug # NoSuggestion =>
                SameVerdict(requests[r].sug, requests'[r].sug)]_vars
  BY RequestsKept, NullValues DEF Keeps, Stores
<1> QED BY <1>1, <1>2, <1>3, Authority, PTL DEF Spec, StoredVerdictIsFinal
=============================================================================
