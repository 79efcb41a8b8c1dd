------------------------------- MODULE Reviewer -------------------------------
(***************************************************************************)
(* One review of plankton-core provider.rs: a decision is asked for first,  *)
(* published, and then enriched with evidence for the human audit.  The     *)
(* agent over ACP may repair its decision once in the session and, after a  *)
(* cleaned-up timeout, start over in a fresh one; the enrichment streams    *)
(* frames and may be repaired.  The HTTP providers run tools in bounded     *)
(* rounds and enrich once.  AutomaticDecision says what the daemon makes of *)
(* the suggestion.                                                          *)
(***************************************************************************)
EXTENDS Naturals, Sequences, FiniteSets, SequencesExt, AutomaticDecision

CONSTANTS
  Node,           \* nodes of the call chain
  Surface,        \* surfaces of the decision's exposure report
  MaxToolRounds, MaxToolCalls, MaxDetailRepairs,
  MaxErrors       \* bound: refused lines of an enrichment turn

VARIABLES
  provider,       \* "acp", "claude" or "openai"
  pc,
  session,        \* ACP: which session decides
  asked,          \* ACP: decision attempts recorded in its trace
  rounds, calls,  \* HTTP: tool rounds and calls of the phase
  sug,            \* the suggestion: decision, error, trusted, report
  valid,          \* a decision of this review passed its validation
  published,      \* DecisionReady was sent
  nodes, surfaces, complete, frameErrors,   \* ReviewDetailAccumulator
  framing, lines, \* ReviewDetailFraming, and the telling lines of the turn
  seen, repairs,  \* ReviewDetailRepairGuard
  progress, units \* review_progress

deciding == <<session, asked, rounds, calls>>
accumulator == <<nodes, surfaces, complete, frameErrors>>
turn == <<framing, lines>>
guard == <<seen, repairs>>
vars == <<provider, pc, deciding, sug, valid, published, accumulator, turn, guard,
          progress, units>>

ReviewAnswer == [decision : Verdict, error : BOOLEAN, trusted : BOOLEAN, report : ReportState]
Sug(decision, error, report) ==
  [decision |-> decision, error |-> error, trusted |-> TRUE, report |-> report]

Init ==
  /\ provider \in {"acp", "claude", "openai"} /\ pc = "deciding"
  /\ session = 1 /\ asked = 0 /\ rounds = 0 /\ calls = 0
  /\ sug = Sug("escalate", TRUE, "missing") /\ valid = FALSE /\ published = FALSE
  /\ nodes = {} /\ surfaces = {} /\ complete = FALSE /\ frameErrors = <<>>
  /\ framing = "start" /\ lines = {} /\ seen = {} /\ repairs = 0
  /\ progress = "none" /\ units = 0

-----------------------------------------------------------------------------
\* llm_suggestion_from_error: the last raw answer of the agent may show through,
\* with the error beside it.
FromErrorUnmarked(raw) ==    \* mutant: the raw decision loses its error
  /\ sug' = Sug(raw, FALSE, "missing") /\ pc' = "done"
FromError(raw) ==
  /\ sug' = Sug(raw, TRUE, "missing") /\ pc' = "done"

Fails ==
  /\ \E raw \in IF provider = "acp" THEN Verdict ELSE {"escalate"} : FromError(raw)
  /\ UNCHANGED <<provider, deciding, valid, published, accumulator, turn, guard,
                 progress, units>>

\* suggestion_from_provider_response.
Suggests(decision, report) == sug' = Sug(decision, FALSE, report)

\* Publishing the decision starts the enrichment (begin_api_audit,
\* start_staged_review).
Publish(decision, report) ==
  /\ Suggests(decision, report)
  /\ valid' = TRUE /\ published' = TRUE /\ pc' = "enriching"
  /\ progress' = "running" /\ units' = 0
  /\ rounds' = 0 /\ calls' = 0
  /\ UNCHANGED <<provider, session, asked, accumulator, turn, guard>>

-----------------------------------------------------------------------------
\* ACP: run_acp_decision_with_repair, start_staged_review, retry_staged_decision.
AcpDeciding == provider = "acp" /\ pc = "deciding"

AcpDecides ==
  /\ AcpDeciding
  /\ \E d \in Verdict, r \in {"within", "exceeded", "unknown"} : Publish(d, r)

\* An unusable answer is repaired once in the session; the second one ends the
\* review, whatever session it is.
AcpUnusable ==
  /\ AcpDeciding
  /\ IF asked = 0
       THEN /\ asked' = 1
            /\ UNCHANGED <<provider, pc, session, rounds, calls, sug, valid, published,
                           accumulator, turn, guard, progress, units>>
       ELSE Fails

\* decision_timeout_is_retryable, staged_decision_error_is_retryable.
Retryable(cleaned) == cleaned /\ asked = 0 /\ session = 1

AcpTimesOut(cleaned) ==
  /\ AcpDeciding
  /\ IF Retryable(cleaned)
       THEN /\ session' = 2 /\ asked' = 0
            /\ UNCHANGED <<provider, pc, rounds, calls, sug, valid, published,
                           accumulator, turn, guard, progress, units>>
       ELSE Fails

AcpUnavailable == AcpDeciding /\ Fails

-----------------------------------------------------------------------------
\* HTTP: evaluate_conversation.  A tool call that fails, that exceeds the calls of
\* the phase, or a round too many, fails the phase.
HttpPhase == provider # "acp" /\ pc \in {"deciding", "enriching"}
HttpDeciding == provider # "acp" /\ pc = "deciding"

RunTools(n) ==
  /\ HttpPhase /\ rounds < MaxToolRounds /\ calls + n <= MaxToolCalls
  /\ rounds' = rounds + 1 /\ calls' = calls + n
  /\ UNCHANGED <<provider, pc, session, asked, sug, valid, published, accumulator, turn,
                 guard, progress, units>>

HttpFails == HttpDeciding /\ Fails

\* An answer with a report goes on to the audit when its progress is followed, and
\* must then have no details yet; one without is final.
HttpDecides ==
  /\ HttpDeciding /\ rounds < MaxToolRounds
  /\ \E d \in Verdict, r \in {"within", "exceeded", "unknown"} : Publish(d, r)

HttpDecidesAtOnce ==
  /\ HttpDeciding /\ rounds < MaxToolRounds
  /\ \E d \in Verdict, r \in {"missing", "within", "exceeded", "unknown"} :
       Suggests(d, r)
  /\ valid' = TRUE /\ pc' = "done"
  /\ UNCHANGED <<provider, deciding, published, accumulator, turn, guard, progress, units>>

\* stop_reason refusal is a denial.
ClaudeRefuses ==
  /\ provider = "claude" /\ HttpDeciding /\ rounds < MaxToolRounds
  /\ Suggests("deny", "missing") /\ valid' = TRUE /\ pc' = "done"
  /\ UNCHANGED <<provider, deciding, published, accumulator, turn, guard, progress, units>>

-----------------------------------------------------------------------------
\* The lines of an enrichment turn: node, surface and completion frames, and what
\* else an agent writes.
Frame == (Node \cup Surface) \cup {"complete"}
Line == Frame \cup {"broken", "text", "fence"}

Telling == {"complete", "broken"}     \* what is remembered of a turn's lines

\* ReviewDetailFraming::accept_line, for ACP: commentary before the first frame is
\* kept for the audit, and one outer fence is allowed.
Framed(line) ==
  CASE framing = "start" /\ line = "text" -> <<"start", "skip">>
    [] framing = "start" /\ line = "fence" -> <<"fenced", "skip">>
    [] framing = "start" /\ line \notin {"text", "fence"} -> <<"plain", "frame">>
    [] framing = "fenced" /\ line = "fence" -> <<"closed", "skip">>
    [] framing = "closed" -> <<"closed", "error">>
    [] OTHER -> <<framing, "frame">>

\* apply_review_detail_line.
Acceptable(line) ==
  \/ line \in Node \ nodes
  \/ line \in Surface \ surfaces
  \/ line = "complete" /\ ~complete

Accepts(line) ==
  /\ nodes' = nodes \cup ({line} \cap Node)
  /\ surfaces' = surfaces \cup ({line} \cap Surface)
  /\ complete' = (complete \/ line = "complete")
Units == Cardinality(nodes) + Cardinality(surfaces) + IF complete THEN 1 ELSE 0

\* A broken line is recorded and the stream goes on.
ReceiveLine(line) ==
  /\ provider = "acp" /\ pc \in {"enriching", "repairing"} /\ Len(frameErrors) < MaxErrors
  /\ lines' = lines \cup ({line} \cap Telling)
  /\ framing' = Framed(line)[1]
  /\ CASE Framed(line)[2] = "frame" /\ Acceptable(line) ->
            Accepts(line) /\ units' = Units' /\ UNCHANGED frameErrors
       [] Framed(line)[2] = "skip" -> UNCHANGED <<accumulator, units>>
       [] OTHER -> /\ frameErrors' = Append(frameErrors, line)
                   /\ UNCHANGED <<nodes, surfaces, complete, units>>
  /\ UNCHANGED <<provider, pc, deciding, sug, valid, published, guard, progress>>

\* finalize_review_details.
Whole == complete /\ nodes = Node /\ surfaces = Surface
FinalErrors ==
  IF framing \in {"start", "fenced"} THEN Append(frameErrors, framing) ELSE frameErrors
FinalizesBroken == Whole                                     \* mutant
Finalizes == FinalErrors = <<>> /\ Whole
ErrorText == IF FinalErrors # <<>> THEN FinalErrors ELSE <<ToString(Units)>>

Concludes(state) == progress' = state /\ pc' = "done"
Unfinished == IF units > 0 THEN "partial" ELSE "failed"

EnrichmentCompletes ==
  /\ provider = "acp" /\ pc \in {"enriching", "repairing"} /\ Finalizes
  /\ Concludes("complete") /\ units' = Cardinality(Node) + Cardinality(Surface) + 1
  /\ UNCHANGED <<provider, deciding, sug, valid, published, accumulator, turn, guard>>

\* The repair guard: a bounded number of attempts, and never for an error it has
\* already seen.
MayRepairAgain == TRUE                                       \* mutant
MayRepair == repairs < MaxDetailRepairs /\ ErrorText \notin seen

EnrichmentRepaired ==
  /\ provider = "acp" /\ pc \in {"enriching", "repairing"} /\ ~Finalizes /\ MayRepair
  /\ repairs' = IF repairs < MaxDetailRepairs THEN repairs + 1 ELSE repairs
  /\ seen' = seen \cup {ErrorText}
  /\ complete' = FALSE /\ frameErrors' = <<>> /\ lines' = {} /\ framing' = "start"
  /\ pc' = "repairing"
  /\ UNCHANGED <<provider, deciding, sug, valid, published, nodes, surfaces, progress,
                 units>>

\* No repair is left, or the turn itself failed: its transport error is final.
EnrichmentEnds ==
  /\ provider = "acp" /\ pc \in {"enriching", "repairing"} /\ ~(~Finalizes /\ MayRepair)
  /\ ~Finalizes
  /\ Concludes(Unfinished)
  /\ UNCHANGED <<provider, deciding, sug, valid, published, accumulator, turn, guard, units>>

EnrichmentLost ==
  /\ provider = "acp" /\ pc \in {"enriching", "repairing"}
  /\ Concludes(Unfinished)
  /\ UNCHANGED <<provider, deciding, sug, valid, published, accumulator, turn, guard, units>>

-----------------------------------------------------------------------------
\* finish_api_audit: the whole answer at once; the first broken line ends it, and
\* nothing is repaired.
AuditLine(line) ==
  /\ HttpPhase /\ pc = "enriching" /\ Acceptable(line)
  /\ lines' = lines \cup ({line} \cap Telling) /\ Accepts(line) /\ units' = Units'
  /\ UNCHANGED <<provider, pc, deciding, sug, valid, published, frameErrors, framing,
                 guard, progress>>

\* The annotations are compared with the evidence once more when the adapter
\* returns: a source that changed meanwhile turns the review into a failed one.
EvidenceMoved == surfaces # {}
AuditEnds ==
  /\ provider # "acp" /\ pc = "enriching"
  /\ progress' = IF Whole THEN "complete" ELSE Unfinished
  /\ \/ pc' = "done" /\ UNCHANGED sug
     \/ EvidenceMoved /\ FromError("escalate")
  /\ UNCHANGED <<provider, deciding, valid, published, accumulator, turn, guard, units>>

-----------------------------------------------------------------------------
Next ==
  \/ AcpDecides \/ AcpUnusable \/ (\E c \in BOOLEAN : AcpTimesOut(c)) \/ AcpUnavailable
  \/ (\E n \in 1..MaxToolCalls : RunTools(n))
  \/ HttpFails \/ HttpDecides \/ HttpDecidesAtOnce \/ ClaudeRefuses
  \/ (\E line \in Line : ReceiveLine(line))
  \/ (\E line \in Frame : AuditLine(line))
  \/ EnrichmentCompletes \/ EnrichmentRepaired \/ EnrichmentEnds \/ EnrichmentLost
  \/ AuditEnds

Spec == Init /\ [][Next]_vars

\* Every call has a deadline: a decision is answered or fails, a stream ends.
FairSpec ==
  Spec /\ WF_vars(AcpUnavailable \/ HttpFails \/ EnrichmentEnds \/ EnrichmentCompletes
                  \/ EnrichmentRepaired \/ AuditEnds)

-----------------------------------------------------------------------------
\* A review that failed is never allowed, under any settings: the agent's last
\* words may show through as the suggestion of a failed review
\* (llm_suggestion_from_error), and an allow that counts was validated.
FailedReviewNeverAllows ==
  pc = "done" =>
    \A policy \in ValidPolicy, breach \in Breach :
      EvaluateAutomaticDisposition(policy, sug, breach).disposition = "allow" =>
        valid /\ sug.decision = "allow" /\ ~sug.error

\* Details that are shown as complete are: every node and every surface was
\* accepted, and the last turn had a completion and not one line that was refused
\* (consume_review_detail: "A malformed object is never skipped in search of a later
\* valid one").
CompleteIsWhole ==
  progress = "complete" =>
    /\ nodes = Node /\ surfaces = Surface
    /\ "complete" \in lines /\ "broken" \notin lines

\* What makes the two inductive: a suggestion without an error was validated, and the lines of
\* the turn are remembered until it is repaired or ends.
FramesDiffer == (Node \cup Surface) \cap {"complete", "broken", "text", "fence"} = {}
AnswerWasValid == sug \in ReviewAnswer /\ (~sug.error => valid)
LinesAreTold ==
  /\ frameErrors \in Seq(Line)
  /\ complete => "complete" \in lines
  /\ "broken" \in lines => provider = "acp" /\ frameErrors # <<>>
CompleteIsFinal == progress = "complete" => pc = "done"
IInv == AnswerWasValid /\ LinesAreTold /\ CompleteIsFinal /\ CompleteIsWhole

\* Every review ends: repairs are bounded, and an agent that repeats its error is
\* not asked again (ReviewDetailRepairGuard).
ReviewConcludes == <>(pc = "done")
=============================================================================
