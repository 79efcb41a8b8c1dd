------------------------------- MODULE Review -------------------------------
(***************************************************************************)
(* How an automatic review comes about: the store that shares verdicts     *)
(* between requests (Approval), the process of the agent (AcpSupervisor),  *)
(* one session with it (AcpClient), the reviewer's protocol (Reviewer) and *)
(* the two decision functions (Disposition).  The components run side by   *)
(* side and share no variable.                                             *)
(***************************************************************************)
EXTENDS Approval

CONSTANTS
  Turn, Kinds, MaxSessions, MaxStarts, MaxAgentFaults,                 \* of AcpSupervisor
  Value, Catalogs, Message, MaxMessages, MaxTurns,                     \* of AcpClient
  Node, Surface, MaxToolRounds, MaxToolCalls, MaxDetailRepairs, MaxErrors  \* of Reviewer

VARIABLES
  single, kind, process, holding, channel, serial, pending, idle, prewarming, turn, reply,
  caller, agent, starts, agentFaults,
  mode, configured, legacy, clientPc, basic, readiness, options, left, inbox, sent, handled,
  content, nonText, expected, stop, files, validated, turns,
  provider, reviewerPc, session, asked, rounds, calls, suggestion, valid, published, nodes,
  surfaces, complete, frameErrors, framing, lines, seen, repairs, progress, units,
  policy, breach, evidence, ticketed

supervisorVars ==
  <<single, kind, process, holding, channel, serial, pending, idle, prewarming, turn, reply,
    caller, agent, starts, agentFaults>>
clientVars ==
  <<mode, configured, legacy, clientPc, basic, readiness, options, left, inbox, sent, handled,
    content, nonText, expected, stop, files, validated, turns>>
reviewerVars ==
  <<provider, reviewerPc, session, asked, rounds, calls, suggestion, valid, published, nodes,
    surfaces, complete, frameErrors, framing, lines, seen, repairs, progress, units>>
decisionVars == <<policy, breach, evidence, ticketed>>

Supervisor == INSTANCE AcpSupervisor WITH faults <- agentFaults, MaxFaults <- MaxAgentFaults
Client == INSTANCE AcpClient WITH pc <- clientPc
Protocol == INSTANCE Reviewer WITH pc <- reviewerPc, sug <- suggestion
Disposing == INSTANCE Disposition WITH sug <- evidence

\* What stands for nothing, or for something else, is none of the things.
ASSUME ReviewAssumption == Supervisor!NotTurns /\ Client!Known /\ Protocol!FramesDiffer

ReviewInit == Init /\ Supervisor!Init /\ Client!Init /\ Protocol!Init /\ Disposing!Init

StoreStep == Next /\ UNCHANGED <<supervisorVars, clientVars, reviewerVars, decisionVars>>
SupervisorStep ==
  Supervisor!Next /\ UNCHANGED <<vars, clientVars, reviewerVars, decisionVars>>
ClientStep == Client!Next /\ UNCHANGED <<vars, supervisorVars, reviewerVars, decisionVars>>
ReviewerStep == Protocol!Next /\ UNCHANGED <<vars, supervisorVars, clientVars, decisionVars>>
DecisionStep == Disposing!Share /\ UNCHANGED <<vars, supervisorVars, clientVars, reviewerVars>>

ReviewNext == StoreStep \/ SupervisorStep \/ ClientStep \/ ReviewerStep \/ DecisionStep
reviewVars == <<vars, supervisorVars, clientVars, reviewerVars, decisionVars>>

ReviewSpec == ReviewInit /\ [][ReviewNext]_reviewVars

-----------------------------------------------------------------------------
\* A turn works with its own session as long as the agent is up, and a caller that
\* may retry has left nothing running there: the late answer, drop or timeout of
\* one turn never reaches the session of another.
AgentServesOneTurn == Supervisor!PromptKeepsSession /\ Supervisor!RetryFindsAgentQuiet

\* A passed check has judged the whole answer, the options of a session in which
\* reviews run are the configured ones, and the report kept as validated is the one
\* the files hold.
SessionIsAsChecked ==
  Client!ReadyIsComplete /\ Client!ConfiguredValuesHold /\ Client!ValidatedReportIsCurrent

\* A review that failed is never turned into an allow, and details reported as
\* complete lack no node or surface and contain no refused line.
ReviewSaysWhatHappened == Protocol!FailedReviewNeverAllows /\ Protocol!CompleteIsWhole

\* A shared verdict covers only its own request, or a request that repeats it, and
\* allows what a review of the same evidence would allow.
TicketsAreSound == TicketAuthority /\ Disposing!TicketAllowsAsReview
=============================================================================
