------------------------------- MODULE MCLive -------------------------------
(***************************************************************************)
(* What must eventually happen, for TLC: the components whose scheduling   *)
(* justifies fairness, each from its own initial states while the others   *)
(* rest, under the fairness of its module (FairSpec there).                *)
(***************************************************************************)
EXTENDS TLC

CONSTANTS
  c1, c2, set1, set2, set3, f1, f2, p1, p2, b1,   \* of the change sets
  NoVault

VARIABLES
  component,    \* the one that this behaviour is about
  approval, decider, operation, entry, held, aged, planLock, planHandler, planPoll, expiring,
  planJob, changed, stale, launches, daemon, abandoned, crashes, planFaults,
  catalog, remembered, change, handler, task, review, edits, approvals, changeFaults,
  accepted, confirmation, writes,
  single, kind, process, holding, channel, serial, pending, idle, prewarming, turn, reply,
  caller, agent, starts, agentFaults,
  provider, pc, session, asked, rounds, calls, sug, valid, published, nodes, surfaces,
  complete, frameErrors, framing, lines, seen, repairs, progress, units,
  vault, aside, editor, saved, syncJob, record, blob, meta, syncLock, head, branch,
  confirmed, blamed, raced, syncFaults,
  stage, presented, compact, showing, settling, window, monitor, handoff, shown, covered,
  windowFaults,
  status, observed, enabled, current, waiting, displayed, poll, timers, toasted, closed,
  muted, toastFaults

planVars ==
  <<approval, decider, operation, entry, held, aged, planLock, planHandler, planPoll,
    expiring, planJob, changed, stale, launches, daemon, abandoned, crashes, planFaults>>
changeVars ==
  <<catalog, remembered, change, handler, task, review, edits, approvals, changeFaults,
    accepted, confirmation, writes>>
agentVars ==
  <<single, kind, process, holding, channel, serial, pending, idle, prewarming, turn, reply,
    caller, agent, starts, agentFaults>>
reviewVars ==
  <<provider, pc, session, asked, rounds, calls, sug, valid, published, nodes, surfaces,
    complete, frameErrors, framing, lines, seen, repairs, progress, units>>
syncVars ==
  <<vault, aside, editor, saved, syncJob, record, blob, meta, syncLock, head, branch,
    confirmed, blamed, raced, syncFaults>>
windowVars ==
  <<stage, presented, compact, showing, settling, window, monitor, handoff, shown, covered,
    windowFaults>>
toastVars ==
  <<status, observed, enabled, current, waiting, displayed, poll, timers, toasted, closed,
    muted, toastFaults>>

\* One plan; the daemon stops or is killed twice.
Plan == {"p1"}
Plans == INSTANCE Execution WITH
  MaxPlans <- 2, MaxRunning <- 1, MaxCrashes <- 2, MaxFaults <- 0,
  lock <- planLock, handler <- planHandler, poll <- planPoll, job <- planJob,
  faults <- planFaults

\* Change sets that only edit, two fields, in one batch or apart.
Operation == {set1, set2, set3}
Changes == INSTANCE PasswordChanges WITH
  Change <- {c1, c2}, Field <- {f1, f2}, Policy <- {p1, p2}, Batch <- {b1},
  Target <- [o \in Operation |-> IF o = set3 THEN f2 ELSE f1],
  Setting <- [o \in Operation |-> IF o = set2 THEN p1 ELSE p2],
  MaxEdits <- 0, MaxApprovals <- 0, MaxFaults <- 0, faults <- changeFaults

\* Two reviews of an agent that keeps one session: the other kind needs no queue.
Turn == {"r1", "r2"}
Supervisor == INSTANCE AcpSupervisor WITH
  Kinds <- {"staged"}, MaxSessions <- 2, MaxStarts <- 1, MaxFaults <- 0,
  faults <- agentFaults

Review == INSTANCE Reviewer WITH
  Node <- {"n1"}, Surface <- {}, MaxToolRounds <- 1, MaxToolCalls <- 1,
  MaxDetailRepairs <- 1, MaxErrors <- 1

\* Two devices that share a folder, and an edit on each or both on one.
Device == {"a", "b"}
Sync == INSTANCE VaultSync WITH
  Edit <- {"e1", "e2"}, Kind <- "folder", Direction <- {"sync"},
  MaxVersion <- 6, MaxFaults <- 0,
  job <- syncJob, lock <- syncLock, published <- confirmed, faults <- syncFaults

Request == {"r1", "r2"}
Window == INSTANCE ApprovalWindow WITH
  Handed <- {"r1"}, MaxTasks <- 1, MaxFaults <- 1, faults <- windowFaults
Toasts == INSTANCE ApprovalNotification WITH
  MaxFaults <- 1, stage <- status, seen <- observed, faults <- toastFaults

-----------------------------------------------------------------------------
\* A component that rests has one initial state.
Resting ==
  /\ component # "changes" => catalog = [f \in {f1, f2} |-> p1]
  /\ single
  /\ component # "review" => provider = "acp"
  /\ component # "window" => stage = [r \in Request |-> "evaluating"]
  /\ component # "toasts" => status = [r \in Request |-> "none"]

LiveInit ==
  /\ component \in {"plans", "changes", "agent", "review", "sync", "window", "toasts"}
  /\ Plans!Init /\ Changes!Init /\ Supervisor!Init /\ Review!Init /\ Sync!Init
  /\ Window!Init /\ Toasts!Init
  /\ Resting

PlanStep ==
  /\ component = "plans" /\ Plans!Next
  /\ UNCHANGED <<component, changeVars, agentVars, reviewVars, syncVars, windowVars, toastVars>>
ChangeStep ==
  /\ component = "changes" /\ Changes!Next
  /\ UNCHANGED <<component, planVars, agentVars, reviewVars, syncVars, windowVars, toastVars>>
AgentStep ==
  /\ component = "agent" /\ Supervisor!Next
  /\ UNCHANGED <<component, planVars, changeVars, reviewVars, syncVars, windowVars, toastVars>>
ReviewStep ==
  /\ component = "review" /\ Review!Next
  /\ UNCHANGED <<component, planVars, changeVars, agentVars, syncVars, windowVars, toastVars>>
SyncStep ==
  /\ component = "sync" /\ Sync!Next
  /\ UNCHANGED <<component, planVars, changeVars, agentVars, reviewVars, windowVars, toastVars>>
WindowStep ==
  /\ component = "window" /\ Window!Next
  /\ UNCHANGED <<component, planVars, changeVars, agentVars, reviewVars, syncVars, toastVars>>
ToastStep ==
  /\ component = "toasts" /\ Toasts!Next
  /\ UNCHANGED <<component, planVars, changeVars, agentVars, reviewVars, syncVars, windowVars>>

LiveNext ==
  \/ PlanStep \/ ChangeStep \/ AgentStep \/ ReviewStep \/ SyncStep \/ WindowStep \/ ToastStep

\* The fairness of the modules, for the component the behaviour is about.
PlansFair ==
  /\ \A p \in Plan :
       /\ WF_planVars(component = "plans" /\ Plans!Admit(p))
       /\ WF_planVars(component = "plans" /\ Plans!DenyExpired(p))
       /\ WF_planVars(component = "plans" /\ Plans!PollBegin(p))
       /\ WF_planVars(component = "plans" /\
            (Plans!ReadState(p) \/ Plans!ReadDenied(p) \/ Plans!ReadApproved(p)))
       /\ WF_planVars(component = "plans" /\ Plans!Execute(p))
       /\ WF_planVars(component = "plans" /\ Plans!RecoverPlan(p))
  /\ WF_planVars(component = "plans" /\
       (Plans!Start \/ Plans!Serve \/ Plans!ClearEntries \/ Plans!EndShutdown))
ChangesFair ==
  /\ WF_changeVars(component = "changes" /\ Changes!HandlerStep)
  /\ WF_changeVars(component = "changes" /\ Changes!TaskStep)
AgentFair ==
  /\ WF_agentVars(component = "agent" /\ Supervisor!Loop)
  /\ WF_agentVars(component = "agent" /\ Supervisor!PrewarmEnds)
  /\ WF_agentVars(component = "agent" /\ Supervisor!Initialized)
  /\ WF_agentVars(component = "agent" /\ process = "draining" /\ Supervisor!Close)
  /\ \A r \in Turn : WF_agentVars(component = "agent" /\ Supervisor!Task(r))
ReviewFair ==
  WF_reviewVars(component = "review" /\
    (\/ Review!AcpUnavailable \/ Review!HttpFails \/ Review!EnrichmentEnds
     \/ Review!EnrichmentCompletes \/ Review!EnrichmentRepaired \/ Review!AuditEnds))
SyncFair ==
  \A d \in Device :
    /\ WF_syncVars(component = "sync" /\ Sync!EditorStep(d))
    /\ WF_syncVars(component = "sync" /\ Sync!SyncStep(d))
    /\ WF_syncVars(component = "sync" /\ Sync!Begin(d, "sync"))
WindowFair ==
  /\ WF_windowVars(component = "window" /\ Window!MonitorStep)
  /\ \A t \in Window!Tasks : WF_windowVars(component = "window" /\ Window!Settles(t))
  /\ \A r \in Request :
       /\ WF_windowVars(component = "window" /\ Window!Show(r))
       /\ WF_windowVars(component = "window" /\ Window!Resolves(r))
       /\ WF_windowVars(component = "window" /\ Window!HandoffPresents(r))
ToastsFair ==
  /\ WF_toastVars(component = "toasts" /\ Toasts!PollReads)
  /\ WF_toastVars(component = "toasts" /\ Toasts!PollEnds)
  /\ WF_toastVars(component = "toasts" /\ Toasts!Render)
  /\ \A r \in Request :
       /\ WF_toastVars(component = "toasts" /\ Toasts!Observe(r))
       /\ WF_toastVars(component = "toasts" /\ Toasts!Expire(Toasts!Note(r, "result")))

LiveSpec ==
  /\ LiveInit
  /\ [][LiveNext]_<<component, planVars, changeVars, agentVars, reviewVars, syncVars,
                    windowVars, toastVars>>
  /\ PlansFair /\ ChangesFair /\ AgentFair /\ ReviewFair /\ SyncFair /\ WindowFair
  /\ ToastsFair

-----------------------------------------------------------------------------
\* An approved plan that the daemon holds is concluded, and the request of an expired
\* one does not stay pending, across the stops and kills of the daemon.
PlansConclude == Plans!ApprovedPlanConcludes /\ Plans!ExpiredRequestIsResolved

\* A confirmed change reaches a terminal state.
ConfirmationEnds == Changes!Concludes(c1)

\* A review that waits for its agent is started or answered, and one that has begun
\* ends.
ReviewsConclude ==
  /\ Supervisor!Proceeds("r1")
  /\ component = "review" => Review!ReviewConcludes

\* Devices that keep synchronising end with one vault that holds every saved change.
SyncConverges == component = "sync" => Sync!SyncConverges

\* What waits for a person is shown, and what an automatic review decided is reported.
DesktopFollows == Window!IsShown("r1") /\ Toasts!Follows("r1")
=============================================================================
