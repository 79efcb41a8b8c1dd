-------------------------- MODULE ApprovalWindow --------------------------
(***************************************************************************)
(* The queue of the approval window (approval_window.rs).  A monitor polls *)
(* the store for requests that need a person and applies what it read      *)
(* later (main.rs); the person and a handoff of the command line act in    *)
(* between.                                                                *)
(***************************************************************************)
EXTENDS Naturals, Sequences, SequencesExt, FiniteSets

CONSTANTS
  Request,
  Handed,     \* bound: the requests that the command line hands off
  MaxTasks,   \* bound: commands that have changed the queue and not yet the window
  MaxFaults   \* bound: windows that cannot be shown

VARIABLES
  stage,      \* of each request, in the store
  presented,  \* ApprovalQueue::presented
  compact,    \* ApprovalQueue::compact, oldest first
  showing,    \* requests between their registration and their window
  settling,   \* what remains to be done to the window for a queue that was changed and unlocked
  window,     \* the approval window is visible
  monitor,    \* the requests the monitor has read and not applied yet
  handoff,    \* requests a handoff has read as in need of a review
  shown,      \* history: of the requests that wait for a person, those the window has shown, or
              \* was closed over,
  covered,    \* and those over which it was hidden for an older queue before it had shown them
  faults

popup == <<presented, compact, showing, settling, window, shown, covered>>
vars  == <<stage, popup, monitor, handoff, faults>>

None == "none"
Idle == [pc |-> "present", list |-> {}]

Init ==
  /\ stage \in [Request -> {"evaluating", "review"}]
  /\ presented = {} /\ compact = <<>> /\ showing = {} /\ settling = {}
  /\ window = FALSE /\ shown = {} /\ covered = {}
  /\ monitor = Idle /\ handoff = {} /\ faults = 0

Faulty == faults < MaxFaults /\ faults' = faults + 1

\* A review ends without a decision, or was not wanted.  A request that is not submitted yet, or
\* is decided automatically, is to the window like one in evaluation.
Changes(r) ==
  /\ stage[r] = "evaluating" /\ stage' = [stage EXCEPT ![r] = "review"]
  /\ UNCHANGED <<popup, monitor, handoff, faults>>

-----------------------------------------------------------------------------

Queued == ToSet(compact)
Without(q, r) == SelectSeq(q, LAMBDA x : x # r)

\* The queue is changed under its lock, the window after it: what remains to be done, by whom.
Task(who, does) == [who |-> who, does |-> does]
Leaves(tasks) == settling' = settling \cup tasks /\ Cardinality(settling') <= MaxTasks
Hiding == monitor.pc = "hide" \/ \E t \in settling : t.does = "hide"

\* A visible window shows its queue; one that is about to be hidden is not counted.
Waits(r) == stage[r] = "review"
Sees(r) == Waits(r) /\ r \notin covered
Seeing == shown' = IF window' /\ ~Hiding'
                   THEN shown \cup {r \in ToSet(compact') : Sees(r)} ELSE shown
Hides == /\ window' = FALSE
         /\ covered' = covered \cup {r \in Queued \ (shown \cup showing) : Waits(r)}

\* register_presentation: once for each request, its window is shown after.
Registers(r) ==
  IF r \in presented
  THEN UNCHANGED <<presented, compact, showing>>
  ELSE /\ presented' = presented \cup {r} /\ compact' = Append(compact, r)
       /\ showing' = showing \cup {r}

\* present_request
Show(r) ==
  /\ r \in showing
  /\ showing' = showing \ {r} /\ window' = TRUE
  /\ UNCHANGED <<presented, compact, settling, covered>>
  /\ UNCHANGED <<stage, monitor, handoff, faults>>
  /\ Seeing

\* forget_failed_presentation: the next poll tries again.
KeptPresented(r) == presented
Forgotten(r) == presented \ {r}
ShowFails(r) ==
  /\ r \in showing /\ Faulty
  /\ showing' = showing \ {r}
  /\ presented' = Forgotten(r) /\ compact' = Without(compact, r)
  /\ UNCHANGED <<settling, window, shown, covered>>
  /\ UNCHANGED <<stage, monitor, handoff>>

\* start_approval_monitor: list_human_review_request_ids ...
MonitorReads ==
  /\ monitor = Idle
  /\ monitor' = [pc |-> "reconcile", list |-> {r \in Request : stage[r] = "review"}]
  /\ UNCHANGED <<stage, popup, handoff, faults>>

\* ... reconcile_active_requests: the queue is pruned ...
Keeps(r) == r \in monitor.list
KeepsAll(r) == TRUE
Active(r) == Keeps(r)
Reconciles ==
  /\ monitor.pc = "reconcile"
  /\ presented' = {r \in presented : Active(r)}
  /\ compact' = SelectSeq(compact, LAMBDA r : Active(r))
  /\ monitor' = [monitor EXCEPT !.pc = IF presented' # presented \/ compact' # compact
                                       THEN "check" ELSE "present"]
  /\ UNCHANGED <<stage, showing, settling, window, shown, covered, handoff, faults>>

\* ... it is read again, and the window is hidden if it was empty then ...
FindsEmpty ==
  /\ monitor.pc = "check"
  /\ monitor' = [monitor EXCEPT !.pc = IF compact = <<>> THEN "hide" ELSE "present"]
  /\ UNCHANGED <<stage, popup, handoff, faults>>

HidesEmpty ==
  /\ monitor.pc = "hide"
  /\ Hides /\ monitor' = [monitor EXCEPT !.pc = "present"]
  /\ UNCHANGED <<stage, presented, compact, showing, settling, shown, handoff, faults>>

\* ... and present_human_review_request for each, one at a time.
MonitorPresents ==
  /\ monitor.pc = "present" /\ showing = {}
  /\ \E r \in monitor.list :
       /\ Registers(r) /\ UNCHANGED <<settling, window, covered>>
       /\ monitor' = [monitor EXCEPT !.list = @ \ {r}]
       /\ Seeing
  /\ UNCHANGED <<stage, handoff, faults>>

\* schedule_handoff_request
HandoffReads(r) ==
  /\ stage[r] = "review" /\ r \in Handed /\ handoff = {}
  /\ handoff' = {r}
  /\ UNCHANGED <<stage, popup, monitor, faults>>

HandoffPresents(r) ==
  /\ r \in handoff
  /\ Registers(r) /\ UNCHANGED <<settling, window, covered>>
  /\ handoff' = handoff \ {r}
  /\ UNCHANGED <<stage, monitor, faults>>
  /\ Seeing

\* approve_request, reject_request: the decision is stored ...
Decide(r) ==
  /\ stage[r] \in {"evaluating", "review"}
  /\ stage' = [stage EXCEPT ![r] = "human"]
  /\ Leaves({Task(r, "resolve")})
  /\ shown' = shown \ {r} /\ covered' = covered \ {r}
  /\ UNCHANGED <<presented, compact, showing, window, monitor, handoff, faults>>

\* ... and resolve_request takes the request out of the queue; the window then shows the next
\* one or is hidden.
Resolution(r) ==
  IF compact = <<>> \/ Head(compact) # r THEN {}
  ELSE {Task(r, IF Len(compact) = 1 THEN "hide" ELSE "show")}
Resolves(r) ==
  /\ Task(r, "resolve") \in settling
  /\ settling' = (settling \ {Task(r, "resolve")}) \cup Resolution(r)
  /\ presented' = presented \ {r} /\ compact' = Without(compact, r)
  /\ UNCHANGED <<stage, showing, window, shown, covered, monitor, handoff, faults>>

\* open_full_request_details: any other request stays queued behind a hidden window.
OpenDetails(r) ==
  /\ window /\ r \in Queued
  /\ compact' = Without(compact, r) /\ Leaves({Task(r, "hide")})
  /\ shown' = IF Sees(r) THEN shown \cup {r} ELSE shown
  /\ UNCHANGED <<presented, showing, window, covered>>
  /\ UNCHANGED <<stage, monitor, handoff, faults>>

\* dismiss_popup: the window is closed, by Command-Q, its button or "later".
Dismiss ==
  /\ window
  /\ compact' = <<>> /\ Leaves({Task(None, "hide")})
  /\ shown' = shown \cup {r \in Queued : Sees(r)}
  /\ UNCHANGED <<presented, showing, window, covered>>
  /\ UNCHANGED <<stage, monitor, handoff, faults>>

\* apply_resolution_transition, and the ends of open_full_details and dismiss_popup.
Settles(t) ==
  /\ t \in settling /\ t.does # "resolve" /\ settling' = settling \ {t}
  /\ IF t.does = "hide" THEN Hides /\ UNCHANGED compact
                        ELSE window' = TRUE /\ UNCHANGED <<compact, covered>>
  /\ UNCHANGED <<stage, presented, showing, monitor, handoff, faults>>
  /\ Seeing

-----------------------------------------------------------------------------

Next ==
  \/ MonitorReads \/ Reconciles \/ FindsEmpty \/ HidesEmpty \/ MonitorPresents \/ Dismiss
  \/ \E t \in settling : Settles(t)
  \/ \E r \in Request : \/ Changes(r) \/ Show(r) \/ ShowFails(r) \/ Decide(r) \/ Resolves(r)
                        \/ OpenDetails(r) \/ HandoffReads(r) \/ HandoffPresents(r)

Spec == Init /\ [][Next]_vars

\* The monitor runs for as long as the application, and so do the tasks it starts and the
\* commands that have changed the queue.
MonitorStep == MonitorReads \/ Reconciles \/ FindsEmpty \/ HidesEmpty \/ MonitorPresents
Tasks == [who : Request \cup {None}, does : {"hide", "show"}]
FairSpec ==
  /\ Spec
  /\ WF_vars(MonitorStep)
  /\ \A t \in Tasks : WF_vars(Settles(t))
  /\ \A r \in Request : WF_vars(Show(r)) /\ WF_vars(Resolves(r)) /\ WF_vars(HandoffPresents(r))

-----------------------------------------------------------------------------
(* Properties                                                              *)

\* A request that waits for a person comes before the person, whatever window fails to open and
\* whatever else was decided, closed or handed off meanwhile, unless the window is hidden over it
\* by somebody who changed the queue before it was put in and hides only now; and one that is
\* decided does not stay in the window, where a monitor or a handoff may put it back from what
\* it read before.
IsShown(r) ==
  /\ stage[r] = "review" ~> stage[r] # "review" \/ r \in shown \cup covered
  /\ stage[r] = "human" ~> r \notin Queued
ReviewsAreShown == \A r \in Request : IsShown(r)
=============================================================================
