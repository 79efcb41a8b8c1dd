----------------------- MODULE ApprovalNotification -----------------------
(***************************************************************************)
(* The notifications of automatic reviews (approval_notification.rs): a    *)
(* monitor polls the stages of all requests and reads the details of those *)
(* that changed; one notification is displayed at a time, the others wait. *)
(* Windows are rendered, and results expire, in tasks of their own.        *)
(***************************************************************************)
EXTENDS Naturals, Sequences, SequencesExt, FiniteSets

CONSTANTS
  Request,
  MaxFaults   \* bound: details that cannot be read

VARIABLES
  stage,      \* of each request, in the store
  seen,       \* ObservedStatus of each request
  enabled,    \* approval_popup_enabled
  current, waiting, displayed,     \* NotificationState: current, pending, displayed_id
  poll,       \* statuses the monitor has read and not observed yet
  timers,     \* results on display that will expire
  toasted,    \* history: requests whose result was displayed
  closed,     \* history: requests whose result was dismissed before it was rendered
  muted,      \* history: notifications were turned off; bound: once
  faults

toast == <<seen, enabled, current, waiting, displayed, timers>>
history == <<toasted, closed, muted>>
vars  == <<stage, toast, poll, history, faults>>

None == "none"
Unseen == "unseen"
Note(r, s) == [request |-> r, stage |-> s]
NoNote == Note(None, None)
Quiet == [pc |-> "idle", status |-> <<>>]

\* What a notification says of a request; one that only a person decides has none.
NotificationStage(s) ==
  CASE s = "evaluating" -> "progress" [] s = "automatic" -> "result" [] OTHER -> None

\* seed_baseline: what is in the store at the start is not news.
Init ==
  /\ stage \in [Request -> {None, "evaluating"}]
  /\ seen = [r \in Request |-> IF stage[r] = None THEN Unseen ELSE NotificationStage(stage[r])]
  /\ enabled = TRUE /\ current = NoNote /\ waiting = <<>> /\ displayed = NoNote /\ timers = {}
  /\ poll = Quiet /\ toasted = {} /\ closed = {} /\ muted = FALSE /\ faults = 0

\* What submissions, reviews and persons do to a request.
Moves == {<<None, "evaluating">>, <<"evaluating", "automatic">>, <<"evaluating", "human">>}
Changes(r) ==
  /\ \E m \in Moves : stage[r] = m[1] /\ stage' = [stage EXCEPT ![r] = m[2]]
  /\ UNCHANGED <<toast, poll, history, faults>>

-----------------------------------------------------------------------------

\* list_approval_notification_statuses
PollReads ==
  /\ poll.pc = "idle"
  /\ poll' = [pc |-> "observe", status |-> [r \in {q \in Request : stage[q] # None} |->
                                              NotificationStage(stage[r])]]
  /\ UNCHANGED <<stage, toast, history, faults>>

\* enqueue: only progress, or the same request, gives way; results come first in the queue.
AnyReplaces(n) == TRUE
Replaces(n) == current.request \in {None, n.request} \/ current.stage = "progress"
Enqueues(n) ==
  LET rest == SelectSeq(waiting, LAMBDA w : w.request # n.request)
      results == SelectSeq(rest, LAMBDA w : w.stage = "result")
      progress == SelectSeq(rest, LAMBDA w : w.stage = "progress")
  IN IF Replaces(n)
     THEN current' = n /\ waiting' = rest
     ELSE /\ waiting' = Append(results, n) \o IF n.stage = "progress" THEN <<>> ELSE progress
          /\ UNCHANGED current

Shift(queue) == /\ current' = IF queue = <<>> THEN NoNote ELSE Head(queue)
                /\ waiting' = IF queue = <<>> THEN <<>> ELSE Tail(queue)

\* remove_request
WaitingOnly(r) == waiting' = SelectSeq(waiting, LAMBDA w : w.request # r) /\ UNCHANGED current
Removes(r) ==
  LET rest == SelectSeq(waiting, LAMBDA w : w.request # r) IN
  IF current.request = r THEN Shift(rest) ELSE waiting' = rest /\ UNCHANGED current

\* observe; a visible stage is read again together with its details, and may be newer.
Observe(r) ==
  /\ poll.pc = "observe" /\ r \in DOMAIN poll.status
  /\ LET read == poll.status[r]
         again == read # seen[r] /\ enabled /\ read # None
         now == IF again THEN NotificationStage(stage[r]) ELSE read
     IN /\ seen' = [seen EXCEPT ![r] = now]
        /\ CASE now = seen[r] \/ ~enabled      -> UNCHANGED <<current, waiting>>
             [] now # seen[r] /\ enabled /\ now = None -> Removes(r)
             [] now # seen[r] /\ enabled /\ now # None -> Enqueues(Note(r, now))
  /\ poll' = [poll EXCEPT !.status = [q \in DOMAIN poll.status \ {r} |-> poll.status[q]]]
  /\ UNCHANGED <<stage, enabled, displayed, timers, history, faults>>

\* The details cannot be read: the rest of the poll is given up.
ObserveFails ==
  /\ poll.pc = "observe" /\ enabled /\ faults < MaxFaults
  /\ \E r \in DOMAIN poll.status : poll.status[r] \notin {seen[r], None}
  /\ poll' = Quiet /\ faults' = faults + 1
  /\ UNCHANGED <<stage, toast, history>>

PollEnds ==
  /\ poll.pc = "observe" /\ DOMAIN poll.status = {}
  /\ poll' = Quiet
  /\ UNCHANGED <<stage, toast, history, faults>>

\* render_current, on the main thread; a result starts its lifetime.
Render ==
  /\ displayed # current
  /\ displayed' = current
  /\ IF current.stage = "result"
     THEN timers' = timers \cup {current} /\ toasted' = toasted \cup {current.request}
     ELSE UNCHANGED <<timers, toasted>>
  /\ UNCHANGED <<stage, seen, enabled, current, waiting, poll, closed, muted, faults>>

\* dismiss, by a timer: only the notification it was started for.
Expire(n) ==
  /\ n \in timers
  /\ IF current = n THEN Shift(waiting) ELSE UNCHANGED <<current, waiting>>
  /\ timers' = timers \ {n}
  /\ UNCHANGED <<stage, seen, enabled, displayed, poll, history, faults>>

\* dismiss_current: the window is closed by a key or its frame.  What goes is the current
\* notification, which may have come after the one that the window still displays.
Close ==
  /\ displayed # NoNote /\ current # NoNote
  /\ Shift(waiting)
  /\ closed' = IF current.stage = "result" /\ current # displayed
               THEN closed \cup {current.request} ELSE closed
  /\ UNCHANGED <<stage, seen, enabled, displayed, timers, poll, toasted, muted, faults>>

\* set_enabled
SetEnabled ==
  /\ ~(enabled /\ muted)
  /\ enabled' = ~enabled /\ muted' = TRUE
  /\ IF enabled THEN Shift(<<>>) ELSE UNCHANGED <<current, waiting>>
  /\ UNCHANGED <<stage, seen, displayed, timers, poll, toasted, closed, faults>>

Next ==
  \/ PollReads \/ ObserveFails \/ PollEnds \/ Render \/ Close \/ SetEnabled
  \/ \E r \in Request : Changes(r) \/ Observe(r) \/ Expire(Note(r, "result"))

Spec == Init /\ [][Next]_vars

\* The monitor runs for as long as the application; so do the main thread and the timers.
FairSpec ==
  /\ Spec
  /\ WF_vars(PollReads) /\ WF_vars(PollEnds) /\ WF_vars(Render)
  /\ \A r \in Request : WF_vars(Observe(r)) /\ WF_vars(Expire(Note(r, "result")))

-----------------------------------------------------------------------------
(* Properties                                                              *)

\* Every automatic result is displayed, however many come at once and whatever the poll missed
\* in between, unless notifications were turned off or it was dismissed in the moment between
\* its queueing and its rendering, together with the one on display before it; and progress does
\* not stay on display when a person has taken the request over.
Follows(r) ==
  /\ stage[r] = "automatic" ~> r \in toasted \cup closed \/ muted
  /\ displayed = Note(r, "progress") ~> displayed # Note(r, "progress") \/ stage[r] = "evaluating"
ToastsFollow == \A r \in Request : Follows(r)
=============================================================================
