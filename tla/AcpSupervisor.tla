---------------------------- MODULE AcpSupervisor ----------------------------
(***************************************************************************)
(* The reviewer's connection (plankton-core acp.rs): one supervisor thread *)
(* owns an agent process and runs the turns that callers send it through a *)
(* channel.  An agent either keeps several sessions, and then a clean one  *)
(* is prepared ahead of the next review, or one (pi-acp), and then turns   *)
(* are queued, because completing session/new or session/load closes every *)
(* other session.                                                          *)
(*                                                                         *)
(* The thread runs a single-threaded executor: the loop handles commands   *)
(* without yielding while the channel has any, and the tasks of the turns  *)
(* run while the loop waits.                                               *)
(***************************************************************************)
EXTENDS Naturals, Sequences, SequencesExt

CONSTANTS
  Turn,
  Kinds,        \* the commands that turns may be
  MaxSessions,  \* bound: sessions the agent creates
  MaxStarts,    \* bound: agent processes
  MaxFaults     \* bound: failed agents, shutdowns, dropped callers

VARIABLES
  single,       \* single_session_adapter, known once the agent is initialized
  kind,         \* which command a turn is
  process,      \* run_acp_supervisor and supervise_acp_connection
  holding,      \* the loop has not yielded since it handled a command
  channel, serial, pending, idle, prewarming,
  turn,         \* the task of a turn
  reply,        \* what the task sent back
  caller,       \* the future that waits for it
  agent,        \* the agent process: sessions, prompts, calls in flight
  starts, faults

loopVars  == <<process, holding, channel, serial, pending, idle, prewarming>>
config    == <<single, kind>>
bounds    == <<starts, faults>>
vars == <<config, loopVars, turn, reply, caller, agent, bounds>>

Kind == {"prompt", "staged", "chat", "resume"}
Prompting == {"deciding", "repairing", "enriching", "talking"}
NoTurn  == [pc |-> "none", session |-> 0, cancelled |-> FALSE, result |-> "none"]
NoReply == [decision |-> "none", cleanup |-> "none"]
NoCaller == [pc |-> "idle", bound |-> FALSE, proven |-> FALSE]
NoAgent == [open |-> {}, prompting |-> {}, calls |-> {}, made |-> 0, late |-> 0]

Command(type, r, s) == [type |-> type, turn |-> r, session |-> s]
Signal(type) == Command(type, "none", 0)

\* The command of a turn that was not started (pending_request_id).
IsTurn(command) == command.type = "turn"
Alive(r) == turn[r].pc \notin {"none", "queued", "ended"}
FreeWhenClosed == agent.open = {}     \* mutant: waits for closed sessions
Free == \A r \in Turn : ~Alive(r)

\* receiver_closed: nobody waits for the decision any more.
ReceiverClosed(r) == caller[r].pc # "waiting"

Init ==
  /\ single \in BOOLEAN /\ kind \in [Turn -> Kinds]
  /\ process = "absent" /\ holding = FALSE /\ channel = <<>> /\ serial = <<>>
  /\ pending = <<>> /\ idle = 0 /\ prewarming = FALSE
  /\ turn = [r \in Turn |-> NoTurn] /\ reply = [r \in Turn |-> NoReply]
  /\ caller = [r \in Turn |-> NoCaller]
  /\ agent = NoAgent /\ starts = 0 /\ faults = 0

-----------------------------------------------------------------------------
\* Answers.  reject_pending, PendingAcpReview::reject: a turn that never had a
\* session needs no cleanup.
WithoutSession == [decision |-> "error", cleanup |-> "proven"]
RejectAll(turns) ==
  reply' = [r \in Turn |-> IF r \in turns THEN WithoutSession ELSE reply[r]]
Ended(turns) ==
  turn' = [r \in Turn |-> IF r \in turns THEN [turn[r] EXCEPT !.pc = "ended"]
                          ELSE turn[r]]
QueuedIn(commands) == {c.turn : c \in {x \in Range(commands) : IsTurn(x)}}

\* acp_supervisor_commands: the registry starts a supervisor when none lives.
Submit(r) ==
  /\ caller[r].pc = "idle"
  /\ \/ process # "absent" /\ UNCHANGED <<process, starts>>
     \/ process = "absent" /\ starts < MaxStarts
          /\ process' = "starting" /\ starts' = starts + 1
  /\ channel' = Append(channel, Command("turn", r, 0))
  /\ turn' = [turn EXCEPT ![r].pc = "queued"]
  /\ caller' = [caller EXCEPT ![r] = [NoCaller EXCEPT !.pc = "waiting", !.bound = TRUE]]
  /\ UNCHANGED <<config, holding, serial, pending, idle, prewarming, reply, agent,
                 faults>>

-----------------------------------------------------------------------------
\* Callers: acp_supervisor_request, acp_supervisor_staged_request,
\* acp_supervisor_continuation_request, AcpStagedReview, AcpChatTurn.
CallerMoves(r, from, to) ==
  /\ caller[r].pc = from
  /\ caller' = [caller EXCEPT ![r].pc = to]
  /\ UNCHANGED <<config, process, holding, serial, pending, idle, prewarming, turn,
                 reply, agent, bounds>>

\* request_cancel, or the drop of AcpCancelOnDrop; lost when the channel closed.
SendCancel(r) ==
  channel' = IF caller[r].bound THEN Append(channel, Command("cancel", r, 0))
                                ELSE channel

ReceiveAnswer(r) ==
  /\ kind[r] # "staged" /\ reply[r].decision # "none"
  /\ CallerMoves(r, "waiting", "done") /\ UNCHANGED channel

ReceiveDecision(r) ==
  /\ kind[r] = "staged" /\ reply[r].decision = "ok"
  /\ CallerMoves(r, "waiting", "holding") /\ UNCHANGED channel

\* A failed or late decision: cancel, then wait for the proof of the cleanup.
CancelAndWait(r, from) ==
  /\ CallerMoves(r, from, IF caller[r].bound THEN "cleanup" ELSE "done")
  /\ SendCancel(r)

DecisionFails(r) ==
  /\ kind[r] = "staged" /\ reply[r].decision \in {"error", "none"}
  /\ CancelAndWait(r, "waiting")

\* The provider refuses the decision it got: cancel_and_wait.
DecisionRefused(r) == CancelAndWait(r, "holding")

CallerTimesOut(r) ==
  /\ kind[r] # "staged" /\ reply[r].decision = "none"
  /\ CallerMoves(r, "waiting", "done") /\ SendCancel(r)

\* finish_enrichment, with its own deadline.
EnrichmentEnds(r) ==
  /\ CallerMoves(r, "holding", "done")
  /\ IF reply[r].cleanup # "none" THEN UNCHANGED channel ELSE SendCancel(r)

ProvenAlways(r) ==   \* mutant: the acknowledgement itself is taken for the proof
  /\ caller[r].pc = "cleanup"
  /\ caller' = [caller EXCEPT ![r].pc = "done", ![r].proven = reply[r].cleanup # "none"]
  /\ UNCHANGED <<config, loopVars, turn, reply, agent, bounds>>
\* cancel_staged_request_and_wait: an acknowledgement, or its deadline.
CleanupAnswered(r) ==
  /\ caller[r].pc = "cleanup"
  /\ caller' = [caller EXCEPT ![r].pc = "done", ![r].proven = reply[r].cleanup = "proven"]
  /\ UNCHANGED <<config, loopVars, turn, reply, agent, bounds>>

\* The caller's future is dropped; a cleanup was already requested.
CallerDropped(r) ==
  /\ caller[r].pc \in {"waiting", "holding", "cleanup"}
  /\ faults < MaxFaults /\ faults' = faults + 1
  /\ caller' = [caller EXCEPT ![r].pc = "done"]
  /\ IF caller[r].pc = "cleanup" THEN UNCHANGED channel ELSE SendCancel(r)
  /\ UNCHANGED <<config, process, holding, serial, pending, idle, prewarming, turn,
                 reply, agent, starts>>

-----------------------------------------------------------------------------
\* supervise_acp_connection: one command.
Handles(command) ==
  /\ process = "supervising" /\ channel # <<>> /\ Head(channel) = command
  /\ channel' = Tail(channel)
  /\ UNCHANGED <<config, process, bounds>>

\* After a command the loop goes on with the next, or with the next queued turn,
\* and yields when there is none.
GoesOn(nextChannel, nextSerial, nextTurn) ==
  \/ nextChannel # <<>>
  \/ nextSerial # <<>> /\ \A r \in Turn : nextTurn[r].pc \in {"none", "queued", "ended"}

\* spawn_pending_acp_review and spawn_acp_chat_turn register the cancellation
\* before the task first runs.
Spawned(r, s) ==
  [turn EXCEPT ![r] = [NoTurn EXCEPT !.pc = IF s = 0 THEN "acquire" ELSE "acquired",
                                     !.session = s]]

\* A turn whose caller left is rejected at once; with a single session, a turn
\* that finds another running or waiting is queued behind it.
DropClosedTurn(r) ==
  /\ Handles(Command("turn", r, 0)) /\ ReceiverClosed(r)
  /\ RejectAll({r}) /\ Ended({r})
  /\ holding' = GoesOn(Tail(channel), serial, turn)
  /\ UNCHANGED <<serial, pending, idle, prewarming, caller, agent>>

MustQueue == single /\ (~Free \/ serial # <<>>)

QueueTurn(r) ==
  /\ Handles(Command("turn", r, 0)) /\ ~ReceiverClosed(r) /\ MustQueue
  /\ serial' = Append(serial, r)
  /\ holding' = GoesOn(Tail(channel), serial', turn)
  /\ UNCHANGED <<pending, idle, prewarming, turn, reply, caller, agent>>

\* A review takes the prepared session and another one is prepared; without one
\* it waits.  A chat acquires its session itself.
PrewarmedAgent ==
  IF single \/ prewarming THEN agent ELSE [agent EXCEPT !.calls = @ \cup {"prewarm"}]

StartReview(r) ==
  /\ IF single \/ idle # 0
       THEN turn' = Spawned(r, idle) /\ UNCHANGED pending
       ELSE pending' = Append(pending, r) /\ UNCHANGED turn
  /\ idle' = 0
  /\ agent' = PrewarmedAgent /\ prewarming' = ~single

StartChat(r) ==
  /\ turn' = Spawned(r, 0)
  /\ UNCHANGED <<pending, idle, agent, prewarming>>

Start(r) == IF kind[r] \in {"prompt", "staged"} THEN StartReview(r) ELSE StartChat(r)

StartTurn(r) ==
  /\ Handles(Command("turn", r, 0)) /\ ~ReceiverClosed(r) /\ ~MustQueue
  /\ Start(r)
  /\ holding' = GoesOn(Tail(channel), serial, turn')
  /\ UNCHANGED <<serial, reply, caller>>

\* The channel is empty and the agent free: the next queued turn.
PopSerial ==
  /\ process = "supervising" /\ single /\ channel = <<>> /\ serial # <<>> /\ Free
  /\ LET r == Head(serial) IN
       IF ReceiverClosed(r)
         THEN RejectAll({r}) /\ Ended({r}) /\ UNCHANGED <<pending, idle, agent, prewarming>>
         ELSE Start(r) /\ UNCHANGED reply
  /\ serial' = Tail(serial)
  /\ holding' = GoesOn(<<>>, Tail(serial), turn')
  /\ UNCHANGED <<config, process, channel, caller, bounds>>

\* active_sessions has the session of a turn from the time its task looks at it to
\* the end of the task.
Registered(r) == turn[r].pc \in Prompting \cup {"closing"}

\* VecDeque::remove at the position of the turn.
Removed(queue, r) ==
  IF r \in Range(queue) THEN RemoveAt(queue, CHOOSE i \in DOMAIN queue : queue[i] = r)
                        ELSE queue

\* Cancel: a waiting turn is rejected; a running one is told, and when it has a
\* session the loop waits for the agent to take the notification.
CancelCommand(r) ==
  /\ Handles(Command("cancel", r, 0))
  /\ IF r \in Range(serial) \cup Range(pending)
       THEN /\ RejectAll({r}) /\ Ended({r})
            /\ serial' = Removed(serial, r)
            /\ pending' = IF r \in Range(serial) THEN pending ELSE Removed(pending, r)
       ELSE /\ turn' = IF Alive(r) THEN [turn EXCEPT ![r].cancelled = TRUE] ELSE turn
            /\ UNCHANGED <<serial, pending, reply>>
  /\ holding' = (~Registered(r) /\ GoesOn(Tail(channel), serial', turn'))
  /\ UNCHANGED <<idle, prewarming, caller, agent>>

\* Prewarmed: the session goes to the first waiting review, or is kept.
PrewarmedCommand(s) ==
  /\ Handles(Command("prewarmed", "none", s))
  /\ IF pending = <<>>
       THEN /\ idle' = IF idle = 0 THEN s ELSE idle
            /\ agent' = IF idle # 0 /\ s # 0 THEN [agent EXCEPT !.open = @ \ {s}] ELSE agent
            /\ prewarming' = FALSE
            /\ UNCHANGED <<pending, turn, reply>>
       ELSE /\ pending' = Tail(pending)
            /\ IF s # 0
                 THEN turn' = Spawned(Head(pending), s) /\ UNCHANGED reply
                 ELSE RejectAll({Head(pending)}) /\ Ended({Head(pending)})
            /\ prewarming' = (s # 0 \/ Len(pending) > 1)
            /\ agent' = IF s # 0 \/ Len(pending) > 1
                          THEN [agent EXCEPT !.calls = @ \cup {"prewarm"}] ELSE agent
            /\ UNCHANGED idle
  /\ holding' = GoesOn(Tail(channel), serial, turn')
  /\ UNCHANGED <<serial, caller>>

\* IoClosed, Shutdown, or two idle minutes: every waiting turn is rejected and
\* every running one cancelled.
Drain(rest) ==
  LET waiting == Range(serial) \cup Range(pending) \cup QueuedIn(rest) IN
  /\ process' = "draining" /\ channel' = <<>> /\ serial' = <<>> /\ pending' = <<>>
  /\ holding' = FALSE
  /\ RejectAll(waiting)
  /\ turn' = [r \in Turn |-> CASE r \in waiting -> [turn[r] EXCEPT !.pc = "ended"]
                               [] Alive(r)      -> [turn[r] EXCEPT !.cancelled = TRUE]
                               [] OTHER         -> turn[r]]
  /\ UNCHANGED <<config, idle, prewarming, caller, agent, bounds>>

StopCommand ==
  /\ process = "supervising" /\ channel # <<>>
  /\ Head(channel).type \in {"io_closed", "shutdown"}
  /\ Drain(Tail(channel))

IdleTimeout ==
  /\ process = "supervising" /\ channel = <<>> /\ serial = <<>> /\ pending = <<>>
  /\ Free /\ ~prewarming
  /\ Drain(<<>>)

Loop ==
  \/ \E r \in Turn : DropClosedTurn(r) \/ QueueTurn(r) \/ StartTurn(r) \/ CancelCommand(r)
  \/ \E s \in 0..MaxSessions : PrewarmedCommand(s)
  \/ PopSerial \/ StopCommand

-----------------------------------------------------------------------------
\* run_acp_supervisor: the child is spawned and initialized before the first
\* command is read; an agent that cannot be spawned leaves a thread that rejects.
Initialized ==
  /\ process = "starting"
  /\ process' = "supervising"
  /\ prewarming' = ~single
  /\ agent' = IF single THEN agent ELSE [agent EXCEPT !.calls = {"prewarm"}]
  /\ UNCHANGED <<config, holding, channel, serial, pending, idle, turn, reply, caller,
                 bounds>>

SpawnFails ==
  /\ process = "starting" /\ faults < MaxFaults
  /\ process' = "rejecting" /\ faults' = faults + 1
  /\ UNCHANGED <<config, holding, channel, serial, pending, idle, prewarming, turn,
                 reply, caller, agent, starts>>

RejectCommand ==
  /\ process = "rejecting" /\ channel # <<>>
  /\ channel' = Tail(channel)
  /\ LET r == QueuedIn(<<Head(channel)>>) IN RejectAll(r) /\ Ended(r)
  /\ UNCHANGED <<config, process, holding, serial, pending, idle, prewarming, caller,
                 agent, bounds>>

\* The process group is killed and the thread ends: its tasks, and with them
\* every unanswered turn, are dropped.
Close ==
  /\ \/ process = "draining" /\ UNCHANGED faults
     \/ /\ process \in {"starting", "supervising", "rejecting"}  \* initialize fails,
        /\ faults < MaxFaults /\ faults' = faults + 1            \* or shutdown's grace
  /\ process' = "absent"
  /\ holding' = FALSE /\ channel' = <<>> /\ serial' = <<>> /\ pending' = <<>>
  /\ idle' = 0 /\ prewarming' = FALSE /\ agent' = NoAgent
  /\ turn' = [r \in Turn |-> IF turn[r].pc = "none" THEN turn[r]
                             ELSE [NoTurn EXCEPT !.pc = "ended"]]
  /\ caller' = [r \in Turn |->
       [caller[r] EXCEPT !.bound = FALSE,
          !.pc = CASE @ = "waiting" /\ reply[r].decision = "none" -> "done"
                   [] @ \in {"holding", "cleanup"} /\ reply[r].cleanup = "none" -> "done"
                   [] OTHER -> @]]
  /\ UNCHANGED <<config, reply, starts>>

\* shutdown_acp_supervisor when the program exits, and an agent that dies.
Stop(type) ==
  /\ process \in {"starting", "supervising"} /\ faults < MaxFaults
  /\ faults' = faults + 1
  /\ channel' = Append(channel, Signal(type))
  /\ UNCHANGED <<config, process, holding, serial, pending, idle, prewarming, turn,
                 reply, caller, agent, starts>>

-----------------------------------------------------------------------------
\* The tasks of the turns.
Runs(r, pc) ==
  /\ process \in {"supervising", "draining"} /\ ~holding /\ turn[r].pc = pc
  /\ UNCHANGED <<config, process, holding, serial, pending, idle, prewarming, caller,
                 bounds>>

\* TurnFinished only wakes the loop, which looks at the slot itself (PopSerial).
\* A task that could not tell whether the agent still creates its session retires
\* a single-session agent before it frees the slot.
EndsKeepingAgent(retire) == UNCHANGED channel    \* mutant: the agent is kept
Ends(retire) ==
  channel' = IF retire THEN Append(channel, Signal("shutdown")) ELSE channel

Fails(r, retire) ==
  /\ turn' = [turn EXCEPT ![r].pc = "ended"]
  /\ reply' = [reply EXCEPT ![r] = WithoutSession]
  /\ Ends(retire)

\* create_acp_session or session/load.  The staged review asks for its session
\* even when it was cancelled while it waited.
Acquire(r) ==
  /\ Runs(r, "acquire")
  /\ IF turn[r].cancelled /\ kind[r] # "staged"
       THEN Fails(r, FALSE) /\ UNCHANGED agent
       ELSE /\ turn' = [turn EXCEPT ![r].pc = "acquiring"]
            /\ agent' = [agent EXCEPT !.calls = @ \cup {r}]
            /\ UNCHANGED <<channel, reply>>

\* Completing session/new or session/load closes the others of a single-session
\* agent, and what they were doing.
Opened(a, s) ==
  [a EXCEPT !.open = IF single THEN {s} ELSE @ \cup {s},
            !.prompting = IF single THEN @ \cap {s} ELSE @,
            !.made = s]
NextSession == agent.made + 1

StartsPrompt(r) == IF kind[r] \in {"prompt", "staged"} THEN "deciding" ELSE "talking"

\* With several sessions only a select on the cancellation can end the wait; with
\* one the call is awaited and the cancellation looked at afterwards.
AcquireSucceeds(r) ==
  /\ Runs(r, "acquiring") /\ NextSession <= MaxSessions
  /\ LET s == NextSession
         opened == [Opened(agent, s) EXCEPT !.calls = @ \ {r}]
     IN CASE turn[r].cancelled /\ (single \/ kind[r] = "resume") ->
               /\ turn' = [turn EXCEPT ![r].pc = "closing", ![r].session = s,
                                       ![r].result = "error"]
               /\ agent' = opened
          [] OTHER ->
               /\ turn' = [turn EXCEPT ![r].session = s,
                    ![r].pc = IF kind[r] = "resume" THEN "acquired" ELSE StartsPrompt(r)]
               /\ agent' = IF kind[r] = "resume" THEN opened
                           ELSE [opened EXCEPT !.prompting = @ \cup {s}]
  /\ UNCHANGED <<channel, reply>>

\* The agent refuses, or its options cannot be configured; in the second case the
\* session stays open.
AcquireRefused(r) ==
  /\ Runs(r, "acquiring")
  /\ Fails(r, FALSE)
  /\ \/ agent' = [agent EXCEPT !.calls = @ \ {r}]
     \/ /\ NextSession <= MaxSessions
        /\ agent' = [Opened(agent, NextSession) EXCEPT !.calls = @ \ {r}]

\* A call that is given up goes on at the agent.
Abandoned(r) == [agent EXCEPT !.calls = @ \ {r}, !.late = @ + 1]

AcquireTimesOut(r) ==
  /\ Runs(r, "acquiring")
  /\ Fails(r, single)
  /\ agent' = Abandoned(r)

AcquireCancelledAnyhow(r) ==   \* mutant: a single-session call is given up too
  /\ Runs(r, "acquiring") /\ turn[r].cancelled
  /\ Fails(r, FALSE)
  /\ agent' = Abandoned(r)
AcquireCancelled(r) ==
  /\ Runs(r, "acquiring") /\ ~single /\ turn[r].cancelled
  /\ Fails(r, FALSE)
  /\ agent' = Abandoned(r)

\* The session is registered and the prompt sent, unless the turn was cancelled
\* before the task first ran (or while a loaded session was configured).
Begin(r) ==
  /\ Runs(r, "acquired")
  /\ IF turn[r].cancelled
       THEN /\ UNCHANGED agent
            /\ IF kind[r] = "prompt" THEN Fails(r, FALSE)
               ELSE /\ turn' = [turn EXCEPT ![r].pc = "closing", ![r].result = "error"]
                    /\ reply' = [reply EXCEPT ![r].decision =
                                   IF kind[r] = "staged" THEN "error" ELSE @]
                    /\ UNCHANGED channel
       ELSE /\ turn' = [turn EXCEPT ![r].pc = StartsPrompt(r)]
            /\ agent' = [agent EXCEPT !.prompting = @ \cup {turn[r].session}]
            /\ UNCHANGED <<channel, reply>>

\* session/prompt ends: an answer of the agent, a timeout, or the cancellation.
\* After the last two the agent was asked to stop, and may still be working.
Quiet(r) == [agent EXCEPT !.prompting = @ \ {turn[r].session}]
NowClosing(r, result) ==
  turn' = [turn EXCEPT ![r].pc = "closing", ![r].result = result]

PromptGivenUp(r) ==
  /\ turn[r].pc \in Prompting /\ Runs(r, turn[r].pc)
  /\ NowClosing(r, "error")
  /\ UNCHANGED <<channel, reply, agent>>

\* An unusable decision is repaired once, in the same session.
DecisionInvalid(r) ==
  /\ kind[r] = "staged" /\ turn[r].pc = "deciding" /\ Runs(r, "deciding")
  /\ turn' = [turn EXCEPT ![r].pc = "repairing"]
  /\ UNCHANGED <<channel, reply, agent>>

AnswerUnusable(r) ==
  /\ turn[r].pc \in Prompting /\ Runs(r, turn[r].pc)
  /\ agent' = Quiet(r)
  /\ NowClosing(r, "error")
  /\ UNCHANGED <<channel, reply>>

\* A decision is handed to its caller, and enrichment follows in the same session;
\* when the caller is gone, the session is closed.
DecisionValid(r) ==
  /\ kind[r] = "staged" /\ turn[r].pc \in {"deciding", "repairing"} /\ Runs(r, turn[r].pc)
  /\ IF ReceiverClosed(r)
       THEN NowClosing(r, "error") /\ agent' = Quiet(r) /\ UNCHANGED reply
       ELSE /\ turn' = [turn EXCEPT ![r].pc = "enriching"]
            /\ reply' = [reply EXCEPT ![r].decision = "ok"]
            /\ UNCHANGED agent
  /\ UNCHANGED channel

TurnAnswered(r) ==
  /\ \/ turn[r].pc \in {"enriching", "talking"}
     \/ turn[r].pc = "deciding" /\ kind[r] = "prompt"
  /\ Runs(r, turn[r].pc)
  /\ agent' = Quiet(r)
  /\ NowClosing(r, "ok")
  /\ UNCHANGED <<channel, reply>>

\* close_acp_session and complete_staged_cleanup: the agent confirms, or does not
\* within its deadline; then the answer is sent and the slot is freed.
Answer(r, cleanup) ==
  reply' = [reply EXCEPT ![r] =
    [decision |-> IF @.decision # "none" THEN @.decision ELSE turn[r].result,
     cleanup |-> cleanup]]

SessionClosed(r) ==
  /\ Runs(r, "closing")
  /\ agent' = [agent EXCEPT !.open = @ \ {turn[r].session},
                            !.prompting = @ \ {turn[r].session}]
  /\ Answer(r, "proven")
  /\ turn' = [turn EXCEPT ![r].pc = "ended"] /\ Ends(FALSE)

SessionUnconfirmed(r) ==
  /\ Runs(r, "closing")
  /\ Answer(r, "unproven")
  /\ turn' = [turn EXCEPT ![r].pc = "ended"] /\ Ends(FALSE)
  /\ UNCHANGED agent

Task(r) ==
  \/ Acquire(r) \/ AcquireTimesOut(r) \/ AcquireCancelled(r) \/ Begin(r)
  \/ PromptGivenUp(r) \/ SessionUnconfirmed(r)

Response(r) ==
  \/ AcquireSucceeds(r) \/ AcquireRefused(r)
  \/ DecisionInvalid(r) \/ AnswerUnusable(r) \/ DecisionValid(r) \/ TurnAnswered(r)
  \/ SessionClosed(r)

\* schedule_acp_prewarm.
PrewarmEnds ==
  /\ process = "supervising" /\ ~holding /\ "prewarm" \in agent.calls
  /\ \/ /\ NextSession <= MaxSessions
        /\ channel' = Append(channel, Command("prewarmed", "none", NextSession))
        /\ agent' = [Opened(agent, NextSession) EXCEPT !.calls = @ \ {"prewarm"}]
     \/ /\ channel' = Append(channel, Command("prewarmed", "none", 0))
        /\ agent' = [agent EXCEPT !.calls = @ \ {"prewarm"}]
  /\ UNCHANGED <<config, process, holding, serial, pending, idle, prewarming, turn,
                 reply, caller, bounds>>

\* The agent: a call that was given up completes, a cancelled prompt ends.
LateCompletion ==
  /\ agent.late > 0 /\ NextSession <= MaxSessions
  /\ agent' = [Opened(agent, NextSession) EXCEPT !.late = @ - 1]
  /\ UNCHANGED <<config, loopVars, turn, reply, caller, bounds>>

CancelledPromptEnds ==
  /\ \E s \in agent.prompting :
       /\ \A r \in Turn : turn[r].session = s => turn[r].pc \notin Prompting
       /\ agent' = [agent EXCEPT !.prompting = @ \ {s}]
  /\ UNCHANGED <<config, loopVars, turn, reply, caller, bounds>>

-----------------------------------------------------------------------------
Next ==
  \/ \E r \in Turn :
       \/ Submit(r) \/ ReceiveAnswer(r) \/ ReceiveDecision(r) \/ DecisionFails(r)
       \/ DecisionRefused(r) \/ CallerTimesOut(r) \/ EnrichmentEnds(r)
       \/ CleanupAnswered(r) \/ CallerDropped(r) \/ Task(r) \/ Response(r)
  \/ Loop \/ IdleTimeout \/ Initialized \/ SpawnFails \/ RejectCommand \/ Close
  \/ (\E type \in {"io_closed", "shutdown"} : Stop(type))
  \/ PrewarmEnds \/ LateCompletion \/ CancelledPromptEnds

Spec == Init /\ [][Next]_vars

\* The executor polls the loop and every task, whose calls all have deadlines.
FairSpec ==
  /\ Spec
  /\ WF_vars(Loop) /\ WF_vars(PrewarmEnds) /\ WF_vars(Initialized)
  /\ WF_vars(process = "draining" /\ Close)
  /\ \A r \in Turn : WF_vars(Task(r))

-----------------------------------------------------------------------------
\* A session that a single-session agent prompts in is never closed under it: no
\* other session/new or session/load completes while the turn runs, not even one
\* that was given up (spawn_pending_acp_review: "a late Pi session/new could
\* destroy any subsequent turn").
PromptKeepsSession ==
  \A r \in Turn :
    turn[r].pc \in Prompting /\ process = "supervising" =>
      turn[r].session \in agent.open

\* A caller that was told its cleanup succeeded, and may retry, has no prompt left
\* running at the agent, and none will start (cancel_staged_request_and_wait: a
\* retry "requires this proof").
RetryFindsAgentQuiet ==
  \A r \in Turn :
    caller[r].proven =>
      turn[r].pc \in {"none", "ended"} /\ turn[r].session \notin agent.prompting

-----------------------------------------------------------------------------
(* What makes the two inductive: the turns that wait, the sessions, the    *)
(* agent with one session.                                                 *)
NotTurns == {"none", "prewarm"} \cap Turn = {}

Commands ==
  [type : {"turn", "cancel", "prewarmed", "io_closed", "shutdown"},
   turn : Turn \cup {"none"}, session : Nat]
TurnState ==
  [pc : {"none", "queued", "acquire", "acquiring", "acquired", "closing", "ended"} \cup Prompting,
   session : Nat, cancelled : BOOLEAN, result : {"none", "ok", "error"}]
AgentState ==
  [open : SUBSET Nat, prompting : SUBSET Nat, calls : SUBSET (Turn \cup {"prewarm"}),
   made : Nat, late : Nat]
TypeOK ==
  /\ single \in BOOLEAN /\ holding \in BOOLEAN /\ prewarming \in BOOLEAN
  /\ process \in {"absent", "starting", "supervising", "draining", "rejecting"}
  /\ channel \in Seq(Commands) /\ serial \in Seq(Turn) /\ pending \in Seq(Turn)
  /\ idle \in Nat /\ agent \in AgentState
  /\ turn \in [Turn -> TurnState]
  /\ reply \in [Turn -> [decision : {"none", "ok", "error"},
                         cleanup : {"none", "proven", "unproven"}]]
  /\ caller \in [Turn -> [pc : {"idle", "waiting", "holding", "cleanup", "done"},
                          bound : BOOLEAN, proven : BOOLEAN]]

\* No turn is sent twice, nor a session.
Repeats(c, d) ==
  \/ IsTurn(c) /\ IsTurn(d) /\ c.turn = d.turn
  \/ c.type = "prewarmed" /\ d.type = "prewarmed" /\ c.session = d.session /\ c.session # 0
Once(commands) == \A i, j \in DOMAIN commands : Repeats(commands[i], commands[j]) => i = j
Ready(commands) == {c.session : c \in {x \in Range(commands) : x.type = "prewarmed"}} \ {0}
Stops(commands) == \E c \in Range(commands) : c.type \in {"io_closed", "shutdown"}

\* A turn that waits for a session is in one place, once.
Queues == Range(serial) \cup Range(pending)
WaitsOnce ==
  /\ Once(channel) /\ IsInjective(serial) /\ IsInjective(pending)
  /\ QueuedIn(channel) \subseteq Turn /\ Queues \cap QueuedIn(channel) = {}
  /\ \A r \in Queues \cup QueuedIn(channel) : turn[r].pc = "queued"
  /\ IF single THEN pending = <<>> ELSE serial = <<>>

\* A session belongs to one turn, to the loop or to a message on its way there.
Held(s) == \E r \in Turn : turn[r].session = s
OneOwner ==
  /\ \A r, q \in Turn : turn[r].session = turn[q].session /\ turn[r].session # 0 => r = q
  /\ idle # 0 => ~Held(idle) /\ idle \notin Ready(channel)
  /\ \A s \in Ready(channel) : ~Held(s)

\* Sessions are numbered as the agent makes them; only prompts run in them.
Made ==
  /\ \A r \in Turn : turn[r].session <= agent.made
  /\ \A s \in Ready(channel) \cup {idle} : s <= agent.made /\ s \notin agent.prompting
  /\ \A s \in agent.prompting : s # 0 /\ s <= agent.made
  /\ \A r \in Turn :
       /\ turn[r].pc \in {"none", "queued", "acquire", "acquiring"} => turn[r].session = 0
       /\ turn[r].pc \in Prompting \cup {"acquired"} => turn[r].session # 0
       /\ turn[r].pc = "acquired" => turn[r].session \notin agent.prompting

\* Who has a session that is still to be used finds it open.
Opens ==
  process = "supervising" =>
    /\ \A r \in Turn : turn[r].pc \in Prompting \cup {"acquired"} => turn[r].session \in agent.open
    /\ \A s \in Ready(channel) \cup ({idle} \ {0}) : s \in agent.open

\* An agent with one session works for one turn, and for none that could be surprised by a
\* call that was given up: the loop stops before it lets a task run.
OneAtATime ==
  single =>
    /\ idle = 0 /\ "prewarm" \notin agent.calls
    /\ \A c \in Range(channel) : c.type # "prewarmed"
    /\ process = "supervising" =>
         /\ \A r, q \in Turn : Alive(r) /\ Alive(q) => r = q
         /\ agent.late > 0 =>
              Stops(channel) /\ \A r \in Turn : Alive(r) => turn[r].pc = "acquire" /\ holding

\* Between two processes there is nothing.
Between ==
  process \notin {"supervising", "draining"} =>
    /\ agent = NoAgent /\ idle = 0 /\ Queues = {} /\ Ready(channel) = {}
    /\ \A r \in Turn : ~Alive(r) /\ turn[r].session = 0

\* A turn is submitted once, and what was proven of it stays true.
ProofHolds ==
  \A r \in Turn :
    /\ caller[r].pc = "idle" =>
         turn[r].pc = "none" /\ reply[r].cleanup = "none" /\ ~caller[r].proven
    /\ caller[r].proven => reply[r].cleanup = "proven"
    /\ reply[r].cleanup = "proven" =>
         turn[r].pc = "ended" /\ turn[r].session \notin agent.prompting

IInv ==
  /\ TypeOK /\ WaitsOnce /\ OneOwner /\ Made /\ Opens /\ OneAtATime /\ Between /\ ProofHolds

\* A turn that waits for its turn at the agent is eventually started or answered.
Proceeds(r) == turn[r].pc = "queued" /\ process = "supervising" ~> turn[r].pc # "queued"
WaitingTurnProceeds == \A r \in Turn : Proceeds(r)
=============================================================================
