--------------------------- MODULE ApprovalChat ---------------------------
(***************************************************************************)
(* The conversations a reviewer holds with the agent about a request:      *)
(* ApprovalChatRuntime and the chat commands of the desktop (main.rs).     *)
(* A conversation is shared state behind a lock; the handler of a message  *)
(* awaits the store and the agent between its accesses, while the reviewer *)
(* stops it, sends again or decides the request.                           *)
(*                                                                         *)
(* Of a transcript only its unfinished messages are kept, by the turn they *)
(* belong to.                                                              *)
(***************************************************************************)
EXTENDS Naturals, FiniteSets

CONSTANTS
  Chat,         \* conversations about one request
  Handler,      \* running calls of send_approval_chat_message
  NoHandler,
  LateFailures, \* may the settling of one turn fail when the next is already on
  MaxTurns,     \* bound: messages sent
  MaxFaults     \* bound: agent failures, failed checkpoints and restarts

VARIABLES
  state,        \* ApprovalChatState of each conversation
  cancel,       \* the handler that holds the receiver of cancel_turn
  open,         \* the turns with messages "queued" or "streaming"
  latest,       \* the turn of the last message of the user
  saved,        \* the history file: what a restart would read
  handler,      \* where each handler is
  review,       \* "running": the reviewer still collects details
  pending,      \* the request is not decided yet
  visible,      \* the approval window still lists the request
  turns, faults

chat == <<state, cancel, open, latest>>
request == <<review, pending, visible>>
vars == <<chat, saved, handler, request, turns, faults>>

Busy == {"queued", "running", "stopping"}
IdleHandler == [pc |-> "none", chat |-> NoHandler, cancelled |-> FALSE, turn |-> 0]

Init ==
  /\ state = [c \in Chat |-> "idle"] /\ cancel = [c \in Chat |-> NoHandler]
  /\ open = [c \in Chat |-> {}] /\ latest = [c \in Chat |-> 0]
  /\ saved = [c \in Chat |-> [state |-> "idle", open |-> {}]]
  /\ handler = [h \in Handler |-> IdleHandler]
  /\ review \in {"running", "over"} /\ pending = TRUE /\ visible = TRUE
  /\ turns = 0 /\ faults = 0

Goes(h, pc) == handler' = [handler EXCEPT ![h].pc = pc]
Ends(h) == handler' = [handler EXCEPT ![h] = IdleHandler]
Of(h) == handler[h].chat
Faulty == faults < MaxFaults /\ faults' = faults + 1

\* checkpoint: what is shown as running is written to the history file only when the last
\* write is half a second old; every other change is.
Saves == saved' = [c \in Chat |-> [state |-> state'[c], open |-> open'[c]]]
MaySave == Saves \/ UNCHANGED saved

\* The three ends of a turn; each gives up the channel that would cancel it.
Closes(c, s, rest) ==
  /\ state' = [state EXCEPT ![c] = s]
  /\ open' = [open EXCEPT ![c] = rest]
  /\ cancel' = [cancel EXCEPT ![c] = NoHandler]
  /\ UNCHANGED latest
Completes(c) == Closes(c, "idle", {})
Stopped(c) == Closes(c, "idle", {})
FailsChat(c) == Closes(c, "failed", open[c] \ {latest[c]})

-----------------------------------------------------------------------------
(* send_approval_chat_message                                              *)

\* begin refuses a message while a turn is on.
BusyUnlessStopping == {"queued", "running"}
Refuses == Busy
Begin(h, c) ==
  /\ handler[h].pc = "none" /\ turns < MaxTurns
  /\ state[c] \notin Refuses
  /\ LET queued == review = "running" IN
     /\ state' = [state EXCEPT ![c] = IF queued THEN "queued" ELSE "running"]
     /\ handler' = [handler EXCEPT ![h] = [pc |-> IF queued THEN "wait" ELSE "connect",
                                            chat |-> c, cancelled |-> FALSE, turn |-> turns + 1]]
  /\ turns' = turns + 1
  /\ open' = [open EXCEPT ![c] = @ \cup {turns + 1}]
  /\ latest' = [latest EXCEPT ![c] = turns + 1]
  /\ cancel' = [cancel EXCEPT ![c] = h]
  /\ IF review = "running" THEN Saves ELSE MaySave
  /\ UNCHANGED <<request, faults>>

\* An error after begin, of a write of the history, of the settings or of start_queued: the
\* turn is not settled.
FailsTurn(h) ==
  /\ FailsChat(Of(h)) /\ Saves
  /\ Ends(h)
  /\ UNCHANGED <<request, turns>>

HistoryFails(h) ==
  /\ handler[h].pc \in {"wait", "connect", "stream"} /\ Faulty
  /\ FailsTurn(h)

\* Two awaits apart from the cancellation it has seen: the request is read first.
WaitReady(h) ==
  /\ handler[h].pc = "wait" /\ ~handler[h].cancelled /\ review = "over"
  /\ Goes(h, "start")
  /\ UNCHANGED <<chat, saved, request, turns, faults>>

WaitTimesOut(h) ==
  /\ handler[h].pc = "wait" /\ ~handler[h].cancelled /\ review = "running"
  /\ FailsChat(Of(h)) /\ Saves /\ Goes(h, "settle")
  /\ UNCHANGED <<request, turns, faults>>

StartQueued(h) ==
  /\ handler[h].pc = "start" /\ state[Of(h)] = "queued"
  /\ state' = [state EXCEPT ![Of(h)] = "running"]
  /\ Goes(h, "connect")
  /\ UNCHANGED open /\ MaySave
  /\ UNCHANGED <<cancel, latest, request, turns, faults>>

\* The turn was stopped after the last look at the channel.
StartRefused(h) ==
  /\ handler[h].pc = "start" /\ state[Of(h)] # "queued"
  /\ FailsTurn(h)
  /\ UNCHANGED faults

Cancelled(h) ==
  /\ handler[h].pc \in {"wait", "stream", "finish"} /\ handler[h].cancelled
  /\ Stopped(Of(h)) /\ Saves /\ Goes(h, "settle")
  /\ UNCHANGED <<request, turns, faults>>

Connect(h) ==
  /\ handler[h].pc = "connect"
  /\ Goes(h, "stream")
  /\ UNCHANGED <<chat, saved, request, turns, faults>>

\* The agent cannot be reached, or its turn ends in an error; a stop comes first.
AgentFails(h) ==
  /\ handler[h].pc \in {"connect", "finish"} /\ Faulty
  /\ IF handler[h].cancelled THEN Stopped(Of(h)) ELSE FailsChat(Of(h))
  /\ Saves /\ Goes(h, "settle")
  /\ UNCHANGED <<request, turns>>

\* append_event: a delta opens a message; the update of a tool call may close the last one open.
Streams(h) ==
  /\ handler[h].pc = "stream" /\ ~handler[h].cancelled
  /\ \E unfinished \in {{}, {handler[h].turn}} :
       open' = [open EXCEPT ![Of(h)] = (@ \ {handler[h].turn}) \cup unfinished]
  /\ UNCHANGED state /\ MaySave
  /\ UNCHANGED <<cancel, latest, handler, request, turns, faults>>

EventsEnd(h) ==
  /\ handler[h].pc = "stream" /\ ~handler[h].cancelled
  /\ Goes(h, "finish")
  /\ UNCHANGED <<chat, saved, request, turns, faults>>

Complete(h) ==
  /\ handler[h].pc = "finish" /\ ~handler[h].cancelled
  /\ Completes(Of(h))
  /\ Saves /\ Goes(h, "settle")
  /\ UNCHANGED <<request, turns, faults>>

\* settle_approval_chat_after_turn: a decided request leaves the window with its last turn.
Over == ~pending /\ review = "over" /\ \A c \in Chat : state[c] \notin Busy
Settle(h) ==
  /\ handler[h].pc = "settle"
  /\ IF Over
     THEN state' = [state EXCEPT ![Of(h)] = "released"] /\ visible' = FALSE
     ELSE UNCHANGED <<state, visible>>
  /\ UNCHANGED open /\ Saves
  /\ Ends(h)
  /\ UNCHANGED <<cancel, open, latest, review, pending, turns, faults>>

\* The request cannot be read: the error of the finished turn fails the conversation.
SettleFails(h) ==
  /\ handler[h].pc = "settle" /\ Faulty
  /\ LateFailures \/ state[Of(h)] \notin Busy
  /\ FailsTurn(h)

-----------------------------------------------------------------------------
(* The reviewer, the review and the process                                *)

\* request_stop
Stop(c) ==
  /\ state[c] \in {"queued", "running"}
  /\ state' = [state EXCEPT ![c] = "stopping"]
  /\ handler' = IF cancel[c] \in Handler
                THEN [handler EXCEPT ![cancel[c]].cancelled = TRUE] ELSE handler
  /\ UNCHANGED <<cancel, open, latest>> /\ Saves
  /\ UNCHANGED <<request, turns, faults>>

\* approve_request, reject_request
Decide ==
  /\ pending
  /\ pending' = FALSE /\ visible' = FALSE
  /\ \E c \in Chat :
       state' = IF review = "over" /\ \A d \in Chat : state[d] \notin Busy
                THEN [state EXCEPT ![c] = "released"] ELSE state
  /\ UNCHANGED <<cancel, open, latest, saved, handler, review, turns, faults>>

ReviewEnds ==
  /\ review = "running"
  /\ review' = "over"
  /\ UNCHANGED <<chat, saved, handler, pending, visible, turns, faults>>

\* ApprovalChatRuntime::open: the turns of the last process are over.
RecoveredRunning(s) == IF s \in {"queued", "running"} THEN "idle" ELSE s
Recovered(s) == IF s \in Busy THEN "idle" ELSE s
Restart ==
  /\ Faulty
  /\ state' = [c \in Chat |-> Recovered(saved[c].state)]
  /\ open' = [c \in Chat |-> IF saved[c].state \in Busy THEN {} ELSE saved[c].open]
  /\ cancel' = [c \in Chat |-> NoHandler]
  /\ handler' = [h \in Handler |-> IdleHandler]
  /\ UNCHANGED <<latest, saved, request, turns>>

Step(h) ==
  \/ WaitReady(h) \/ WaitTimesOut(h) \/ StartQueued(h) \/ StartRefused(h) \/ Cancelled(h)
  \/ Connect(h) \/ Streams(h) \/ EventsEnd(h) \/ Complete(h) \/ Settle(h)

Next ==
  \/ \E h \in Handler : \/ \E c \in Chat : Begin(h, c)
                        \/ Step(h) \/ HistoryFails(h) \/ AgentFails(h) \/ SettleFails(h)
  \/ \E c \in Chat : Stop(c)
  \/ Decide \/ ReviewEnds \/ Restart

Spec == Init /\ [][Next]_vars

-----------------------------------------------------------------------------
(* Properties                                                              *)

Owners(c) == {h \in Handler : /\ Of(h) = c
                              /\ handler[h].pc \in {"wait", "start", "connect", "stream", "finish"}}

\* A conversation that shows a turn as going on has one handler working on it, which its
\* "stop" reaches; one that shows none has no handler writing to it and no message that still
\* waits for its end: through stops that race the end of the review, failures and restarts.
TurnOwnsConversation ==
  \A c \in Chat :
    IF state[c] \in Busy
    THEN Cardinality(Owners(c)) = 1 /\ cancel[c] \in Owners(c)
    ELSE Owners(c) = {} /\ open[c] = {}

-----------------------------------------------------------------------------
(* The inductive invariant.  A turn that ends removes the messages of the  *)
(* last turn only, so that none is left needs that no older one is open    *)
(* (OpenIsLatest), and that the handler writes to the last turn            *)
(* (OwnersAreLatest); a restart takes up what the history file says, which *)
(* must not show an unfinished message of a turn that it says is over      *)
(* (SavedIsSettled).                                                       *)

State == {"idle", "queued", "running", "stopping", "failed", "released"}
PC    == {"none", "wait", "start", "connect", "stream", "finish", "settle"}

TypeOK ==
  /\ state \in [Chat -> State]
  /\ cancel \in [Chat -> Handler \cup {NoHandler}]
  /\ open \in [Chat -> SUBSET Nat]
  /\ latest \in [Chat -> Nat]
  /\ saved \in [Chat -> [state : State, open : SUBSET Nat]]
  /\ handler \in [Handler -> [pc : PC, chat : Chat \cup {NoHandler},
                              cancelled : BOOLEAN, turn : Nat]]
  /\ turns \in Nat
  /\ \A h \in Handler : handler[h].pc # "none" => handler[h].chat \in Chat

\* The one handler of a turn that goes on is the one a stop reaches.
OwnedByCanceller == \A c \in Chat :
  /\ \A h \in Owners(c) : state[c] \in Busy /\ cancel[c] = h
  /\ state[c] \in Busy => cancel[c] \in Owners(c)

OpenIsLatest == \A c \in Chat :
  /\ open[c] \subseteq {latest[c]}
  /\ state[c] \notin Busy => open[c] = {}

OwnersAreLatest == \A c \in Chat : \A h \in Owners(c) : handler[h].turn = latest[c]

SavedIsSettled == \A c \in Chat : saved[c].state \notin Busy => saved[c].open = {}

IInv == TypeOK /\ OwnedByCanceller /\ OpenIsLatest /\ OwnersAreLatest /\ SavedIsSettled
=============================================================================
