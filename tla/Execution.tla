------------------------------ MODULE Execution ------------------------------
(***************************************************************************)
(* Credential execution (plankton-daemon routes/execution.rs): a client    *)
(* submits a consumer command, polls, and the daemon launches the reviewed *)
(* plan once its request is approved.  The registry of plans lives in the  *)
(* daemon's memory; requests and operations live in the store.             *)
(*                                                                         *)
(* The approval of a request is the abstract store of ApprovalOutcome,     *)
(* which Approval implements: Store!Submit and Store!Decide are its steps. *)
(* A plan is identified with its request.                                  *)
(***************************************************************************)
EXTENDS Naturals, FiniteSets

CONSTANTS
  Plan,
  MaxPlans,     \* MAX_PLANS: entries of the registry
  MaxRunning,   \* MAX_RUNNING: consumers at once
  MaxCrashes,   \* bound: stops and kills of the daemon
  MaxFaults     \* bound: failed store calls, cancelled handlers, lost denials

VARIABLES
  approval, decider,  \* table access_requests, as ApprovalOutcome
  operation,    \* table interrupted_operations, credential_execution rows
  entry,        \* ExecutionRegistry.entries: response.state
  held,         \* entries whose plan is still Some
  aged,         \* entries whose created_at is PLAN_TTL ago
  lock,         \* who holds the mutex of entries across an await
  handler,      \* execute_resource, per plan
  poll,         \* execution_status, per plan
  expiring,     \* plans expired by expire_plans whose denial is to be written
  job,          \* complete_execution, per plan
  changed,      \* plans whose reviewed files changed on disk
  stale,        \* plans whose files had changed when the credential was read
  launches,     \* consumers started, per plan
  daemon, abandoned, crashes, faults

memory == <<entry, held, aged, lock, handler, poll, expiring, job>>
store  == <<approval, decider, operation>>
world  == <<changed, stale, launches>>
process == <<daemon, abandoned, crashes, faults>>
vars == <<memory, store, world, process>>

ASSUME LimitsAssumption ==
  /\ MaxPlans \in Nat \ {0} /\ MaxRunning \in Nat \ {0}
  /\ MaxCrashes \in Nat /\ MaxFaults \in Nat
  /\ "free" \notin Plan

Decider == {"system_auto", "human", "field_exposure_policy", "execution-expiry",
            "execution-recovery"}
Store == INSTANCE ApprovalOutcome WITH Request <- Plan, outcome <- approval

Finished == {"completed", "failed", "denied"}
Entries  == {p \in Plan : entry[p] # "none"}
Running  == {p \in Plan : entry[p] = "running"}
Serving  == daemon \in {"up", "stopping", "cleared"}
NoJob    == [pc |-> "none", failed |-> FALSE]

Init ==
  /\ Store!Init
  /\ operation = [p \in Plan |-> "none"]
  /\ entry = [p \in Plan |-> "none"]
  /\ held = {} /\ aged = {} /\ lock = "free" /\ expiring = {}
  /\ handler = [p \in Plan |-> "idle"]
  /\ poll = [p \in Plan |-> "idle"]
  /\ job = [p \in Plan |-> NoJob]
  /\ changed = {} /\ stale = {}
  /\ launches = [p \in Plan |-> 0]
  /\ daemon = "up" /\ abandoned = {} /\ crashes = 0 /\ faults = 0

-----------------------------------------------------------------------------
\* expire_plans under the lock: old results are dropped, old plans fail.  Their
\* denials are written after the lock is released.
LatePlans   == {p \in aged : entry[p] = "pending"}
OldResults  == {p \in aged : entry[p] \in Finished}

ExpireEntries ==
  /\ lock = "free"
  /\ entry' = [p \in Plan |-> CASE p \in LatePlans  -> "failed"
                                [] p \in OldResults -> "none"
                                [] OTHER            -> entry[p]]
  /\ held' = held \ LatePlans
  /\ aged' = aged \ (LatePlans \cup OldResults)
  /\ expiring' = expiring \cup LatePlans

\* The cleanup loop, every minute.
Cleanup ==
  /\ daemon = "up" /\ aged # {}
  /\ ExpireEntries
  /\ UNCHANGED <<lock, handler, poll, job, store, world, process>>

ExpireQuietly(p) ==   \* mutant: the denial is forgotten
  /\ Serving /\ p \in expiring
  /\ expiring' = expiring \ {p}
  /\ UNCHANGED <<entry, held, aged, lock, handler, poll, job, store, world, process>>
\* The denial; an approval that came first is left alone.
DenyExpired(p) ==
  /\ Serving /\ p \in expiring
  /\ expiring' = expiring \ {p}
  /\ \/ approval[p] = "pending" /\ Store!Decide(p, "execution-expiry", "rejected")
     \/ approval[p] # "pending" /\ UNCHANGED <<approval, decider>>
  /\ UNCHANGED <<entry, held, aged, lock, handler, poll, job, operation, world,
                 process>>

PlanAges(p) ==
  /\ Serving /\ entry[p] \in Finished \cup {"pending"} /\ p \notin aged
  /\ aged' = aged \cup {p}
  /\ UNCHANGED <<entry, held, lock, handler, poll, expiring, job, store, world,
                 process>>

-----------------------------------------------------------------------------
\* execute_resource.
HandlerMoves(p, from, to) ==
  /\ Serving /\ handler[p] = from
  /\ handler' = [handler EXCEPT ![p] = to]

Begin(p) ==
  /\ daemon = "up" /\ HandlerMoves(p, "idle", "preparing")
  /\ ExpireEntries
  /\ UNCHANGED <<lock, poll, job, store, world, process>>

\* Evidence collection is busy or fails, or the queue is full.
QueueFull == Cardinality(Entries) >= MaxPlans /\ \A q \in Entries : entry[q] \notin Finished
Refuse(p) ==
  /\ HandlerMoves(p, "preparing", "done")
  /\ UNCHANGED <<entry, held, aged, lock, poll, expiring, job, store, world,
                 process>>

\* mutant: a full registry evicts nothing
ReserveAlways(p) ==
  /\ lock = "free" /\ ~QueueFull
  /\ HandlerMoves(p, "preparing", "submitting")
  /\ lock' = p
  /\ UNCHANGED <<entry, held, aged, poll, expiring, job, store, world, process>>
\* A full registry forgets a finished entry (the oldest, here any).
Reserve(p) ==
  /\ lock = "free" /\ ~QueueFull
  /\ HandlerMoves(p, "preparing", "submitting")
  /\ lock' = p
  /\ IF Cardinality(Entries) < MaxPlans
       THEN UNCHANGED <<entry, aged>>
       ELSE \E q \in Entries :
              /\ entry[q] \in Finished
              /\ entry' = [entry EXCEPT ![q] = "none"] /\ aged' = aged \ {q}
  /\ UNCHANGED <<held, poll, expiring, job, store, world, process>>

\* admitted_access_resource, reviewed or direct.
Submit(p) ==
  /\ \E next \in {"submitted", "direct"} : HandlerMoves(p, "submitting", next)
  /\ Store!Submit(p)
  /\ UNCHANGED <<entry, held, aged, lock, poll, expiring, job, operation, world,
                 process>>

DirectDecision(p) ==
  \/ /\ approval[p] = "pending" /\ Store!Decide(p, "field_exposure_policy", "approved")
     /\ HandlerMoves(p, "direct", "submitted")
     /\ UNCHANGED <<entry, held, aged, lock, poll, expiring, job, operation,
                    world, process>>
  \/ /\ approval[p] # "pending" /\ HandlerMoves(p, "direct", "done")
     /\ lock' = "free"
     /\ UNCHANGED <<entry, held, aged, poll, expiring, job, store, world, process>>

Insert(p) ==
  /\ HandlerMoves(p, "submitted", "done")
  /\ entry' = [entry EXCEPT ![p] = "pending"]
  /\ held' = held \cup {p}
  /\ lock' = "free"
  /\ UNCHANGED <<aged, poll, expiring, job, store, world, process>>

\* The client disconnects, or the submission fails.
HandlerDropped(p) ==
  /\ Serving /\ handler[p] \in {"preparing", "submitting", "submitted", "direct"}
  /\ faults < MaxFaults /\ faults' = faults + 1
  /\ handler' = [handler EXCEPT ![p] = "done"]
  /\ lock' = IF lock = p THEN "free" ELSE lock
  /\ UNCHANGED <<entry, held, aged, poll, expiring, job, store, world, daemon,
                 abandoned, crashes>>

\* The caller of expire_plans is dropped, or its denial fails.
DenialLost(p) ==
  /\ Serving /\ p \in expiring
  /\ faults < MaxFaults /\ faults' = faults + 1
  /\ expiring' = expiring \ {p}
  /\ UNCHANGED <<entry, held, aged, lock, handler, poll, job, store, world,
                 daemon, abandoned, crashes>>

\* The model, in the daemon, and the human, whose desktop may write the store
\* while no daemon runs.
Decided(p) ==
  /\ approval[p] = "pending"
  /\ \E who \in {"system_auto", "human"}, o \in Store!Outcome :
       /\ who = "system_auto" => Serving
       /\ Store!Decide(p, who, o)
  /\ UNCHANGED <<memory, operation, world, process>>

-----------------------------------------------------------------------------
\* execution_status: it expires plans, then reads the review under the lock.
\* Only a request of an open connection arrives after the shutdown began.
PollBegin(p) ==
  /\ Serving /\ poll[p] = "idle" /\ handler[p] = "done"
  /\ poll' = [poll EXCEPT ![p] = "ready"]
  /\ ExpireEntries
  /\ UNCHANGED <<lock, handler, job, store, world, process>>

SlotAfterTaking == Cardinality(Running) <= MaxRunning   \* mutant: <=
SlotFree == Cardinality(Running) < MaxRunning

\* A connection closes with its answer once the shutdown began.
PollEnds(p) ==
  /\ Serving /\ poll[p] = "ready" /\ lock = "free"
  /\ poll' = [poll EXCEPT ![p] = IF daemon = "up" THEN "idle" ELSE "closed"]
  /\ UNCHANGED <<lock, handler, expiring, store, world, process>>

\* Nothing to do: not pending, not reviewed yet, or no free slot.
ReadState(p) ==
  /\ PollEnds(p)
  /\ entry[p] = "pending" =>
       approval[p] # "rejected" /\
       (approval[p] = "approved" => ~SlotFree \/ p \notin held)
  /\ UNCHANGED <<entry, held, aged, job>>

\* The review cannot be read, or the caller leaves.
ReadLost(p) ==
  /\ PollEnds(p)
  /\ faults < MaxFaults
  /\ UNCHANGED <<entry, held, aged, job>>

ReadDenied(p) ==
  /\ PollEnds(p)
  /\ entry[p] = "pending" /\ approval[p] = "rejected"
  /\ entry' = [entry EXCEPT ![p] = "denied"]
  /\ held' = held \ {p} /\ aged' = aged \ {p}
  /\ UNCHANGED job

HeldOnly(p) == SlotFree /\ p \in held   \* mutant: the review is not consulted
Approved(p) ==
  approval[p] = "approved" /\ SlotFree /\ p \in held

\* ExecutionRegistry::spawn refuses once shutting_down is set.
SpawnAlways(p) ==      \* mutant: shutting_down is not looked at
  /\ entry' = [entry EXCEPT ![p] = "running"]
  /\ job' = [job EXCEPT ![p] = [pc |-> "recording", failed |-> FALSE]]
Spawn(p) ==
  IF daemon = "up"
    THEN /\ entry' = [entry EXCEPT ![p] = "running"]
         /\ job' = [job EXCEPT ![p] = [pc |-> "recording", failed |-> FALSE]]
    ELSE entry' = [entry EXCEPT ![p] = "failed"] /\ UNCHANGED job

ReadUnguarded(p) ==    \* mutant: an answered entry is looked at again
  /\ PollEnds(p)
  /\ approval[p] = "approved" /\ entry[p] \in {"pending", "failed"}
  /\ held' = held \ {p}
  /\ Spawn(p)
  /\ UNCHANGED aged
ReadApproved(p) ==
  /\ PollEnds(p)
  /\ entry[p] = "pending" /\ Approved(p)
  /\ held' = held \ {p}
  /\ Spawn(p)
  /\ UNCHANGED aged

-----------------------------------------------------------------------------
\* complete_execution.
JobMoves(p, from, to, failed) ==
  /\ daemon = "up" /\ job[p].pc = from
  /\ job' = [job EXCEPT ![p] = [pc |-> to, failed |-> failed]]
  /\ UNCHANGED <<entry, held, aged, lock, handler, poll, expiring, approval,
                 decider, changed, process>>

\* An error ends the sequence, and the operation is finished as failed.
JobFails(p) ==
  /\ job[p].pc \in {"checking", "resolving", "rechecking", "launching"}
  /\ JobMoves(p, job[p].pc, "finishing", TRUE)
  /\ UNCHANGED <<operation, stale, launches>>

RecordStart(p) ==
  /\ JobMoves(p, "recording", "checking", FALSE)
  /\ operation' = [operation EXCEPT ![p] = "running"]
  /\ UNCHANGED <<stale, launches>>

\* Backend, exposure policy and reviewed files are as they were reviewed.
Check(p) ==
  /\ p \notin changed
  /\ JobMoves(p, "checking", "resolving", FALSE)
  /\ UNCHANGED <<operation, stale, launches>>

Resolve(p) ==
  /\ JobMoves(p, "resolving", "rechecking", FALSE)
  /\ stale' = IF p \in changed THEN stale \cup {p} ELSE stale
  /\ UNCHANGED <<operation, launches>>

RecheckNothing(p) ==   \* mutant: the files are verified once only
  /\ JobMoves(p, "rechecking", "launching", FALSE)
  /\ UNCHANGED <<operation, stale, launches>>
Recheck(p) ==
  /\ p \notin changed
  /\ JobMoves(p, "rechecking", "launching", FALSE)
  /\ UNCHANGED <<operation, stale, launches>>

Launch(p) ==
  /\ JobMoves(p, "launching", "running", FALSE)
  /\ launches' = [launches EXCEPT ![p] = @ + 1]
  /\ UNCHANGED <<operation, stale>>

\* Exit status zero, or anything else: nonzero, timeout, withheld output.
ConsumerEnds(p) ==
  /\ \E failed \in BOOLEAN : JobMoves(p, "running", "finishing", failed)
  /\ UNCHANGED <<operation, stale, launches>>

FinishOperation(p) ==
  /\ JobMoves(p, "finishing", "publishing", job[p].failed)
  /\ operation' = [operation EXCEPT ![p] =
                     IF job[p].failed THEN "failed" ELSE "completed"]
  /\ UNCHANGED <<stale, launches>>

\* A failed store call: start_operation or finish_operation.
StartLost(p) ==
  /\ daemon = "up" /\ job[p].pc = "recording"
  /\ faults < MaxFaults /\ faults' = faults + 1
  /\ job' = [job EXCEPT ![p] = [pc |-> "publishing", failed |-> TRUE]]
  /\ UNCHANGED <<entry, held, aged, lock, handler, poll, expiring, store, world,
                 daemon, abandoned, crashes>>

AuditIgnored(p) ==     \* mutant: the result of finish_operation is ignored
  /\ daemon = "up" /\ job[p].pc = "finishing"
  /\ faults < MaxFaults /\ faults' = faults + 1
  /\ job' = [job EXCEPT ![p].pc = "publishing"]
  /\ UNCHANGED <<entry, held, aged, lock, handler, poll, expiring, store, world,
                 daemon, abandoned, crashes>>
FinishLost(p) ==
  /\ daemon = "up" /\ job[p].pc = "finishing"
  /\ faults < MaxFaults /\ faults' = faults + 1
  /\ job' = [job EXCEPT ![p] = [pc |-> "publishing", failed |-> TRUE]]
  /\ UNCHANGED <<entry, held, aged, lock, handler, poll, expiring, store, world,
                 daemon, abandoned, crashes>>

PublishOnlySuccess(p) ==   \* mutant: a failed run keeps its slot
  /\ daemon = "up" /\ job[p].pc = "publishing" /\ lock = "free"
  /\ entry' = [entry EXCEPT ![p] = IF job[p].failed THEN "running" ELSE "completed"]
  /\ aged' = aged \ {p}
  /\ job' = [job EXCEPT ![p] = NoJob]
  /\ UNCHANGED <<held, lock, handler, poll, expiring, store, world, process>>
Publish(p) ==
  /\ daemon = "up" /\ job[p].pc = "publishing" /\ lock = "free"
  /\ entry' = [entry EXCEPT ![p] = IF job[p].failed THEN "failed" ELSE "completed"]
  /\ aged' = aged \ {p}
  /\ job' = [job EXCEPT ![p] = NoJob]
  /\ UNCHANGED <<held, lock, handler, poll, expiring, store, world, process>>

\* Somebody edits the reviewed files.
FilesChange(p) ==
  /\ p \notin changed /\ handler[p] = "done" /\ approval[p] # "absent"
  /\ changed' = changed \cup {p}
  /\ UNCHANGED <<memory, store, stale, launches, process>>

-----------------------------------------------------------------------------
\* The daemon's life.

\* abort_now and the join of every task; consumers die with their task, and a
\* denial that the cleanup loop had not written may be lost.
BeginShutdown ==
  /\ daemon = "up" /\ crashes < MaxCrashes /\ crashes' = crashes + 1
  /\ daemon' = "stopping"
  /\ job' = [p \in Plan |-> NoJob]
  /\ expiring' \in SUBSET expiring
  /\ UNCHANGED <<entry, held, aged, lock, handler, poll, store, world, abandoned,
                 faults>>

ClearEntries ==
  /\ daemon = "stopping" /\ lock = "free"
  /\ daemon' = "cleared"
  /\ entry' = [p \in Plan |-> "none"] /\ held' = {} /\ aged' = {}
  /\ UNCHANGED <<lock, handler, poll, expiring, job, store, world, abandoned,
                 crashes, faults>>

ProcessEnds ==
  /\ daemon' = "down" /\ abandoned' = {}
  /\ entry' = [p \in Plan |-> "none"] /\ held' = {} /\ aged' = {}
  /\ lock' = "free" /\ expiring' = {}
  /\ handler' = [p \in Plan |-> IF handler[p] = "idle" THEN "idle" ELSE "done"]
  /\ poll' = [p \in Plan |-> "idle"]
  /\ job' = [p \in Plan |-> NoJob]

Unfinished == [p \in Plan |->       \* mutant: a status that is not an OperationStatus
                IF operation[p] = "running" THEN "pending" ELSE operation[p]]
\* recover_stale_operations: executions of an earlier life are interrupted.
Interrupted == [p \in Plan |->
                 IF operation[p] = "running" THEN "interrupted" ELSE operation[p]]

\* Connections have drained; the evaluation worker's shutdown recovers every
\* operation that is still running, executions included.
EndShutdown ==
  /\ daemon = "cleared" /\ expiring = {}
  /\ \A p \in Plan : handler[p] \in {"idle", "done"} /\ poll[p] # "ready"
  /\ ProcessEnds
  /\ operation' = Interrupted
  /\ UNCHANGED <<approval, decider, world, crashes, faults>>

Crash ==
  /\ daemon # "down" /\ crashes < MaxCrashes /\ crashes' = crashes + 1
  /\ ProcessEnds
  /\ UNCHANGED <<store, world, faults>>

StartForgetsPlans ==   \* mutant: pending plans of the last life stay pending
  /\ daemon = "down" /\ daemon' = "denying"
  /\ abandoned' = {}
  /\ UNCHANGED <<memory, store, world, crashes, faults>>
\* start: recover_abandoned_plans denies what is pending, one by one.
Start ==
  /\ daemon = "down" /\ daemon' = "denying"
  /\ abandoned' = {p \in Plan : approval[p] = "pending"}
  /\ UNCHANGED <<memory, store, world, crashes, faults>>

RecoverPlan(p) ==
  /\ daemon = "denying" /\ p \in abandoned
  /\ \/ /\ approval[p] = "pending" /\ Store!Decide(p, "execution-recovery", "rejected")
        /\ abandoned' = abandoned \ {p} /\ daemon' = daemon
     \/ /\ approval[p] # "pending" /\ UNCHANGED <<approval, decider>>
        /\ abandoned' = {} /\ daemon' = "down"
  /\ UNCHANGED <<memory, operation, world, crashes, faults>>

ServeWithoutRecovery ==   \* mutant: running operations of the last life stay
  /\ daemon = "denying" /\ abandoned = {} /\ daemon' = "up"
  /\ UNCHANGED <<memory, approval, decider, operation, world, abandoned, crashes,
                 faults>>
\* ... then recover_stale_operations, and the listener serves.
Serve ==
  /\ daemon = "denying" /\ abandoned = {} /\ daemon' = "up"
  /\ operation' = Interrupted
  /\ UNCHANGED <<memory, approval, decider, world, abandoned, crashes, faults>>

-----------------------------------------------------------------------------
Admit(p) == Begin(p) \/ Refuse(p) \/ Reserve(p) \/ Submit(p) \/ DirectDecision(p) \/ Insert(p)
Read(p)  == PollBegin(p) \/ ReadState(p) \/ ReadDenied(p) \/ ReadApproved(p)
Execute(p) ==
  \/ RecordStart(p) \/ Check(p) \/ Resolve(p) \/ Recheck(p) \/ Launch(p)
  \/ ConsumerEnds(p) \/ FinishOperation(p) \/ Publish(p) \/ JobFails(p)
Fault(p) == HandlerDropped(p) \/ ReadLost(p) \/ DenialLost(p) \/ StartLost(p) \/ FinishLost(p)
Lifecycle ==
  BeginShutdown \/ ClearEntries \/ EndShutdown \/ Crash \/ Start \/ Serve

\* A daemon that serves and a store that works; and everything else.
Undisturbed ==
  \/ \E p \in Plan :
       \/ Admit(p) \/ Read(p) \/ Execute(p)
       \/ DenyExpired(p) \/ PlanAges(p) \/ Decided(p) \/ FilesChange(p)
  \/ Cleanup

Next == Undisturbed \/ (\E p \in Plan : Fault(p) \/ RecoverPlan(p)) \/ Lifecycle

Spec == Init /\ [][Next]_vars

\* What runs without anybody's decision: handlers, denials, jobs and recovery.  A
\* client polls until it has an answer.
Fairness ==
  /\ \A p \in Plan :
       /\ WF_vars(Admit(p)) /\ WF_vars(DenyExpired(p))
       /\ WF_vars(PollBegin(p))
       /\ WF_vars(ReadState(p) \/ ReadDenied(p) \/ ReadApproved(p))
       /\ WF_vars(Execute(p)) /\ WF_vars(RecoverPlan(p))
  /\ WF_vars(Start \/ Serve \/ ClearEntries \/ EndShutdown)

FairSpec == Spec /\ Fairness
UndisturbedSpec == Init /\ [][Undisturbed]_vars /\ Fairness

-----------------------------------------------------------------------------
TypeOK ==
  /\ approval \in [Plan -> {"absent", "pending"} \cup Store!Outcome]
  /\ decider \in [Plan -> Decider \cup {"none"}]
  /\ operation \in [Plan -> {"none", "running", "interrupted", "completed", "failed"}]
  /\ entry \in [Plan -> {"none", "pending", "running"} \cup Finished]
  /\ held \subseteq Plan /\ aged \subseteq Plan /\ expiring \subseteq Plan
  /\ lock \in Plan \cup {"free"}
  /\ handler \in [Plan -> {"idle", "preparing", "submitting", "submitted", "direct", "done"}]
  /\ poll \in [Plan -> {"idle", "ready", "closed"}]
  /\ job \in [Plan -> [pc : {"none", "recording", "checking", "resolving", "rechecking",
                              "launching", "running", "finishing", "publishing"},
                       failed : BOOLEAN]]
  /\ changed \subseteq Plan /\ stale \subseteq Plan /\ abandoned \subseteq Plan
  /\ launches \in [Plan -> Nat]
  /\ daemon \in {"up", "stopping", "cleared", "down", "denying"}
  /\ crashes \in 0..MaxCrashes /\ faults \in 0..MaxFaults

\* A plan is dispatched at most once, whatever the polls, crashes and lost
\* calls: docs/operator-runbook.md, "human review dispatches at most once".
NeverReplayed == \A p \in Plan : launches[p] <= 1

\* A consumer runs only for a request that somebody approved, and the approval
\* still stands: execution_status consumes the plan on Approved.
LaunchIsApproved ==
  \A p \in Plan : launches[p] > 0 \/ job[p].pc # "none" => approval[p] = "approved"

\* Files that changed before the credential was read are never given it: the
\* second verify_unchanged of complete_execution.
StaleNeverLaunched == \A p \in stale : launches[p] = 0

\* MAX_RUNNING holds although polls race each other and the end of jobs, and
\* every job occupies a slot.
SlotsRespected ==
  /\ Cardinality(Running) <= MaxRunning
  /\ {p \in Plan : job[p].pc # "none"} \subseteq Running

\* MAX_PLANS holds although an entry is inserted long after its room was checked.
QueueRespected == Cardinality(Entries) <= MaxPlans

\* Once a shutdown has begun no task runs a consumer, though polls are still
\* answered: ExecutionRegistry::shutdown joins every task and spawn refuses.
NoConsumerInShutdown ==
  daemon # "up" => \A p \in Plan : job[p].pc = "none"

\* A client that is told "completed" finds one launch and a completed operation
\* in the audit: complete_execution publishes after finish_operation.
CompletedIsRecorded ==
  \A p \in Plan :
    entry[p] = "completed" => launches[p] = 1 /\ operation[p] = "completed"

\* An operation that still says running has its task in this daemon: what an
\* earlier life left running is interrupted before anything is served.
RunningOperationHasTask ==
  daemon = "up" => \A p \in Plan :
    operation[p] = "running" => job[p].pc # "none" \/ faults > 0

\* A reviewer is never asked about a plan that no longer exists (no fault): it is
\* held, about to be held, or about to be denied.
PendingRequestHasPlan ==
  daemon = "up" => \A p \in Plan :
    approval[p] = "pending" =>
      p \in held \cup expiring \/ handler[p] \in {"submitted", "direct"} \/ faults > 0

\* A command is started at most once, only while its approval stands, and never when its
\* files had changed before the credential was read (execution_status, complete_execution).
LaunchesAreApproved == NeverReplayed /\ LaunchIsApproved /\ StaleNeverLaunched

\* MAX_RUNNING and MAX_PLANS hold although a slot and an entry are taken long after
\* their room was checked, and in a shutdown no task runs a consumer.
LimitsRespected == SlotsRespected /\ QueueRespected /\ NoConsumerInShutdown

\* The request, the operation in the audit and the registry tell one story: nobody is
\* asked about a forgotten plan, a running operation has its task, and a completed
\* answer one launch and a completed operation.  (The types are part of it.)
RecordsAgree ==
  TypeOK /\ PendingRequestHasPlan /\ RunningOperationHasTask /\ CompletedIsRecorded

\* An answer is final: a finished entry changes only by being forgotten, and
\* nothing is launched for it any more.
AnswerIsFinal ==
  [][\A p \in Plan : entry[p] \in Finished =>
       /\ entry'[p] \in {entry[p], "none"}
       /\ launches'[p] = launches[p]]_vars

\* An approved plan that the daemon still holds is concluded: run to an answer,
\* expired or given up by a stop (execution_status and complete_execution).
ApprovedPlanConcludes ==
  \A p \in Plan :
    entry[p] = "pending" /\ approval[p] = "approved" ~>
      entry[p] \in Finished \cup {"none"}

\* A request whose plan expired does not stay pending before its reviewers:
\* expire_plans denies it, or the next start does.
ExpiredRequestIsResolved ==
  \A p \in Plan : p \in expiring ~> approval[p] # "pending"
=============================================================================
