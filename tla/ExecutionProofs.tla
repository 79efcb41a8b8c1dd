--------------------------- MODULE ExecutionProofs ---------------------------
(***************************************************************************)
(* Theorems about Consumers, for every value of the constants.  Of the     *)
(* registry (Execution): what is launched, its limits, the agreement of    *)
(* registry, request and audit, and the finality of answers.  Of the       *)
(* command line (CommandScan): its two scans agree.  Of the files          *)
(* (ExecutionEvidence): what was shown is compared and started.  Of the    *)
(* command that waits (ConsumerRun): its exit code.                        *)
(***************************************************************************)
EXTENDS Consumers, FiniteSetTheorems, SequenceTheorems, WellFoundedInduction, TLAPS

Reserved == {"submitting", "submitted", "direct"}
Unlaunched == {"recording", "checking", "resolving", "rechecking", "launching"}

\* Who may hold a plan: an admitted one is held exactly while its entry is pending, and a
\* plan that its handler has not inserted has no entry and was never launched.
HeldWhilePending == held = {p \in Plan : entry[p] = "pending"}
NotYetInserted ==
  \A p \in Plan : handler[p] # "done" => entry[p] = "none" /\ launches[p] = 0
NotYetSubmitted ==
  \A p \in Plan :
    handler[p] \in {"idle", "preparing", "submitting"} => approval[p] = "absent"

\* The mutex of the registry is held from the reservation to the insertion.
LockIsHeld == \A p \in Plan : handler[p] \in Reserved => lock = p

\* A job has its slot, its daemon and its approval, and launches once.
JobOccupies ==
  \A p \in Plan : job[p].pc # "none" =>
    entry[p] = "running" /\ daemon = "up" /\ approval[p] = "approved"
LaunchedOnce ==
  \A p \in Plan :
    /\ launches[p] \in 0..1
    /\ launches[p] = 1 => approval[p] = "approved"
    /\ entry[p] = "pending" \/ job[p].pc \in Unlaunched => launches[p] = 0
    /\ job[p].pc = "running" => launches[p] = 1
    /\ job[p].pc \in {"finishing", "publishing"} /\ ~job[p].failed => launches[p] = 1

\* What was read after its files had changed never reaches the launch.
StaleStops ==
  /\ stale \subseteq changed
  /\ \A p \in stale : launches[p] = 0 /\ job[p].pc # "launching"

\* The operation follows its job.
OperationFollows ==
  \A p \in Plan : job[p].pc = "publishing" =>
    /\ ~job[p].failed => operation[p] = "completed"
    /\ operation[p] = "running" => faults > 0

\* Recovery does not serve before it has denied what is pending.
PendingIsAbandoned ==
  daemon = "denying" => \A p \in Plan : approval[p] = "pending" => p \in abandoned

\* The room that a reservation found is still there while the mutex is held.
RoomReserved ==
  /\ IsFiniteSet(Entries)
  /\ Cardinality(Entries) <= MaxPlans
  /\ lock # "free" => Cardinality(Entries) < MaxPlans
SlotsTaken == IsFiniteSet(Running) /\ Cardinality(Running) <= MaxRunning

Control ==
  /\ HeldWhilePending /\ NotYetInserted /\ NotYetSubmitted /\ LockIsHeld
  /\ JobOccupies /\ LaunchedOnce /\ StaleStops /\ OperationFollows
Recorded ==
  /\ CompletedIsRecorded /\ RunningOperationHasTask
  /\ PendingIsAbandoned /\ PendingRequestHasPlan

IInv == TypeOK /\ Control /\ Recorded /\ RoomReserved /\ SlotsTaken

-----------------------------------------------------------------------------
\* One lemma per action: it keeps the types, the control and the records.

\* A decision of the store is typed.
LEMMA DecidedTypes ==
  ASSUME TypeOK, NEW p \in Plan, NEW who \in Decider, NEW o \in Store!Outcome,
         Store!Decide(p, who, o)
  PROVE  /\ approval' \in [Plan -> {"absent", "pending"} \cup Store!Outcome]
         /\ decider' \in [Plan -> Decider \cup {"none"}]
BY DEF Store!Decide, TypeOK

USE DEF Control, Recorded, HeldWhilePending, NotYetInserted, NotYetSubmitted,
   LockIsHeld, JobOccupies, LaunchedOnce, StaleStops, OperationFollows,
   CompletedIsRecorded, RunningOperationHasTask, PendingIsAbandoned,
   PendingRequestHasPlan, Reserved, Unlaunched, Finished, store, world, memory, process,
   Serving, Decider, Store!Outcome

\* The handler starts and drops what is too old: an expired plan is no longer held.
LEMMA BeginStep ==
  ASSUME TypeOK, Control, Recorded, NEW p \in Plan, Begin(p)
  PROVE  TypeOK' /\ Control' /\ Recorded'
<1>1. TypeOK'
  BY DEF Begin, HandlerMoves, ExpireEntries, LatePlans, OldResults, TypeOK
<1>2. Control'
  BY DEF Begin, HandlerMoves, ExpireEntries, LatePlans, OldResults, TypeOK
<1>3. Recorded'
  BY DEF Begin, HandlerMoves, ExpireEntries, LatePlans, OldResults, TypeOK
<1> QED BY <1>1, <1>2, <1>3

\* A refused handler ends: its request was never submitted.
LEMMA RefuseStep ==
  ASSUME TypeOK, Control, Recorded, NEW p \in Plan, Refuse(p)
  PROVE  TypeOK' /\ Control' /\ Recorded'
<1>1. TypeOK'
  BY DEF Refuse, HandlerMoves, TypeOK
<1>2. Control'
  BY DEF Refuse, HandlerMoves, TypeOK
<1>3. Recorded'
  BY DEF Refuse, HandlerMoves, TypeOK
<1> QED BY <1>1, <1>2, <1>3

\* The reservation takes the mutex and may forget a finished entry.
LEMMA ReserveStep ==
  ASSUME TypeOK, Control, Recorded, NEW p \in Plan, Reserve(p)
  PROVE  TypeOK' /\ Control' /\ Recorded'
<1>1. CASE UNCHANGED <<entry, aged>>
  BY <1>1, LimitsAssumption DEF Reserve, HandlerMoves, TypeOK
<1>2. CASE \E q \in Entries : /\ entry[q] \in Finished
                              /\ entry' = [entry EXCEPT ![q] = "none"] /\ aged' = aged \ {q}
  <2>1. PICK q \in Plan : /\ entry[q] \in Finished
                          /\ entry' = [entry EXCEPT ![q] = "none"] /\ aged' = aged \ {q}
    BY <1>2 DEF Entries
  <2>2. /\ handler[p] = "preparing" /\ handler' = [handler EXCEPT ![p] = "submitting"]
        /\ lock = "free" /\ lock' = p
        /\ UNCHANGED <<held, poll, expiring, job, store, world, process>>
    BY DEF Reserve, HandlerMoves
  <2>3. TypeOK'
    BY <2>1, <2>2, LimitsAssumption DEF TypeOK
  <2>4. Control'
    BY <2>1, <2>2, LimitsAssumption DEF TypeOK
  <2>5. Recorded'
    BY <2>1, <2>2, LimitsAssumption DEF TypeOK
  <2> QED BY <2>3, <2>4, <2>5
<1> QED BY <1>1, <1>2 DEF Reserve

\* Submission makes an absent request pending, or decides it by a ticket.
LEMMA SubmitStep ==
  ASSUME TypeOK, Control, Recorded, NEW p \in Plan, Submit(p)
  PROVE  TypeOK' /\ Control' /\ Recorded'
<1>1. TypeOK'
  BY DEF Submit, HandlerMoves, Store!Submit, TypeOK
<1>2. Control'
  BY DEF Submit, HandlerMoves, Store!Submit, TypeOK
<1>3. Recorded'
  BY DEF Submit, HandlerMoves, Store!Submit, TypeOK
<1> QED BY <1>1, <1>2, <1>3

\* The exposure policy approves, or finds the request decided and gives the mutex back.
LEMMA DirectDecisionStep ==
  ASSUME TypeOK, Control, Recorded, NEW p \in Plan, DirectDecision(p)
  PROVE  TypeOK' /\ Control' /\ Recorded'
<1>1. CASE /\ approval[p] = "pending" /\ Store!Decide(p, "field_exposure_policy", "approved")
           /\ HandlerMoves(p, "direct", "submitted")
           /\ UNCHANGED <<entry, held, aged, lock, poll, expiring, job, operation,
                          world, process>>
  <2>1. TypeOK'
    BY <1>1 DEF HandlerMoves, Store!Decide, TypeOK
  <2>2. Control'
    BY <1>1 DEF HandlerMoves, Store!Decide, TypeOK
  <2>3. Recorded'
    BY <1>1 DEF HandlerMoves, Store!Decide, TypeOK
  <2> QED BY <2>1, <2>2, <2>3
<1>2. CASE /\ approval[p] # "pending" /\ HandlerMoves(p, "direct", "done")
           /\ lock' = "free"
           /\ UNCHANGED <<entry, held, aged, poll, expiring, job, store, world, process>>
  <2>1. TypeOK'
    BY <1>2 DEF HandlerMoves, TypeOK
  <2>2. Control'
    BY <1>2, LimitsAssumption DEF HandlerMoves, TypeOK
  <2>3. Recorded'
    BY <1>2 DEF HandlerMoves, TypeOK
  <2> QED BY <2>1, <2>2, <2>3
<1> QED BY <1>1, <1>2 DEF DirectDecision

\* The entry is inserted: its plan is held, pending and not launched.
LEMMA InsertStep ==
  ASSUME TypeOK, Control, Recorded, NEW p \in Plan, Insert(p)
  PROVE  TypeOK' /\ Control' /\ Recorded'
<1>1. TypeOK'
  BY DEF Insert, HandlerMoves, TypeOK
<1>2. Control'
  BY DEF Insert, HandlerMoves, TypeOK
<1>3. Recorded'
  BY DEF Insert, HandlerMoves, TypeOK
<1> QED BY <1>1, <1>2, <1>3

\* A poll starts and drops what is too old.
LEMMA PollBeginStep ==
  ASSUME TypeOK, Control, Recorded, NEW p \in Plan, PollBegin(p)
  PROVE  TypeOK' /\ Control' /\ Recorded'
<1>1. TypeOK'
  BY DEF PollBegin, ExpireEntries, LatePlans, OldResults, TypeOK
<1>2. Control'
  BY DEF PollBegin, ExpireEntries, LatePlans, OldResults, TypeOK
<1>3. Recorded'
  BY DEF PollBegin, ExpireEntries, LatePlans, OldResults, TypeOK
<1> QED BY <1>1, <1>2, <1>3

\* A poll that has nothing to do only ends.
LEMMA ReadStateStep ==
  ASSUME TypeOK, Control, Recorded, NEW p \in Plan, ReadState(p)
  PROVE  TypeOK' /\ Control' /\ Recorded'
<1>1. TypeOK'
  BY DEF ReadState, PollEnds, TypeOK
<1>2. Control'
  BY DEF ReadState, PollEnds, TypeOK
<1>3. Recorded'
  BY DEF ReadState, PollEnds, TypeOK
<1> QED BY <1>1, <1>2, <1>3

\* A rejected plan is released and answered.
LEMMA ReadDeniedStep ==
  ASSUME TypeOK, Control, Recorded, NEW p \in Plan, ReadDenied(p)
  PROVE  TypeOK' /\ Control' /\ Recorded'
<1>1. TypeOK'
  BY DEF ReadDenied, PollEnds, TypeOK
<1>2. Control'
  BY DEF ReadDenied, PollEnds, TypeOK
<1>3. Recorded'
  BY DEF ReadDenied, PollEnds, TypeOK
<1> QED BY <1>1, <1>2, <1>3

\* The approved plan is taken: a running entry has its job, unless a shutdown began.
LEMMA ReadApprovedStep ==
  ASSUME TypeOK, Control, Recorded, NEW p \in Plan, ReadApproved(p)
  PROVE  TypeOK' /\ Control' /\ Recorded'
<1>1. /\ entry[p] = "pending" /\ approval[p] = "approved" /\ held' = held \ {p}
      /\ UNCHANGED <<aged, lock, handler, expiring, store, world, process>>
      /\ poll' = [poll EXCEPT ![p] = IF daemon = "up" THEN "idle" ELSE "closed"]
  BY DEF ReadApproved, PollEnds, Approved
<1>2. CASE daemon = "up"
  <2>1. /\ entry' = [entry EXCEPT ![p] = "running"]
        /\ job' = [job EXCEPT ![p] = [pc |-> "recording", failed |-> FALSE]]
    BY <1>2 DEF ReadApproved, Spawn
  <2>2. TypeOK'
    BY <1>1, <2>1 DEF TypeOK
  <2>3. Control'
    BY <1>1, <1>2, <2>1 DEF TypeOK
  <2>4. Recorded'
    BY <1>1, <1>2, <2>1 DEF TypeOK
  <2> QED BY <2>2, <2>3, <2>4
<1>3. CASE daemon # "up"
  <2>1. entry' = [entry EXCEPT ![p] = "failed"] /\ UNCHANGED job
    BY <1>3 DEF ReadApproved, Spawn
  <2>2. TypeOK'
    BY <1>1, <2>1 DEF TypeOK
  <2>3. Control'
    BY <1>1, <1>3, <2>1 DEF TypeOK
  <2>4. Recorded'
    BY <1>1, <1>3, <2>1 DEF TypeOK
  <2> QED BY <2>2, <2>3, <2>4
<1> QED BY <1>2, <1>3

\* The audit says running while the job is.
LEMMA RecordStartStep ==
  ASSUME TypeOK, Control, Recorded, NEW p \in Plan, RecordStart(p)
  PROVE  TypeOK' /\ Control' /\ Recorded'
<1>1. TypeOK'
  BY DEF RecordStart, JobMoves, TypeOK
<1>2. Control'
  BY DEF RecordStart, JobMoves, TypeOK
<1>3. Recorded'
  BY DEF RecordStart, JobMoves, TypeOK
<1> QED BY <1>1, <1>2, <1>3

\* The first comparison of the reviewed files.
LEMMA CheckStep ==
  ASSUME TypeOK, Control, Recorded, NEW p \in Plan, Check(p)
  PROVE  TypeOK' /\ Control' /\ Recorded'
<1>1. TypeOK'
  BY DEF Check, JobMoves, TypeOK
<1>2. Control'
  BY LimitsAssumption DEF Check, JobMoves, TypeOK
<1>3. Recorded'
  BY DEF Check, JobMoves, TypeOK
<1> QED BY <1>1, <1>2, <1>3

\* The credential is read: files that had changed mark the plan as stale.
LEMMA ResolveStep ==
  ASSUME TypeOK, Control, Recorded, NEW p \in Plan, Resolve(p)
  PROVE  TypeOK' /\ Control' /\ Recorded'
<1>1. TypeOK'
  BY DEF Resolve, JobMoves, TypeOK
<1>2. Control'
  BY DEF Resolve, JobMoves, TypeOK
<1>3. Recorded'
  BY DEF Resolve, JobMoves, TypeOK
<1> QED BY <1>1, <1>2, <1>3

\* The second comparison stops a stale plan.
LEMMA RecheckStep ==
  ASSUME TypeOK, Control, Recorded, NEW p \in Plan, Recheck(p)
  PROVE  TypeOK' /\ Control' /\ Recorded'
<1>1. TypeOK'
  BY DEF Recheck, JobMoves, TypeOK
<1>2. Control'
  BY DEF Recheck, JobMoves, TypeOK
<1>3. Recorded'
  BY DEF Recheck, JobMoves, TypeOK
<1> QED BY <1>1, <1>2, <1>3

\* The launch is the first one, and the plan is not stale.
LEMMA LaunchStep ==
  ASSUME TypeOK, Control, Recorded, NEW p \in Plan, Launch(p)
  PROVE  TypeOK' /\ Control' /\ Recorded'
<1>1. TypeOK'
  BY DEF Launch, JobMoves, TypeOK
<1>2. Control'
  BY DEF Launch, JobMoves, TypeOK
<1>3. Recorded'
  BY DEF Launch, JobMoves, TypeOK
<1> QED BY <1>1, <1>2, <1>3

\* The consumer ends after its launch.
LEMMA ConsumerEndsStep ==
  ASSUME TypeOK, Control, Recorded, NEW p \in Plan, ConsumerEnds(p)
  PROVE  TypeOK' /\ Control' /\ Recorded'
<1>1. TypeOK'
  BY DEF ConsumerEnds, JobMoves, TypeOK
<1>2. Control'
  BY DEF ConsumerEnds, JobMoves, TypeOK
<1>3. Recorded'
  BY DEF ConsumerEnds, JobMoves, TypeOK
<1> QED BY <1>1, <1>2, <1>3

\* The operation is completed only if the job did not fail.
LEMMA FinishOperationStep ==
  ASSUME TypeOK, Control, Recorded, NEW p \in Plan, FinishOperation(p)
  PROVE  TypeOK' /\ Control' /\ Recorded'
<1>1. TypeOK'
  BY DEF FinishOperation, JobMoves, TypeOK
<1>2. Control'
  BY DEF FinishOperation, JobMoves, TypeOK
<1>3. Recorded'
  BY DEF FinishOperation, JobMoves, TypeOK
<1> QED BY <1>1, <1>2, <1>3

\* The answer is published with what the operation says.
LEMMA PublishStep ==
  ASSUME TypeOK, Control, Recorded, NEW p \in Plan, Publish(p)
  PROVE  TypeOK' /\ Control' /\ Recorded'
<1>1. TypeOK'
  BY DEF Publish, NoJob, TypeOK
<1>2. Control'
  BY DEF Publish, NoJob, TypeOK
<1>3. Recorded'
  BY DEF Publish, NoJob, TypeOK
<1> QED BY <1>1, <1>2, <1>3

\* A job that fails before its launch finishes as failed.
LEMMA JobFailsStep ==
  ASSUME TypeOK, Control, Recorded, NEW p \in Plan, JobFails(p)
  PROVE  TypeOK' /\ Control' /\ Recorded'
<1>1. TypeOK'
  BY DEF JobFails, JobMoves, TypeOK
<1>2. Control'
  BY DEF JobFails, JobMoves, TypeOK
<1>3. Recorded'
  BY LimitsAssumption DEF JobFails, JobMoves, TypeOK
<1> QED BY <1>1, <1>2, <1>3

\* The denial of an expired plan.
LEMMA DenyExpiredStep ==
  ASSUME TypeOK, Control, Recorded, NEW p \in Plan, DenyExpired(p)
  PROVE  TypeOK' /\ Control' /\ Recorded'
<1>1. TypeOK'
  <2>1. /\ approval' \in [Plan -> {"absent", "pending"} \cup Store!Outcome]
        /\ decider' \in [Plan -> Decider \cup {"none"}]
    <3>1. CASE Store!Decide(p, "execution-expiry", "rejected")
      BY <3>1, DecidedTypes
    <3>2. CASE UNCHANGED <<approval, decider>>
      BY <3>2 DEF TypeOK
    <3> QED BY <3>1, <3>2 DEF DenyExpired
  <2> QED BY <2>1 DEF DenyExpired, TypeOK
<1>2. Control'
  BY DEF DenyExpired, Store!Decide, TypeOK
<1>3. Recorded'
  BY DEF DenyExpired, Store!Decide, TypeOK
<1> QED BY <1>1, <1>2, <1>3

\* Time passes for an entry.
LEMMA PlanAgesStep ==
  ASSUME TypeOK, Control, Recorded, NEW p \in Plan, PlanAges(p)
  PROVE  TypeOK' /\ Control' /\ Recorded'
<1>1. TypeOK'
  BY DEF PlanAges, TypeOK
<1>2. Control'
  BY DEF PlanAges, TypeOK
<1>3. Recorded'
  BY DEF PlanAges, TypeOK
<1> QED BY <1>1, <1>2, <1>3

\* The model or a human decides a pending request.
LEMMA DecidedStep ==
  ASSUME TypeOK, Control, Recorded, NEW p \in Plan, Decided(p)
  PROVE  TypeOK' /\ Control' /\ Recorded'
<1>1. TypeOK'
  BY DEF Decided, Store!Decide, TypeOK
<1>2. Control'
  BY DEF Decided, Store!Decide, TypeOK
<1>3. Recorded'
  BY DEF Decided, Store!Decide, TypeOK
<1> QED BY <1>1, <1>2, <1>3

\* Files change; nothing that was read becomes stale later.
LEMMA FilesChangeStep ==
  ASSUME TypeOK, Control, Recorded, NEW p \in Plan, FilesChange(p)
  PROVE  TypeOK' /\ Control' /\ Recorded'
<1>1. TypeOK'
  BY DEF FilesChange, TypeOK
<1>2. Control'
  BY DEF FilesChange, TypeOK
<1>3. Recorded'
  BY DEF FilesChange, TypeOK
<1> QED BY <1>1, <1>2, <1>3

\* The cleanup loop drops what is too old.
LEMMA CleanupStep ==
  ASSUME TypeOK, Control, Recorded, Cleanup
  PROVE  TypeOK' /\ Control' /\ Recorded'
<1>1. TypeOK'
  BY DEF Cleanup, ExpireEntries, LatePlans, OldResults, TypeOK
<1>2. Control'
  BY DEF Cleanup, ExpireEntries, LatePlans, OldResults, TypeOK
<1>3. Recorded'
  BY DEF Cleanup, ExpireEntries, LatePlans, OldResults, TypeOK
<1> QED BY <1>1, <1>2, <1>3

\* A dropped handler frees the mutex if it had it.
LEMMA HandlerDroppedStep ==
  ASSUME TypeOK, Control, Recorded, NEW p \in Plan, HandlerDropped(p)
  PROVE  TypeOK' /\ Control' /\ Recorded'
<1>1. TypeOK'
  BY LimitsAssumption DEF HandlerDropped, TypeOK
<1>2. Control'
  BY DEF HandlerDropped, TypeOK
<1>3. Recorded'
  BY DEF HandlerDropped, TypeOK
<1> QED BY <1>1, <1>2, <1>3

\* A poll that fails only ends.
LEMMA ReadLostStep ==
  ASSUME TypeOK, Control, Recorded, NEW p \in Plan, ReadLost(p)
  PROVE  TypeOK' /\ Control' /\ Recorded'
<1>1. TypeOK'
  BY DEF ReadLost, PollEnds, TypeOK
<1>2. Control'
  BY DEF ReadLost, PollEnds, TypeOK
<1>3. Recorded'
  BY DEF ReadLost, PollEnds, TypeOK
<1> QED BY <1>1, <1>2, <1>3

\* A lost denial leaves a pending request, and a fault.
LEMMA DenialLostStep ==
  ASSUME TypeOK, Control, Recorded, NEW p \in Plan, DenialLost(p)
  PROVE  TypeOK' /\ Control' /\ Recorded'
<1>1. TypeOK'
  BY LimitsAssumption DEF DenialLost, TypeOK
<1>2. Control'
  BY DEF DenialLost, TypeOK
<1>3. Recorded'
  BY DEF DenialLost, TypeOK
<1> QED BY <1>1, <1>2, <1>3

\* A start that was not recorded ends as a failure.
LEMMA StartLostStep ==
  ASSUME TypeOK, Control, Recorded, NEW p \in Plan, StartLost(p)
  PROVE  TypeOK' /\ Control' /\ Recorded'
<1>1. TypeOK'
  BY LimitsAssumption DEF StartLost, TypeOK
<1>2. Control'
  BY DEF StartLost, TypeOK
<1>3. Recorded'
  BY DEF StartLost, TypeOK
<1> QED BY <1>1, <1>2, <1>3

\* An end that was not recorded ends as a failure.
LEMMA FinishLostStep ==
  ASSUME TypeOK, Control, Recorded, NEW p \in Plan, FinishLost(p)
  PROVE  TypeOK' /\ Control' /\ Recorded'
<1>1. TypeOK'
  BY LimitsAssumption DEF FinishLost, TypeOK
<1>2. Control'
  BY DEF FinishLost, TypeOK
<1>3. Recorded'
  BY DEF FinishLost, TypeOK
<1> QED BY <1>1, <1>2, <1>3

\* Recovery denies an abandoned plan, or starts over.
LEMMA RecoverPlanStep ==
  ASSUME TypeOK, Control, Recorded, NEW p \in Plan, RecoverPlan(p)
  PROVE  TypeOK' /\ Control' /\ Recorded'
<1>1. TypeOK'
  <2>1. /\ approval' \in [Plan -> {"absent", "pending"} \cup Store!Outcome]
        /\ decider' \in [Plan -> Decider \cup {"none"}]
    <3>1. CASE Store!Decide(p, "execution-recovery", "rejected")
      BY <3>1, DecidedTypes
    <3>2. CASE UNCHANGED <<approval, decider>>
      BY <3>2 DEF TypeOK
    <3> QED BY <3>1, <3>2 DEF RecoverPlan
  <2> QED BY <2>1 DEF RecoverPlan, TypeOK
<1>2. Control'
  BY DEF RecoverPlan, Store!Decide, TypeOK
<1>3. Recorded'
  <2>1. daemon # "up" /\ daemon' # "up" /\ UNCHANGED <<entry, launches, operation>>
    BY DEF RecoverPlan
  <2>2. PendingIsAbandoned'
    <3>1. CASE daemon' = "down"
      BY <3>1
    <3>2. CASE /\ approval' = [approval EXCEPT ![p] = "rejected"]
               /\ abandoned' = abandoned \ {p} /\ daemon' = daemon
      BY <3>2 DEF TypeOK
    <3> QED BY <3>1, <3>2 DEF RecoverPlan, Store!Decide
  <2> QED BY <2>1, <2>2
<1> QED BY <1>1, <1>2, <1>3

\* A shutdown ends every job.
LEMMA BeginShutdownStep ==
  ASSUME TypeOK, Control, Recorded, BeginShutdown
  PROVE  TypeOK' /\ Control' /\ Recorded'
<1>1. TypeOK'
  BY LimitsAssumption DEF BeginShutdown, NoJob, TypeOK
<1>2. Control'
  BY DEF BeginShutdown, NoJob, TypeOK
<1>3. Recorded'
  BY DEF BeginShutdown, NoJob, TypeOK
<1> QED BY <1>1, <1>2, <1>3

\* A shutdown forgets every entry.
LEMMA ClearEntriesStep ==
  ASSUME TypeOK, Control, Recorded, ClearEntries
  PROVE  TypeOK' /\ Control' /\ Recorded'
<1>1. TypeOK'
  BY DEF ClearEntries, NoJob, TypeOK
<1>2. Control'
  BY DEF ClearEntries, NoJob, TypeOK
<1>3. Recorded'
  BY DEF ClearEntries, NoJob, TypeOK
<1> QED BY <1>1, <1>2, <1>3

\* The end of a shutdown interrupts what is still running.
LEMMA EndShutdownStep ==
  ASSUME TypeOK, Control, Recorded, EndShutdown
  PROVE  TypeOK' /\ Control' /\ Recorded'
<1>1. TypeOK'
  BY DEF EndShutdown, ProcessEnds, NoJob, Interrupted, TypeOK
<1>2. Control'
  BY DEF EndShutdown, ProcessEnds, NoJob, Interrupted, TypeOK
<1>3. Recorded'
  BY DEF EndShutdown, ProcessEnds, NoJob, Interrupted, TypeOK
<1> QED BY <1>1, <1>2, <1>3

\* A crash forgets the registry and keeps the store.
LEMMA CrashStep ==
  ASSUME TypeOK, Control, Recorded, Crash
  PROVE  TypeOK' /\ Control' /\ Recorded'
<1>1. TypeOK'
  BY LimitsAssumption DEF Crash, ProcessEnds, NoJob, TypeOK
<1>2. Control'
  BY DEF Crash, ProcessEnds, NoJob, TypeOK
<1>3. Recorded'
  BY DEF Crash, ProcessEnds, NoJob, TypeOK
<1> QED BY <1>1, <1>2, <1>3

\* A start takes every pending request as abandoned.
LEMMA StartStep ==
  ASSUME TypeOK, Control, Recorded, Start
  PROVE  TypeOK' /\ Control' /\ Recorded'
<1>1. TypeOK'
  BY DEF Start, TypeOK
<1>2. Control'
  BY DEF Start, TypeOK
<1>3. Recorded'
  BY DEF Start, TypeOK
<1> QED BY <1>1, <1>2, <1>3

\* Recovery is over: no operation is running and no request pending.
LEMMA ServeStep ==
  ASSUME TypeOK, Control, Recorded, Serve
  PROVE  TypeOK' /\ Control' /\ Recorded'
<1>1. TypeOK'
  BY DEF Serve, Interrupted, TypeOK
<1>2. Control'
  BY DEF Serve, Interrupted, TypeOK
<1>3. Recorded'
  BY DEF Serve, Interrupted, TypeOK
<1> QED BY <1>1, <1>2, <1>3

-----------------------------------------------------------------------------
\* The limits.

\* What a part of a finite set costs.
LEMMA Smaller ==
  ASSUME NEW S, NEW T, IsFiniteSet(S), T \subseteq S
  PROVE  /\ IsFiniteSet(T)
         /\ Cardinality(S) \in Nat /\ Cardinality(T) \in Nat
         /\ Cardinality(T) <= Cardinality(S)
<1>1. IsFiniteSet(T) /\ Cardinality(T) <= Cardinality(S)
  BY FS_Subset
<1> QED BY <1>1, FS_CardinalityType

\* expire_plans forgets and fails entries, and runs none.
LEMMA ExpiryShrinks ==
  ASSUME TypeOK, ExpireEntries
  PROVE  Entries' \subseteq Entries /\ Running' \subseteq Running
BY DEF ExpireEntries, LatePlans, OldResults, Entries, Running, TypeOK

\* Only Insert adds an entry, only ReadApproved a running one, only Reserve takes the mutex.
LEMMA EntriesShrink ==
  ASSUME TypeOK, Control, Next,
         \A p \in Plan : ~Insert(p) /\ ~Reserve(p) /\ ~ReadApproved(p)
  PROVE  /\ Entries' \subseteq Entries /\ Running' \subseteq Running
         /\ lock' \in {lock, "free"}
<1>1. CASE \E p \in Plan : Begin(p) \/ PollBegin(p)
  BY <1>1, ExpiryShrinks DEF Begin, PollBegin
<1>2. CASE Cleanup
  BY <1>2, ExpiryShrinks DEF Cleanup
<1>3. CASE \E p \in Plan : Refuse(p) \/ Submit(p) \/ DirectDecision(p) \/ ReadState(p)
  BY <1>3 DEF Refuse, Submit, DirectDecision, ReadState, PollEnds, Entries, Running
<1>4. CASE \E p \in Plan : ReadDenied(p) \/ Publish(p)
  BY <1>4 DEF ReadDenied, Publish, PollEnds, Entries, Running, TypeOK
<1>5. CASE \E p \in Plan : Execute(p) /\ ~Publish(p)
  <2>1. PICK p \in Plan : Execute(p) /\ ~Publish(p)
    BY <1>5
  <2>2. UNCHANGED <<entry, lock>>
    BY <2>1 DEF Execute, RecordStart, Check, Resolve, Recheck, Launch, ConsumerEnds,
                FinishOperation, JobFails, JobMoves
  <2> QED BY <2>2 DEF Entries, Running
<1>6. CASE \E p \in Plan : DenyExpired(p) \/ PlanAges(p) \/ Decided(p) \/ FilesChange(p)
                           \/ RecoverPlan(p)
  BY <1>6 DEF DenyExpired, PlanAges, Decided, FilesChange, RecoverPlan, Entries, Running
<1>7. CASE \E p \in Plan : Fault(p)
  BY <1>7 DEF Fault, HandlerDropped, ReadLost, PollEnds, DenialLost, StartLost, FinishLost,
              Entries, Running
<1>8. CASE BeginShutdown \/ Start \/ Serve
  BY <1>8 DEF BeginShutdown, Start, Serve, Entries, Running
<1>9. CASE ClearEntries \/ EndShutdown \/ Crash
  BY <1>9 DEF ClearEntries, EndShutdown, Crash, ProcessEnds, Entries, Running
<1> QED
  BY <1>1, <1>2, <1>3, <1>4, <1>5, <1>6, <1>7, <1>8, <1>9
     DEF Next, Undisturbed, Admit, Read, Lifecycle

\* MAX_PLANS: the room found by Reserve is used up by Insert, and by nobody else.
LEMMA RoomStep ==
  ASSUME TypeOK, Control, RoomReserved, Next
  PROVE  RoomReserved'
<1>0. Cardinality(Entries) \in Nat
  BY FS_CardinalityType DEF RoomReserved
<1>1. ASSUME NEW p \in Plan, Insert(p)
      PROVE  RoomReserved'
  <2>1. lock = p /\ lock # "free" /\ lock' = "free"
    BY <1>1, LimitsAssumption DEF Insert, HandlerMoves
  <2>2. Entries' = Entries \cup {p}
    BY <1>1 DEF Insert, Entries, TypeOK
  <2>3. /\ IsFiniteSet(Entries \cup {p})
        /\ Cardinality(Entries \cup {p}) <= Cardinality(Entries) + 1
    <3>1. IsFiniteSet(Entries)
      BY DEF RoomReserved
    <3>2. /\ IsFiniteSet(Entries \cup {p})
          /\ Cardinality(Entries \cup {p}) =
               IF p \in Entries THEN Cardinality(Entries) ELSE Cardinality(Entries) + 1
      BY <3>1, FS_AddElement
    <3> QED BY <1>0, <3>2
  <2>4. Cardinality(Entries) + 1 <= MaxPlans
    BY <1>0, <2>1, LimitsAssumption DEF RoomReserved
  <2>5. Cardinality(Entries') \in Nat
    BY <2>2, <2>3, FS_CardinalityType
  <2> QED BY <1>0, <2>1, <2>2, <2>3, <2>4, <2>5, LimitsAssumption DEF RoomReserved
<1>2. ASSUME NEW p \in Plan, Reserve(p)
      PROVE  RoomReserved'
  <2>1. CASE Cardinality(Entries) < MaxPlans
    <3>1. Entries' = Entries
      BY <1>2, <2>1 DEF Reserve, Entries
    <3> QED BY <2>1, <3>1 DEF RoomReserved
  <2>2. CASE ~(Cardinality(Entries) < MaxPlans)
    <3>1. PICK q \in Entries : entry' = [entry EXCEPT ![q] = "none"]
      BY <1>2, <2>2 DEF Reserve
    <3>2. Entries' = Entries \ {q}
      BY <3>1 DEF Entries, TypeOK
    <3>3. IsFiniteSet(Entries') /\ Cardinality(Entries') = Cardinality(Entries) - 1
      BY <3>1, <3>2, FS_RemoveElement DEF RoomReserved
    <3> QED BY <1>0, <3>3, LimitsAssumption DEF RoomReserved
  <2> QED BY <2>1, <2>2
<1>3. ASSUME Entries' \subseteq Entries, lock' \in {lock, "free"}
      PROVE  RoomReserved'
  <2>1. IsFiniteSet(Entries') /\ Cardinality(Entries') <= Cardinality(Entries)
    BY <1>3, Smaller DEF RoomReserved
  <2>2. Cardinality(Entries') \in Nat
    BY <2>1, FS_CardinalityType
  <2> QED BY <1>0, <1>3, <2>1, <2>2, LimitsAssumption DEF RoomReserved
<1>4. ASSUME NEW p \in Plan, ReadApproved(p)
      PROVE  Entries' \subseteq Entries /\ lock' = lock
  <2>1. p \in Entries /\ lock' = lock
    BY <1>4 DEF ReadApproved, PollEnds, Entries
  <2>2. \A q \in Plan : q # p => entry'[q] = entry[q]
    BY <1>4 DEF ReadApproved, Spawn, TypeOK
  <2> QED BY <2>1, <2>2 DEF Entries
<1> QED BY <1>1, <1>2, <1>3, <1>4, EntriesShrink

\* MAX_RUNNING: a slot is taken under the mutex by the poll that saw it free.
LEMMA SlotsStep ==
  ASSUME TypeOK, Control, SlotsTaken, Next
  PROVE  SlotsTaken'
<1>0. Cardinality(Running) \in Nat
  BY FS_CardinalityType DEF SlotsTaken
<1>1. ASSUME NEW p \in Plan, ReadApproved(p)
      PROVE  SlotsTaken'
  <2>1. Cardinality(Running) < MaxRunning
    BY <1>1 DEF ReadApproved, Approved, SlotFree
  <2>2. Running' \subseteq Running \cup {p}
    BY <1>1 DEF ReadApproved, Spawn, Running, TypeOK
  <2>3. /\ IsFiniteSet(Running \cup {p})
        /\ Cardinality(Running \cup {p}) <= Cardinality(Running) + 1
    <3>1. IsFiniteSet(Running)
      BY DEF SlotsTaken
    <3>2. /\ IsFiniteSet(Running \cup {p})
          /\ Cardinality(Running \cup {p}) =
               IF p \in Running THEN Cardinality(Running) ELSE Cardinality(Running) + 1
      BY <3>1, FS_AddElement
    <3> QED BY <1>0, <3>2
  <2>4. /\ IsFiniteSet(Running')
        /\ Cardinality(Running') <= Cardinality(Running \cup {p})
        /\ Cardinality(Running') \in Nat /\ Cardinality(Running \cup {p}) \in Nat
    BY <2>2, <2>3, Smaller
  <2> QED BY <1>0, <2>1, <2>3, <2>4, LimitsAssumption DEF SlotsTaken
<1>2. ASSUME Running' \subseteq Running
      PROVE  SlotsTaken'
  <2>1. /\ IsFiniteSet(Running') /\ Cardinality(Running') <= Cardinality(Running)
        /\ Cardinality(Running') \in Nat
    BY <1>2, Smaller DEF SlotsTaken
  <2> QED BY <1>0, <2>1, LimitsAssumption DEF SlotsTaken
<1>3. ASSUME NEW p \in Plan, Insert(p) \/ Reserve(p)
      PROVE  Running' \subseteq Running
  BY <1>3 DEF Insert, Reserve, Entries, Running, TypeOK
<1> QED BY <1>1, <1>2, <1>3, EntriesShrink

-----------------------------------------------------------------------------
\* Answers.

\* No step changes a finished entry but the ones that forget it, and a launch needs an entry
\* that is running.
LEMMA FinalStep ==
  ASSUME TypeOK, Control, Next, NEW p \in Plan, entry[p] \in Finished
  PROVE  entry'[p] \in {entry[p], "none"} /\ launches'[p] = launches[p]
<1>1. ASSUME NEW q \in Plan, Begin(q) \/ PollBegin(q) \/ Cleanup
      PROVE  entry'[p] \in {entry[p], "none"} /\ launches' = launches
  BY <1>1 DEF Begin, PollBegin, Cleanup, ExpireEntries, LatePlans, OldResults
<1>2. ASSUME NEW q \in Plan,
             \/ Refuse(q) \/ Submit(q) \/ DirectDecision(q) \/ ReadState(q) \/ DenyExpired(q)
             \/ PlanAges(q) \/ Decided(q) \/ FilesChange(q) \/ Fault(q) \/ RecoverPlan(q)
      PROVE  UNCHANGED <<entry, launches>>
  BY <1>2 DEF Refuse, Submit, DirectDecision, ReadState, PollEnds, DenyExpired, PlanAges,
     Decided, FilesChange, RecoverPlan, Fault, HandlerDropped, ReadLost, DenialLost, StartLost,
     FinishLost
<1>3. ASSUME NEW q \in Plan, Reserve(q)
      PROVE  entry'[p] \in {entry[p], "none"} /\ launches' = launches
  BY <1>3 DEF Reserve, TypeOK
<1>4. ASSUME NEW q \in Plan, Insert(q) \/ ReadDenied(q) \/ ReadApproved(q) \/ Publish(q)
      PROVE  entry'[p] = entry[p] /\ launches' = launches
  <2>1. q # p
    BY <1>4 DEF Insert, HandlerMoves, ReadDenied, ReadApproved, Publish
  <2> QED
    BY <1>4, <2>1 DEF Insert, HandlerMoves, ReadDenied, ReadApproved, PollEnds, Spawn,
                      Publish, TypeOK
<1>5. ASSUME NEW q \in Plan, Execute(q) /\ ~Publish(q)
      PROVE  entry' = entry /\ launches'[p] = launches[p]
  <2>1. q # p /\ entry' = entry
    BY <1>5 DEF Execute, RecordStart, Check, Resolve, Recheck, Launch, ConsumerEnds,
                FinishOperation, JobFails, JobMoves
  <2>2. launches' = launches \/ launches' = [launches EXCEPT ![q] = @ + 1]
    BY <1>5 DEF Execute, RecordStart, Check, Resolve, Recheck, Launch, ConsumerEnds,
                FinishOperation, JobFails
  <2> QED BY <2>1, <2>2 DEF TypeOK
<1>6. ASSUME Lifecycle
      PROVE  entry'[p] \in {entry[p], "none"} /\ launches' = launches
  BY <1>6 DEF Lifecycle, BeginShutdown, ClearEntries, EndShutdown, Crash, ProcessEnds, Start, Serve
<1> QED
  BY <1>1, <1>2, <1>3, <1>4, <1>5, <1>6 DEF Next, Undisturbed, Admit, Read, Execute

-----------------------------------------------------------------------------
\* The theorems.

\* The initial state satisfies the inductive invariant.
LEMMA InitInv == Init => IInv
<1> SUFFICES ASSUME Init PROVE IInv
  OBVIOUS
<1>1. TypeOK
  BY LimitsAssumption DEF Init, Store!Init, NoJob, TypeOK
<1>2. Control /\ Recorded
  BY DEF Init, Store!Init, NoJob
<1>3. Entries = {} /\ Running = {}
  BY DEF Init, Entries, Running
<1>4. RoomReserved /\ SlotsTaken
  BY <1>3, FS_EmptySet, LimitsAssumption DEF Init, RoomReserved, SlotsTaken
<1> QED BY <1>1, <1>2, <1>4 DEF IInv

\* Every step keeps it.
LEMMA NextInv == IInv /\ [Next]_vars => IInv'
<1> SUFFICES ASSUME IInv, [Next]_vars PROVE IInv'
  OBVIOUS
<1> USE DEF IInv
<1>1. CASE Next
  <2>1. RoomReserved' /\ SlotsTaken'
    BY <1>1, RoomStep, SlotsStep
  <2>2. ASSUME NEW p \in Plan, Admit(p) \/ Read(p)
        PROVE  TypeOK' /\ Control' /\ Recorded'
    BY <2>2, BeginStep, RefuseStep, ReserveStep, SubmitStep, DirectDecisionStep, InsertStep,
       PollBeginStep, ReadStateStep, ReadDeniedStep, ReadApprovedStep DEF Admit, Read
  <2>3. ASSUME NEW p \in Plan, Execute(p)
        PROVE  TypeOK' /\ Control' /\ Recorded'
    BY <2>3, RecordStartStep, CheckStep, ResolveStep, RecheckStep, LaunchStep,
       ConsumerEndsStep, FinishOperationStep, PublishStep, JobFailsStep DEF Execute
  <2>4. ASSUME NEW p \in Plan, DenyExpired(p) \/ PlanAges(p) \/ Decided(p) \/ FilesChange(p)
        PROVE  TypeOK' /\ Control' /\ Recorded'
    BY <2>4, DenyExpiredStep, PlanAgesStep, DecidedStep, FilesChangeStep
  <2>5. ASSUME NEW p \in Plan, Fault(p) \/ RecoverPlan(p)
        PROVE  TypeOK' /\ Control' /\ Recorded'
    BY <2>5, HandlerDroppedStep, ReadLostStep, DenialLostStep, StartLostStep, FinishLostStep,
       RecoverPlanStep DEF Fault
  <2>6. ASSUME Cleanup \/ Lifecycle
        PROVE  TypeOK' /\ Control' /\ Recorded'
    BY <2>6, CleanupStep, BeginShutdownStep, ClearEntriesStep, EndShutdownStep, CrashStep,
       StartStep, ServeStep DEF Lifecycle
  <2> HIDE DEF Control, Recorded
  <2>7. TypeOK' /\ Control' /\ Recorded'
    BY <1>1, <2>2, <2>3, <2>4, <2>5, <2>6 DEF Next, Undisturbed
  <2> QED BY <2>1, <2>7
<1>2. CASE UNCHANGED vars
  <2>1. TypeOK' /\ Control' /\ Recorded'
    BY <1>2 DEF vars, TypeOK
  <2>2. Entries' = Entries /\ Running' = Running /\ lock' = lock
    BY <1>2 DEF vars, Entries, Running
  <2> QED BY <2>1, <2>2 DEF RoomReserved, SlotsTaken
<1> QED BY <1>1, <1>2

\* The inductive invariant holds in every reachable state.
THEOREM Invariant == Spec => []IInv
BY InitInv, NextInv, PTL DEF Spec

\* A plan is launched at most once, only while its approval stands, and never with files
\* that had changed before the credential was read (execution_status, complete_execution).
THEOREM Launches == Spec => []LaunchesAreApproved
<1>1. IInv => LaunchesAreApproved
  BY DEF IInv, LaunchesAreApproved, NeverReplayed, LaunchIsApproved, StaleNeverLaunched, TypeOK
<1> QED BY <1>1, Invariant, PTL

\* The registry never holds more than MAX_PLANS entries nor runs more than MAX_RUNNING
\* consumers, and no task runs a consumer once a shutdown began.
THEOREM Limits == Spec => []LimitsRespected
<1>1. IInv => LimitsRespected
  BY DEF IInv, LimitsRespected, SlotsRespected, QueueRespected, NoConsumerInShutdown, SlotsTaken,
         RoomReserved, Running
<1> QED BY <1>1, Invariant, PTL

\* Registry, request and audit agree: no pending request is without its plan, no running
\* operation without its task, no completed answer without its launch and its record.
THEOREM Records == Spec => []RecordsAgree
<1>1. IInv => RecordsAgree
  BY DEF IInv, RecordsAgree
<1> QED BY <1>1, Invariant, PTL

\* An answer is final: a finished entry is only ever forgotten, and nothing is launched
\* for it (execution_status, expire_plans, ExecutionRegistry::shutdown).
THEOREM Finality == Spec => AnswerIsFinal
<1> HIDE DEF Finished
<1>1. IInv /\ [Next]_vars =>
        [\A p \in Plan : entry[p] \in Finished =>
           /\ entry'[p] \in {entry[p], "none"}
           /\ launches'[p] = launches[p]]_vars
  BY FinalStep DEF IInv
<1> QED BY <1>1, Invariant, PTL DEF Spec, AnswerIsFinal

\* The registry uses the store as ApprovalOutcome allows: a request is decided once, whoever
\* decides it, across expiry, polls, crashes and recovery.
THEOREM RefinesOutcome == Spec => Store!Spec
<1>1. Init => Store!Init
  BY DEF Init
<1>2. Next => Store!Next \/ UNCHANGED <<approval, decider>>
  <2>1. ASSUME NEW p \in Plan, Submit(p)
        PROVE  Store!Next
    BY <2>1 DEF Submit, Store!Next
  <2>2. ASSUME NEW p \in Plan, NEW who \in Decider, NEW o \in Store!Outcome,
               Store!Decide(p, who, o)
        PROVE  Store!Next
    BY <2>2 DEF Store!Next
  <2>3. ASSUME NEW p \in Plan,
               DirectDecision(p) \/ DenyExpired(p) \/ Decided(p) \/ RecoverPlan(p)
        PROVE  Store!Next \/ UNCHANGED <<approval, decider>>
    <3>1. \/ \E who \in Decider, o \in Store!Outcome : Store!Decide(p, who, o)
          \/ UNCHANGED <<approval, decider>>
      BY <2>3 DEF DirectDecision, DenyExpired, Decided, RecoverPlan
    <3> QED BY <2>2, <3>1
  <2>4. ASSUME NEW p \in Plan, Admit(p) \/ Read(p), ~Submit(p), ~DirectDecision(p)
        PROVE  UNCHANGED <<approval, decider>>
    BY <2>4 DEF Admit, Begin, Refuse, Reserve, Insert, Read, PollBegin, ReadState, ReadDenied,
                ReadApproved, PollEnds
  <2>5. ASSUME NEW p \in Plan, Execute(p)
        PROVE  UNCHANGED <<approval, decider>>
    BY <2>5 DEF Execute, RecordStart, Check, Resolve, Recheck, Launch, ConsumerEnds,
                FinishOperation, JobFails, JobMoves, Publish
  <2>6. ASSUME NEW p \in Plan, PlanAges(p) \/ FilesChange(p) \/ Fault(p)
        PROVE  UNCHANGED <<approval, decider>>
    BY <2>6 DEF PlanAges, FilesChange, Fault, HandlerDropped, ReadLost, PollEnds, DenialLost,
                StartLost, FinishLost
  <2>7. ASSUME Cleanup \/ Lifecycle
        PROVE  UNCHANGED <<approval, decider>>
    BY <2>7 DEF Cleanup, Lifecycle, BeginShutdown, ClearEntries, EndShutdown, Crash, Start, Serve
  <2> QED
    BY <2>1, <2>3, <2>4, <2>5, <2>6, <2>7 DEF Next, Undisturbed, Admit
<1>3. UNCHANGED vars => UNCHANGED <<approval, decider>>
  BY DEF vars
<1> QED BY <1>1, <1>2, <1>3, PTL DEF Spec, Store!Spec

-----------------------------------------------------------------------------
(* Positions                                                               *)

\* Positions of a sequence that are in a set have a last one.
LEMMA LastPosition ==
  ASSUME NEW n \in Nat, NEW K \in SUBSET (1..n), K # {}
  PROVE  \E k \in K : \A j \in K : j <= k
<1> DEFINE R == StrictSubsetOrdering(1..n)
           from(k) == {j \in K : k <= j}
           T == {from(k) : k \in K}
<1>1. IsFiniteSet(1..n)
  BY FS_Interval
<1>2. T \subseteq FiniteSubsetsOf(1..n)
  BY <1>1, FS_FiniteSubsetsOfFinite
<1>3. PICK x \in T : \A y \in T : ~(<<y, x>> \in R)
  <2>1. IsWellFoundedOn(R, FiniteSubsetsOf(1..n))
    BY FS_StrictSubsetOrderingWellFounded
  <2>2. T # {}
    OBVIOUS
  <2>3. QED
    <3> HIDE DEF T, R
    <3> QED BY <2>1, <2>2, <1>2, WFMin
<1>4. PICK k \in K : x = from(k)
  OBVIOUS
<1>5. ASSUME NEW j \in K, k < j PROVE FALSE
  <2>1. from(j) \subseteq from(k) /\ from(j) # from(k) /\ from(j) \in T
    <3>1. /\ k <= k /\ ~(j <= k)
          /\ \A i \in K : j <= i => k <= i
      <4>1. \A i \in K \cup {j, k} : i \in Nat
        OBVIOUS
      <4>2. QED
        BY <4>1, <1>5
    <3>2. QED
      BY <3>1
  <2>2. <<from(j), x>> \in R
    BY <2>1, <1>4 DEF StrictSubsetOrdering
  <2>3. QED
    BY <2>1, <2>2, <1>3
<1>6. QED
  BY <1>5

\* ... and a first one.
LEMMA FirstPosition ==
  ASSUME NEW n \in Nat, NEW K \in SUBSET (1..n), K # {}
  PROVE  \E k \in K : \A j \in K : k <= j
<1> DEFINE M == {n + 1 - k : k \in K}
<1>1. M \in SUBSET (1..n) /\ M # {}
  <2>1. \A k \in K : n + 1 - k \in 1..n
    OBVIOUS
  <2>2. PICK k \in K : TRUE
    OBVIOUS
  <2>3. n + 1 - k \in M
    OBVIOUS
  <2> QED BY <2>1, <2>3
<1>2. PICK m \in M : \A j \in M : j <= m
  <2> HIDE DEF M
  <2> QED BY <1>1, LastPosition
<1>3. PICK k \in K : m = n + 1 - k
  OBVIOUS
<1>4. ASSUME NEW j \in K PROVE k <= j
  <2>1. n + 1 - j <= m
    BY <1>2
  <2> QED BY <1>3, <2>1
<1> QED BY <1>4

-----------------------------------------------------------------------------
(* The words of a command line (CommandScan)                               *)

\* A walk that never leaves the positions is defined at each of them.
LEMMA WalkExists ==
  ASSUME NEW n \in Nat, NEW steps \in [1..n -> Nat],
         \A i \in 1..n : i + steps[i] \in 1..n
  PROVE  \E f : f = [i \in 1..n |-> IF steps[i] = 0 THEN i ELSE f[i + steps[i]]]
<1> DEFINE next(g, i) == IF steps[i] = 0 THEN i ELSE g[i + steps[i]]
           from(m) == \E g \in [1..n -> 1..n] : \A i \in m..n : g[i] = next(g, i)
           K == {m \in 1..(n + 1) : ~from(m)}
<1>1. from(n + 1)
  <2>1. [i \in 1..n |-> i] \in [1..n -> 1..n] /\ (n + 1)..n = {}
    OBVIOUS
  <2> QED BY <2>1
<1>2. ASSUME NEW k \in 1..n, from(k + 1) PROVE from(k)
  <2>1. PICK g \in [1..n -> 1..n] : \A i \in (k + 1)..n : g[i] = next(g, i)
    BY <1>2
  <2>2. PICK h : h = [g EXCEPT ![k] = next(g, k)]
    OBVIOUS
  <2>3. next(g, k) \in 1..n
    OBVIOUS
  <2>4. h \in [1..n -> 1..n] /\ h[k] = next(g, k) /\ \A i \in 1..n : i # k => h[i] = g[i]
    BY <2>2, <2>3
  <2>5. ASSUME NEW i \in k..n PROVE h[i] = next(h, i)
    <3>1. CASE i = k
      <4>1. steps[k] # 0 => k + steps[k] # k /\ k + steps[k] \in 1..n
        OBVIOUS
      <4> QED BY <3>1, <4>1, <2>4
    <3>2. CASE i # k
      <4>1. i \in (k + 1)..n /\ i \in 1..n /\ i + steps[i] # k /\ i + steps[i] \in 1..n
        BY <3>2
      <4> QED BY <4>1, <2>1, <2>4
    <3> QED BY <3>1, <3>2
  <2> QED BY <2>4, <2>5
<1>3. K = {}
  <2> SUFFICES ASSUME K # {} PROVE FALSE
    OBVIOUS
  <2>1. PICK k \in K : \A j \in K : j <= k
    <3>1. K \in SUBSET (1..(n + 1)) /\ n + 1 \in Nat
      OBVIOUS
    <3> HIDE DEF K
    <3> QED BY <3>1, LastPosition
  <2>2. k \in 1..n /\ ~from(k)
    <3>1. k # n + 1
      BY <1>1
    <3> HIDE DEF from
    <3> QED BY <3>1
  <2>3. k + 1 \in 1..(n + 1) /\ k + 1 \notin K
    <3> HIDE DEF from
    <3> QED BY <2>1, <2>2
  <2>4. from(k + 1)
    BY <2>3
  <2> QED
    <3> HIDE DEF from
    <3> QED BY <1>2, <2>2, <2>4
<1>4. from(1)
  <2> HIDE DEF from
  <2> QED BY <1>3
<1>5. PICK g \in [1..n -> 1..n] : \A i \in 1..n : g[i] = next(g, i)
  BY <1>4
<1>6. g = [i \in 1..n |-> next(g, i)]
  BY <1>5
<1> QED BY <1>6

\* From each position the walk ends where it ends from the next one.
Follows(f, argv, steps) ==
  \A i \in Line!Positions(argv) : f[i] = IF steps[i] = 0 THEN i ELSE f[i + steps[i]]

LEMMA WalkEnds ==
  ASSUME NEW argv, Len(argv) \in Nat, NEW steps \in [Line!Positions(argv) -> Nat],
         \A i \in Line!Positions(argv) : i + steps[i] \in Line!Positions(argv)
  PROVE  \E f : Line!Walk(argv, steps) = f[1] /\ Follows(f, argv, steps)
<1>1. PICK n \in Nat : n = Len(argv) + 3
  OBVIOUS
<1> DEFINE f == CHOOSE f : f = [i \in 1..n |-> IF steps[i] = 0 THEN i ELSE f[i + steps[i]]]
<1>2. \E h : h = [i \in 1..n |-> IF steps[i] = 0 THEN i ELSE h[i + steps[i]]]
  BY <1>1, WalkExists DEF Line!Positions
<1>3. f = [i \in 1..n |-> IF steps[i] = 0 THEN i ELSE f[i + steps[i]]]
  BY <1>2
<1>4. Line!Walk(argv, steps) = f[1]
  BY <1>1 DEF Line!Walk, Line!Positions
<1>5. Follows(f, argv, steps)
  <2> HIDE DEF f
  <2> QED BY <1>1, <1>3 DEF Line!Positions, Follows
<1> HIDE DEF f
<1> QED BY <1>4, <1>5

\* Both scans walk over positions, in steps of at most two.
LEMMA ScansWalk ==
  ASSUME NEW lang \in Line!Languages, lang # "native", NEW argv \in Seq(Line!Word[lang])
  PROVE  /\ Len(argv) \in Nat /\ DOMAIN argv = 1..Len(argv)
         /\ \A s \in {Line!Steps(lang, argv), Line!HintSteps(lang, argv)} :
              /\ s \in [Line!Positions(argv) -> 0..2]
              /\ \A i \in Line!Positions(argv) : i + s[i] \in Line!Positions(argv)
<1>1. Len(argv) \in Nat /\ DOMAIN argv = 1..Len(argv)
  OBVIOUS
<1>2. \A i \in Line!Positions(argv) : Line!Has(argv, i) => i + 2 \in Line!Positions(argv)
  BY <1>1 DEF Line!Positions, Line!Has
<1>3. /\ Line!Steps(lang, argv) \in [Line!Positions(argv) -> 0..2]
      /\ \A i \in Line!Positions(argv) : ~Line!Has(argv, i) => Line!Steps(lang, argv)[i] = 0
  BY DEF Line!Steps
<1>4. /\ Line!HintSteps(lang, argv) \in [Line!Positions(argv) -> 0..2]
      /\ \A i \in Line!Positions(argv) : ~Line!Has(argv, i) => Line!HintSteps(lang, argv)[i] = 0
  BY DEF Line!HintSteps
<1>5. ASSUME NEW s \in [Line!Positions(argv) -> 0..2], NEW i \in Line!Positions(argv),
             ~Line!Has(argv, i) => s[i] = 0
      PROVE  i + s[i] \in Line!Positions(argv)
  BY <1>1, <1>2, <1>5 DEF Line!Positions
<1> QED BY <1>1, <1>3, <1>4, <1>5

\* Code behind a shell setting that has a value.
Setting(argv) ==
  \E i \in DOMAIN argv : argv[i] = "pipefail" /\ i > 1 /\ argv[i - 1] = "-o"

\* What the hint says where it stops agrees with what the scan found where it stops.
Agree(lang, argv, i, j) ==
  LET from == Line!Found(lang, argv, i).from
  IN from = "rejected" \/ (Line!Asks(lang, argv, j) <=> from = "stdin")
       \/ (~Line!Asks(lang, argv, j) /\ Setting(argv))

\* Word by word: the scans stop at the same word, or go on by the same words, or the scan of
\* the daemon rejects the option, or the hint takes the value of a setting for the program.
LEMMA AtEachWord ==
  ASSUME NEW lang \in Line!Languages, lang # "native", NEW argv \in Seq(Line!Word[lang]),
         NEW i \in Line!Positions(argv)
  PROVE  LET s == Line!Steps(lang, argv)
             h == Line!HintSteps(lang, argv)
         IN /\ s[i] = 0 /\ h[i] = 0 => Agree(lang, argv, i, i)
            /\ s[i] = 0 /\ h[i] # 0 => Line!Found(lang, argv, i).from = "rejected"
            /\ s[i] # 0 /\ h[i] # s[i] =>
                 /\ i + 1 \in Line!Positions(argv) /\ h[i] = 1 /\ h[i + 1] = 0
                 /\ ~Line!Asks(lang, argv, i + 1) /\ Setting(argv)
<1>1. /\ Line!Steps(lang, argv)[i] =
           IF ~Line!Has(argv, i) THEN 0
           ELSE LET option == Line!OptionOf[lang][argv[i]]
                IN CASE option = "alone" -> 1
                     [] option = "value" -> 2
                     [] option = "setting" /\ Line!After(argv, i) = "pipefail" -> 2
                     [] OTHER -> 0
  BY DEF Line!Steps
<1>2. \A j \in Line!Positions(argv) : Line!HintSteps(lang, argv)[j] =
        IF ~Line!Has(argv, j) THEN 0
        ELSE CASE Line!Separates(lang, argv[j]) \/ argv[j] \in {"-", "name", "pipefail"} -> 0
               [] argv[j] \in Line!HintSource[lang] \cup Line!HintStdin[lang] -> 0
               [] argv[j] \in Line!HintValue[lang] -> 2
               [] OTHER -> 1
  BY DEF Line!HintSteps
<1>3. CASE ~Line!Has(argv, i)
  BY <1>1, <1>2, <1>3 DEF Agree, Line!Asks, Line!Found
<1> DEFINE w == argv[i]
           next == Line!After(argv, i)
           option == Line!OptionOf[lang][w]
           from == Line!Found(lang, argv, i).from
<1>4. ASSUME Line!Has(argv, i)
      PROVE  /\ w = "-" /\ lang # "shell" => from = "stdin"
             /\ Line!Separates(lang, w) /\ ~(w = "-" /\ lang # "shell") =>
                  from = IF next # "none" /\ (next # "-" \/ lang = "shell") THEN "file" ELSE "stdin"
             /\ ~Line!Separates(lang, w) /\ ~(w = "-" /\ lang # "shell") =>
                  /\ option = "inline" => from \in {"inline", "rejected"}
                  /\ option = "joined" => from = "inline"
                  /\ option = "stdin" => from \in {"stdin", "rejected"}
                  /\ option \in {"setting", "unknown"} => from = "rejected"
                  /\ option = "operand" => from = "file"
  BY <1>4 DEF Line!Found
<1>5. ASSUME Line!Has(argv, i)
      PROVE  Line!Asks(lang, argv, i) <=>
               IF Line!Separates(lang, w) THEN next = "none" \/ (lang # "shell" /\ next = "-")
               ELSE w = "-" \/ w \in Line!HintStdin[lang]
  BY <1>5 DEF Line!Asks
<1>6. Line!Has(argv, i) => argv[i] \in Line!Word[lang] /\ i \in 1..Len(argv)
  BY DEF Line!Has
<1>7. CASE Line!Has(argv, i) /\ lang = "python"
  <2>1. argv[i] \in {"-c", "-m", "-W", "-I", "-i", "-", "--", "name"}
    BY <1>6, <1>7 DEF Line!Word
  <2>2. Line!OptionOf[lang][argv[i]] =
          CASE argv[i] = "-c" -> "inline" [] argv[i] = "-W" -> "value" [] argv[i] = "-I" -> "alone"
            [] argv[i] \in {"-m", "-i"} -> "unknown" [] OTHER -> "operand"
    BY <1>6, <1>7 DEF Line!OptionOf, Line!Word
  <2>3. /\ Line!HintSource[lang] = {"-c", "-m"} /\ Line!HintStdin[lang] = {}
        /\ Line!HintValue[lang] = {"-W"}
    BY <1>7 DEF Line!HintSource, Line!HintStdin, Line!HintValue
  <2>4. /\ w = "-W" => Line!HintSteps(lang, argv)[i] = 2
        /\ w \in {"-I", "-i"} => Line!HintSteps(lang, argv)[i] = 1
        /\ w \notin {"-W", "-I", "-i"} => Line!HintSteps(lang, argv)[i] = 0
    BY <1>2, <1>7, <2>1, <2>3 DEF Line!Separates
  <2>5. /\ w = "-W" => Line!Steps(lang, argv)[i] = 2
        /\ w = "-I" => Line!Steps(lang, argv)[i] = 1
        /\ w \notin {"-W", "-I"} => Line!Steps(lang, argv)[i] = 0
    BY <1>1, <1>7, <2>1, <2>2
  <2>6. w = "-i" => from = "rejected"
    BY <1>7, <1>4, <2>2 DEF Line!Separates
  <2>7. w \notin {"-W", "-I"} => Agree(lang, argv, i, i)
    <3>1. w \notin {"-W", "-I"} =>
            from = "rejected" \/ (Line!Asks(lang, argv, i) <=> from = "stdin")
      BY <1>7, <1>4, <1>5, <2>1, <2>2, <2>3 DEF Line!Separates
    <3> QED BY <3>1 DEF Agree
  <2> QED
    <3> HIDE DEF from, w, option, next
    <3> QED BY <1>7, <2>1, <2>4, <2>5, <2>6, <2>7 DEF from
<1>8. CASE Line!Has(argv, i) /\ lang = "node"
  <2>1. w \in {"-e", "--eval=code", "--input-type", "--no-warnings", "--watch", "-", "--", "name"}
    BY <1>6, <1>8 DEF Line!Word
  <2>2. option = CASE w = "-e" -> "inline" [] w = "--eval=code" -> "joined"
                   [] w = "--input-type" -> "value" [] w = "--no-warnings" -> "alone"
                   [] w = "--watch" -> "unknown" [] OTHER -> "operand"
    BY <1>6, <1>8 DEF Line!OptionOf, Line!Word
  <2>3. /\ Line!HintSource[lang] = {"-e", "--eval=code"} /\ Line!HintStdin[lang] = {}
        /\ Line!HintValue[lang] = {"--input-type"}
    BY <1>8 DEF Line!HintSource, Line!HintStdin, Line!HintValue
  <2>4. /\ w = "--input-type" => Line!HintSteps(lang, argv)[i] = 2
        /\ w \in {"--no-warnings", "--watch"} => Line!HintSteps(lang, argv)[i] = 1
        /\ w \notin {"--input-type", "--no-warnings", "--watch"} =>
             Line!HintSteps(lang, argv)[i] = 0
    BY <1>2, <1>8, <2>1, <2>3 DEF Line!Separates
  <2>5. /\ w = "--input-type" => Line!Steps(lang, argv)[i] = 2
        /\ w = "--no-warnings" => Line!Steps(lang, argv)[i] = 1
        /\ w \notin {"--input-type", "--no-warnings"} => Line!Steps(lang, argv)[i] = 0
    BY <1>1, <1>8, <2>1, <2>2
  <2>6. w = "--watch" => from = "rejected"
    BY <1>8, <1>4, <2>2 DEF Line!Separates
  <2>7. w \notin {"--input-type", "--no-warnings"} => Agree(lang, argv, i, i)
    <3>1. w \notin {"--input-type", "--no-warnings"} =>
            from = "rejected" \/ (Line!Asks(lang, argv, i) <=> from = "stdin")
      BY <1>8, <1>4, <1>5, <2>1, <2>2, <2>3 DEF Line!Separates
    <3> QED BY <3>1 DEF Agree
  <2> QED
    <3> HIDE DEF from, w, option, next
    <3> QED BY <1>8, <2>1, <2>4, <2>5, <2>6, <2>7 DEF from
<1>9. CASE Line!Has(argv, i) /\ lang = "shell"
  <2>1. w \in {"-c", "-ec", "-s", "-x", "-o", "-os", "-l", "--norc", "--login", "-", "--",
               "name", "pipefail"}
    BY <1>6, <1>9 DEF Line!Word
  <2>2. option = CASE w \in {"-c", "-ec"} -> "inline" [] w = "-s" -> "stdin"
                   [] w = "-o" -> "setting" [] w \in {"-x", "--norc"} -> "alone"
                   [] w \in {"-os", "-l", "--login"} -> "unknown"
                   [] OTHER -> "operand"
    BY <1>6, <1>9 DEF Line!OptionOf, Line!Word
  <2>3. /\ Line!HintSource[lang] = {"-c", "-ec"} /\ Line!HintStdin[lang] = {"-s", "-os"}
        /\ Line!HintValue[lang] = {}
    BY <1>9 DEF Line!HintSource, Line!HintStdin, Line!HintValue
  <2>4. /\ w \in {"-x", "-o", "-l", "--norc", "--login"} => Line!HintSteps(lang, argv)[i] = 1
        /\ w \notin {"-x", "-o", "-l", "--norc", "--login"} => Line!HintSteps(lang, argv)[i] = 0
    BY <1>2, <1>9, <2>1, <2>3 DEF Line!Separates
  <2>5. /\ w \in {"-x", "--norc"} => Line!Steps(lang, argv)[i] = 1
        /\ w = "-o" /\ next = "pipefail" => Line!Steps(lang, argv)[i] = 2
        /\ w \notin {"-x", "--norc"} /\ ~(w = "-o" /\ next = "pipefail") =>
             Line!Steps(lang, argv)[i] = 0
    BY <1>1, <1>9, <2>1, <2>2
  <2>6. w \in {"-o", "-os", "-l", "--login"} => from = "rejected"
    BY <1>9, <1>4, <2>2 DEF Line!Separates
  <2>7. w \notin {"-x", "--norc", "-o"} => Agree(lang, argv, i, i)
    <3>1. w \notin {"-x", "--norc", "-o"} =>
            from = "rejected" \/ (Line!Asks(lang, argv, i) <=> from = "stdin")
      BY <1>9, <1>4, <1>5, <2>1, <2>2, <2>3 DEF Line!Separates
    <3> QED BY <3>1 DEF Agree
  <2>8. CASE w = "-o" /\ next = "pipefail"
    <3>1. i + 1 \in DOMAIN argv /\ argv[i + 1] = "pipefail"
      BY <2>8 DEF Line!After, Line!Has
    <3>2. i + 1 \in Line!Positions(argv) /\ Line!Has(argv, i + 1)
      BY <3>1, <1>6, <1>9 DEF Line!Positions, Line!Has
    <3>3. Line!HintSteps(lang, argv)[i + 1] = 0
      BY <1>2, <1>9, <2>3, <3>1, <3>2 DEF Line!Separates
    <3>4. ~Line!Asks(lang, argv, i + 1)
      BY <1>9, <2>3, <3>1, <3>2 DEF Line!Asks, Line!Separates
    <3>5. Setting(argv)
      <4>1. i + 1 > 1 /\ (i + 1) - 1 = i
        BY <1>6, <1>9
      <4> QED BY <2>8, <3>1, <4>1 DEF Setting
    <3> QED
      <4> HIDE DEF from, option, next
      <4> QED BY <2>4, <2>5, <2>8, <3>2, <3>3, <3>4, <3>5
  <2>9. CASE ~(w = "-o" /\ next = "pipefail")
    <3> HIDE DEF from, w, option, next
    <3> QED BY <1>9, <2>1, <2>4, <2>5, <2>6, <2>7, <2>9 DEF from
  <2> QED BY <2>8, <2>9
<1> QED
  <2>1. Line!Has(argv, i) => lang \in {"python", "node", "shell"}
    BY DEF Line!Languages
  <2> HIDE DEF from, w, option, next
  <2> QED BY <1>3, <1>7, <1>8, <1>9, <2>1

\* Scan and hint agree about every command line.
LEMMA ScansAgree ==
  ASSUME NEW lang \in Line!Languages, lang # "native", NEW argv \in Seq(Line!Word[lang])
  PROVE  Agree(lang, argv, Line!Walk(argv, Line!Steps(lang, argv)),
               Line!Walk(argv, Line!HintSteps(lang, argv)))
<1> DEFINE s == Line!Steps(lang, argv)
           h == Line!HintSteps(lang, argv)
           N == Line!Positions(argv)
<1>1. /\ Len(argv) \in Nat /\ N = 1..(Len(argv) + 3)
      /\ s \in [N -> 0..2] /\ \A i \in N : i + s[i] \in N
      /\ h \in [N -> 0..2] /\ \A i \in N : i + h[i] \in N
  <2>1. N = 1..(Len(argv) + 3)
    BY DEF Line!Positions
  <2> HIDE DEF N
  <2> QED BY <2>1, ScansWalk DEF N
<1>2. Len(argv) \in Nat
  BY <1>1
<1>3. PICK f : Line!Walk(argv, s) = f[1] /\ Follows(f, argv, s)
  <2>1. s \in [N -> Nat]
    BY <1>1
  <2>2. \A i \in N : i + s[i] \in N
    BY <1>1
  <2> HIDE DEF s
  <2> QED BY <1>2, <2>1, <2>2, WalkEnds
<1>4. PICK g : Line!Walk(argv, h) = g[1] /\ Follows(g, argv, h)
  <2>1. h \in [N -> Nat]
    BY <1>1
  <2>2. \A i \in N : i + h[i] \in N
    BY <1>1
  <2> HIDE DEF h
  <2> QED BY <1>2, <2>1, <2>2, WalkEnds
<1>5. \A i \in N : /\ f[i] = IF s[i] = 0 THEN i ELSE f[i + s[i]]
                   /\ g[i] = IF h[i] = 0 THEN i ELSE g[i + h[i]]
  <2> HIDE DEF s, h
  <2> QED BY <1>3, <1>4 DEF Follows
<1> DEFINE K == {i \in N : ~Agree(lang, argv, f[i], g[i])}
<1>6. K = {}
  <2> SUFFICES ASSUME K # {} PROVE FALSE
    OBVIOUS
  <2>1. PICK k \in K : \A j \in K : j <= k
    <3>1. K \in SUBSET (1..(Len(argv) + 3)) /\ Len(argv) + 3 \in Nat
      BY <1>1
    <3> HIDE DEF K
    <3> QED BY <3>1, LastPosition
  <2>2. k \in N /\ ~Agree(lang, argv, f[k], g[k])
    OBVIOUS
  <2>3. \A j \in N : j > k => Agree(lang, argv, f[j], g[j])
    <3>1. \A j \in N : j \in Nat /\ (j > k => ~(j <= k))
      BY <1>1, <2>2
    <3> QED BY <2>1, <3>1
  <2>4. /\ s[k] = 0 /\ h[k] = 0 => Agree(lang, argv, k, k)
        /\ s[k] = 0 /\ h[k] # 0 => Line!Found(lang, argv, k).from = "rejected"
        /\ s[k] # 0 /\ h[k] # s[k] =>
             /\ k + 1 \in N /\ h[k] = 1 /\ h[k + 1] = 0
             /\ ~Line!Asks(lang, argv, k + 1) /\ Setting(argv)
    BY <2>2, AtEachWord
  <2> HIDE DEF K, s, h, N
  <2>5. CASE s[k] = 0 /\ h[k] = 0
    BY <1>5, <2>2, <2>4, <2>5
  <2>6. CASE s[k] = 0 /\ h[k] # 0
    <3>1. f[k] = k
      BY <1>5, <2>2, <2>6
    <3>2. Agree(lang, argv, k, g[k])
      BY <2>4, <2>6 DEF Agree
    <3> QED BY <2>2, <3>1, <3>2
  <2>7. CASE s[k] # 0 /\ h[k] = s[k]
    <3>1. k + s[k] \in N /\ k + s[k] > k
      <4>1. k \in Nat
        BY <1>1, <2>2
      <4>2. s[k] \in 1..2 /\ k + s[k] \in N
        <5>1. s[k] \in 0..2 /\ k + s[k] \in N
          BY <1>1, <2>2
        <5> QED BY <5>1, <2>7
      <4> QED BY <4>1, <4>2
    <3> QED BY <1>5, <2>2, <2>3, <2>7, <3>1
  <2>8. CASE s[k] # 0 /\ h[k] # s[k]
    <3>1. g[k] = k + 1
      BY <1>5, <2>2, <2>4, <2>8
    <3> QED BY <2>2, <2>4, <2>8, <3>1 DEF Agree
  <2> QED BY <2>5, <2>6, <2>7, <2>8
<1>7. 1 \in N
  BY <1>1
<1> QED
  <2>1. Agree(lang, argv, f[1], g[1])
    BY <1>6, <1>7
  <2> QED BY <2>1, <1>3, <1>4

\* The words are those that the language tells apart.
Typed == language \in Line!Languages /\ words \in Seq(Line!Word[language])

\* The command line reads its own stdin only for a command that runs what it reads, and what
\* it captured is called data only if it is, but for one shell setting.
LEMMA LineHolds ==
  ASSUME Typed PROVE Line!StdinOnlyWhenRead /\ Line!CodeIsNotCalledData
<1> DEFINE i == Line!Walk(words, Line!Steps(language, words))
           j == Line!Walk(words, Line!HintSteps(language, words))
<1>1. CASE language = "native"
  <2>1. ~Line!RequiresSourceStdin(language, words) /\ Line!Scan(language, words).from = "none"
    BY <1>1 DEF Line!RequiresSourceStdin, Line!Scan
  <2> QED BY <2>1 DEF Line!StdinOnlyWhenRead, Line!CodeIsNotCalledData
<1>2. CASE language # "native"
  <2>1. Agree(language, words, i, j)
    BY <1>2, ScansAgree DEF Typed
  <2>2. /\ Line!RequiresSourceStdin(language, words) <=> Line!Asks(language, words, j)
        /\ Line!Scan(language, words) = Line!Found(language, words, i)
    BY <1>2 DEF Line!RequiresSourceStdin, Line!Scan
  <2> HIDE DEF i, j
  <2>3. \/ Line!Scan(language, words).from = "rejected"
        \/ Line!RequiresSourceStdin(language, words) <=> Line!Scan(language, words).from = "stdin"
        \/ ~Line!RequiresSourceStdin(language, words) /\ Setting(words)
    BY <2>1, <2>2 DEF Agree
  <2>4. Line!StdinOnlyWhenRead
    BY <2>3 DEF Line!StdinOnlyWhenRead, Line!Admitted
  <2>5. Line!CodeIsNotCalledData
    <3>1. Line!StdinKind = "data" => ~Line!RequiresSourceStdin(language, words)
      BY DEF Line!StdinKind
    <3> QED BY <2>3, <3>1 DEF Line!CodeIsNotCalledData, Line!Admitted, Setting
  <2> QED BY <2>4, <2>5
<1> QED BY <1>1, <1>2

LEMMA LineTyped ==
  /\ ConsumersInit => Typed
  /\ Typed /\ [ConsumersNext]_consumersVars => Typed'
<1>1. ConsumersInit => Typed
  BY DEF ConsumersInit, Line!Init, Typed
<1>2. ASSUME Typed, Line!Next PROVE Typed'
  <2>1. PICK w \in Line!Word[language] : words' = Append(words, w) /\ language' = language
    BY <1>2 DEF Line!Next, Line!Type
  <2> QED BY <1>2, <2>1 DEF Typed
<1>3. ASSUME Typed, UNCHANGED scanVars PROVE Typed'
  BY <1>3 DEF Typed, scanVars
<1> QED
  BY <1>1, <1>2, <1>3 DEF ConsumersNext, consumersVars, RegistryStep, ScanStep, EvidenceStep,
     CommandStep

-----------------------------------------------------------------------------
(* The files of a command (ExecutionEvidence)                              *)

\* The commands before a command that name a file.
LEMMA BeforeCounts ==
  ASSUME NEW s \in Seq(Evidence!Simple)
  PROVE  /\ Evidence!Before(s, 1) = 0
         /\ \A n \in 1..Len(s) :
              /\ Evidence!Before(s, n) \in Nat
              /\ s[n].path # NoPath => Evidence!Before(s, n + 1) = Evidence!Before(s, n) + 1
              /\ s[n].path = NoPath => Evidence!Before(s, n + 1) = Evidence!Before(s, n)
<1> DEFINE files(n) == {i \in 1..(n - 1) : s[i].path # NoPath}
<1>0. \A S : Evidence!Cardinality(S) = Cardinality(S)
  BY DEF Cardinality, Evidence!Cardinality
<1>1. \A n \in Nat : IsFiniteSet(files(n)) /\ Cardinality(files(n)) \in Nat
  <2> SUFFICES ASSUME NEW n \in Nat PROVE IsFiniteSet(files(n)) /\ Cardinality(files(n)) \in Nat
    OBVIOUS
  <2>1. IsFiniteSet(1..(n - 1)) /\ files(n) \subseteq 1..(n - 1)
    BY FS_Interval
  <2> HIDE DEF files
  <2>2. IsFiniteSet(files(n))
    BY <2>1, FS_Subset
  <2> QED BY <2>2, FS_CardinalityType
<1>2. files(1) = {}
  OBVIOUS
<1>3. Evidence!Before(s, 1) = 0
  <2>1. Cardinality(files(1)) = 0
    <3> HIDE DEF files
    <3> QED BY <1>2, FS_EmptySet
  <2> QED BY <1>0, <2>1 DEF Evidence!Before
<1>4. ASSUME NEW n \in 1..Len(s), s[n].path # NoPath
      PROVE  Cardinality(files(n + 1)) = Cardinality(files(n)) + 1
  <2>1. files(n + 1) = files(n) \cup {n} /\ n \notin files(n) /\ n \in Nat
    BY <1>4
  <2> HIDE DEF files
  <2> QED BY <2>1, <1>1, FS_AddElement
<1>5. ASSUME NEW n \in 1..Len(s), s[n].path = NoPath
      PROVE  files(n + 1) = files(n)
  BY <1>5
<1>6. \A n \in 1..Len(s) : n \in Nat
  OBVIOUS
<1>7. \A n \in Nat : Evidence!Before(s, n) = Cardinality(files(n))
  <2> SUFFICES ASSUME NEW n \in Nat PROVE Evidence!Before(s, n) = Cardinality(files(n))
    OBVIOUS
  <2>1. Evidence!Before(s, n) = Evidence!Cardinality(files(n))
    BY DEF Evidence!Before
  <2> HIDE DEF files
  <2> QED BY <2>1, <1>0
<1>8. \A n \in 1..Len(s) : n + 1 \in Nat
  OBVIOUS
<1> HIDE DEF files
<1> QED BY <1>1, <1>3, <1>4, <1>5, <1>6, <1>7, <1>8

\* A script is a sequence of commands; one that runs a file names it.
LEMMA ScriptTyped ==
  ASSUME Evidence!TypeOK
  PROVE  /\ script \in Seq(Evidence!Simple) /\ Len(script) \in Nat
         /\ DOMAIN script = 1..Len(script)
         /\ \A i \in DOMAIN script :
              /\ script[i].path \in Path \cup {NoPath} /\ script[i].output \in Path \cup {NoPath}
              /\ script[i].does \in {"entry", "tool", "builtin", "unbound"}
              /\ script[i].does \in {"entry", "tool"} <=> script[i].path \in Path
              /\ script[i].does = "unbound" => script[i].output = NoPath
<1>1. ASSUME NEW n \in 1..MaxCommands, NEW s \in [1..n -> Evidence!Simple]
      PROVE  s \in Seq(Evidence!Simple)
  BY EvidenceAssumption
<1>2. script \in Seq(Evidence!Simple)
  <2>1. <<>> \in Seq(Evidence!Simple)
    OBVIOUS
  <2>2. CASE script \in Evidence!Script
    BY <1>1, <2>2 DEF Evidence!Script
  <2> QED BY <2>1, <2>2 DEF Evidence!TypeOK
<1>3. \A c \in Evidence!Simple :
        /\ c.path \in Path \cup {NoPath} /\ c.output \in Path \cup {NoPath}
        /\ c.does \in {"entry", "tool", "builtin", "unbound"}
        /\ c.does \in {"entry", "tool"} <=> c.path \in Path
        /\ c.does = "unbound" => c.output = NoPath
  BY EvidenceAssumption DEF Evidence!Simple, Evidence!Absence
<1> QED BY <1>2, <1>3

\* The parts of a plan.
LEMMA PlanTyped ==
  ASSUME Evidence!TypeOK
  PROVE  /\ plan.files \in Seq(Evidence!FileType) /\ plan.sources \in Seq(Evidence!SourceType)
         /\ plan.outputs \in SUBSET File
         /\ plan = [files |-> plan.files, sources |-> plan.sources, outputs |-> plan.outputs]
         /\ DOMAIN plan.files = 1..Len(plan.files) /\ Len(plan.files) \in Nat
         /\ DOMAIN plan.sources = 1..Len(plan.sources) /\ Len(plan.sources) \in Nat
         /\ \A i \in DOMAIN plan.files :
              /\ plan.files[i].path \in Path /\ plan.files[i].target \in File
              /\ plan.files[i].content \in Nat /\ plan.files[i].content <= newest
         /\ \A i \in DOMAIN plan.sources :
              /\ plan.sources[i].path \in Path
              /\ plan.sources[i].content \in Nat /\ plan.sources[i].content <= newest
         /\ \A p \in Path : Evidence!Content(p) \in Nat /\ Evidence!Content(p) <= newest
<1>1. /\ plan.files \in Seq(Evidence!FileType) /\ plan.sources \in Seq(Evidence!SourceType)
      /\ plan.outputs \in SUBSET File
      /\ plan = [files |-> plan.files, sources |-> plan.sources, outputs |-> plan.outputs]
  BY DEF Evidence!TypeOK
<1>2. \A f \in Evidence!FileType :
        f.path \in Path /\ f.target \in File /\ f.content \in Nat /\ f.content <= newest
  BY DEF Evidence!FileType, Evidence!TypeOK
<1>3. \A f \in Evidence!SourceType : f.path \in Path /\ f.content \in Nat /\ f.content <= newest
  BY DEF Evidence!SourceType, Evidence!TypeOK
<1>4. \A p \in Path : Evidence!Content(p) \in Nat /\ Evidence!Content(p) <= newest
  <2>1. \A p \in Path : Evidence!Content(p) \in 0..newest
    BY DEF Evidence!Content, Evidence!TypeOK
  <2> QED BY <2>1 DEF Evidence!TypeOK
<1> QED BY <1>1, <1>2, <1>3, <1>4

LEMMA EvidenceInit == Evidence!Init => Evidence!IInv
<1> SUFFICES ASSUME Evidence!Init PROVE Evidence!IInv
  OBVIOUS
<1> USE DEF Evidence!Init, Evidence!NoPlan
<1>1. Evidence!TypeOK
  <2>1. disk \in [File -> 0..newest] /\ newest \in Nat /\ edits \in Nat
    OBVIOUS
  <2>2. plan \in [files : Seq(Evidence!FileType), sources : Seq(Evidence!SourceType),
                  outputs : SUBSET File]
    OBVIOUS
  <2>3. ran \in Seq([path : Path, content : Nat])
    OBVIOUS
  <2> QED BY <2>1, <2>2, <2>3 DEF Evidence!TypeOK
<1>2. Evidence!StepsAreAbout /\ Evidence!SourcesInOrder /\ Evidence!ContentGrows
  BY DEF Evidence!StepsAreAbout, Evidence!SourcesInOrder, Evidence!ContentGrows,
         Evidence!Collecting, Evidence!Planned, Evidence!Analyzed, Evidence!Content
<1>3. Evidence!ComparedIsShown /\ Evidence!OutputsAreKnown /\ Evidence!ComparedIsThere
  BY DEF Evidence!ComparedIsShown, Evidence!OutputsAreKnown, Evidence!ComparedIsThere,
         Evidence!Planned, Evidence!Analyzed, Evidence!Collecting, Evidence!Compared
<1>4. Evidence!RunsWhatWasShown
  BY DEF Evidence!RunsWhatWasShown
<1> QED BY <1>1, <1>2, <1>3, <1>4 DEF Evidence!IInv

\* A plan begins empty.
LEMMA PrepareKeeps == ASSUME Evidence!IInv, Evidence!Prepare PROVE Evidence!IInv'
<1> USE DEF Evidence!IInv
<1>1. /\ evidencePc = "idle" /\ evidencePc' = "command" /\ at' = 1
      /\ script' \in Evidence!Script
      /\ UNCHANGED <<target, disk, newest, edits, returned, unseen, plan, found, ran>>
  BY DEF Evidence!Prepare, Evidence!Goes, Evidence!environment
<1>2. plan = Evidence!NoPlan /\ ran = <<>>
  BY <1>1 DEF Evidence!StepsAreAbout
<1>3. Evidence!TypeOK'
  BY <1>1 DEF Evidence!TypeOK, Evidence!FileType, Evidence!SourceType
<1>4. /\ script' \in Seq(Evidence!Simple) /\ Len(script') \in Nat
      /\ Evidence!Before(script', 1) = 0
  <2>1. ASSUME NEW n \in 1..MaxCommands, NEW s \in [1..n -> Evidence!Simple]
        PROVE  s \in Seq(Evidence!Simple)
    BY EvidenceAssumption
  <2>2. script' \in Seq(Evidence!Simple)
    BY <1>1, <2>1 DEF Evidence!Script
  <2> QED BY <2>2, BeforeCounts
<1>5. Evidence!StepsAreAbout'
  BY <1>1, <1>2, <1>4 DEF Evidence!StepsAreAbout
<1>6. Evidence!SourcesInOrder'
  BY <1>1, <1>2, <1>4 DEF Evidence!SourcesInOrder, Evidence!NoPlan, Evidence!Collecting,
     Evidence!Planned, Evidence!Analyzed
<1>7. Evidence!ContentGrows'
  BY <1>1, <1>2 DEF Evidence!ContentGrows, Evidence!NoPlan
<1>8. Evidence!ComparedIsShown' /\ Evidence!ComparedIsThere'
  BY <1>1 DEF Evidence!ComparedIsShown, Evidence!ComparedIsThere, Evidence!Compared
<1>9. Evidence!OutputsAreKnown'
  BY <1>1, <1>4 DEF Evidence!OutputsAreKnown, Evidence!Planned, Evidence!Analyzed,
     Evidence!Collecting
<1>10. Evidence!RunsWhatWasShown'
  BY <1>1, <1>2 DEF Evidence!RunsWhatWasShown
<1> QED BY <1>3, <1>5, <1>6, <1>7, <1>8, <1>9, <1>10

\* The output of a command is where its name points now.
LEMMA AnalyzeKeeps == ASSUME Evidence!IInv, Evidence!Analyze PROVE Evidence!IInv'
<1> USE DEF Evidence!IInv
<1>1. /\ evidencePc = "command" /\ at \in DOMAIN script
      /\ UNCHANGED <<target, disk, newest, edits, returned, unseen, script, found, ran>>
  BY DEF Evidence!Analyze, Evidence!environment
<1>2. PICK c : c = script[at]
  OBVIOUS
<1>3. /\ plan' = IF c.output = NoPath THEN plan
                 ELSE [plan EXCEPT !.outputs = @ \cup {target[c.output]}]
      /\ \/ c.does = "unbound" /\ evidencePc' = "refused" /\ at' = at
         \/ c.does = "builtin" /\ evidencePc' = "command" /\ at' = at + 1
         \/ c.does \notin {"unbound", "builtin"} /\ evidencePc' = "resolve" /\ at' = at
  BY <1>2 DEF Evidence!Analyze, Evidence!Goes
<1>4. /\ script \in Seq(Evidence!Simple) /\ Len(script) \in Nat
      /\ DOMAIN script = 1..Len(script) /\ at \in 1..Len(script)
      /\ c.path \in Path \cup {NoPath} /\ c.output \in Path \cup {NoPath}
      /\ c.does \in {"entry", "tool", "builtin", "unbound"}
      /\ c.does \in {"entry", "tool"} <=> c.path \in Path
  BY <1>1, <1>2, ScriptTyped
<1>5. /\ plan'.files = plan.files /\ plan'.sources = plan.sources
      /\ plan.outputs \subseteq plan'.outputs /\ plan'.outputs \in SUBSET File
      /\ c.output # NoPath => target[c.output] \in plan'.outputs
      /\ plan' = [files |-> plan'.files, sources |-> plan'.sources, outputs |-> plan'.outputs]
  BY <1>3, <1>4, PlanTyped DEF Evidence!TypeOK
<1>6. Evidence!TypeOK'
  BY <1>1, <1>3, <1>4, <1>5, PlanTyped DEF Evidence!TypeOK, Evidence!FileType, Evidence!SourceType
<1>7. Evidence!StepsAreAbout'
  BY <1>1, <1>2, <1>3, <1>4 DEF Evidence!StepsAreAbout
<1>8. c.does = "builtin" => Evidence!Before(script, at + 1) = Evidence!Before(script, at)
  BY <1>2, <1>4, BeforeCounts, EvidenceAssumption DEF Evidence!Absence
<1>9. Evidence!SourcesInOrder'
  <2>1. Evidence!Collecting' => Len(plan'.sources) = Evidence!Before(script', at')
    BY <1>1, <1>3, <1>5, <1>8 DEF Evidence!SourcesInOrder, Evidence!Collecting
  <2>2. \A i \in DOMAIN script' : Evidence!Analyzed(i)' /\ script'[i].path # NoPath =>
          Evidence!Analyzed(i)
    BY <1>1, <1>2, <1>3, <1>4, EvidenceAssumption
       DEF Evidence!Analyzed, Evidence!Planned, Evidence!Collecting, Evidence!Absence
  <2>3. \A i \in DOMAIN plan'.sources : Evidence!Bound(plan.sources[i].path)'
    BY <1>5 DEF Evidence!SourcesInOrder, Evidence!Bound
  <2> QED BY <1>1, <1>5, <2>1, <2>2, <2>3 DEF Evidence!SourcesInOrder
<1>10. Evidence!ContentGrows'
  BY <1>1, <1>3, <1>5 DEF Evidence!ContentGrows, Evidence!Content
<1>11. Evidence!ComparedIsShown' /\ Evidence!ComparedIsThere'
  BY <1>1, <1>3 DEF Evidence!ComparedIsShown, Evidence!ComparedIsThere, Evidence!Compared
<1>12. Evidence!OutputsAreKnown'
  <2>1. \A i \in DOMAIN script' :
          Evidence!Analyzed(i)' \/ (evidencePc' \in {"resolve", "read", "again"} /\ i = at') =>
            Evidence!Analyzed(i) \/ i = at
    BY <1>1, <1>3, <1>4 DEF Evidence!Analyzed, Evidence!Planned, Evidence!Collecting
  <2>2. ~Evidence!Planned'
    BY <1>3 DEF Evidence!Planned
  <2> QED BY <1>1, <1>2, <1>5, <2>1, <2>2 DEF Evidence!OutputsAreKnown
<1>13. Evidence!RunsWhatWasShown'
  BY <1>1, <1>5 DEF Evidence!RunsWhatWasShown
<1> QED BY <1>6, <1>7, <1>9, <1>10, <1>11, <1>12, <1>13

LEMMA ResolveKeeps == ASSUME Evidence!IInv, Evidence!Resolve PROVE Evidence!IInv'
<1> USE DEF Evidence!IInv
<1>1. /\ evidencePc = "resolve" /\ evidencePc' = "read" /\ at' = at
      /\ found' = target[script[at].path]
      /\ UNCHANGED <<target, disk, newest, edits, returned, unseen, script, plan, ran>>
  BY DEF Evidence!Resolve, Evidence!Goes, Evidence!environment
<1>2. at \in DOMAIN script /\ script[at].path \in Path /\ found' \in File
  BY <1>1 DEF Evidence!StepsAreAbout, Evidence!TypeOK
<1>3. Evidence!TypeOK'
  BY <1>1, <1>2 DEF Evidence!TypeOK, Evidence!FileType, Evidence!SourceType
<1>4. Evidence!StepsAreAbout'
  BY <1>1, <1>2 DEF Evidence!StepsAreAbout
<1>5. Evidence!SourcesInOrder' /\ Evidence!ContentGrows'
  BY <1>1 DEF Evidence!SourcesInOrder, Evidence!ContentGrows, Evidence!Collecting, Evidence!Planned,
     Evidence!Analyzed, Evidence!Bound, Evidence!Content
<1>6. Evidence!ComparedIsShown' /\ Evidence!ComparedIsThere' /\ Evidence!OutputsAreKnown'
  BY <1>1 DEF Evidence!ComparedIsShown, Evidence!ComparedIsThere, Evidence!OutputsAreKnown,
     Evidence!Collecting, Evidence!Planned, Evidence!Analyzed, Evidence!Compared
<1>7. Evidence!RunsWhatWasShown'
  BY <1>1 DEF Evidence!RunsWhatWasShown
<1> QED BY <1>3, <1>4, <1>5, <1>6, <1>7

\* A name that is collected: it is bound, before or now, and its source, if it is kept, is
\* what the name reads now.
LEMMA CollectKeeps ==
  ASSUME Evidence!IInv, evidencePc \in {"read", "again"},
         UNCHANGED <<target, disk, newest, edits, returned, unseen, script, found, ran>>,
         NEW p \in Path, p = script[at].path,
         plan' = [files |-> plan'.files, sources |-> plan'.sources, outputs |-> plan.outputs],
         \/ Evidence!Bound(p) /\ plan'.files = plan.files
         \/ /\ ~Evidence!Bound(p) /\ found \in File
            /\ plan'.files = Append(plan.files,
                 [path |-> p, target |-> found, content |-> Evidence!Content(p)]),
         \/ plan'.sources = plan.sources /\ evidencePc' = "again" /\ at' = at
         \/ /\ plan'.sources = Append(plan.sources, [path |-> p, content |-> Evidence!Content(p)])
            /\ evidencePc' = "command" /\ at' = at + 1
  PROVE  Evidence!IInv'
<1> USE DEF Evidence!IInv
<1> DEFINE bound == [path |-> p, target |-> found, content |-> Evidence!Content(p)]
           source == [path |-> p, content |-> Evidence!Content(p)]
           F == plan.files
           S == plan.sources
<1>1. /\ plan.files \in Seq(Evidence!FileType) /\ plan.sources \in Seq(Evidence!SourceType)
      /\ plan.outputs \in SUBSET File
      /\ plan = [files |-> plan.files, sources |-> plan.sources, outputs |-> plan.outputs]
      /\ DOMAIN F = 1..Len(F) /\ Len(F) \in Nat
      /\ DOMAIN S = 1..Len(S) /\ Len(S) \in Nat
      /\ Evidence!Content(p) \in 0..newest
  BY PlanTyped DEF Evidence!TypeOK
<1>2. /\ script \in Seq(Evidence!Simple) /\ Len(script) \in Nat
      /\ DOMAIN script = 1..Len(script) /\ at \in 1..Len(script)
  BY ScriptTyped DEF Evidence!StepsAreAbout
<1>3. p # NoPath
  BY EvidenceAssumption DEF Evidence!Absence
<1>4. plan' = [files |-> plan'.files, sources |-> plan'.sources, outputs |-> plan.outputs]
  OBVIOUS
<1>5. plan'.outputs = plan.outputs
  BY <1>4
\* The files are those that were bound, and perhaps this one.
<1>6. /\ plan'.files \in Seq(Evidence!FileType) /\ DOMAIN F \subseteq DOMAIN plan'.files
      /\ \A i \in DOMAIN F : plan'.files[i] = F[i]
      /\ \A i \in DOMAIN plan'.files \ DOMAIN F : plan'.files[i] = bound /\ ~Evidence!Bound(p)
      /\ \E i \in DOMAIN plan'.files : plan'.files[i].path = p
  <2>1. CASE Evidence!Bound(p) /\ plan'.files = F
    BY <1>1, <2>1 DEF Evidence!Bound
  <2>2. CASE ~Evidence!Bound(p) /\ found \in File /\ plan'.files = Append(F, bound)
    <3>1. bound \in Evidence!FileType
      BY <1>1, <2>2 DEF Evidence!FileType
    <3>2. /\ plan'.files \in Seq(Evidence!FileType) /\ DOMAIN plan'.files = 1..(Len(F) + 1)
          /\ \A i \in 1..Len(F) : plan'.files[i] = F[i]
          /\ plan'.files[Len(F) + 1] = bound
      <4> HIDE DEF bound
      <4> QED BY <1>1, <2>2, <3>1
    <3>3. bound.path = p
      OBVIOUS
    <3>4. \A i \in DOMAIN plan'.files \ DOMAIN F : i = Len(F) + 1
      BY <1>1, <3>2
    <3> HIDE DEF bound
    <3> QED BY <1>1, <2>2, <3>2, <3>3, <3>4
  <2> QED BY <2>1, <2>2
<1>7. /\ plan'.sources \in Seq(Evidence!SourceType) /\ DOMAIN S \subseteq DOMAIN plan'.sources
      /\ \A i \in DOMAIN S : plan'.sources[i] = S[i]
      /\ \A i \in DOMAIN plan'.sources \ DOMAIN S :
           plan'.sources[i] = source /\ evidencePc' = "command"
      /\ evidencePc' = "command" =>
           /\ at' = at + 1 /\ Len(plan'.sources) = Len(S) + 1
           /\ Len(S) + 1 \in DOMAIN plan'.sources /\ plan'.sources[Len(S) + 1] = source
      /\ evidencePc' # "command" => evidencePc' = "again" /\ at' = at /\ plan'.sources = S
  <2>1. CASE plan'.sources = S /\ evidencePc' = "again" /\ at' = at
    BY <1>1, <2>1
  <2>2. CASE plan'.sources = Append(S, source) /\ evidencePc' = "command" /\ at' = at + 1
    <3>1. source \in Evidence!SourceType
      BY <1>1 DEF Evidence!SourceType
    <3>2. /\ plan'.sources \in Seq(Evidence!SourceType) /\ DOMAIN plan'.sources = 1..(Len(S) + 1)
          /\ Len(plan'.sources) = Len(S) + 1
          /\ \A i \in 1..Len(S) : plan'.sources[i] = S[i]
          /\ plan'.sources[Len(S) + 1] = source
      <4> HIDE DEF source
      <4> QED BY <1>1, <2>2, <3>1
    <3>3. \A i \in DOMAIN plan'.sources \ DOMAIN S : i = Len(S) + 1
      BY <1>1, <3>2
    <3> HIDE DEF source
    <3> QED BY <1>1, <2>2, <3>2, <3>3
  <2> QED BY <2>1, <2>2
<1>8. evidencePc' \in {"again", "command"}
  BY <1>7
<1>9. Evidence!TypeOK'
  <2>1. plan' \in [files : Seq(Evidence!FileType), sources : Seq(Evidence!SourceType),
                   outputs : SUBSET File]
    BY <1>1, <1>4, <1>6, <1>7
  <2>2. at' \in Nat
    BY <1>2, <1>7
  <2> HIDE DEF bound, source
  <2> QED BY <1>8, <2>1, <2>2 DEF Evidence!TypeOK, Evidence!FileType, Evidence!SourceType
<1>10. Evidence!StepsAreAbout'
  <2>1. Evidence!Bound(p)'
    BY <1>6 DEF Evidence!Bound
  <2>2. ran = <<>>
    BY DEF Evidence!StepsAreAbout
  <2>3. evidencePc' = "again" => at' \in DOMAIN script' /\ script'[at'].path = p
    BY <1>2, <1>7
  <2>4. evidencePc' = "command" => at' \in 1..(Len(script') + 1)
    BY <1>2, <1>7
  <2>5. evidencePc' = "again" => Evidence!Bound(script[at].path)'
    BY <2>1, <2>3 DEF Evidence!Bound
  <2> QED BY <1>8, <2>2, <2>3, <2>4, <2>5 DEF Evidence!StepsAreAbout
<1> HIDE DEF bound, source
<1>11. bound.path = p /\ bound.content = Evidence!Content(p)
       /\ source.path = p /\ source.content = Evidence!Content(p)
  BY DEF bound, source
<1>12. Len(S) = Evidence!Before(script, at)
  BY DEF Evidence!SourcesInOrder, Evidence!Collecting
<1>13. Evidence!Before(script, at + 1) = Evidence!Before(script, at) + 1
  BY <1>2, <1>3, BeforeCounts
<1>14. Evidence!SourcesInOrder'
  <2>1. Evidence!Collecting' => Len(plan'.sources) = Evidence!Before(script', at')
    BY <1>7, <1>8, <1>12, <1>13
  <2>2. ASSUME NEW i \in DOMAIN script', Evidence!Analyzed(i)', script'[i].path # NoPath
        PROVE  /\ Evidence!Before(script', i) + 1 \in DOMAIN plan'.sources
               /\ plan'.sources[Evidence!Before(script', i) + 1].path = script'[i].path
    <3>1. Evidence!Analyzed(i) \/ (i = at /\ evidencePc' = "command")
      BY <1>2, <1>7, <1>8, <2>2 DEF Evidence!Analyzed, Evidence!Planned, Evidence!Collecting
    <3>2. CASE Evidence!Analyzed(i)
      BY <1>7, <2>2, <3>2 DEF Evidence!SourcesInOrder
    <3>3. CASE i = at /\ evidencePc' = "command"
      BY <1>7, <1>11, <1>12, <3>3
    <3> QED BY <3>1, <3>2, <3>3
  <2>3. ASSUME NEW i \in DOMAIN plan'.sources
        PROVE  Evidence!Bound(plan.sources[i].path)'
    <3>1. CASE i \in DOMAIN S
      <4>1. Evidence!Bound(S[i].path)
        BY <3>1 DEF Evidence!SourcesInOrder
      <4>2. PICK k \in DOMAIN F : F[k].path = S[i].path
        BY <4>1 DEF Evidence!Bound
      <4>3. k \in DOMAIN plan'.files /\ plan'.files[k].path = S[i].path
        BY <1>6, <4>2
      <4>4. plan'.sources[i] = S[i]
        BY <1>7, <3>1
      <4> QED BY <4>3, <4>4 DEF Evidence!Bound
    <3>2. CASE i \notin DOMAIN S
      BY <1>6, <1>7, <1>11, <3>2 DEF Evidence!Bound
    <3> QED BY <3>1, <3>2
  <2> QED BY <2>1, <2>2, <2>3 DEF Evidence!SourcesInOrder
<1>15. Evidence!ContentGrows'
  <2> SUFFICES ASSUME ~returned PROVE Evidence!ContentGrows'
    BY DEF Evidence!ContentGrows
  <2>1. /\ edits = 0 => newest = 0
        /\ \A i \in DOMAIN F : F[i].content <= Evidence!Content(F[i].path)
        /\ \A i \in DOMAIN S : S[i].content <= Evidence!Content(S[i].path)
        /\ \A i \in DOMAIN F, j \in DOMAIN S : F[i].path = S[j].path => F[i].content <= S[j].content
    BY DEF Evidence!ContentGrows
  <2>2. Evidence!Content(p) <= Evidence!Content(p)
    BY <1>1, PlanTyped
  <2>3. \A i \in DOMAIN plan'.files :
          plan'.files[i].content <= Evidence!Content(plan'.files[i].path)
    BY <1>6, <1>11, <2>1, <2>2
  <2>4. \A i \in DOMAIN plan'.sources :
          plan'.sources[i].content <= Evidence!Content(plan'.sources[i].path)
    BY <1>7, <1>11, <2>1, <2>2
  <2>5. ASSUME NEW i \in DOMAIN plan'.files, NEW j \in DOMAIN plan'.sources,
               plan'.files[i].path = plan'.sources[j].path
        PROVE  plan'.files[i].content <= plan'.sources[j].content
    <3>1. CASE j \in DOMAIN S
      <4>1. Evidence!Bound(S[j].path)
        BY <3>1 DEF Evidence!SourcesInOrder
      <4>2. i \in DOMAIN F
        BY <1>6, <1>7, <1>11, <2>5, <3>1, <4>1
      <4> QED BY <1>6, <1>7, <2>1, <2>5, <3>1, <4>2
    <3>2. CASE j \notin DOMAIN S
      BY <1>7, <1>11, <2>3, <2>5, <3>2
    <3> QED BY <3>1, <3>2
  <2>6. \A q : Evidence!Content(q)' = Evidence!Content(q)
    BY DEF Evidence!Content
  <2>7. /\ \A i \in DOMAIN plan'.files :
             plan'.files[i].content <= disk'[target'[plan'.files[i].path]]
        /\ \A i \in DOMAIN plan'.sources :
             plan'.sources[i].content <= disk'[target'[plan'.sources[i].path]]
    BY <2>3, <2>4 DEF Evidence!Content
  <2> QED BY <2>1, <2>5, <2>7 DEF Evidence!ContentGrows, Evidence!Content
<1>16. Evidence!ComparedIsShown' /\ Evidence!ComparedIsThere'
  BY <1>8 DEF Evidence!ComparedIsShown, Evidence!ComparedIsThere, Evidence!Compared
<1>17. Evidence!OutputsAreKnown'
  <2>1. \A i \in DOMAIN script' :
          Evidence!Analyzed(i)' \/ (evidencePc' \in {"resolve", "read", "again"} /\ i = at') =>
            Evidence!Analyzed(i) \/ i = at
    BY <1>2, <1>7, <1>8 DEF Evidence!Analyzed, Evidence!Planned, Evidence!Collecting
  <2> QED BY <1>5, <1>8, <2>1 DEF Evidence!OutputsAreKnown, Evidence!Planned
<1>18. Evidence!RunsWhatWasShown'
  <2>1. ran = <<>>
    BY DEF Evidence!StepsAreAbout
  <2> QED BY <2>1 DEF Evidence!RunsWhatWasShown
<1> QED BY <1>9, <1>10, <1>14, <1>15, <1>16, <1>17, <1>18

LEMMA ReadKeeps == ASSUME Evidence!IInv, Evidence!Read PROVE Evidence!IInv'
<1>1. /\ evidencePc = "read"
      /\ UNCHANGED <<target, disk, newest, edits, returned, unseen, script, found, ran>>
  BY DEF Evidence!Read, Evidence!environment
<1>2. at \in DOMAIN script /\ script[at].path \in Path /\ found \in File
  BY <1>1 DEF Evidence!IInv, Evidence!StepsAreAbout
<1>3. PICK p \in Path : p = script[at].path
  BY <1>2
<1>4. PICK bound : bound = [path |-> p, target |-> found, content |-> Evidence!Content(p)]
  OBVIOUS
<1>5. PICK source : source = [path |-> p, content |-> Evidence!Content(p)]
  OBVIOUS
<1>6. plan = [files |-> plan.files, sources |-> plan.sources, outputs |-> plan.outputs]
  BY PlanTyped DEF Evidence!IInv
<1>7. /\ plan'.files = IF Evidence!Bound(p) THEN plan.files ELSE Append(plan.files, bound)
      /\ plan'.sources = IF script[at].does = "tool" THEN plan.sources
                         ELSE Append(plan.sources, source)
      /\ plan' = [files |-> plan'.files, sources |-> plan'.sources, outputs |-> plan.outputs]
      /\ IF script[at].does = "tool" THEN evidencePc' = "again" /\ at' = at
         ELSE evidencePc' = "command" /\ at' = at + 1
  BY <1>3, <1>4, <1>5, <1>6 DEF Evidence!Read, Evidence!Goes, Evidence!Source
<1>8. \/ Evidence!Bound(p) /\ plan'.files = plan.files
      \/ /\ ~Evidence!Bound(p) /\ found \in File
         /\ plan'.files = Append(plan.files,
              [path |-> p, target |-> found, content |-> Evidence!Content(p)])
  BY <1>2, <1>4, <1>7
<1>9. \/ plan'.sources = plan.sources /\ evidencePc' = "again" /\ at' = at
      \/ /\ plan'.sources = Append(plan.sources, [path |-> p, content |-> Evidence!Content(p)])
         /\ evidencePc' = "command" /\ at' = at + 1
  BY <1>5, <1>7
<1> QED BY <1>1, <1>3, <1>7, <1>8, <1>9, CollectKeeps

LEMMA ReadAgainKeeps == ASSUME Evidence!IInv, Evidence!ReadAgain PROVE Evidence!IInv'
<1>1. /\ evidencePc = "again" /\ evidencePc' = "command" /\ at' = at + 1
      /\ UNCHANGED <<target, disk, newest, edits, returned, unseen, script, found, ran>>
  BY DEF Evidence!ReadAgain, Evidence!environment, Evidence!Goes
<1>2. script[at].path \in Path /\ Evidence!Bound(script[at].path)
  BY <1>1 DEF Evidence!IInv, Evidence!StepsAreAbout
<1>3. PICK p \in Path : p = script[at].path
  BY <1>2
<1>4. PICK source : source = [path |-> p, content |-> Evidence!Content(p)]
  OBVIOUS
<1>5. plan = [files |-> plan.files, sources |-> plan.sources, outputs |-> plan.outputs]
  BY PlanTyped DEF Evidence!IInv
<1>6. /\ plan'.files = plan.files /\ plan'.sources = Append(plan.sources, source)
      /\ plan' = [files |-> plan'.files, sources |-> plan'.sources, outputs |-> plan.outputs]
  BY <1>3, <1>4, <1>5 DEF Evidence!ReadAgain, Evidence!Source
<1>7. \/ Evidence!Bound(p) /\ plan'.files = plan.files
      \/ /\ ~Evidence!Bound(p) /\ found \in File
         /\ plan'.files = Append(plan.files,
              [path |-> p, target |-> found, content |-> Evidence!Content(p)])
  BY <1>2, <1>3, <1>6
<1>8. \/ plan'.sources = plan.sources /\ evidencePc' = "again" /\ at' = at
      \/ /\ plan'.sources = Append(plan.sources, [path |-> p, content |-> Evidence!Content(p)])
         /\ evidencePc' = "command" /\ at' = at + 1
  BY <1>1, <1>4, <1>6
<1> QED BY <1>1, <1>3, <1>6, <1>7, <1>8, CollectKeeps

\* The plan is kept only if its outputs are none of its files.
LEMMA ReadyKeeps == ASSUME Evidence!IInv, Evidence!Ready PROVE Evidence!IInv'
<1> USE DEF Evidence!IInv
<1>1. /\ evidencePc = "command" /\ at \notin DOMAIN script
      /\ UNCHANGED <<target, disk, newest, edits, returned, unseen, script, plan, found, ran>>
      /\ \/ evidencePc' = "refused" /\ at' = at
         \/ /\ evidencePc' = "ready" /\ at' = 1
            /\ \A i \in DOMAIN plan.files : plan.files[i].target \notin plan.outputs
  BY DEF Evidence!Ready, Evidence!environment, Evidence!Goes, Evidence!ReplacesEntry
<1>2. /\ script \in Seq(Evidence!Simple) /\ Len(script) \in Nat
      /\ DOMAIN script = 1..Len(script) /\ at = Len(script) + 1
  BY <1>1, ScriptTyped DEF Evidence!StepsAreAbout
<1>3. Evidence!TypeOK'
  BY <1>1, <1>2 DEF Evidence!TypeOK, Evidence!FileType, Evidence!SourceType
<1>4. Evidence!StepsAreAbout'
  BY <1>1, <1>2 DEF Evidence!StepsAreAbout
<1>5. \A i \in DOMAIN script : Evidence!Analyzed(i)
  BY <1>1, <1>2 DEF Evidence!Analyzed, Evidence!Collecting
<1>6. Evidence!SourcesInOrder'
  BY <1>1, <1>5 DEF Evidence!SourcesInOrder, Evidence!Collecting, Evidence!Bound, Evidence!Analyzed
<1>7. Evidence!ContentGrows'
  BY <1>1 DEF Evidence!ContentGrows, Evidence!Content
<1>8. \A i : ~Evidence!Compared(i)'
  BY <1>1, PlanTyped DEF Evidence!Compared
<1>9. Evidence!ComparedIsShown' /\ Evidence!ComparedIsThere'
  BY <1>1, <1>8 DEF Evidence!ComparedIsShown, Evidence!ComparedIsThere
<1>10. Evidence!OutputsAreKnown'
  BY <1>1, <1>5 DEF Evidence!OutputsAreKnown, Evidence!Planned
<1>11. Evidence!RunsWhatWasShown'
  BY <1>1 DEF Evidence!RunsWhatWasShown
<1> QED BY <1>3, <1>4, <1>6, <1>7, <1>9, <1>10, <1>11

\* The next file is resolved, or every file has been compared.
LEMMA VerifyKeeps == ASSUME Evidence!IInv, Evidence!Verify PROVE Evidence!IInv'
<1> USE DEF Evidence!IInv
<1>1. /\ evidencePc = "ready"
      /\ UNCHANGED <<target, disk, newest, edits, returned, unseen, script, plan, ran>>
      /\ \/ /\ at \in DOMAIN plan.files /\ evidencePc' = "compare" /\ at' = at
            /\ found' = target[plan.files[at].path]
         \/ /\ at \notin DOMAIN plan.files /\ evidencePc' = "run" /\ at' = 1
            /\ found' = "none"
  BY DEF Evidence!Verify, Evidence!environment, Evidence!Goes
<1>2. /\ script \in Seq(Evidence!Simple) /\ Len(script) \in Nat
      /\ DOMAIN script = 1..Len(script) /\ Evidence!Before(script, 1) = 0
      /\ at \in Nat /\ at > 0 /\ ran = <<>>
  BY <1>1, ScriptTyped, BeforeCounts DEF Evidence!StepsAreAbout, Evidence!TypeOK
<1>3. /\ DOMAIN plan.files = 1..Len(plan.files) /\ Len(plan.files) \in Nat
      /\ at \in DOMAIN plan.files => target[plan.files[at].path] \in File
  BY PlanTyped DEF Evidence!TypeOK
<1>4. Evidence!TypeOK'
  BY <1>1, <1>2, <1>3 DEF Evidence!TypeOK, Evidence!FileType, Evidence!SourceType
<1>5. Evidence!StepsAreAbout'
  BY <1>1, <1>2 DEF Evidence!StepsAreAbout
<1>6. \A i : Evidence!Analyzed(i)' <=> Evidence!Analyzed(i)
  BY <1>1 DEF Evidence!Analyzed, Evidence!Planned
<1>7. Evidence!SourcesInOrder'
  BY <1>1, <1>6 DEF Evidence!SourcesInOrder, Evidence!Collecting, Evidence!Bound
<1>8. Evidence!ContentGrows'
  BY <1>1 DEF Evidence!ContentGrows, Evidence!Content
<1>9. \A i : Evidence!Compared(i)' => Evidence!Compared(i)
  BY <1>1, <1>2, <1>3 DEF Evidence!Compared
<1>10. Evidence!ComparedIsShown'
  BY <1>1, <1>9 DEF Evidence!ComparedIsShown, Evidence!Compared
<1>11. Evidence!ComparedIsThere'
  BY <1>1, <1>2, <1>9 DEF Evidence!ComparedIsThere, Evidence!Compared
<1>12. Evidence!OutputsAreKnown'
  BY <1>1, <1>6 DEF Evidence!OutputsAreKnown, Evidence!Planned
<1>13. Evidence!RunsWhatWasShown'
  BY <1>1, <1>2 DEF Evidence!RunsWhatWasShown
<1> QED BY <1>4, <1>5, <1>7, <1>8, <1>10, <1>11, <1>12, <1>13

\* The content that was compared lies between the file as it was bound and the name as it
\* reads now, and so does each source: while content only grows, all are the same.
LEMMA CompareKeeps == ASSUME Evidence!IInv, Evidence!Compare PROVE Evidence!IInv'
<1> USE DEF Evidence!IInv
<1>1. /\ evidencePc = "compare"
      /\ UNCHANGED <<target, disk, newest, edits, returned, unseen, script, plan, found, ran>>
      /\ \/ evidencePc' = "refused" /\ at' = at
         \/ evidencePc' = "ready" /\ at' = at + 1 /\ Evidence!Same(plan.files[at])
  BY DEF Evidence!Compare, Evidence!environment, Evidence!Goes
<1>2. /\ at \in DOMAIN plan.files /\ at \in Nat /\ ran = <<>>
      /\ DOMAIN plan.files = 1..Len(plan.files) /\ Len(plan.files) \in Nat
  BY <1>1, PlanTyped DEF Evidence!StepsAreAbout, Evidence!TypeOK
<1>3. PICK f : f = plan.files[at]
  OBVIOUS
<1>4. Evidence!TypeOK'
  BY <1>1, <1>2 DEF Evidence!TypeOK, Evidence!FileType, Evidence!SourceType
<1>5. Evidence!StepsAreAbout'
  BY <1>1, <1>2 DEF Evidence!StepsAreAbout
<1>6. \A i : Evidence!Analyzed(i)' => Evidence!Analyzed(i)
  BY <1>1 DEF Evidence!Analyzed, Evidence!Planned, Evidence!Collecting
<1>7. Evidence!SourcesInOrder'
  BY <1>1, <1>6 DEF Evidence!SourcesInOrder, Evidence!Collecting, Evidence!Bound
<1>8. Evidence!ContentGrows'
  BY <1>1 DEF Evidence!ContentGrows, Evidence!Content
<1>9. \A i : Evidence!Compared(i)' =>
        i \in DOMAIN plan.files /\ (Evidence!Compared(i) \/ (i = at /\ Evidence!Same(f)))
  BY <1>1, <1>2, <1>3 DEF Evidence!Compared
<1>10. ASSUME ~returned, Evidence!Same(f), NEW j \in DOMAIN plan.sources,
              plan.sources[j].path = f.path
       PROVE  plan.sources[j].content = f.content
  <2>1. f.content <= plan.sources[j].content
    BY <1>2, <1>3, <1>10 DEF Evidence!ContentGrows
  <2>2. plan.sources[j].content <= Evidence!Content(f.path)
    BY <1>1, <1>10 DEF Evidence!ContentGrows
  <2>3. f.content = Evidence!Content(f.path)
    BY <1>10 DEF Evidence!Same
  <2>4. f.content \in Nat /\ plan.sources[j].content \in Nat
    BY <1>2, <1>3, PlanTyped
  <2> QED BY <2>1, <2>2, <2>3, <2>4
<1>11. Evidence!ComparedIsShown'
  BY <1>1, <1>3, <1>9, <1>10 DEF Evidence!ComparedIsShown
<1>12. Evidence!ComparedIsThere'
  <2>1. ~returned /\ ~unseen /\ Evidence!Same(f) =>
          target[f.path] = f.target /\ disk[f.target] = f.content
    BY <1>1, <1>3 DEF Evidence!ComparedIsThere, Evidence!Same, Evidence!Content
  <2> QED BY <1>1, <1>3, <1>9, <2>1 DEF Evidence!ComparedIsThere
<1>13. Evidence!OutputsAreKnown'
  BY <1>1, <1>6 DEF Evidence!OutputsAreKnown, Evidence!Planned
<1>14. Evidence!RunsWhatWasShown'
  BY <1>1, <1>2 DEF Evidence!RunsWhatWasShown
<1> QED BY <1>4, <1>5, <1>7, <1>8, <1>11, <1>12, <1>13, <1>14

\* A plan keeps its type when there are new contents.
LEMMA PlanGrows ==
  ASSUME Evidence!TypeOK, NEW n \in Nat, newest <= n
  PROVE  plan \in [files : Seq([path : Path, target : File, content : 0..n]),
                   sources : Seq([path : Path, content : 0..n]), outputs : SUBSET File]
<1>1. ASSUME NEW S, NEW T, S \subseteq T, NEW s \in Seq(S) PROVE s \in Seq(T)
  <2>1. s \in [1..Len(s) -> S] /\ Len(s) \in Nat
    OBVIOUS
  <2>2. s \in [1..Len(s) -> T]
    BY <1>1, <2>1
  <2> QED BY <2>1, <2>2
<1>2. 0..newest \subseteq 0..n
  BY DEF Evidence!TypeOK
<1>3. /\ Evidence!FileType \subseteq [path : Path, target : File, content : 0..n]
      /\ Evidence!SourceType \subseteq [path : Path, content : 0..n]
  BY <1>2 DEF Evidence!FileType, Evidence!SourceType
<1>4. /\ plan.files \in Seq([path : Path, target : File, content : 0..n])
      /\ plan.sources \in Seq([path : Path, content : 0..n])
  <2>1. plan.files \in Seq(Evidence!FileType) /\ plan.sources \in Seq(Evidence!SourceType)
    BY PlanTyped
  <2>2. PICK R : R = [path : Path, target : File, content : 0..n]
    OBVIOUS
  <2>3. PICK Q : Q = [path : Path, content : 0..n]
    OBVIOUS
  <2>4. Evidence!FileType \subseteq R /\ Evidence!SourceType \subseteq Q
    BY <1>3, <2>2, <2>3
  <2>5. plan.files \in Seq(R)
    BY <1>1, <2>1, <2>4
  <2>6. plan.sources \in Seq(Q)
    BY <1>1, <2>1, <2>4
  <2> QED BY <2>2, <2>3, <2>5, <2>6
<1>5. /\ plan = [files |-> plan.files, sources |-> plan.sources, outputs |-> plan.outputs]
      /\ plan.outputs \in SUBSET File
  BY PlanTyped
<1> QED BY <1>4, <1>5

\* A command writes its output before it starts: into none of the files that were compared.
LEMMA RunKeeps == ASSUME Evidence!IInv, Evidence!Run PROVE Evidence!IInv'
<1> USE DEF Evidence!IInv
<1>1. PICK c : c = script[at]
  OBVIOUS
<1>2. PICK start : start = [path |-> c.path, content |-> disk'[target[c.path]]]
  OBVIOUS
<1>3. /\ evidencePc = "run" /\ evidencePc' = "run" /\ at' = at + 1
      /\ at \in DOMAIN script
      /\ UNCHANGED <<target, edits, returned, unseen, script, plan, found>>
      /\ disk' = IF c.output = NoPath THEN disk
                 ELSE [disk EXCEPT ![target[c.output]] = newest + 1]
      /\ newest' = IF c.output = NoPath THEN newest ELSE newest + 1
      /\ ran' = IF c.path = NoPath THEN ran ELSE Append(ran, start)
  BY <1>1, <1>2 DEF Evidence!Run, Evidence!Goes
<1>4. /\ script \in Seq(Evidence!Simple) /\ Len(script) \in Nat
      /\ DOMAIN script = 1..Len(script) /\ at \in 1..Len(script) /\ at \in Nat
      /\ c.path \in Path \cup {NoPath} /\ c.output \in Path \cup {NoPath}
  BY <1>1, <1>3, ScriptTyped
<1>5. newest \in Nat /\ newest' \in Nat /\ newest <= newest'
  BY <1>3 DEF Evidence!TypeOK
<1>6. disk' \in [File -> 0..newest']
  <2>1. CASE c.output = NoPath
    BY <1>3, <2>1 DEF Evidence!TypeOK
  <2>2. CASE c.output # NoPath
    <3>1. disk \in [File -> 0..newest] /\ newest' = newest + 1
      BY <1>3, <2>2 DEF Evidence!TypeOK
    <3>2. disk \in [File -> 0..(newest + 1)] /\ newest + 1 \in 0..(newest + 1)
      BY <1>5, <3>1
    <3>3. disk' = [disk EXCEPT ![target[c.output]] = newest + 1]
      BY <1>3, <2>2
    <3> QED BY <3>1, <3>2, <3>3
  <2> QED BY <2>1, <2>2
<1>7. plan' \in [files : Seq([path : Path, target : File, content : 0..newest']),
                 sources : Seq([path : Path, content : 0..newest']), outputs : SUBSET File]
  BY <1>3, <1>5, PlanGrows
<1>8. /\ ran \in Seq([path : Path, content : Nat]) /\ DOMAIN ran = 1..Len(ran) /\ Len(ran) \in Nat
      /\ c.path # NoPath =>
           /\ ran' \in Seq([path : Path, content : Nat]) /\ Len(ran') = Len(ran) + 1
           /\ DOMAIN ran' = 1..(Len(ran) + 1) /\ ran'[Len(ran) + 1] = start
           /\ \A i \in 1..Len(ran) : ran'[i] = ran[i]
  <2>1. ran \in Seq([path : Path, content : Nat])
    BY DEF Evidence!TypeOK
  <2>2. c.path # NoPath => start \in [path : Path, content : Nat]
    <3>1. target \in [Path -> File]
      BY DEF Evidence!TypeOK
    <3>2. c.path # NoPath => c.path \in Path /\ disk'[target[c.path]] \in 0..newest'
      BY <1>4, <1>6, <3>1
    <3> QED BY <1>2, <1>5, <3>2
  <2>3. PICK R : R = [path : Path, content : Nat]
    OBVIOUS
  <2>4. ran \in Seq(R) /\ (c.path # NoPath => start \in R /\ ran' = Append(ran, start))
    BY <1>3, <2>1, <2>2, <2>3
  <2>5. /\ DOMAIN ran = 1..Len(ran) /\ Len(ran) \in Nat
        /\ c.path # NoPath =>
             /\ ran' \in Seq(R) /\ Len(ran') = Len(ran) + 1
             /\ DOMAIN ran' = 1..(Len(ran) + 1) /\ ran'[Len(ran) + 1] = start
             /\ \A i \in 1..Len(ran) : ran'[i] = ran[i]
    BY <2>4
  <2> QED BY <2>1, <2>3, <2>5
<1>9. Evidence!TypeOK'
  BY <1>3, <1>4, <1>5, <1>6, <1>7, <1>8
     DEF Evidence!TypeOK, Evidence!FileType, Evidence!SourceType
<1>10. Evidence!StepsAreAbout'
  BY <1>3, <1>4 DEF Evidence!StepsAreAbout
<1>11. \A i : Evidence!Analyzed(i)' <=> Evidence!Analyzed(i)
  BY <1>3 DEF Evidence!Analyzed, Evidence!Planned
<1>12. \A i : Evidence!Compared(i)' <=> Evidence!Compared(i)
  BY <1>3 DEF Evidence!Compared
<1>13. Evidence!SourcesInOrder'
  BY <1>3, <1>11 DEF Evidence!SourcesInOrder, Evidence!Collecting, Evidence!Bound
<1>14. Evidence!ContentGrows' /\ Evidence!ComparedIsShown'
  BY <1>3, <1>12 DEF Evidence!ContentGrows, Evidence!ComparedIsShown
<1>15. Evidence!OutputsAreKnown'
  BY <1>3, <1>11 DEF Evidence!OutputsAreKnown, Evidence!Planned
<1>16. Evidence!Analyzed(at)
  BY <1>3 DEF Evidence!Analyzed, Evidence!Planned
<1>17. ASSUME ~returned, ~unseen, NEW i \in DOMAIN plan.files
       PROVE  /\ disk'[plan.files[i].target] = plan.files[i].content
              /\ target[plan.files[i].path] = plan.files[i].target
  <2>1. /\ target[plan.files[i].path] = plan.files[i].target
        /\ disk[plan.files[i].target] = plan.files[i].content
    BY <1>3, <1>17 DEF Evidence!ComparedIsThere, Evidence!Compared
  <2>2. c.output # NoPath => target[c.output] # plan.files[i].target
    BY <1>1, <1>3, <1>16, <1>17 DEF Evidence!OutputsAreKnown, Evidence!Planned
  <2>3. plan.files[i].target \in File
    BY PlanTyped
  <2> QED BY <1>3, <2>1, <2>2, <2>3 DEF Evidence!TypeOK
<1>18. ~returned /\ ~unseen => Len(ran) = Evidence!Before(script, at)
  BY <1>3 DEF Evidence!ComparedIsThere
<1>19. Evidence!ComparedIsThere'
  <2>1. /\ c.path # NoPath => Evidence!Before(script, at + 1) = Evidence!Before(script, at) + 1
        /\ c.path = NoPath => Evidence!Before(script, at + 1) = Evidence!Before(script, at)
    BY <1>1, <1>4, BeforeCounts
  <2>2. ~returned /\ ~unseen => Len(ran') = Evidence!Before(script, at + 1)
    BY <1>3, <1>8, <1>18, <2>1
  <2> QED BY <1>3, <1>17, <2>2 DEF Evidence!ComparedIsThere, Evidence!Compared
<1>20. ASSUME ~returned, ~unseen, c.path # NoPath
       PROVE  start = plan.sources[Len(ran) + 1]
  <2>1. PICK k : k = Evidence!Before(script, at) + 1
    OBVIOUS
  <2>2. k \in DOMAIN plan.sources /\ plan.sources[k].path = c.path /\ k = Len(ran) + 1
    BY <1>1, <1>3, <1>16, <1>18, <1>20, <2>1 DEF Evidence!SourcesInOrder
  <2>3. PICK j \in DOMAIN plan.files : plan.files[j].path = c.path
    BY <2>2 DEF Evidence!SourcesInOrder, Evidence!Bound
  <2>4. plan.sources[k].content = plan.files[j].content
    BY <1>3, <1>20, <2>2, <2>3 DEF Evidence!ComparedIsShown, Evidence!Compared
  <2>5. disk'[target[c.path]] = plan.files[j].content
    BY <1>17, <1>20, <2>3
  <2>6. plan.sources[k] = [path |-> plan.sources[k].path, content |-> plan.sources[k].content]
    <3>1. plan.sources[k] \in Evidence!SourceType
      BY <2>2, PlanTyped
    <3> QED BY <3>1 DEF Evidence!SourceType
  <2> QED BY <1>2, <2>2, <2>4, <2>5, <2>6
<1>21. Evidence!RunsWhatWasShown'
  <2> SUFFICES ASSUME ~returned, ~unseen, NEW i \in DOMAIN ran'
               PROVE  ran'[i] = plan.sources[i]
    BY <1>3 DEF Evidence!RunsWhatWasShown
  <2>1. CASE i \in DOMAIN ran
    BY <1>3, <1>8, <2>1 DEF Evidence!RunsWhatWasShown
  <2>2. CASE i \notin DOMAIN ran
    <3>1. c.path # NoPath /\ i = Len(ran) + 1
      BY <1>3, <1>8, <2>2
    <3> QED BY <1>8, <1>20, <3>1
  <2> QED BY <2>1, <2>2
<1> QED BY <1>9, <1>10, <1>13, <1>14, <1>15, <1>19, <1>21

\* What others do: a new content only adds, and what returns or is not seen is recorded.
LEMMA EditKeeps == ASSUME Evidence!IInv, Evidence!Edit PROVE Evidence!IInv'
<1> USE DEF Evidence!IInv
<1>1. /\ edits' = edits + 1 /\ evidencePc \notin {"idle", "refused"}
      /\ UNCHANGED <<script, plan, evidencePc, at, found, ran>>
  BY DEF Evidence!Edit, Evidence!progress
<1>2. \/ \E f \in File :
           /\ disk' = [disk EXCEPT ![f] = newest + 1] /\ newest' = newest + 1
           /\ target' = target /\ returned' = returned
      \/ \E f \in File, v \in 0..newest :
           /\ disk' = [disk EXCEPT ![f] = v] /\ newest' = newest
           /\ target' = target /\ returned' = TRUE
      \/ \E p \in Path, f \in File :
           /\ target' = [target EXCEPT ![p] = f] /\ disk' = disk /\ newest' = newest
           /\ returned' = (returned \/ edits > 0)
           /\ ~unseen' => p \notin Evidence!Outputs(script)
  BY DEF Evidence!Edit, Evidence!WriteNew, Evidence!WriteOld, Evidence!Relink, Evidence!Blind
<1>3. /\ unseen' \in BOOLEAN /\ returned' \in BOOLEAN
      /\ ~unseen' => ~unseen /\ ~Evidence!Started
      /\ ~returned' => ~returned
  <2>1. unseen \in BOOLEAN /\ returned \in BOOLEAN
    BY DEF Evidence!TypeOK
  <2>2. /\ returned' = returned \/ returned' = TRUE \/ returned' = (returned \/ edits > 0)
        /\ \/ unseen' = (unseen \/ Evidence!Started)
           \/ \E p \in Path :
                unseen' = (unseen \/ Evidence!Started \/ p \in Evidence!Outputs(script))
    BY DEF Evidence!Edit, Evidence!WriteNew, Evidence!WriteOld, Evidence!Relink, Evidence!Blind
  <2>3. returned' \in BOOLEAN /\ (~returned' => ~returned)
    <3>1. (returned \/ edits > 0) \in BOOLEAN /\ TRUE \in BOOLEAN
      OBVIOUS
    <3>2. CASE returned' = returned
      BY <2>1, <3>2
    <3>3. CASE returned' = TRUE
      BY <3>1, <3>3
    <3>4. CASE returned' = (returned \/ edits > 0)
      BY <3>1, <3>4, Zenon
    <3> QED BY <2>2, <3>2, <3>3, <3>4
  <2>4. unseen' \in BOOLEAN /\ (~unseen' => ~unseen /\ ~Evidence!Started)
    <3>1. CASE unseen' = (unseen \/ Evidence!Started)
      BY <3>1, Zenon
    <3>2. ASSUME NEW p \in Path,
                 unseen' = (unseen \/ Evidence!Started \/ p \in Evidence!Outputs(script))
          PROVE  unseen' \in BOOLEAN /\ (~unseen' => ~unseen /\ ~Evidence!Started)
      BY <3>2, Zenon
    <3> QED BY <2>2, <3>1, <3>2
  <2> QED BY <2>3, <2>4
<1>4. newest \in Nat /\ newest' \in Nat /\ newest <= newest' /\ edits \in Nat
  BY <1>2 DEF Evidence!TypeOK
<1>5. /\ disk' \in [File -> 0..newest'] /\ target' \in [Path -> File]
      /\ disk \in [File -> 0..newest] /\ target \in [Path -> File]
  <2>1. disk \in [File -> 0..newest] /\ target \in [Path -> File]
    BY DEF Evidence!TypeOK
  <2>2. disk \in [File -> 0..(newest + 1)] /\ newest + 1 \in 0..(newest + 1)
    BY <1>4, <2>1
  <2> QED BY <1>2, <2>1, <2>2
<1>6. plan' \in [files : Seq([path : Path, target : File, content : 0..newest']),
                 sources : Seq([path : Path, content : 0..newest']), outputs : SUBSET File]
  BY <1>1, <1>4, PlanGrows
<1>7. Evidence!TypeOK'
  BY <1>1, <1>3, <1>4, <1>5, <1>6 DEF Evidence!TypeOK, Evidence!FileType, Evidence!SourceType
<1>8. /\ \A i : Evidence!Analyzed(i)' <=> Evidence!Analyzed(i)
      /\ \A i : Evidence!Compared(i)' <=> Evidence!Compared(i)
      /\ Evidence!Planned' <=> Evidence!Planned
      /\ Evidence!Collecting' <=> Evidence!Collecting
  BY <1>1 DEF Evidence!Analyzed, Evidence!Compared, Evidence!Planned, Evidence!Collecting
<1>9. Evidence!StepsAreAbout' /\ Evidence!SourcesInOrder'
  BY <1>1, <1>8 DEF Evidence!StepsAreAbout, Evidence!SourcesInOrder, Evidence!Bound
<1>10. Evidence!ComparedIsShown' /\ Evidence!RunsWhatWasShown'
  BY <1>1, <1>3, <1>8 DEF Evidence!ComparedIsShown, Evidence!RunsWhatWasShown
<1>11. ASSUME ~returned', evidencePc # "run", NEW q \in Path, NEW n \in Nat,
              n <= newest, n <= Evidence!Content(q)
       PROVE  n <= disk'[target'[q]]
  <2>1. Evidence!Content(q) = disk[target[q]] /\ target[q] \in File /\ target'[q] \in File
        /\ disk[target[q]] \in 0..newest /\ disk'[target'[q]] \in Nat
    BY <1>4, <1>5 DEF Evidence!Content
  <2>2. CASE \E f \in File :
               /\ disk' = [disk EXCEPT ![f] = newest + 1] /\ newest' = newest + 1
               /\ target' = target
    BY <1>4, <1>5, <1>11, <2>1, <2>2
  <2>3. CASE \E p \in Path, f \in File :
               /\ target' = [target EXCEPT ![p] = f] /\ disk' = disk /\ newest' = newest
               /\ returned' = (returned \/ edits > 0)
    <3>1. edits = 0
      <4>1. ~(edits > 0)
        BY <1>11, <2>3, Zenon
      <4> QED BY <1>4, <4>1
    <3>2. newest = 0
      BY <1>3, <1>11, <3>1 DEF Evidence!ContentGrows
    <3> QED BY <1>11, <2>1, <3>2
  <2> QED BY <1>2, <1>11, <2>2, <2>3
<1>12. Evidence!ContentGrows'
  <2> SUFFICES ASSUME ~returned' PROVE Evidence!ContentGrows'
    BY DEF Evidence!ContentGrows
  <2>1. \A i \in DOMAIN plan.files, j \in DOMAIN plan.sources :
          plan.files[i].path = plan.sources[j].path =>
            plan.files[i].content <= plan.sources[j].content
    BY <1>3 DEF Evidence!ContentGrows
  <2>2. ASSUME evidencePc # "run", NEW i \in DOMAIN plan.files
        PROVE  plan.files[i].content <= disk'[target'[plan.files[i].path]]
    BY <1>3, <1>11, <2>2, PlanTyped DEF Evidence!ContentGrows
  <2>3. ASSUME evidencePc # "run", NEW i \in DOMAIN plan.sources
        PROVE  plan.sources[i].content <= disk'[target'[plan.sources[i].path]]
    BY <1>3, <1>11, <2>3, PlanTyped DEF Evidence!ContentGrows
  <2>4. edits' # 0
    BY <1>1, <1>4
  <2> QED BY <1>1, <2>1, <2>2, <2>3, <2>4 DEF Evidence!ContentGrows, Evidence!Content
<1>13. Evidence!OutputsAreKnown'
  <2>1. ASSUME ~unseen', NEW i \in DOMAIN script, script[i].output # NoPath
        PROVE  target'[script[i].output] = target[script[i].output]
    <3>1. script[i].output \in Evidence!Outputs(script) /\ script[i].output \in Path
      BY <2>1, ScriptTyped DEF Evidence!Outputs
    <3> QED BY <1>2, <1>5, <2>1, <3>1
  <2> QED BY <1>1, <1>3, <1>8, <2>1 DEF Evidence!OutputsAreKnown
<1>14. Evidence!ComparedIsThere'
  <2> SUFFICES ASSUME ~unseen' PROVE Evidence!ComparedIsThere'
    BY DEF Evidence!ComparedIsThere
  <2>1. ~Evidence!Started
    BY <1>3
  <2>2. /\ DOMAIN plan.files = 1..Len(plan.files) /\ at \in Nat
    BY PlanTyped DEF Evidence!TypeOK
  <2>3. \A i : ~Evidence!Compared(i)
    BY <2>1, <2>2 DEF Evidence!Started, Evidence!Compared
  <2>4. evidencePc' \notin {"compare", "run"}
    BY <1>1, <2>1 DEF Evidence!Started
  <2> QED BY <1>8, <2>3, <2>4 DEF Evidence!ComparedIsThere
<1> QED BY <1>7, <1>9, <1>10, <1>12, <1>13, <1>14

LEMMA EvidenceNext == Evidence!IInv /\ [Evidence!Next]_evidenceVars => Evidence!IInv'
<1>1. CASE UNCHANGED evidenceVars
  <2> SUFFICES ASSUME Evidence!IInv PROVE Evidence!IInv'
    OBVIOUS
  <2> USE <1>1 DEF evidenceVars, Evidence!IInv
  <2>1. Evidence!TypeOK' /\ Evidence!StepsAreAbout'
    BY DEF Evidence!TypeOK, Evidence!SourceType, Evidence!FileType, Evidence!StepsAreAbout,
       Evidence!Bound
  <2>2. Evidence!SourcesInOrder' /\ Evidence!ContentGrows'
    BY DEF Evidence!SourcesInOrder, Evidence!ContentGrows, Evidence!Collecting, Evidence!Planned,
       Evidence!Analyzed, Evidence!Content, Evidence!Bound
  <2>3. Evidence!ComparedIsShown' /\ Evidence!OutputsAreKnown'
    BY DEF Evidence!ComparedIsShown, Evidence!OutputsAreKnown, Evidence!Collecting,
       Evidence!Planned, Evidence!Analyzed, Evidence!Compared
  <2>4. Evidence!ComparedIsThere' /\ Evidence!RunsWhatWasShown'
    BY DEF Evidence!ComparedIsThere, Evidence!RunsWhatWasShown, Evidence!Compared
  <2> QED BY <2>1, <2>2, <2>3, <2>4
<1> QED BY <1>1, PrepareKeeps, AnalyzeKeeps, ResolveKeeps, ReadKeeps, ReadAgainKeeps, ReadyKeeps,
           VerifyKeeps, CompareKeeps, RunKeeps, EditKeeps DEF Evidence!Next

\* The check has compared every file, and a name was read from its first source.
LEMMA ShownFollows == Evidence!IInv => Evidence!ShownIsChecked
<1> SUFFICES ASSUME Evidence!IInv, evidencePc = "run", ~returned, NEW i \in DOMAIN plan.sources
             PROVE  LET s == plan.sources[i] IN
                    /\ \E j \in DOMAIN plan.files :
                         plan.files[j].path = s.path /\ plan.files[j].content = s.content
                    /\ plan.sources[Evidence!Preview(s.path)].content = s.content
  BY DEF Evidence!ShownIsChecked
<1>1. PICK s : s = plan.sources[i]
  OBVIOUS
<1>2. PICK j \in DOMAIN plan.files : plan.files[j].path = s.path
  BY <1>1 DEF Evidence!IInv, Evidence!SourcesInOrder, Evidence!Bound
<1>3. \A k \in DOMAIN plan.sources : plan.sources[k].path = s.path =>
        plan.sources[k].content = plan.files[j].content
  BY <1>2 DEF Evidence!IInv, Evidence!ComparedIsShown, Evidence!Compared
<1>4. Evidence!Preview(s.path) \in {k \in DOMAIN plan.sources : plan.sources[k].path = s.path}
  <2> DEFINE same == {k \in DOMAIN plan.sources : plan.sources[k].path = s.path}
  <2>1. same \subseteq 1..Len(plan.sources) /\ i \in same /\ Len(plan.sources) \in Nat
    BY <1>1, PlanTyped DEF Evidence!IInv
  <2>2. Evidence!Preview(s.path) = Evidence!Min(same)
    BY DEF Evidence!Preview
  <2> HIDE DEF same
  <2>3. \E k \in same : \A l \in same : k <= l
    BY <2>1, FirstPosition
  <2>4. Evidence!Min(same) \in same
    BY <2>3 DEF Evidence!Min
  <2> QED BY <2>2, <2>4 DEF same
<1> QED BY <1>1, <1>2, <1>3, <1>4
-----------------------------------------------------------------------------
(* The command that waits (ConsumerRun)                                    *)

LEMMA CommandInit == Command!Init => Command!IInv
BY DEF Command!Init, Command!IInv, Command!WorkSaysWhatRan, Command!AnswersAreTrue,
       Command!OperationFollowsChange, Command!ExitTellsOutcome, Command!States,
       Command!Pending, Command!Terminal

\* What happens to the work behind the daemon never undoes an end that was read, and an
\* operation is cut off only together with the name of the successor that has it.
LEMMA WorkStep ==
  ASSUME Command!IInv,
         \/ Command!Reviewed \/ Command!ConfirmedWith \/ Command!ConfirmedWithout
         \/ Command!Rejected \/ Command!Succeeds \/ Command!Expires
         \/ Command!ConsumerEnds \/ Command!DaemonRestarts
  PROVE  Command!IInv'
<1> USE DEF Command!IInv, Command!WorkSaysWhatRan, Command!AnswersAreTrue,
            Command!OperationFollowsChange, Command!ExitTellsOutcome, Command!States,
            Command!Pending, Command!Terminal, Command!change
<1>1. CASE Command!Reviewed
  BY <1>1 DEF Command!Reviewed, Command!Moves, Command!Works, Command!cli
<1>2. CASE Command!ConfirmedWith
  BY <1>2 DEF Command!ConfirmedWith, Command!Moves, Command!Works, Command!cli
<1>3. CASE Command!ConfirmedWithout
  BY <1>3 DEF Command!ConfirmedWithout, Command!Moves, Command!Works, Command!cli
<1>4. CASE Command!Rejected
  BY <1>4 DEF Command!Rejected, Command!Moves, Command!Works, Command!cli
<1>5. CASE Command!Succeeds
  BY <1>5 DEF Command!Succeeds, Command!Works, Command!cli
<1>6. CASE Command!Expires
  BY <1>6 DEF Command!Expires, Command!Works, Command!cli
<1>7. CASE Command!ConsumerEnds
  BY <1>7 DEF Command!ConsumerEnds, Command!Works, Command!cli
<1>8. CASE Command!DaemonRestarts
  BY <1>8 DEF Command!DaemonRestarts, Command!cli
<1> QED BY <1>1, <1>2, <1>3, <1>4, <1>5, <1>6, <1>7, <1>8

\* The command submits once, and ends with a result only when it has read an end, and with it
\* the name of the successor if its operation was cut off.
LEMMA CommandStepKeeps ==
  ASSUME Command!IInv,
         \/ Command!Submit \/ Command!Judge \/ Command!TimesOut \/ Command!Poll
         \/ Command!PollLost \/ Command!PollUnavailable
  PROVE  Command!IInv'
<1> USE DEF Command!IInv, Command!WorkSaysWhatRan, Command!AnswersAreTrue,
            Command!OperationFollowsChange, Command!ExitTellsOutcome, Command!States,
            Command!Pending, Command!Terminal, Command!change
<1>1. CASE Command!Submit
  BY <1>1 DEF Command!Submit, Command!Joins, Command!Errs, Command!Ends
<1>2. CASE Command!Judge
  <2>1. CASE Command!HandsOff
    BY <1>2, <2>1 DEF Command!Judge, Command!Errs, Command!Ends, Command!work
  <2>2. CASE ~Command!HandsOff /\ answer \in Command!Pending \cup {"running", "committing"}
    <3>1. answer \notin Command!Terminal
      BY <2>2
    <3>2. /\ runPc' = "poll" /\ retries' = 0
          /\ UNCHANGED <<answer, named, handed, exit, runFaults, kind, work, code, launched, link,
                         op, reached, submitted>>
      BY <1>2, <2>2, <3>1 DEF Command!Judge, Command!work
    <3> QED BY <1>2, <2>2, <3>2 DEF Command!Judge
  <2>3. CASE ~Command!HandsOff /\ answer \in Command!Terminal
    BY <1>2, <2>3 DEF Command!Judge, Command!Ends, Command!ExitOf, Command!FailedCode, Command!work
  <2> QED BY <1>2, <2>1, <2>2, <2>3 DEF Command!Judge
<1>3. CASE Command!TimesOut
  BY <1>3 DEF Command!TimesOut, Command!Errs, Command!Ends, Command!work
<1>4. CASE Command!Poll
  BY <1>4 DEF Command!Poll, Command!Answers
<1>5. CASE Command!PollLost
  BY <1>5 DEF Command!PollLost, Command!Answers, Command!RetryOrErr, Command!Errs, Command!Ends
<1>6. CASE Command!PollUnavailable
  BY <1>6 DEF Command!PollUnavailable, Command!RetryOrErr, Command!Errs, Command!Ends, Command!work
<1> QED BY <1>1, <1>2, <1>3, <1>4, <1>5, <1>6

\* The exit code of a command, read with the successor that the status of a change names, tells
\* what happened to its work, which was submitted and started at most once, in whatever order
\* answers, restarts, confirmations of earlier versions and the end of the work come.
THEOREM ExitCodes == ConsumersSpec => []ExitTellsOutcome
<1>1. ConsumersInit => Command!IInv
  BY CommandInit DEF ConsumersInit
<1>2. Command!IInv /\ [ConsumersNext]_consumersVars => Command!IInv'
  <2> SUFFICES ASSUME Command!IInv, [ConsumersNext]_consumersVars
               PROVE  Command!IInv'
    OBVIOUS
  <2>1. CASE CommandStep
    BY <2>1, WorkStep, CommandStepKeeps DEF CommandStep, Command!Next
  <2>2. CASE UNCHANGED runVars
    BY <2>2 DEF runVars, Command!IInv, Command!WorkSaysWhatRan, Command!AnswersAreTrue,
       Command!OperationFollowsChange, Command!ExitTellsOutcome, Command!States,
       Command!Pending, Command!Terminal
  <2> QED BY <2>1, <2>2 DEF ConsumersNext, consumersVars, RegistryStep, ScanStep, EvidenceStep
<1>3. Command!IInv => ExitTellsOutcome
  BY DEF Command!IInv, ExitTellsOutcome
<1> QED BY <1>1, <1>2, <1>3, PTL DEF ConsumersSpec

\* The content of every source that was shown is compared before the start, and a command
\* starts with what was shown of it unless something went back or changed unseen; a command
\* line asks for the caller's input exactly if it runs what it reads there, and calls code
\* data only behind a shell option.  For names, files, commands and words of any number.
THEOREM EvidenceKept == ConsumersSpec => []EvidenceHolds
<1>1. ConsumersInit => Evidence!IInv
  BY EvidenceInit DEF ConsumersInit
<1>2. Evidence!IInv /\ [ConsumersNext]_consumersVars => Evidence!IInv'
  <2>1. [ConsumersNext]_consumersVars => [Evidence!Next]_evidenceVars
    BY DEF ConsumersNext, consumersVars, RegistryStep, ScanStep, EvidenceStep, CommandStep
  <2> QED BY <2>1, EvidenceNext
<1>3. Evidence!IInv /\ Typed => EvidenceHolds
  <2>1. Evidence!IInv => Evidence!ShownIsChecked /\ Evidence!RunsWhatWasShown
    BY ShownFollows DEF Evidence!IInv
  <2> QED BY <2>1, LineHolds DEF EvidenceHolds
<1> QED BY <1>1, <1>2, <1>3, LineTyped, PTL DEF ConsumersSpec

\* What is proved of the registry alone holds of it beside the others.
THEOREM RegistryAmongOthers == ConsumersSpec => Spec
<1>1. ConsumersInit => Init
  BY DEF ConsumersInit
<1>2. [ConsumersNext]_consumersVars => [Next]_vars
  <2>1. ConsumersNext => [Next]_vars
    BY DEF ConsumersNext, RegistryStep, ScanStep, EvidenceStep, CommandStep
  <2>2. UNCHANGED consumersVars => UNCHANGED vars
    BY DEF consumersVars
  <2> QED BY <2>1, <2>2
<1> QED BY <1>1, <1>2, PTL DEF ConsumersSpec, Spec
=============================================================================
