--------------------------- MODULE PasswordChanges ---------------------------
(***************************************************************************)
(* Change sets of the password catalog (plankton-daemon                    *)
(* password_changes.rs): agents append operations to a change set, a       *)
(* reviewer confirms a prefix of it, and the daemon writes that prefix to  *)
(* the catalog file; what was appended after the confirmed version moves   *)
(* to a successor.  One mutex serialises the handlers, but a handler can   *)
(* be dropped at any await, its blocking file commit runs on, other        *)
(* programs write the file, and approvals of credential requests change    *)
(* the remembered policies meanwhile.                                      *)
(*                                                                         *)
(* The catalog is abstracted to the exposure policy of each field.  An     *)
(* operation sets the policy of one field or deletes the field; the others *)
(* (titles, labels, moves, merges) take the same path.  catalog_revision   *)
(* is a hash of the file: here the file itself.                            *)
(***************************************************************************)
EXTENDS Naturals, Sequences, FiniteSets

CONSTANTS
  Change,       \* identifiers of change sets
  Operation,    \* identifiers of operations, chosen by the clients
  Field, Policy,
  Batch,        \* batch identifiers the clients choose
  Target,       \* the field of each operation
  Setting,      \* the policy it sets, or Deleted
  MaxEdits,     \* bound: writes of the file by other programs
  MaxApprovals, \* bound: approvals that remember a policy
  MaxFaults     \* bound: dropped handlers and restarts

VARIABLES
  catalog,      \* secrets.toml
  remembered,   \* table remembered_exposure_policies
  change,       \* table password_changes
  handler,      \* the handler that holds the lock of PasswordChangeCoordinator
  task,         \* spawn_blocking(apply_password_changes), per change
  review,       \* the approval dialog of the desktop: what it has read
  edits, approvals, faults,
  accepted,     \* history: operations answered with success
  confirmation, \* history: what was confirmed, and after how many approvals
  writes        \* history: how often the file was written for a change

tables  == <<remembered, change>>
history == <<accepted, confirmation, writes>>
bounds  == <<edits, approvals, faults>>
vars == <<catalog, tables, handler, task, review, bounds, history>>

None    == "none"
Deleted == "deleted"

ASSUME OperationsAssumption ==
  /\ IsFiniteSet(Operation) /\ Target \in [Operation -> Field]
  /\ Setting \in [Operation -> Policy \cup {Deleted}]
  /\ Deleted \notin Policy /\ None \notin Policy \cup Change \cup Batch
ASSUME BoundsAssumption ==
  MaxEdits \in Nat /\ MaxApprovals \in Nat /\ MaxFaults \in Nat

State    == {"pending", "committing", "committed", "rejected", "conflict", "failed"}
Terminal == State \ {"pending", "committing"}
Catalog  == [Field -> Policy \cup {Deleted}]
Unread   == [f \in Field |-> None]

NoRow == [state |-> None, batch |-> None, version |-> 0, confirmed |-> 0,
          base |-> Unread, ops |-> <<>>, diff |-> {}, successor |-> None]
NotRemembered == [fingerprint |-> None, policy |-> None, approval |-> 0]
Idle   == [pc |-> "idle", change |-> None, parent |-> None, op |-> None,
           successor |-> None, rest |-> <<>>, outcome |-> None, seen |-> Unread]
NoTask == [pc |-> "none", ops |-> <<>>, base |-> Unread, loaded |-> Unread]
NoReview == [field |-> None, fingerprint |-> None, expected |-> None]

Elements(s) == {s[k] : k \in DOMAIN s}
Exists(c)   == change[c].state # None
Pending(c)  == change[c].state = "pending"

Init ==
  /\ catalog \in [Field -> Policy]
  /\ remembered = [f \in Field |-> NotRemembered]
  /\ change = [c \in Change |-> NoRow]
  /\ handler = Idle
  /\ task = [c \in Change |-> NoTask]
  /\ review = NoReview
  /\ edits = 0 /\ approvals = 0 /\ faults = 0
  /\ accepted = {}
  /\ confirmation = [c \in Change |-> [ops |-> <<>>, after |-> 0]]
  /\ writes = [c \in Change |-> 0]

-----------------------------------------------------------------------------
\* apply_operations: an operation on a field that is gone is an error.
Applicable(file, ops) ==
  \A k \in DOMAIN ops :
    /\ file[Target[ops[k]]] # Deleted
    /\ \A j \in 1..(k - 1) :
         Target[ops[j]] = Target[ops[k]] => Setting[ops[j]] # Deleted

After(file, ops) ==
  [f \in Field |->
     LET K == {k \in DOMAIN ops : Target[ops[k]] = f}
     IN  IF K = {} THEN file[f]
         ELSE Setting[ops[CHOOSE k \in K : \A j \in K : j <= k]]]

\* The policies in force: a remembered approval counts while its fingerprint is
\* that of the catalog entry.
InForce(f) ==
  IF catalog[f] # Deleted /\ remembered[f].fingerprint = catalog[f]
  THEN remembered[f].policy ELSE catalog[f]
Visible == [f \in Field |-> InForce(f)]

\* preview_operations: the file is overlaid with the policies in force.
Previewable(ops) == Applicable(catalog, ops)
Preview(ops) ==
  LET after == After(Visible, ops)
  IN  {[field |-> f, before |-> Visible[f], after |-> after[f]] :
         f \in {g \in Field : Visible[g] # after[g]}}

\* The fields whose remembered approvals the operations replace.
ReplacedPolicies(ops) == {Target[o] : o \in {x \in Elements(ops) : Setting[x] # Deleted}}

-----------------------------------------------------------------------------
\* submit.  The lock is taken first; the store is written last.
Unused == {c \in Change : ~Exists(c)}
New(batch) == [NoRow EXCEPT !.state = "pending", !.batch = batch, !.base = catalog]

Appended(row, o) ==
  LET ops == Append(row.ops, o)
  IN  [row EXCEPT !.ops = ops, !.version = @ + 1, !.diff = Preview(ops),
                  !.base = IF Len(ops) = 1 THEN catalog ELSE @]

\* A repeated operation is answered again; one without effect is refused.
Stages(row, o) ==
  /\ o \notin Elements(row.ops)
  /\ Previewable(Append(row.ops, o))
  /\ Preview(Append(row.ops, o)) \notin {{}, row.diff}

Stage(c, o) ==
  /\ \/ o \in Elements(change[c].ops) /\ UNCHANGED change
     \/ /\ Stages(change[c], o)
        /\ change' = [change EXCEPT ![c] = Appended(@, o)]
  /\ accepted' = accepted \cup {o}
  /\ UNCHANGED <<catalog, remembered, handler, task, review, bounds, confirmation, writes>>

PendingIn(batch) == {c \in Change : Pending(c) /\ change[c].batch = batch}

\* find_pending_password_change_by_batch: the last updated one, by the clock.
SubmitToBatch(batch, o) ==
  /\ handler = Idle
  /\ \E c \in PendingIn(batch) : Stage(c, o)

SubmitNew(c, batch, o) ==
  /\ handler = Idle /\ c \in Unused
  /\ PendingIn(batch) = {}
  /\ Stages(New(batch), o)
  /\ change' = [change EXCEPT ![c] = Appended(New(batch), o)]
  /\ accepted' = accepted \cup {o}
  /\ UNCHANGED <<catalog, remembered, handler, task, review, bounds, confirmation, writes>>

SubmitToPending(c, o) ==
  /\ handler = Idle /\ Pending(c)
  /\ Stage(c, o)

\* A change that left the pending state passes the operation on to its successor,
\* whatever state the successor is in.
SubmitToSuccessor(c, o) ==
  /\ handler = Idle /\ Exists(c) /\ ~Pending(c)
  /\ change[c].successor # None
  /\ Stage(change[c].successor, o)

SubmitLinkFirst(c, s, o) ==   \* mutant: the parent is saved before its successor
  /\ handler = Idle /\ Exists(c) /\ ~Pending(c)
  /\ change[c].successor = None /\ s \in Unused
  /\ Stages(New(change[c].batch), o)
  /\ change' = [change EXCEPT ![c].successor = s]
  /\ handler' = [Idle EXCEPT !.pc = "link", !.change = s, !.parent = c, !.op = o]
  /\ UNCHANGED <<catalog, remembered, task, review, bounds, history>>
SubmitSavesEmpty(c, s, o) ==   \* mutant: the successor is saved before its preview
  /\ handler = Idle /\ Exists(c) /\ ~Pending(c)
  /\ change[c].successor = None /\ s \in Unused
  /\ change' = [change EXCEPT ![s] = New(change[c].batch)]
  /\ handler' = [Idle EXCEPT !.pc = "link", !.change = s, !.parent = c, !.op = o]
  /\ UNCHANGED <<catalog, remembered, task, review, bounds, history>>
SubmitCreatesSuccessor(c, s, o) ==
  /\ handler = Idle /\ Exists(c) /\ ~Pending(c)
  /\ change[c].successor = None /\ s \in Unused
  /\ Stages(New(change[c].batch), o)
  /\ change' = [change EXCEPT ![s] = Appended(New(change[c].batch), o)]
  /\ handler' = [Idle EXCEPT !.pc = "link", !.change = s, !.parent = c, !.op = o]
  /\ UNCHANGED <<catalog, remembered, task, review, bounds, history>>

LinkParent ==
  /\ handler.pc = "link"
  /\ change' = [change EXCEPT ![handler.parent].successor = handler.change]
  /\ accepted' = accepted \cup {handler.op}
  /\ handler' = Idle
  /\ UNCHANGED <<catalog, remembered, task, review, bounds, confirmation, writes>>

-----------------------------------------------------------------------------
\* confirm.  The row is cut to the confirmed prefix and saved as committing; the
\* operations behind the prefix are only in the handler's memory from here.
ConfirmedKeepsVersion(row, v) ==   \* mutant: the version is not cut
  LET ops == SubSeq(row.ops, 1, v)
  IN  [row EXCEPT !.state = "committing", !.ops = ops, !.confirmed = v,
                  !.diff = Preview(ops)]
Confirmed(row, v) ==
  LET ops == SubSeq(row.ops, 1, v)
  IN  [row EXCEPT !.state = "committing", !.ops = ops, !.version = v,
                  !.confirmed = v, !.diff = Preview(ops)]

Begin(c, v) ==
  /\ v < change[c].version => Unused # {}   \* bound: an identifier for the rest
  /\ Previewable(SubSeq(change[c].ops, 1, v))
  /\ change' = [change EXCEPT ![c] = Confirmed(@, v)]
  /\ confirmation' = [confirmation EXCEPT
       ![c] = [ops |-> SubSeq(change[c].ops, 1, v), after |-> approvals]]
  /\ handler' = [Idle EXCEPT !.pc = "forget", !.change = c,
       !.rest = SubSeq(change[c].ops, v + 1, Len(change[c].ops))]
  /\ UNCHANGED <<catalog, remembered, task, review, bounds, accepted, writes>>

ConfirmAgain(c, v) ==   \* mutant: an unfinished confirmation is repeated
  /\ handler = Idle /\ change[c].state \in {"pending", "committing"}
  /\ v \in 1..change[c].version
  /\ Begin(c, v)
Confirm(c, v) ==
  /\ handler = Idle /\ Pending(c)
  /\ v \in 1..change[c].version
  /\ Begin(c, v)

\* Remembered approvals of the edited fields go first; then the file commit is
\* handed to a blocking thread.
CommitTask(c) == [NoTask EXCEPT !.pc = "spawned", !.ops = change[c].ops,
                                !.base = change[c].base]
SpawnOnly ==   \* mutant: the approvals are left to pruning
  /\ handler.pc = "forget"
  /\ task' = [task EXCEPT ![handler.change] = CommitTask(handler.change)]
  /\ handler' = [handler EXCEPT !.pc = "wait"]
  /\ UNCHANGED <<catalog, tables, review, bounds, history>>
ForgetAndSpawn ==
  /\ handler.pc = "forget"
  /\ remembered' = [f \in Field |->
       IF f \in ReplacedPolicies(change[handler.change].ops)
       THEN NotRemembered ELSE remembered[f]]
  /\ task' = [task EXCEPT ![handler.change] = CommitTask(handler.change)]
  /\ handler' = [handler EXCEPT !.pc = "wait"]
  /\ UNCHANGED <<catalog, change, review, bounds, history>>

\* apply_password_changes: read, compare the revision, write.  Nobody sees the
\* result when the handler is gone.
Awaited(c) == handler.pc = "wait" /\ handler.change = c
TaskEnds(c, result) ==
  task' = [task EXCEPT ![c] =
             IF Awaited(c) THEN [NoTask EXCEPT !.pc = result] ELSE NoTask]

TaskLoad(c) ==
  /\ task[c].pc = "spawned"
  /\ IF catalog # task[c].base
       THEN TaskEnds(c, "conflict")
       ELSE \/ Applicable(catalog, task[c].ops)
               /\ task' = [task EXCEPT ![c].pc = "loaded", ![c].loaded = catalog]
            \/ TaskEnds(c, "failed")   \* a refresh or the reading of the file fails
  /\ UNCHANGED <<catalog, tables, handler, review, bounds, history>>

\* The file is truncated and then written. That a stop in between loses its entries is in
\* PasswordStore; nothing here is claimed of a file that a stop or a failure has torn.
TaskSave(c) ==
  /\ task[c].pc = "loaded"
  /\ \/ /\ catalog' = After(task[c].loaded, task[c].ops)
        /\ writes' = [writes EXCEPT ![c] = @ + 1]
        /\ TaskEnds(c, "committed")
     \/ TaskEnds(c, "failed") /\ UNCHANGED <<catalog, writes>>
  /\ UNCHANGED <<tables, handler, review, bounds, accepted, confirmation>>

\* The handler takes the result; after a commit it prunes the approvals of
\* entries that are no longer in the file.
ProceedAtOnce ==   \* mutant: the result is not awaited
  /\ handler.pc = "wait"
  /\ handler' = [handler EXCEPT !.pc = "successor", !.outcome = "committed"]
  /\ UNCHANGED <<catalog, tables, task, review, bounds, history>>
TakeResult ==
  /\ handler.pc = "wait"
  /\ task[handler.change].pc \in {"committed", "conflict", "failed"}
  /\ handler' = [handler EXCEPT
       !.outcome = task[handler.change].pc,
       !.pc = IF task[handler.change].pc = "committed" THEN "list" ELSE "successor"]
  /\ task' = [task EXCEPT ![handler.change] = NoTask]
  /\ UNCHANGED <<catalog, tables, review, bounds, history>>

ListCatalog ==
  /\ handler.pc = "list"
  /\ handler' = [handler EXCEPT !.pc = "prune", !.seen = catalog]
  /\ UNCHANGED <<catalog, tables, task, review, bounds, history>>

Prune ==
  /\ handler.pc = "prune"
  /\ remembered' = [f \in Field |->
       IF remembered[f].fingerprint = handler.seen[f] THEN remembered[f]
       ELSE NotRemembered]
  /\ handler' = [handler EXCEPT !.pc = "successor", !.seen = Unread]
  /\ UNCHANGED <<catalog, change, task, review, bounds, history>>

\* create_successor_with_operations: the rest is previewed on the file as it is now.
CreateSuccessor(s) ==
  /\ handler.pc = "successor" /\ handler.rest # <<>>
  /\ s \in Unused
  /\ Previewable(handler.rest)
  /\ change' = [change EXCEPT ![s] =
       [New(change[handler.change].batch) EXCEPT
          !.ops = handler.rest, !.version = Len(handler.rest),
          !.diff = Preview(handler.rest)]]
  /\ handler' = [handler EXCEPT !.pc = "save", !.successor = s, !.rest = <<>>]
  /\ UNCHANGED <<catalog, remembered, task, review, bounds, history>>

\* When that preview fails, confirm returns the error and saves nothing more.
SuccessorFails ==
  /\ handler.pc = "successor" /\ handler.rest # <<>>
  /\ ~Previewable(handler.rest)
  /\ handler' = Idle
  /\ UNCHANGED <<catalog, tables, task, review, bounds, history>>

Finished(row) ==
  [row EXCEPT !.state = handler.outcome,
              !.successor = IF handler.successor # None THEN handler.successor ELSE @]
LastSave == handler.pc = "save" \/ (handler.pc = "successor" /\ handler.rest = <<>>)

FinishUnsaved ==   \* mutant: a conflict is answered but not saved
  /\ LastSave
  /\ IF handler.outcome = "conflict" THEN UNCHANGED change
     ELSE change' = [change EXCEPT ![handler.change] = Finished(@)]
  /\ handler' = Idle
  /\ UNCHANGED <<catalog, remembered, task, review, bounds, history>>
FinishWithoutRest ==   \* mutant: the final row is saved, the rest forgotten
  /\ handler.pc \in {"save", "successor"}
  /\ change' = [change EXCEPT ![handler.change] = Finished(@)]
  /\ handler' = Idle
  /\ UNCHANGED <<catalog, remembered, task, review, bounds, history>>
Finish ==
  /\ LastSave
  /\ change' = [change EXCEPT ![handler.change] = Finished(@)]
  /\ handler' = Idle
  /\ UNCHANGED <<catalog, remembered, task, review, bounds, history>>

Reject(c) ==
  /\ handler = Idle /\ Pending(c)
  /\ change' = [change EXCEPT ![c].state = "rejected"]
  /\ UNCHANGED <<catalog, remembered, handler, task, review, bounds, history>>

-----------------------------------------------------------------------------
\* A handler is dropped at an await, or one of its store calls fails: the lock is
\* released and the blocking task, if any, runs on.
HandlerDropped ==
  /\ faults < MaxFaults /\ handler # Idle
  /\ handler' = Idle
  /\ faults' = faults + 1
  /\ UNCHANGED <<catalog, tables, task, review, edits, approvals, history>>

\* The daemon is killed and started again: nothing resumes a committing change.
Restart ==
  /\ faults < MaxFaults
  /\ handler # Idle \/ \E c \in Change : task[c] # NoTask
  /\ handler' = Idle
  /\ task' = [c \in Change |-> NoTask]
  /\ faults' = faults + 1
  /\ UNCHANGED <<catalog, tables, review, edits, approvals, history>>

\* Another program writes the catalog file; it does not know the daemon's lock.
EditFile(f, p) ==
  /\ edits < MaxEdits /\ catalog[f] # p
  /\ catalog' = [catalog EXCEPT ![f] = p]
  /\ edits' = edits + 1
  /\ UNCHANGED <<tables, handler, task, review, approvals, faults, history>>

\* The desktop opens the approval of a request for the field and reads its policy.
OpenReview(f) ==
  /\ approvals < MaxApprovals /\ catalog[f] # Deleted /\ review = NoReview
  /\ review' = [field |-> f, fingerprint |-> catalog[f], expected |-> InForce(f)]
  /\ UNCHANGED <<catalog, tables, handler, task, bounds, history>>

\* approve_and_remember_exposure: refused when the policy in the table is not the
\* one that was read; the dialog is closed either way.
PolicyFor(f, fingerprint) ==
  IF remembered[f].fingerprint = fingerprint THEN remembered[f].policy ELSE fingerprint

ApproveAndRemember(p) ==
  /\ review # NoReview
  /\ IF PolicyFor(review.field, review.fingerprint) = review.expected
       THEN /\ approvals' = approvals + 1
            /\ remembered' = [remembered EXCEPT ![review.field] =
                 [fingerprint |-> review.fingerprint, policy |-> p,
                  approval |-> approvals + 1]]
       ELSE UNCHANGED <<approvals, remembered>>
  /\ review' = NoReview
  /\ UNCHANGED <<catalog, change, handler, task, edits, faults, history>>

-----------------------------------------------------------------------------
Submit(o) ==
  \/ \E b \in Batch : SubmitToBatch(b, o)
  \/ \E c \in Change :
       \/ \E b \in Batch \cup {c} : SubmitNew(c, b, o)
       \/ SubmitToPending(c, o) \/ SubmitToSuccessor(c, o)
       \/ \E s \in Change : SubmitCreatesSuccessor(c, s, o)

HandlerStep ==
  \/ LinkParent \/ ForgetAndSpawn \/ TakeResult \/ ListCatalog \/ Prune
  \/ (\E s \in Change : CreateSuccessor(s))
  \/ SuccessorFails \/ Finish
TaskStep == \E c \in Change : TaskLoad(c) \/ TaskSave(c)

Decide == \E c \in Change :
  Reject(c) \/ \E v \in 1..Cardinality(Operation) : Confirm(c, v)

Environment ==
  \/ \E f \in Field : OpenReview(f) \/ \E p \in Policy \cup {Deleted} : EditFile(f, p)
  \/ \E p \in Policy : ApproveAndRemember(p)

Next ==
  \/ \E o \in Operation : Submit(o)
  \/ Decide \/ HandlerStep \/ TaskStep
  \/ HandlerDropped \/ Restart \/ Environment

Spec == Init /\ [][Next]_vars

\* A handler that is not dropped goes on, and so does its blocking thread.
FairSpec == Spec /\ WF_vars(HandlerStep) /\ WF_vars(TaskStep)

-----------------------------------------------------------------------------
\* Every variable stays in its type.  (The rows of PasswordChangeStatus.)
TypeOK ==
  /\ catalog \in Catalog
  /\ \A f \in Field :
       \/ remembered[f] = NotRemembered
       \/ /\ remembered[f].fingerprint \in Policy /\ remembered[f].policy \in Policy
          /\ remembered[f].approval \in 1..MaxApprovals
  /\ \A c \in Change :
       \/ change[c] = NoRow
       \/ /\ change[c].state \in State /\ change[c].batch \in Batch \cup Change
          /\ change[c].version \in 1..Cardinality(Operation)
          /\ change[c].confirmed \in 0..Cardinality(Operation)
          /\ Elements(change[c].ops) \subseteq Operation
          /\ change[c].base \in Catalog
          /\ change[c].successor \in Change \cup {None}
  /\ handler.pc \in {"idle", "link", "forget", "wait", "list", "prune", "successor", "save"}
  /\ handler.rest \in Seq(Operation)
  /\ \A c \in Change :
       task[c].pc \in {"none", "spawned", "loaded", "committed", "conflict", "failed"}

\* The version of a change counts its operations, which are all different: what a
\* reviewer confirms by number is the prefix of that length.  (submit:83-88,
\* confirm:125-135; a repeated call and a cut at confirmation meet here.)
VersionCountsOperations ==
  \A c \in Change : Exists(c) =>
    /\ change[c].version = Len(change[c].ops)
    /\ Cardinality(Elements(change[c].ops)) = Len(change[c].ops)
    /\ change[c].confirmed <= change[c].version

\* A change is written to the file at most once, however often it is confirmed,
\* dropped or interrupted, and a final state tells whether it was.  (confirm:114-116
\* and the order of its saves.)
WrittenOnce ==
  \A c \in Change :
    /\ writes[c] <= 1
    /\ change[c].state = "committed" => writes[c] = 1
    /\ change[c].state \in {"pending", "rejected", "conflict", "failed"} => writes[c] = 0

\* Once a policy edit is in the file, no approval remembered before its
\* confirmation counts for the field: the edit supersedes it, also when the daemon
\* stops in between.  (confirm:143-147, "Revoking first is fail-closed".)
PolicyEditSupersedes ==
  \A c \in Change : writes[c] = 1 =>
    \A f \in ReplacedPolicies(confirmation[c].ops) :
      remembered[f].approval \in {0} \cup (confirmation[c].after + 1)..MaxApprovals

\* A successor named by a change exists, in the same batch, and is the successor
\* of no other: a client that follows the link never loses its operations.
\* (submit:90-99 and confirm:184-195 insert the successor before they link it.)
SuccessorExists ==
  \A c \in Change : change[c].successor # None =>
    LET s == change[c].successor IN
    /\ Exists(s) /\ s # c /\ change[s].batch = change[c].batch
    /\ \A d \in Change \ {c} : change[d].successor # s

\* An operation that was accepted stays in a change set, or in the hands of the
\* handler that moves it to a successor.  (confirm:125-127, 184-195.)
InTransit == IF handler = Idle THEN {} ELSE Elements(handler.rest)
AcceptedOperationsSurvive ==
  accepted \subseteq InTransit \cup UNION {Elements(change[c].ops) : c \in Change}

\* The daemon never overwrites a catalog it has not read: between its reading and
\* its writing of the file no other confirmation writes.  (The coordinator's lock,
\* held until the blocking task has answered.)
Overwrites == \E c \in Change : writes'[c] # writes[c] /\ task[c].loaded # catalog

\* Only the daemon writes the file, and no handler was dropped.
Undisturbed == edits = 0 /\ faults = 0
CommitsOverwriteNothing == [][Undisturbed => ~Overwrites]_vars

\* What was confirmed is written at most once, and a policy it sets takes the place of
\* every permission remembered before.
ConfirmationIsExact == WrittenOnce /\ PolicyEditSupersedes

\* A client can always find the operations it was told are accepted: the version of a
\* change set counts them, links lead to their successor, and undisturbed, where no
\* operation deletes a field, none is dropped.  (The types are part of it.)
NothingDeleted == \A o \in accepted : Setting[o] # Deleted
OperationsCanBeFound ==
  /\ TypeOK /\ VersionCountsOperations /\ SuccessorExists
  /\ Undisturbed /\ NothingDeleted => AcceptedOperationsSurvive

\* A confirmed change is immutable: what arrives afterwards goes to a successor.
\* (.codex/skills/secret-access/SKILL.md:322.)
ConfirmedIsImmutable ==
  [][\A c \in Change : change[c].confirmed # 0 =>
       change'[c].ops = change[c].ops /\ change'[c].version = change[c].version]_vars

\* A confirmation that is not dropped ends: the change reaches a terminal state,
\* for which `--commit sync` and `password change --wait` wait.  (confirm:154-195.)
Concludes(c) == change[c].state = "committing" ~> change[c].state \in Terminal
ConfirmationEnds == \A c \in Change : Concludes(c)
-----------------------------------------------------------------------------
(* Why they hold.  A row changes only in the hands of the handler with the *)
(* lock; a confirmed row stays committing until that handler is done with  *)
(* it, or for ever, and has had its task exactly when it was handed over.  *)

Outcomes == {"committed", "conflict", "failed"}
Confirming == {"forget", "wait", "list", "prune", "successor", "save"}
Distinct(ops) == \A j, k \in DOMAIN ops : ops[j] = ops[k] => j = k
DistinctOps == {s \in Seq(Operation) : Distinct(s)}
Row(row) == row \in
  [state : State \cup {None}, batch : Batch \cup Change \cup {None}, version : Nat,
   confirmed : Nat, base : Catalog \cup {Unread}, ops : DistinctOps, diff : {row.diff},
   successor : Change \cup {None}]

DataOK ==
  /\ catalog \in Catalog
  /\ DOMAIN remembered = Field /\ approvals \in 0..MaxApprovals
  /\ \A f \in Field :
       \/ remembered[f] = NotRemembered
       \/ remembered[f] \in [fingerprint : Policy, policy : Policy, approval : 1..approvals]
  /\ \/ review = NoReview
     \/ /\ review \in [field : Field, fingerprint : Policy, expected : Policy]
        /\ approvals < MaxApprovals
  /\ edits \in Nat /\ faults \in Nat /\ accepted \subseteq Operation
  /\ DOMAIN confirmation = Change /\ DOMAIN writes = Change
  /\ \A c \in Change :
       confirmation[c] \in [ops : Seq(Operation), after : 0..approvals] /\ writes[c] \in 0..1

RowsCount ==
  /\ DOMAIN change = Change
  /\ \A c \in Change : Row(change[c]) /\ (~Exists(c) => change[c] = NoRow)
  /\ \A c \in Change : Exists(c) =>
       /\ change[c].batch # None /\ change[c].base \in Catalog
       /\ change[c].version = Len(change[c].ops) /\ change[c].version # 0
       /\ change[c].confirmed <= change[c].version
       /\ Pending(c) => change[c].successor = None

\* Nothing links to a row that was just made.
Unlinked(s, c) ==
  /\ Exists(s) /\ s # c /\ change[s].batch = change[c].batch
  /\ \A d \in Change : change[d].successor # s

HandlerHolds ==
  LET h == handler IN
  /\ h \in [pc : {"idle", "link"} \cup Confirming, change : Change \cup {None},
            parent : Change \cup {None}, op : Operation \cup {None},
            successor : Change \cup {None}, rest : DistinctOps,
            outcome : Outcomes \cup {None}, seen : {h.seen}]
  /\ h.pc = "idle" <=> h = Idle
  /\ h.pc = "link" =>
       /\ h.change \in Change /\ h.parent \in Change /\ h.op \in Operation /\ h.rest = <<>>
       /\ Exists(h.parent) /\ ~Pending(h.parent) /\ Unlinked(h.change, h.parent)
       /\ change[h.change].state = "pending" /\ h.op \in Elements(change[h.change].ops)
  /\ h.pc \in Confirming =>
       /\ h.change \in Change /\ change[h.change].state = "committing"
       /\ change[h.change].ops = confirmation[h.change].ops
       /\ change[h.change].successor = None
       /\ h.pc = "save" => h.rest = <<>> /\ h.successor \in Change
                           /\ Unlinked(h.successor, h.change)
       /\ h.pc # "save" => h.successor = None
       /\ h.pc \in {"list", "prune", "successor", "save"} <=> h.outcome # None
       /\ h.pc \in {"list", "prune"} => h.outcome = "committed"

\* How far the commit of a change is, and whether it has written.
CommitOf(c) ==
  /\ task[c] \in [pc : {"none", "spawned", "loaded"} \cup Outcomes, ops : DistinctOps,
                  base : Catalog \cup {Unread}, loaded : Catalog \cup {Unread}]
  /\ task[c].pc = "none" <=> task[c] = NoTask
  /\ task[c].pc # "none" => change[c].state = "committing"
  /\ task[c].pc \in {"spawned", "loaded"} => writes[c] = 0
  /\ task[c].pc = "loaded" => task[c].loaded \in Catalog
  /\ task[c].pc \in Outcomes => (writes[c] = 1 <=> task[c].pc = "committed")
  /\ change[c].state \notin {"committing", "committed"} => writes[c] = 0
  /\ change[c].state = "committed" => writes[c] = 1
  /\ handler.pc \in Confirming /\ handler.change = c =>
       /\ handler.pc = "forget" => task[c].pc = "none" /\ writes[c] = 0
       /\ handler.pc = "wait" <=> task[c].pc # "none"
       /\ handler.outcome # None => (writes[c] = 1 <=> handler.outcome = "committed")
CommitsOnce == DOMAIN task = Change /\ \A c \in Change : CommitOf(c)

\* What the commit replaces was forgotten before it, and remembered after its
\* confirmation if at all.
Superseded == \A c \in Change : task[c].pc # "none" \/ writes[c] = 1 =>
  \A f \in ReplacedPolicies(confirmation[c].ops) :
    remembered[f].approval = 0 \/ remembered[f].approval > confirmation[c].after

\* Undisturbed, the one task is the one the handler waits for.
OneWriter == Undisturbed => \A c \in Change :
  /\ task[c].pc \in {"spawned", "loaded"} => handler.pc = "wait" /\ handler.change = c
  /\ task[c].pc = "loaded" => task[c].loaded = catalog

\* Undisturbed, what is in the rows was accepted, and is previewed again without an error.
Submitted == accepted \cup (IF handler.pc = "link" THEN {handler.op} ELSE {})
OnlyAccepted == Undisturbed =>
  /\ Elements(handler.rest) \subseteq accepted
  /\ \A c \in Change : Elements(change[c].ops) \subseteq Submitted
                       /\ Elements(task[c].ops) \subseteq accepted
  /\ NothingDeleted =>
       /\ \A f \in Field : catalog[f] # Deleted
       /\ AcceptedOperationsSurvive

IInv ==
  /\ DataOK /\ RowsCount /\ SuccessorExists /\ HandlerHolds /\ CommitsOnce /\ Superseded
  /\ OneWriter /\ OnlyAccepted
=============================================================================
