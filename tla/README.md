# A verification of Plankton

Plankton keeps credentials out of the hands of the programs that use them. A
client asks a local daemon for a credential, or for a command to be run with
one; the request is reviewed by a language model, a human, or both; only an
approved request is served, and a SQLite database keeps the requests and their
audit trail. The passwords themselves are in a catalog file, in encrypted vaults
that devices synchronise, or with external password managers, and a desktop
application shows what needs a person. This directory models the parts in which
order matters: who decides a request, what survives a crash, how often a
reviewed command runs, how confirmed edits reach the catalog, where a saved value
can still be found, and what the desktop shows while all of this goes on.

Paths below are relative to `src/`; `store/`, `core/`, `daemon/` and `cli/` stand
for `crates/plankton-store/src/` and so on, `desktop/` for
`apps/desktop/src-tauri/src/`.

## 1. Inventory

| component | state it keeps | operations | modelled in |
|---|---|---|---|
| Request store (`store/sqlite.rs`, `core/domain.rs`, `store/diagnostics.rs`) | tables `access_requests`, `audit_records`, `approval_batch_tickets`, `interrupted_operations` | submit, decide, claim, finalise, enrich, interrupt, recover | `Approval`, `ApprovalOutcome` |
| Evaluation worker (`daemon/evaluation.rs`) | one task and one monitor per queued request | spawn, evaluate in stages, interrupt on failure, resume, shut down | `Approval` |
| Local disposition (`core/automatic.rs`) | none (pure) | from a review, from a shared ticket | `AutomaticDecision`, `Disposition` |
| Credential execution (`daemon/routes/execution.rs`) | registry of plans, list of tasks; `credential_execution` operations in the store | admit, poll, expire, run, shut down, recover | `Execution` |
| Resource routes (`daemon/routes/resources.rs`) | none | `admitted_access_resource`; search and listing | submissions of both |
| Daemon life cycle (`daemon/state.rs`, `server.rs`) | state file, listener, the workers above | start with recovery, serve, shut down, drop | `Approval`, `Execution`, `DaemonHost` |
| Password change sets (`daemon/password_changes.rs`, `store/password_changes.rs`) | table of versioned change sets, successors | submit, confirm a prefix, reject | `PasswordChanges` |
| Password catalog (`core/password_changes.rs`, `core/value_resolver.rs`) | the catalog file: literals, imports, metadata | import, every operation of a change set, the diff | `Catalog` |
| Drafts and values (`core/passwords/`, `daemon/routes/passwords.rs`, `desktop/main.rs`) | drafts, grants; values in a vault or with an external manager, backups | draft, confirm, restore, store, change, copy, move, delete | `PasswordStore` |
| Local vault files (`desktop/main.rs`) | database, unlock file, backup, recovery directory | create, edit, unregister, delete, restore, recover | `VaultFiles` |
| Exposure (`core/exposure.rs`, `store/exposure.rs`) | remembered policies; three metadata keys | remember, forget, prune, set, inherit | `PasswordChanges`, `Catalog`, `AutomaticDecision` |
| Reviewer (`core/provider.rs`, `core/provider_tools.rs`) | one review: its calls, frames, repairs | decide, publish, enrich, repair, conclude | `Reviewer` |
| ACP supervisor (`core/acp.rs`) | an agent process, its sessions, queued turns | start, prewarm, run, cancel, clean up, shut down | `AcpSupervisor` |
| ACP session (`core/acp.rs`, `core/acp/session_options.rs`) | options, messages, report files | configure, probe, prompt, validate | `AcpClient` |
| Backend commands (`core/value_resolver.rs`, `core/resources/`) | registry of process groups | run, kill, shut down, reset | `BackendCommands` |
| Execution plans (`core/execution.rs`, `core/execution/shell.rs`, `core/call_chain.rs`) | files bound to a command | scan, capture, show, verify | `CommandScan`, `ExecutionEvidence` |
| Command line (`cli/main.rs`, `cli/desktop_handoff.rs`) | one waiting process | submit, hand off, poll, exit | `ConsumerRun` |
| Vault synchronisation (`core/sync/mod.rs`, `store/sync.rs`, `desktop/main.rs`) | blob and metadata at the remote, locks, a record per device | push, pull, merge, install | `VaultSync`, `GitCheckout` |
| Approval conversation (`desktop/main.rs`) | transcript and handlers of each conversation | send, stop, wait for the review, restore | `ApprovalChat` |
| Daemon host (`desktop/main.rs`, `background.rs`, `tray.rs`) | a child process, the state file | adopt, start, remove a stale file, exit | `DaemonHost` |
| Links and page (`desktop/main.rs`, `apps/desktop/src/hooks/useDesktopApp.ts`) | slots of handoffs; fetches and selection | receive, take, reload, refresh, decide | `DesktopHandoff`, `DashboardPage` |
| Resolution of changes (`desktop/main.rs`, `password_change_window.rs`) | what monitor and page read | approve automatically, confirm, reject, follow | `DesktopChanges` |
| Approval window (`desktop/approval_window.rs`) | queue and presented request | reconcile, present, dismiss, hand off | `ApprovalWindow` |
| Notifications (`desktop/approval_notification.rs`) | observed stages, queue of toasts | observe, render, replace, expire | `ApprovalNotification` |
| Settings, journal, read models (`core/config.rs`, `daemon/review_journal.rs`, `store/read.rs`) | projections, files | read, report | two settings only |

**Interactions.** A handler of the daemon submits a request (one transaction),
then spawns its evaluation in memory. The worker claims it and calls the
reviewer, which takes a turn at the agent through the supervisor's channel; the
decision is stored as soon as it is ready and enriched afterwards. The desktop
decides in the same table at any time, also while the daemon is down.
`execute_resource` submits a request for the plan it prepared and holds the plan
in memory; each poll of `execution_status` looks the decision up and, once it is
an approval, consumes the plan, resolves the credential through a backend command
and starts the consumer. The command line waits on these polls and turns the
answer into an exit code; where a person is needed it starts the desktop with a
link. Agents append operations to a change set; the desktop's monitor or page
confirms a prefix of it, and the coordinator writes that prefix to the catalog
file, which the desktop's own commands and other programs write too. The values
behind the catalog live in vault files that runs of the synchronisation replace.
The desktop may host the daemon itself, finds another through the state file, and
learns what to show by polling the store. Start-up repairs what the previous
process left.

**Hard behaviours.** Two tables that describe one evaluation; a human decision
that overtakes a model's answer; a decision taken from another request's ticket,
read outside the transaction; enrichment written over the evidence of a decision
already made; process death between a commit and the in-memory step after it;
tasks aborted at any await; handlers dropped when a client disconnects; expiry
that races an approval; polls answered while the daemon shuts down; a
confirmation of many store calls around one file write, which nothing resumes; a
late answer of an agent whose new session closes every other; a process number
that is killed after it was given to somebody else; series of file operations
any of which may fail or be the last; lists read before, and applied after, a
person acted; a remote that two devices write. `PROJECT.json` lists them at their
lines under "hazards".

## 2. Modules

Each module of the table above is the specification of one component, with its
state as variables, one action per handler, command or step, and its properties;
where a property of the component is proved, the inductive invariant `IInv` and
its named parts stand beside it. Besides them:

| module | what it is |
|---|---|
| `ApprovalOutcome` | abstract specification: submitted once, decided at most once, by a named decider |
| `Review`, `Consumers`, `Passwords`, `Desktop` | compositions: an automatic review, the execution of commands, the stored passwords, the desktop application |
| `ApprovalProofs`, `AuthorityProofs` | theorems about `Approval` |
| `ReviewProofs`, `ExecutionProofs`, `PasswordsProofs` | theorems about `Review`, `Consumers` and `Passwords` |
| `DesktopProofs`, `SyncProofs`, `BackendProofs` | theorems about `Desktop` and, in it, the synchronisation and the backend commands |
| `MCApproval`, `MCPasswordChanges` | values of constants for TLC |
| `MCReview`, `MCExecution`, `MCPasswords`, `MCDesktop` | slices of the compositions for TLC |
| `MCLive` | the liveness of several components |

`Approval` implements `ApprovalOutcome` (run `daemon`, property
`ImplementsOutcome`), with the approval record of the audit trail as the decider;
`Execution` uses the abstract store, so it need not repeat the review. In the same
way `ConsumerRun` uses the daemon's answers, `DesktopChanges` the states of
`PasswordChanges`, and `Reviewer` the outcome of a turn of `AcpSupervisor`.

**Compositions and their slices.** The components of a composition share no
variable: what couples them in the code is in each module as an input that may be
anything the other may give. The composition interleaves them; its specification
(`ReviewSpec`, `ConsumersSpec`, `PasswordsSpec`, `DesktopSpec`) is what the theorems
are about, and each of its properties is the conjunction of what the modules of one
part state. TLC explores a composition in slices: the `MC` module has a variable
`component` that names the one its behaviour is about, while the others keep their
initial state, fixed by `Resting` where it has several. As nothing is shared, what
holds of each slice holds of the composition, for the price of their sum and not
their product. Where two of everything would be too much (stored values, two
branches, edits during a run over each kind of remote), a slice has less of one thing,
by a condition on its next states in the `MC` module; the theorems have no such
conditions. Every behaviour of a slice is one of the composition, except that
`MCDesktop` also runs the synchronisation over Git and HTTP. Interchangeable sets
(requests, calls, changes) are the same set in every component of a run, so that
one symmetry covers them.

### Requests and reviews

**Approval.** `requests[r]` is the row of `access_requests`, whose embedded
submission `sub` stands for the context, policy mode and provider input;
`operation[r]` is the status of its `llm_evaluation` row; `audits[r]` its audit
rows in order. `handler[r].pc` places the submission between its awaits (ticket
lookup, transaction, spawn), `task[r]` the evaluation task and its monitor, and
`daemon` the phases of `start_with_runtime_settings`. One action is one SQLite
transaction with the in-memory steps after it up to the next await. Decisions
begin with `BEGIN IMMEDIATE`, so a transaction is one step. Data is abstracted to
what the code compares: a suggestion has a verdict, whether it failed, whether
the six provenance guards accept it, the outcome of report validation, a digest
for prompt, rationale and risk score, its batch decisions and its progress.

**AutomaticDecision, Disposition.** The two disposition functions as operators,
and a machine whose behaviours are all their inputs: a policy, a breach setting,
a suggestion, and the ticket made of the verdict.

**Reviewer.** One review. `asked` counts the decision calls, `rounds` and `calls`
the tool rounds of the HTTP providers, `framing`, `lines` and `seen` the stream of
enrichment frames, `nodes` and `surfaces` what the report still lacks, `progress`
what is shown of the audit. The first decision is published before the
enrichment; the decision may be repaired once in its session and asked for again
after a timeout whose cleanup is proved.

**AcpSupervisor.** One action is one turn of the single-threaded loop or one step
of a turn's task between its awaits. `holding` is the turn that owns a
single-session agent, `pending` the turns queued behind it, `agent` what the
process has been asked and will answer, also after the caller gave up. `Close`
and the cleanup proofs decide whether a caller may retry. The commands `chat`,
`prompt` and `resume` are instances with other `Kinds`.

**AcpClient.** The messages of one session in the order of their arrival and of
their handling, which differ (`sent`, `handled`); the configured options, and the
report files with what was validated of them.

### Commands with a credential

**Execution.** `entry[p]` is the response state of the registry entry, `held` the
plans that were not consumed, `lock` the mutex over the entries where it is held
across an await (only `execute_resource` does so, during the submission),
`job[p].pc` the point of `complete_execution`, `expiring` the plans that
`expire_plans` failed and whose denial it writes after releasing the lock.
`changed` and `stale` record whether reviewed files changed and whether they had
when the credential was read; `launches` counts consumers.
`ExecutionRegistry::shutdown` aborts and joins its tasks, and `BeginShutdown`
does both in one step: a job's step that is still running when it is aborted is
taken before it. A consumer that outlives a killed daemon keeps nothing the
models contain, so `Crash` drops it.

**CommandScan, ExecutionEvidence.** The walks over a command line's words with the
kinds of options the two tables of each interpreter tell apart: a walk goes on by
`Steps` (of the daemon) or `HintSteps` (of the command line) words until that is
none, and `Found` and `Asks` say what it means where it stops. And the files
that the paths of a plan name (`target`), their bytes as versions (`disk`), what
was shown and what was digested of each, and the comparison before the start,
after which a script's own output may replace a file.

**BackendCommands.** A call's process group by number, the registry of numbers
that may be killed, and the operating system, which reuses the numbers of groups
that ended. A shutdown closes the registry, a later start opens it again.

**ConsumerRun.** The states a command of the CLI goes through between submission
and exit, while its calls may be lost before or after they reach the daemon and
the daemon may be replaced; `exit` against `launched` and `submitted`. Of a password
change, `op` is what became of this command's operation, `job` the state of the change
set that took it, `link` whether that one names a successor: a person may confirm a
version from before the operation, which then waits in the successor while the awaited
change reads committed.

### Passwords

**PasswordChanges.** `change[c]` is a row of `password_changes`; `handler` is the
one handler that holds the coordinator's lock, with the locals it carries from one
store call to the next; `task[c]` is the blocking commit, which reads the file,
compares its revision, and writes it. One action is one store or file access with
the computation up to the next; what `submit` reads before its first write is read
in that write's step, because nothing else writes the tables under the lock. The
catalog is the policy of each field, a revision is the file's content, and the
fingerprint of a catalog entry is the policy it configures. A dropped handler
releases the lock while its blocking task runs on; a restart ends both. The
snapshot and the reading of the file within one `preview_operations` are one step,
and a file write that fails leaves the old file: the code truncates it first
(`core/value_resolver.rs:1664`), which `PasswordStore` models; no property of this module
is about a torn file. A row that a stop leaves in the state `committing` stays there: the
code has no recovery for it.

**Catalog.** The file of literals, imports and their metadata, the copy that a
change set edits, and one action per operation. Items are computed from the
metadata as `project_password_catalog` does; policies are the three metadata keys
with their modes.

**PasswordStore.** Drafts of the ledger, and the commands that store, change, copy,
move and delete a value. `store[p][d]` is what a place holds of a secret, `catalog[d][p]`
how it is read there: not at all, by resolving the reference (`Live`), or from the snapshot
beside it, which wins (`resolve_with_programs`). Each command (`job[j]`) goes through the
files one access at a time: it copies a vault, moves it aside, moves the edited copy in
(two renames of `commit_staged_vault`); it loads the catalog, truncates it and writes it
(`save_secret_catalog_file` ends in `fs::write`); it reads back; it restores the catalog
and rolls the vault back, any of which may fail. Commands run side by side, as no lock
keeps the commands of the desktop apart; a crash may come between any two accesses. A
vault that is not there is an `Empty` one, a catalog that does not parse is one without
entries. `current` is what was last reported to the person, one value or, after an error
that says nothing, more than one. `disturbed` is the history of the secrets that a race of
two commands, or a torn write of the catalog, reached. **VaultFiles** has the file
operations of one vault, with its key and its recovery directory, any of which may fail or
be the last of the process.

**VaultSync.** `vault[d]` is the set of changes a device's database holds, `aside`
its backup, `editor[d]` the command that edits it, `job[d]` the run with what it
read, `record[d]` the saved revision, `blob`, `meta` and `lock` the remote.
`Kind` selects folder, Git or HTTP. Edits may be made during a run; `raced` has the
devices where a rename or a rollback of either met a vault that it was not made for.
**GitCheckout** is the directory that all the connections of one repository share, with
the branch checked out in it; `strayed` has the commits that went to a branch which
another preparation had checked out.

### The desktop

**DaemonHost** has the desktop and planktond processes, the state file and who
removes it. Starts overlap: `checked` is what each process found the file to name before
it writes or removes it, `overrun` has the processes whose file was changed on a check
that no longer held. **DesktopHandoff** has the slots that a link fills and the page that
takes them, before and after it listens; **DashboardPage** the one fetch on its
way, what waits for it, and the selection. **DesktopChanges** has two resolvers
that act on what they read earlier, and the command line that appends meanwhile.
**ApprovalChat** has a transcript behind its lock and two handlers between their
awaits. **ApprovalWindow** and **ApprovalNotification** have a monitor that reads
and later applies, windows that fail to open, and a person. In the former the queue is
changed under its lock and the window after it: `settling` has what remains to be done to
the window, `covered` the requests over which it was hidden for an older queue before it
had shown them. In the latter, closing a toast dismisses what is current, which may have
come after what is displayed: `closed` has the results that were lost so.

Definitions marked "mutant" are faulty variants of the definition below them.
They are used by no specification; each property is shown to fail when one of
them replaces its original.

## 3. Runs

| run | bounds | question |
|---|---|---|
| `daemon` | 1 request, 5 submissions, 5 suggestions, 2 stops, 2 faults, 6 audits | do decision, worker, crash and recovery keep tables and audit trail right, does a hidden request surface, and the daemon come back? |
| `review` | 2 symmetric requests, 4 submissions; 2 turns, 2 sessions, 1 restart and 1 fault of the agent (none for chat, prompt, resume); a session of 2 messages and 2 options; a review with 2 tool rounds, 1 node, 1 surface, 1 refused line; every disposition | may a verdict decide for a request it was not meant for, a turn reach another's session, a failed review allow? |
| `execution` | 2 of 3 symmetric plans, 2 entries, 1 slot, 1 stop, 1 fault; 3 plans that are admitted to 2 entries; 4 words; 2 commands, 2 paths, 2 files, 2 edits; 3 retries, 4 faults | is a command launched at most once, as approved and as shown, within the limits, and reported truthfully? |
| `passwords` | 2 changes, 3 operations (2 edits, 1 delete) on 1 field, 1 fault, 1 other write, 1 approval; 3 edits on 2 fields in a batch; 4 steps of 2 resources and 1 item of the catalog; 2 secrets, 1 command, 1 fault; 1 secret, 2 values, 1 command, 1 fault; 2 windows on 1 draft, 1 fault; 2 commands on 2 secrets, where one saves and the other changes a value or migrates; 3 items, 2 keys, 2 mishaps | is what was confirmed written once, and can every saved value be found? |
| `desktop` | 2 calls, 3 process numbers, 1 restart; 3 turns, 2 handlers, 1 fault; 3 processes, 2 faults; 2 links; 2 changes, 2 resolvers, 1 fault; 2 requests, 4 fetches; 2 devices, 2 edits, 3 versions, 1 fault for folder, Git and HTTP; 2 connections, 2 branches, 3 commits, the last of which is drawn while all are on one branch | does every process, conversation, link, list and remote keep what it was given? |
| `live` | 1 plan, 2 stops; 2 changes; 2 turns of a single-session agent; 1 review; 2 devices on a folder, 6 versions; 2 requests, one of them handed off, 1 unfinished change of the window, 1 fault in window and toasts | does everything that waits get its answer? |
| `slots` | 2 plans, 1 slot | does an approved plan get the slot it waits for? |
| `audit_progress` | 1 request, 1 fault | are audit failures visible? (they are not: see 5) |
| `change_immutable` | 2 changes, no fault | is a confirmed change immutable? (it is not: see 5) |
| `change_accepted` | 3 changes, an edit of each field and a delete, no fault | are accepted operations kept when another change deletes their field? (they are not: see 5) |
| `sync_raced` | 2 devices, 2 edits, folder, no fault | does a run preserve an edit saved while it runs? (it does not: see 5) |
| `git_conflict` | 2 devices, 2 edits, Git, no fault | does a conflict mean that somebody pushed meanwhile? (it does not: see 5) |

**Why the bounds suffice.** Requests interact only through tickets, and a ticket
involves a source and one other request. Plans interact through the lock, the
slots and the length of the registry: two plans contend for one slot, and three for
two entries, so that the registry is full while two handlers are under way.
Two stops allow a crash during the recovery from an earlier one. `MaxFaults`
bounds failed calls and dropped futures, which the code may suffer at every
await; two let the repair of the first fail too. `MaxAudits` bounds the details
updates of one review, whose number is unbounded in the code but whose effect
repeats. Change sets meet in the file and in successor links, for which two
suffice; a third lets another change intervene between a confirmation and its
rest. A prefix is confirmed with a rest only while an identifier for the
successor is left. A turn of the agent is disturbed by the one before it; two
calls and three process numbers let a number be reused by another of our groups
and by a stranger. Two devices make every conflict of a run with a remote, and
`MaxVersion` lets each publish after the other did. Four words hold an
interpreter's option, its value, a program and an argument. Where a component
comes in several variants (one or several values, the kinds of remote) each is a
component of its own in the run. In `passwords`, the two commands that run side by side are taken no further than a state
in which every secret is disturbed, as nothing is claimed of them from there on. Edits
during a run are checked over Git in `desktop`, whose states are the fewest, up to the
first race, and over a folder in `live` and `sync_raced`. `MaxTasks` bounds the commands
that have changed the queue of the window and not yet the window; one suffices for a
request to be presented in between. Deadlock is not an error: a model stops when
everything it started with has ended.

**Fairness.** `FairSpec` of `Approval` is weakly fair to each step of a handler,
of the worker and of the start-up: tokio runs spawned tasks, the provider's calls
time out and so the suggestion future ends, and clients start a daemon that is
down. Human decisions, expiry and failures get no fairness. `FairSpec` of
`Execution` is weakly fair to handlers, denials, jobs and recovery for the same
reasons (a consumer has a timeout), and to the polls of a plan, because the CLI
polls until it is told a result. A client that does not poll is promised nothing.
The run `slots` takes the actions of a daemon that serves (`UndisturbedSpec`): stops
and faults are in `execution` and `live`.
`FairSpec` of `PasswordChanges` is fair to the handler that holds the lock and to
blocking tasks, which tokio runs to completion. `AcpSupervisor` is fair to its
loop and to each task, as the executor of one thread is, and to the drain and
cleanup, which have deadlines; an agent that stays silent is ended by them.
`Reviewer` is fair to what a deadline or the end of the stream forces, not to the
agent's good answers. `VaultSync` is fair to a begun command and to the steps of a
run, and a user keeps starting runs. `ApprovalWindow` and `ApprovalNotification`
are fair to their monitors' polls, to rendering and to timers; a person who leaves
a window open is allowed to. The run `live` states this fairness for the component
its behaviour is about, and follows one change, turn and request where the module
says the same of each: they are interchangeable, as every set, initial state and
action treats them alike.

## 4. Proofs

TLAPS checks a theorem for every invariant, every action property and the
refinement that the passing runs check: 40 theorems and their lemmas, for sets of
any size and every bound. `PROJECT.json` lists them under "theorems".

| theorems | of | what they say |
|---|---|---|
| `Types`, `Agreement`, `EvaluationPending`, `Immutability` | `ApprovalProofs` | the tables agree about an evaluation, and what is resolved stays |
| `Authority`, `Supporting`, `Ownership`, `TraceAuthority`, `Refinement`, `Sharing`, `VerdictStays` | `AuthorityProofs` | who decided a request, on what, and that `Approval` implements `ApprovalOutcome` |
| `StoreImplemented`, `TurnsServed`, `SessionChecked`, `ReviewReported`, `TicketsSound` | `ReviewProofs` | a turn has its session, a check what it checked, a failed review no allow, a shared verdict its evidence |
| `Launches`, `Limits`, `Records`, `Finality`, `RefinesOutcome`, `RegistryAmongOthers`, `EvidenceKept`, `ExitCodes` | `ExecutionProofs` | launched once, as approved and as shown, within the limits, recorded and reported |
| `ConfirmationsAreExact`, `OperationsAreFound`, `NothingIsOverwritten`, `PasswordsHaveOneHome`, `EditsAreContained`, `SavedValuesStay` | `PasswordsProofs` | what was confirmed is written once, nothing else changes, and what was saved can be read |
| `CleanExit`, `OneDaemonServes`, `Turns`, `ReviewedCommits`, `PageFollows` | `DesktopProofs` | the desktop's processes, conversations, changes, links and page |
| `PublishedStays`, `SavedStays` | `SyncProofs` | what a remote confirmed and what a device saved is kept |
| `Contained` | `BackendProofs` | a kill reaches only process groups of our own |

### The arguments

**Requests.** The invariant of `ApprovalProofs` is
`IInv == TypeOK /\ OperationAgrees /\ EvaluationOnlyWhilePending`. Agreement
alone is not inductive: `ClaimEvaluation` supersedes a queued operation of a
resolved request, and `Finalized` has a branch that supersedes a running one, and
only `EvaluationOnlyWhilePending` says what the tables hold there. `AuthorityProofs`
adds `AInv`: a row agrees with its audit log (which decides exactly the resolved
rows, once, in the name of the one whose decision the row holds), with the handler
that carries it from the lookup to the commit, with the task that evaluates it, and
with the tickets it may answer. None of the audit properties is inductive without
the handler's part, because a row decided by a ticket is complete before it is in
the table. `Refinement` reads the abstract decider off the log, so each step must
show that it appends no second approval record. `VInv` adds that a request is judged
before it has a suggestion of its own, from which `Sharing` and `VerdictStays` follow.

**Reviews.** The supervisor's invariant says where each waiting turn and each
session is: in one queue, once (`WaitsOnce`); with one turn, the loop or a message
(`OneOwner`); open while somebody is to use it (`Opens`). An agent with one session
works for one turn, and for none that a late answer could surprise (`OneAtATime`):
the property alone says nothing of the call that was given up. `ProofHolds` says
that a cleanup once proved stays proved. The attempt to prove it showed that a
cancelled turn was modelled wrongly where three turns meet; TLC, which had looked at
two, confirmed it, and `CancelCommand` was corrected after the code. The client's
and the reviewer's invariants relate what was heard, told and validated to what was
sent.

**Commands.** In the registry, `LockIsHeld` and `RoomReserved` say that the room a
reservation found is still there when the entry is inserted, and `JobOccupies`,
`LaunchedOnce` and `StaleStops` that a job has its slot, its approval and its fresh
evidence. `OperationFollows` and `PendingIsAbandoned` relate it to the store across
crashes. For the files, `IInv` of `ExecutionEvidence` rests on one idea: while
nothing goes back to what it was, what a name reads only grows (`ContentGrows`), so
a source that was read between the binding of its file and the comparison lies
between two equal versions. The sources stand in the order of the commands
(`SourcesInOrder`, by counting those that name a file), and the outputs of the script
are none of the files that were compared (`OutputsAreKnown`), which is why a script
cannot overwrite what it runs next. The two scans of a command line are walks of a
recursive function over positions; the walks are compared from the last position
on which they would disagree, as the last element of a set of numbers exists because
finite sets are well founded. For a waiting command, `AnswersAreTrue` says that an
end that was read is not undone.

**Passwords.** For change sets, `CommitsOnce` says how far a commit is and whether it
has written, `HandlerHolds` what the handler carries while it holds the lock,
`Superseded` that an approval remembered under a policy is gone before the policy is
replaced. In the catalog, a deletion of a duplicate keeps a value only because of
`OneHome`, which is therefore part of the argument for `EditsKeepTheRest`. For stored
values, `IInv` is said of one secret at a time. `Settled(d)` holds of every draft: one
confirmation has it, and knows where it wrote. `Kept(d)` holds of a secret that was not
disturbed: one command at most works on it (two that did would have disturbed it), and
`Good` says of that command what is where: of a change, that its rollback would make a
value last reported readable again (`Returns`), and that the catalog is as it was saved or
has the new value beside it; of a migration, that another place still holds the value.
Everything else that changes a secret's part of a file disturbs it, which is what each
step must show. `FilesAreWhole` says that a vault moved aside or a catalog truncated has a
command that will put it back. An error that leaves a person with two possible values needs
`current` to be a set that is narrowed only by a report. In a vault's files, a first write (`FreshWrite`) and a later one (`Rewrite`)
leave what was saved in the database or its backup, under a key that is drawn once
(`KeysAreDrawn`).

**The desktop.** An exit is clean because a process that ends has its child killed
before it gives the file up, however starts overlap (`ExitInv`). That the file names who
serves needs that whoever writes or removes it has found it absent or naming a process
that is gone, or is recorded as overrunning it (`StartInv`). A conversation is owned by the latest
handler, which is the one a stop reaches (`OwnersAreLatest`). A list that a resolver
works on is a prefix of the change (`ListedIsPrefix`), also after others appended. The
data of a fetch under way offers nothing that was decided and shown as decided
(`FetchIsFresh`). For the synchronisation, `DeviceKeeps` says for each point of a run what it knows of the
vault and the remote, and that what it pushes or installs holds both; together with
`RemoteIsPublished` it shows that a run of one device cannot lose what another one
published. It holds until `raced` has a device: `EditKeeps` says what an edit in the middle
of a run still knows, and each rename is shown to replace the vault it was made for or to
be recorded. In a checkout, what a push is about is staged and then on the branch it
pushes, unless its commit strayed (`PushesTheirOwn`). For backend commands, a registered number belongs to a call
that has not yet reaped its leader, so that the operating system cannot give it away
(`CallsHoldTheirProcess`, `ProcessesAreHeld`).

### The assumptions

* Values that stand for nothing are not identifiers, and bounds are numbers:
  `RequestAssumption`, `BoundsAssumption`, `LimitsAssumption`, `BackendAssumption`,
  `EvidenceAssumption`, `DesktopAssumption`, `CatalogAssumption`, `ValuesAssumption`,
  `ReviewAssumption`, `VaultAssumption`. TLC evaluates all assumptions on the instances of the runs.
* Submissions and suggestions are well formed, and one that is decided directly is in manual mode
  (`SubmissionAssumption`, `SuggestionAssumption`); the stages of one review agree on
  its evidence (`StagedReviewAssumption`: `validate_staged_enrichment` of
  `core/provider.rs`).
* A change set has finitely many operations to choose from (`OperationsAssumption`),
  because its version counts them.
* Two theorems have a hypothesis, which names a weakness of section 5: `Turns` that no
  late failure ends the next turn, `PageFollows` that a page does not reload while it takes
  a handoff; and of `SavedValuesStay` the part about unlock files that one is installed only
  where there is none. TLC checks the runs under the same values of these constants.
* Other exceptions are within the properties, and as narrow as the code allows: they name
  what a failure reached, by a history that only the failing step extends.
  `SavedValuesSurvive` excepts the `disturbed` secrets, `OneDaemonExitsCleanly` the
  processes that were `overrun`, `PublishedIsKept` and `SavedEditsStay` what follows once a
  device is in `raced`, `PublishedIsKept` the commits that `strayed`, `DesktopFollows` the
  requests that were `covered` and the results that were `closed`. `OperationsAreFound` and
  `NothingIsOverwritten` say within the property that no handler was dropped and nobody
  else wrote the file.

### What is only model-checked

The liveness properties (`HiddenEventuallySurfaces`, `ApprovedPlanConcludes`,
`PlansConclude`, `ConfirmationEnds`, `ReviewsConclude`, `SyncConverges`,
`DesktopFollows`): they rest on fairness and ENABLED, which the prover does not
handle. The synchronisation is proved for a folder, Git or the service behind POST,
whichever `RemoteKind` names. No module declares a RECURSIVE operator; the walk of
`CommandScan` is a recursive function, whose values are shown to be equal by a
last-position argument and not by an induction theorem.

## 5. What the runs show

All properties of the passing runs hold. Five statements of the repository do
not.

* `docs/automatic-approval.md` says that audit failures remain visible as partial
  or failed progress. If storing a details update fails, the task ends, its
  monitor finds a completed request and leaves it alone, and the progress stays
  `running` until the daemon is started again (run `audit_progress`).
* `.codex/skills/secret-access/SKILL.md:322` says that a confirmed change is
  immutable and that later calls are accepted under a successor. `successor_for`
  does not look at the successor's state, so a second round of calls through the
  first change is appended to a successor that is itself resolved, where nobody
  can confirm it (run `change_immutable`).
* The operations behind a confirmed prefix are only in memory until the successor
  is inserted: if they no longer apply to the file, `confirm` returns the error of
  their preview, they are gone, and the change stays `committing` (run
  `change_accepted`).
* `desktop/main.rs:3937` says that the newer local copy was preserved, and its
  tests (8276, 8294) expect it. The comparison of the vault and the installation
  of the download share no lock with the commands that edit a vault: an edit saved
  between the two is overwritten, and its backup deleted (run `sync_raced`).
* `desktop/main.rs:3935` explains a conflict by a change during the run. Over Git
  the checkout's branch never advances to what was fetched, so that a device which
  cloned before another one published can push nothing of its own any more, and is
  told each time that the remote changed meanwhile (run `git_conflict`).

`AcceptedOperationsSurvive` and `ConfirmationEnds` are checked in the passing runs
where operations stay applicable and no handler is dropped;
`CommitsOverwriteNothing` likewise without dropped handlers and other writers,
because only the coordinator's lock separates the commits.

**Weaknesses that hypotheses and exceptions name.** Each is a way the code may leave the
checked behaviour; the model has it behind a constant, or records what it reached.

* A handler dropped between commit and spawn leaves a queued request that no
  prompt shows until the next start (`HiddenRequestIsOwned` and
  `HiddenEventuallySurfaces` hold up to the first fault); a dropped
  `execute_resource` leaves a pending request without a plan
  (`PendingRequestHasPlan`, up to the first fault).
* A human decision during start-up fails that start (it is tried again).
* A shell command line with `-o pipefail` and without a script makes the daemon run
  the captured stdin, while `requires_source_stdin` takes the setting's value for the
  program: the reviewer is shown that code as data (`CodeIsNotCalledData` leaves this
  one exception, for lines of any length).
* The catalog is rewritten in place (`fs::write`, `core/value_resolver.rs:1664`): a crash
  or a full disk in the middle leaves it without entries, for good unless the command was to
  restore it, and the values of the vaults without references (`disturbed` in
  `PasswordStore`).
* Commands that write stored values do not wait for each other: what one writes from a copy
  that it read before another's write undoes that write, and a vault moved aside by one is
  not there for the other (`disturbed`, too). Two windows on one draft are kept apart by the
  ledger.
* The exit code 0 of `password change --commit sync` says that a person confirmed the change
  set which took the operation (it "waits for the confirmed version to finish",
  `.codex/skills/secret-access/SKILL.md:310`). When that was a version from before the
  operation, the operation itself waits in the successor that the answer names:
  `ExitTellsOutcome` is about the code together with the named successor.
* A result that is closed between its queueing and its rendering is never shown
  (`dismiss_current`, `desktop/approval_notification.rs:290`; `closed` in
  `ApprovalNotification`), and a request that is presented between a change of the queue and
  the hiding of the window stays registered behind a hidden window
  (`desktop/approval_window.rs:249`-303; `covered` in `ApprovalWindow`).
* An unlock file may be installed over the only key of a vault (`Careful` in
  `VaultFiles`).
* A turn whose settling fails marks the next one as failed (`LateFailures` in
  `ApprovalChat`).
* Two processes that start at once may both serve: the check for the state file and its
  writing are apart (`daemon/state.rs:127`; `overrun` in `DaemonHost`).
* An edit that is saved while its device installs a download is lost (run `sync_raced`), and
  what a remote confirmed may be, once that happened (`raced` in `VaultSync`).
* A page that reloads while it is being given a handoff loses it
  (`ReloadsMidTake` in `DesktopHandoff`).
* Connections of one repository on different branches share a checkout, and a push
  of one may be reported for a commit that is only in the other's branch
  (`strayed` in `GitCheckout`).
* The first push of a device to a WebDAV server sends no precondition
  (`core/sync/mod.rs:440`) and overwrites what another device has published, where
  a folder and Git refuse. `PublishedIsKept` is checked over a folder, Git, and the
  service behind POST, which is taken to refuse.
* The cumulative diff of a change set compares the policies of fields that are in
  an item before and after: a field that one operation moves to another item and
  another gives a new policy has no policy entry (`PolicyChangeIsShown` in
  `Catalog` states the opposite).
* The comment of `core/execution.rs` says that named files are compared
  immediately before launch; a file that changed back between its two readings was
  shown in one version and is compared in another (`ShownIsAlwaysChecked` in
  `ExecutionEvidence` states the opposite; `ShownIsChecked` leaves this exception
  and nothing else).

## 6. Not modelled, and the plan

Not modelled: rendering, menus, prompts, provider wire protocols and the text of
answers; the arguments and output of each password manager; the lists of options
of each interpreter beyond their kinds; the walk over parent processes; settings
other than the decision policy and the automatic approval of commands; read
models, the journal and migrations, which nothing reads back into a decision; the
heartbeat's wall-clock timestamps (every operation of an earlier process counts as
stale); the validation of an exposure report, whose outcomes are inputs; the
search of resources; the merge of two vaults, which is the union of their edits;
KeePassXC, Git and the file systems themselves, which are external.

What a next version could add, in this order: the comparison of an exposure report
with a policy as operators, in place of the abstract outcomes of
`AutomaticDecision`; a clock that is set back between two lives of the daemon; a
search of resources that races an import.
