----------------------------- MODULE VaultSync -----------------------------
(***************************************************************************)
(* Synchronisation of one encrypted vault between the devices of a user    *)
(* (plankton-core sync, run_sync_connection of the desktop), over a shared *)
(* folder, a Git branch or an HTTP service.  On each device one run at a   *)
(* time pushes, pulls or merges while the same application edits the vault *)
(* by staging a copy and swapping it in.                                   *)
(*                                                                         *)
(* A vault is the set of changes it holds; equal sets stand for equal      *)
(* bytes, so that the hash of a vault is the vault itself.  An HTTP        *)
(* service counts versions and honours if-match.                           *)
(***************************************************************************)
EXTENDS Naturals, FiniteSets

CONSTANTS
  Device,
  Edit,           \* changes the users make, each once
  NoVault,        \* there is no file
  Kind,           \* "folder", "git", "http" or "webdav"
  Direction,      \* the runs a user starts: "push", "pull", "sync"
  MaxVersion,     \* bound: pushes accepted by a remote
  MaxFaults       \* bound: crashes, failed verifications and lost answers

VARIABLES
  vault,      \* the database file of each device
  aside,      \* recovery backups of a swap that a crash cut short
  editor,     \* the edit in progress on each device
  saved,      \* the edits whose author was told they are saved
  job,        \* the run of each device
  record,     \* SyncStateRecord: base_hash and remote_revision
  blob,       \* the remote vault file
  meta,       \* the folder's metadata file
  lock,       \* the folder's lock file: the device that made it
  head,       \* commits of the Git branch
  branch,     \* the commit each device's checkout descends from
  published,  \* history: every change a remote has confirmed
  blamed,     \* history: Git runs that reported a conflict though nobody pushed
  raced,      \* history: devices where a step of an edit or of a run met with a vault that
              \* it was not made for
  faults

files  == <<vault, aside, saved, raced>>
remote == <<blob, meta, lock, head, branch, published, blamed>>
vars   == <<files, editor, job, record, remote, faults>>

Vault == SUBSET Edit
Changes(v) == IF v = NoVault THEN {} ELSE v
NoMeta == [version |-> NoVault, sha |-> NoVault]
IdleJob == [pc |-> "idle", dir |-> "none", local |-> NoVault, seen |-> NoVault,
            version |-> NoVault, out |-> NoVault, retried |-> FALSE, at |-> 0]
IdleEditor == [pc |-> "idle", copy |-> NoVault, old |-> NoVault, edit |-> {}]

Init ==
  /\ vault = [d \in Device |-> NoVault] /\ aside = [d \in Device |-> {}]
  /\ editor = [d \in Device |-> IdleEditor] /\ saved = {}
  /\ job = [d \in Device |-> IdleJob]
  /\ record = [d \in Device |-> [base |-> NoVault, revision |-> NoVault]]
  /\ blob = NoVault /\ meta = NoMeta /\ lock = {}
  /\ head = 0 /\ branch = [d \in Device |-> 0] /\ published = {} /\ blamed = {}
  /\ raced = {} /\ faults = 0

-----------------------------------------------------------------------------
(* Edits: a staged copy replaces the vault, then the catalog is updated.   *)
(* No lock keeps them and the runs of a device apart.                      *)

Races(d, crossed) == raced' = IF crossed THEN raced \cup {d} ELSE raced

\* Without a vault a new one is begun, unless its unlock file is there (local_vault_unlock_secret).
Stage(d) ==
  /\ editor[d].pc = "idle"
  /\ vault[d] = NoVault =>
       aside[d] = {} /\ (job[d].pc = "installing" => job[d].local = NoVault)
  /\ \E e \in Edit \ (saved \cup UNION {editor[x].edit : x \in Device}) :
       editor' = [editor EXCEPT ![d] =
         [pc |-> "staged", copy |-> Changes(vault[d]) \cup {e},
          old |-> vault[d], edit |-> {e}]]
  /\ UNCHANGED <<files, job, record, remote, faults>>

\* commit_staged_vault moves the vault to a backup and the staged copy in its place.
MoveAside(d) ==
  /\ editor[d].pc = "staged"
  /\ editor' = [editor EXCEPT ![d].pc = "swapping", ![d].old = vault[d]]
  /\ vault' = [vault EXCEPT ![d] = NoVault]
  /\ Races(d, vault[d] # editor[d].old)
  /\ UNCHANGED <<aside, saved, job, record, remote, faults>>

SwapIn(d) ==
  /\ editor[d].pc = "swapping"
  /\ vault' = [vault EXCEPT ![d] = editor[d].copy]
  /\ editor' = [editor EXCEPT ![d].pc = "registering"]
  /\ Races(d, vault[d] # NoVault \/ job[d].pc = "installing")
  /\ UNCHANGED <<aside, saved, job, record, remote, faults>>

Register(d) ==
  /\ editor[d].pc = "registering"
  /\ saved' = saved \cup editor[d].edit
  /\ editor' = [editor EXCEPT ![d] = IdleEditor]
  /\ UNCHANGED <<vault, aside, job, record, remote, raced, faults>>

\* What the device counts on having: its baseline, and what a run that cannot fail any more
\* over the vault makes of it.
Relied(d) ==
  Changes(record[d].base)
    \cup (IF job[d].pc = "save" \/ job[d].dir = "push" THEN Changes(job[d].out) ELSE {})

\* The catalog cannot be written: rollback_staged_vault removes what is in the place of the
\* vault and, if there was something, brings the backup back.
Rollback(d) ==
  /\ editor[d].pc = "registering" /\ faults < MaxFaults
  /\ IF vault[d] = NoVault
     THEN /\ aside' = [aside EXCEPT ![d] = @ \cup Changes(editor[d].old)]
          /\ UNCHANGED <<vault, raced>>
     ELSE /\ vault' = [vault EXCEPT ![d] = editor[d].old]
          /\ Races(d, vault[d] # editor[d].copy
                        \/ ~(Relied(d) \subseteq Changes(editor[d].old)))
          /\ UNCHANGED aside
  /\ editor' = [editor EXCEPT ![d] = IdleEditor]
  /\ faults' = faults + 1
  /\ UNCHANGED <<saved, job, record, remote>>

EditorStep(d) == MoveAside(d) \/ SwapIn(d) \/ Register(d)

-----------------------------------------------------------------------------
(* A run of synchronisation                                                *)

Goes(d, pc) == job' = [job EXCEPT ![d].pc = pc]
Fails(d) == job' = [job EXCEPT ![d] = IdleJob]

\* execute_automatic_sync tries once more after a conflict or a divergence.
FailsOrRetries(d) ==
  IF job[d].dir = "sync" /\ ~job[d].retried
  THEN job' = [job EXCEPT ![d] = [IdleJob EXCEPT !.pc = "read", !.dir = "sync", !.retried = TRUE]]
  ELSE Fails(d)

\* run_sync_connection; SyncOperationGuard lets one run of a vault start at a time.
Begin(d, dir) ==
  /\ job[d].pc = "idle"
  /\ job' = [job EXCEPT ![d].pc = IF dir = "pull" THEN "guard" ELSE "read", ![d].dir = dir]
  /\ UNCHANGED <<files, editor, record, remote, faults>>

\* read_local_sync_blob; a push takes the revision of the last success as expected.
ReadLocal(d) ==
  /\ job[d].pc = "read"
  /\ IF job[d].dir = "sync"
     THEN job' = [job EXCEPT ![d].local = vault[d], ![d].pc = "fetch"]
     ELSE IF vault[d] = NoVault THEN Fails(d)
     ELSE job' = [job EXCEPT ![d].out = vault[d], ![d].version = record[d].revision,
                             ![d].at = head, ![d].pc = "push"]
  /\ UNCHANGED <<files, editor, record, remote, faults>>

\* ensure_pull_target_has_not_diverged
GuardPull(d) ==
  /\ job[d].pc = "guard"
  /\ IF vault[d] \in {NoVault, record[d].base} THEN Goes(d, "fetch") ELSE Fails(d)
  /\ UNCHANGED <<files, editor, record, remote, faults>>

PlanReversed(local, seen, base) ==
  CASE local = NoVault /\ seen = NoVault -> "nothing"
    [] seen = NoVault -> "upload"
    [] local = NoVault -> "download"
    [] OTHER -> IF local = seen THEN "current"
                ELSE IF seen = base THEN "download"
                ELSE IF local = base THEN "upload" ELSE "merge"

\* plan_sync
Plan(local, seen, base) ==
  CASE local = NoVault /\ seen = NoVault -> "nothing"
    [] local # NoVault /\ seen = NoVault -> "upload"
    [] local = NoVault /\ seen # NoVault -> "download"
    [] OTHER -> IF local = seen THEN "current"
                ELSE IF local = base THEN "download"
                ELSE IF seen = base THEN "upload" ELSE "merge"

\* What a run does with the vault the remote returned.
Fetched(d, seen, version) ==
  LET todo == IF job[d].dir = "sync" THEN Plan(job[d].local, seen, record[d].base)
              ELSE IF seen = NoVault THEN "nothing" ELSE "replace"
  IN IF todo = "nothing" THEN Fails(d)
     ELSE job' = [job EXCEPT ![d].pc = todo, ![d].seen = seen, ![d].version = version,
                             ![d].at = head]

\* LocalFolderRemote::pull reads two files, without the lock.
FetchBlob(d) ==
  /\ Kind = "folder" /\ job[d].pc = "fetch"
  /\ IF blob = NoVault THEN Fetched(d, NoVault, NoVault)
     ELSE job' = [job EXCEPT ![d].seen = blob, ![d].pc = "metadata"]
  /\ UNCHANGED <<files, editor, record, remote, faults>>

\* SyncEngine::fetch compares the hash; a missing metadata file reads as no vault.
FetchMetadata(d) ==
  /\ job[d].pc = "metadata"
  /\ IF meta = NoMeta THEN Fetched(d, NoVault, NoVault)
     ELSE IF meta.sha # job[d].seen THEN Fails(d)
     ELSE Fetched(d, job[d].seen, meta.version)
  /\ UNCHANGED <<files, editor, record, remote, faults>>

\* A Git remote's version is the hash of the file at the fetched head.
FetchGit(d) ==
  /\ Kind = "git" /\ job[d].pc = "fetch"
  /\ Fetched(d, blob, blob)
  /\ UNCHANGED <<files, editor, record, remote, faults>>

\* HttpSyncRemote::pull: the vault and its headers; status 404 is an error, not a missing vault.
FetchHttp(d) ==
  /\ Kind \in {"http", "webdav"} /\ job[d].pc = "fetch"
  /\ IF blob = NoVault THEN Fails(d) ELSE Fetched(d, blob, meta.version)
  /\ UNCHANGED <<files, editor, record, remote, faults>>

\* pull_to_path: one rename.
Replace(d) ==
  /\ job[d].pc = "replace"
  /\ vault' = [vault EXCEPT ![d] = job[d].seen]
  /\ job' = [job EXCEPT ![d].out = job[d].seen, ![d].pc = "save"]
  /\ Races(d, vault[d] \notin {NoVault, record[d].base})
  /\ UNCHANGED <<aside, saved, editor, record, remote, faults>>

\* ensure_local_sync_snapshot, after the vaults were verified and merged on copies.
CheckLocal(d) ==
  /\ job[d].pc \in {"upload", "download", "merge", "current"}
  /\ IF vault[d] # job[d].local THEN FailsOrRetries(d)
     ELSE LET j == job[d] IN
       job' = [job EXCEPT
         ![d].out = CASE j.pc = "download" -> j.seen
                      [] j.pc = "merge"    -> j.local \cup j.seen
                      [] OTHER             -> j.local,
         ![d].pc = CASE j.pc = "download" -> "install"
                     [] j.pc = "current"  -> "save"
                     [] OTHER             -> "push"]
  /\ UNCHANGED <<files, editor, record, remote, faults>>

\* The unlock file does not open a copy, or KeePassXC cannot merge them.
VerifyFails(d) ==
  /\ job[d].pc \in {"upload", "download", "merge", "current"} /\ faults < MaxFaults
  /\ Fails(d)
  /\ faults' = faults + 1
  /\ UNCHANGED <<files, editor, record, remote>>

\* acquire_local_lock; a lock that stays taken reads as a remote that is offline.
TakeLock(d) ==
  /\ Kind = "folder" /\ job[d].pc = "push"
  /\ IF lock = {} THEN lock' = {d} /\ Goes(d, "locked") ELSE UNCHANGED lock /\ Fails(d)
  /\ UNCHANGED <<files, editor, record, blob, meta, head, branch, published, blamed, faults>>

AnyVersion(d) == TRUE
Expected(d) == meta.version = job[d].version
LockKept == lock
LockAfterConflict == {}
Successor(version) == IF version = NoVault THEN 1 ELSE version + 1

\* push_locked: the version is compared, then the file is written ...
WriteBlob(d) ==
  /\ job[d].pc = "locked" /\ Successor(meta.version) <= MaxVersion
  /\ IF Expected(d)
     THEN blob' = job[d].out /\ Goes(d, "written") /\ UNCHANGED lock
     ELSE lock' = LockAfterConflict /\ FailsOrRetries(d) /\ UNCHANGED blob
  /\ UNCHANGED <<files, editor, record, meta, head, branch, published, blamed, faults>>

\* ... and then its metadata, which makes it the remote's vault.
WriteMetadata(d) ==
  /\ job[d].pc = "written"
  /\ meta' = [version |-> Successor(job[d].version), sha |-> job[d].out]
  /\ published' = published \cup job[d].out
  /\ lock' = {}
  /\ job' = [job EXCEPT ![d].version = Successor(@), ![d].pc = "pushed"]
  /\ UNCHANGED <<files, editor, record, blob, head, branch, blamed, faults>>

Conflicts(d) ==
  /\ FailsOrRetries(d)
  /\ blamed' = IF head = job[d].at /\ job[d].retried THEN blamed \cup {d} ELSE blamed

\* GitRemote::push fetches once more and compares before it commits ...
CommitGit(d) ==
  /\ Kind = "git" /\ job[d].pc = "push"
  /\ IF blob = job[d].version THEN Goes(d, "committed") /\ UNCHANGED blamed
     ELSE Conflicts(d)
  /\ UNCHANGED <<files, editor, record, blob, meta, lock, head, branch, published, faults>>

FastForward(d) == branch[d] = head

\* ... and pushes its branch, which nothing but its own pushes ever moves.
PushGit(d) ==
  /\ job[d].pc = "committed" /\ head < MaxVersion
  /\ IF FastForward(d)
     THEN /\ head' = (IF blob = job[d].out THEN head ELSE head + 1)
          /\ branch' = [branch EXCEPT ![d] = head']
          /\ blob' = job[d].out
          /\ published' = published \cup job[d].out
          /\ job' = [job EXCEPT ![d].version = job[d].out, ![d].pc = "pushed"]
          /\ UNCHANGED blamed
     ELSE Conflicts(d) /\ UNCHANGED <<blob, head, branch, published>>
  /\ UNCHANGED <<files, editor, record, meta, lock, faults>>

\* The first push of a device has no revision and sends no if-match: PUT then overwrites, while
\* the service behind POST is taken to refuse what is there already.
Matches(d) ==
  IF job[d].version = NoVault THEN Kind = "webdav" \/ meta = NoMeta
  ELSE meta.version = job[d].version

Serves(d) ==
  /\ blob' = job[d].out
  /\ meta' = [version |-> Successor(meta.version), sha |-> job[d].out]
  /\ published' = published \cup job[d].out
  /\ UNCHANGED <<files, editor, record, lock, head, branch, blamed>>

\* HttpSyncRemote::push; without headers in the answer the version is the expected one plus one.
PushHttp(d) ==
  /\ Kind \in {"http", "webdav"} /\ job[d].pc = "push" /\ Successor(meta.version) <= MaxVersion
  /\ Matches(d) /\ Serves(d)
  /\ job' = [job EXCEPT ![d].version = Successor(meta.version), ![d].pc = "pushed"]
  /\ UNCHANGED faults

\* Status 409 or 412.
RefusedHttp(d) ==
  /\ Kind \in {"http", "webdav"} /\ job[d].pc = "push" /\ ~Matches(d)
  /\ FailsOrRetries(d)
  /\ UNCHANGED <<files, editor, record, remote, faults>>

\* The service stored the vault, but answered 5xx, which SyncEngine tries again, or not at all.
AnswerLost(d) ==
  /\ Kind \in {"http", "webdav"} /\ job[d].pc = "push" /\ Successor(meta.version) <= MaxVersion
  /\ faults < MaxFaults /\ faults' = faults + 1
  /\ Matches(d) /\ Serves(d)
  /\ job' = job \/ Fails(d)

\* The vault must still be what was sent, unless the run is a plain push.
CheckAgain(d) ==
  /\ job[d].pc = "pushed"
  /\ IF job[d].dir = "push" THEN Goes(d, "save")
     ELSE IF vault[d] # job[d].local THEN FailsOrRetries(d)
     ELSE Goes(d, IF job[d].out = job[d].local THEN "save" ELSE "install")
  /\ UNCHANGED <<files, editor, record, remote, faults>>

\* install_sync_staging; the vault found there waits in a backup for a moment.
Install(d) ==
  /\ job[d].pc = "install"
  /\ job' = [job EXCEPT ![d].pc = "installing", ![d].local = vault[d]]
  /\ vault' = [vault EXCEPT ![d] = NoVault]
  /\ Races(d, vault[d] # job[d].local)
  /\ UNCHANGED <<aside, saved, editor, record, remote, faults>>

FinishInstall(d) ==
  /\ job[d].pc = "installing"
  /\ vault' = [vault EXCEPT ![d] = job[d].out]
  /\ Goes(d, "save")
  /\ Races(d, vault[d] # NoVault)
  /\ UNCHANGED <<aside, saved, editor, record, remote, faults>>

SaveRecord(d) ==
  /\ job[d].pc = "save"
  /\ record' = [record EXCEPT ![d] = [base |-> job[d].out, revision |-> job[d].version]]
  /\ job' = [job EXCEPT ![d] = IdleJob]
  /\ UNCHANGED <<files, editor, remote, faults>>

-----------------------------------------------------------------------------
(* Crashes, and what a user does about a lock left behind                  *)

Crash(d) ==
  /\ faults < MaxFaults
  /\ job[d].pc # "idle" \/ editor[d].pc # "idle"
  /\ faults' = faults + 1
  /\ aside' = [aside EXCEPT ![d] = @
       \cup (IF editor[d].pc \in {"swapping", "registering"} THEN Changes(editor[d].old) ELSE {})
       \cup (IF job[d].pc = "installing" THEN Changes(job[d].local) ELSE {})]
  /\ job' = [job EXCEPT ![d] = IdleJob]
  /\ editor' = [editor EXCEPT ![d] = IdleEditor]
  /\ UNCHANGED <<vault, saved, record, remote, raced>>

RemoveLock ==
  /\ \E d \in lock : job[d].pc \notin {"locked", "written"}
  /\ lock' = {}
  /\ UNCHANGED <<files, editor, job, record, blob, meta, head, branch, published, blamed, faults>>

SyncStep(d) ==
  \/ ReadLocal(d) \/ GuardPull(d) \/ FetchBlob(d) \/ FetchMetadata(d) \/ FetchGit(d) \/ FetchHttp(d)
  \/ Replace(d) \/ CheckLocal(d) \/ TakeLock(d) \/ WriteBlob(d) \/ WriteMetadata(d)
  \/ CommitGit(d) \/ PushGit(d) \/ PushHttp(d) \/ RefusedHttp(d) \/ CheckAgain(d) \/ Install(d) \/ FinishInstall(d) \/ SaveRecord(d)

Next ==
  \/ \E d \in Device : \/ Stage(d) \/ EditorStep(d) \/ Rollback(d)
                       \/ (\E dir \in Direction : Begin(d, dir)) \/ SyncStep(d)
                       \/ VerifyFails(d) \/ AnswerLost(d) \/ Crash(d)
  \/ RemoveLock

Spec == Init /\ [][Next]_vars

\* Runs that have begun go on, and the user keeps synchronising every device.
FairSpec ==
  /\ Spec
  /\ \A d \in Device : /\ WF_vars(EditorStep(d)) /\ WF_vars(SyncStep(d))
                       /\ WF_vars(Begin(d, "sync"))

-----------------------------------------------------------------------------
(* Properties                                                              *)

\* The changes on a device, in its vault or in a backup beside it.
Kept(d) == Changes(vault[d]) \cup aside[d]
  \cup (IF editor[d].pc \in {"swapping", "registering"} THEN Changes(editor[d].old) ELSE {})
  \cup (IF job[d].pc = "installing" THEN Changes(job[d].local) ELSE {})

\* A change reported as saved stays on its device: neither a download, nor an installed
\* merge, nor a crash in the middle of a swap removes it.  "The newer local copy was
\* preserved", says the message for a vault that changed during a run (main.rs, 3938).
\* It is true until a rename meets with a vault that its edit or its run was not made for:
\* nothing locks them out between a comparison and the rename that rests on it.
ForgetsSaved == raced' = {} /\ \E d \in Device : ~(Kept(d) \cap saved \subseteq Kept(d)')
SavedEditsStay == [][~ForgetsSaved]_vars

\* A run removes no saved change of its device, whatever is edited meanwhile: "changed local
\* input must be preserved" (main.rs, 8276, of ensure_local_sync_snapshot).
RunsPreserveEdits ==
  [][\A d \in Device : job'[d] # job[d] => Kept(d) \cap saved \subseteq Kept(d)']_vars

\* A change a remote once confirmed stays there: no device's push drops what another one
\* published, whatever the two competed for and whichever of them crashed.
PublishedEditsStay == published \subseteq Changes(blob)

\* What a device remembers as its baseline was on the remote, which is what makes it safe
\* to take "equal to the baseline" for "unchanged since" (plan_sync).
BaselineWasPublished == \A d \in Device : Changes(record[d].base) \subseteq published

\* Both, until a device's edit and its run replace each other's vault.
SyncLosesNothing == raced # {} \/ (PublishedEditsStay /\ BaselineWasPublished)

\* An automatic run reports a conflict only when somebody pushed after it had looked: "The
\* remote vault changed while Plankton was synchronizing" (main.rs, 3935).
ConflictMeansRaced == blamed = {}

\* Devices that keep synchronising end with the same vault, holding every saved change.
SyncConverges ==
  <>[](raced # {} \/ \A d \in Device : vault[d] = blob /\ saved \subseteq Changes(blob))
-----------------------------------------------------------------------------
(* Why they hold: what a run and an edit under way know of the vault of    *)
(* their device, which is theirs until they end, and of the remote, which  *)
(* is not.  A revision that is still the remote's says that what was known *)
(* with it holds every published change: it is a count that never returns, *)
(* or the hash of the very vault.                                          *)

Setting ==
  /\ Kind \in {"folder", "git", "http"} /\ Direction \subseteq {"push", "pull", "sync"}
  /\ NoVault \notin Nat /\ \A v \in Vault : v # NoVault

Vaults == Vault \cup {NoVault}
Counts == Nat \cup {NoVault}
Revisions == IF Kind = "git" THEN Vaults ELSE Counts
Count(version) == IF version = NoVault THEN 0 ELSE version

Reading == {"read", "guard", "fetch", "metadata"}
Planned == {"upload", "download", "merge", "current"}
Pushing == {"push", "locked", "written", "committed"}
Ending  == {"pushed", "install", "installing", "save"}

Jobs ==
  [pc : {"idle", "replace"} \cup Reading \cup Planned \cup Pushing \cup Ending,
   dir : {"none", "push", "pull", "sync"}, local : Vaults, seen : Vaults,
   version : Revisions, out : Vaults, retried : BOOLEAN, at : Nat]
Editors ==
  [pc : {"idle", "staged", "swapping", "registering"}, copy : Vaults, old : Vaults, edit : Vault]

TypeOK ==
  /\ vault \in [Device -> Vaults] /\ aside \in [Device -> Vault] /\ saved \in Vault
  /\ editor \in [Device -> Editors] /\ job \in [Device -> Jobs]
  /\ record \in [Device -> [base : Vaults, revision : Revisions]]
  /\ blob \in Vaults /\ published \in Vault /\ meta \in [version : Counts, sha : Vaults]
  /\ lock \subseteq Device /\ head \in Nat /\ branch \in [Device -> Nat]

\* What was known together with the version holds what was published up to it.
Held(version, v) ==
  IF Kind = "git" THEN Changes(version) \subseteq Changes(v)
  ELSE /\ Count(version) <= Count(meta.version)
       /\ version = meta.version => published \subseteq Changes(v)

RemoteIsPublished ==
  /\ published \subseteq Changes(blob)
  /\ published = IF Kind = "folder" THEN Changes(meta.sha) ELSE Changes(blob)
  /\ meta.version = NoVault => meta = NoMeta
  /\ meta.version # 0
  /\ Kind = "git" => \A d \in Device : branch[d] <= head

\* A vault that is there holds what is relied on; otherwise a backup of it does.
BaselineIsKept(d) ==
  /\ Changes(record[d].base) \subseteq published /\ Held(record[d].revision, record[d].base)
  /\ vault[d] # NoVault => Relied(d) \subseteq vault[d]
  /\ Relied(d) \subseteq Kept(d)

\* The vault a copy was made from is in it; the copy replaces nothing else, and it is in the
\* vault until it is registered, unless an installation has put that aside.
EditKeeps(d) ==
  LET e == editor[d]
      j == job[d]
  IN  /\ e.pc = "idle" => e = IdleEditor
      /\ e.pc # "idle" => e.copy = Changes(e.old) \cup e.edit /\ e.copy # NoVault
      /\ e.pc = "staged" /\ e.old = NoVault => aside[d] = {}
      /\ e.pc = "swapping" /\ vault[d] = NoVault /\ j.pc # "installing" =>
           Relied(d) \subseteq Changes(e.old)
      /\ e.pc = "registering" => IF vault[d] # NoVault THEN e.copy \subseteq vault[d]
                                 ELSE j.pc = "installing" /\ e.copy \subseteq Changes(j.local)

\* The direction tells which part of a run is reached, and what it read holds the baseline.
RunKnowsVault(d) ==
  LET j == job[d]
  IN  /\ j.pc = "idle" => j = IdleJob
      /\ j.pc \in Planned \cup {"install", "installing"} => j.dir = "sync"
      /\ j.pc \in Pushing \cup {"read", "pushed"} => j.dir \in {"push", "sync"}
      /\ j.pc \in {"fetch", "metadata"} => j.dir \in {"pull", "sync"}
      /\ j.pc \in {"guard", "replace"} => j.dir = "pull"
      /\ j.dir = "sync" /\ j.pc \in Planned \cup {"fetch", "metadata"} =>
           j.local = NoVault \/ Changes(record[d].base) \subseteq j.local
      /\ j.pc = "installing" => vault[d] = NoVault

\* What it fetched, and what the plan makes of it.
RunKnowsRemote(d) ==
  LET j == job[d]
      base == record[d].base
  IN  /\ j.pc = "metadata" => Kind = "folder"
      /\ j.pc \in Planned \cup {"metadata", "replace"} =>
           j.seen = NoVault \/ Changes(base) \subseteq j.seen
      /\ j.pc \in Planned \cup {"replace"} =>
           Changes(j.seen) \subseteq published /\ Held(j.version, j.seen)
      /\ j.pc \in {"download", "merge", "replace", "metadata"} => j.seen # NoVault
      /\ j.pc \in {"upload", "merge", "current"} => j.local # NoVault
      /\ j.pc = "upload" => j.seen \in {NoVault, base}
      /\ j.pc = "download" => j.local \in {NoVault, base}
      /\ j.pc = "current" => j.local = j.seen

\* What it pushes or installs holds the vaults it came from.
RunLosesNothing(d) ==
  LET j == job[d]
  IN  /\ j.pc \in Pushing \cup Ending =>
           /\ j.out # NoVault /\ Held(j.version, j.out)
           /\ Changes(record[d].base) \subseteq j.out
      /\ j.dir = "sync" /\ j.pc \in Pushing \cup {"pushed", "install", "installing"} =>
           Changes(j.local) \subseteq j.out
      /\ j.pc \in Ending => j.out \subseteq published
      /\ j.pc \in {"locked", "written"} => Kind = "folder" /\ lock = {d}
      /\ j.pc = "written" =>
           meta.version = j.version /\ blob = j.out /\ published \subseteq j.out
      /\ j.pc = "committed" => Kind = "git" /\ (branch[d] = head => blob = j.version)

DeviceKeeps(d) ==
  /\ BaselineIsKept(d) /\ EditKeeps(d)
  /\ RunKnowsVault(d) /\ RunKnowsRemote(d) /\ RunLosesNothing(d)

\* An edit that is not saved is on one device.
EditsAreNew == \A d \in Device :
  /\ editor[d].edit \cap saved = {}
  /\ \A x \in Device \ {d} : editor[d].edit \cap editor[x].edit = {}

IInv ==
  TypeOK /\ RemoteIsPublished /\ EditsAreNew /\ \A d \in Device : DeviceKeeps(d)
=============================================================================
