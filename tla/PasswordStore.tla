--------------------------- MODULE PasswordStore ---------------------------
(***************************************************************************)
(* Passwords a person saves through the desktop: the drafts of the         *)
(* confirmation ledger (passwords/confirmation.rs) and the commands that   *)
(* store, change, copy and move their values (main.rs), in local vaults or *)
(* with an external password manager.                                      *)
(*                                                                         *)
(* A draft stands for the secret it becomes, a copy of which each place    *)
(* may hold; the catalog (value_resolver.rs) says how each copy is read.   *)
(* Vaults and catalog are files that a command reads, edits in memory or   *)
(* in a copy, and writes in whole. Commands run side by side; no lock      *)
(* keeps them apart.                                                       *)
(***************************************************************************)
EXTENDS Naturals

CONSTANTS
  Draft, Value,
  Local,       \* local vaults, each one file
  External,    \* vaults of a password manager
  Job,         \* commands that run at the same time
  MaxFaults    \* bound: failures and crashes

VARIABLES
  draft,       \* where the ledger has each draft
  content,     \* the values of a draft
  store,       \* the value each place holds of each secret
  aside,       \* vaults moved to their backup, the new version not in place yet
  backup,      \* values that only the backup of a vault still has
  catalog,     \* how each copy of a secret is read, as the file was last written
  emptied,     \* whether the file of the catalog is truncated and not written yet
  job,
  current,     \* the values last reported of a secret; none before it is saved
  written,     \* history: where a confirmation wrote a draft and did not undo it
  disturbed,   \* history: secrets that a race or an interrupted write of the catalog reached
  faults

ledger == <<draft, content>>
vaults == <<store, aside, backup>>
index  == <<catalog, emptied>>
told   == <<current, written>>
vars   == <<ledger, vaults, index, job, told, disturbed, faults>>

Place == Local \cup External
Gone == "gone"
Absent == "absent"    \* no reference
Live == "live"        \* a reference that is resolved in the vault; else the value is beside it
Empty == [d \in Draft |-> Gone]
Nothing == [d \in Draft |-> [p \in Place |-> Absent]]
Idle == [pc |-> "idle", io |-> "none", kind |-> "none", draft |-> "none", to |-> "none",
         from |-> "none", value |-> Gone, copy |-> Empty, old |-> Empty, read |-> Nothing,
         saved |-> Nothing]

Init ==
  /\ draft = [d \in Draft |-> "none"] /\ content = Empty
  /\ store = [p \in Place |-> Empty] /\ aside = {} /\ backup = {}
  /\ catalog = Nothing /\ emptied = FALSE
  /\ job = [j \in Job |-> Idle]
  /\ current = [d \in Draft |-> {}] /\ written = [d \in Draft |-> {}]
  /\ disturbed = {} /\ faults = 0

Goes(j, pc) == job' = [job EXCEPT ![j].pc = pc]
Ends(j) == job' = [job EXCEPT ![j] = Idle]

\* restore_draft: a confirmation that failed gives the draft back, with the values typed.
Fails(j) ==
  /\ Ends(j)
  /\ IF job[j].kind = "confirm"
     THEN /\ draft' = [draft EXCEPT ![job[j].draft] = "pending"]
          /\ content' = [content EXCEPT ![job[j].draft] = job[j].value]
          /\ written' = [written EXCEPT ![job[j].draft] = @ \ {job[j].to}]
     ELSE UNCHANGED <<ledger, written>>

Faulty == faults < MaxFaults /\ faults' = faults + 1
Trouble(sure) == IF sure THEN UNCHANGED faults ELSE Faulty

InWork(r) == r.pc \notin {"idle", "replace", "confirm"}
WorksOn(r, d) == InWork(r) /\ r.draft = d

\* Secrets of which two versions of a file, or of the part of it, differ.
Differ(one, other) == {d \in Draft : one[d] # other[d]}
Disturbs(D) == disturbed' = disturbed \cup D

\* What a command reads of a file.
File == IF emptied THEN Nothing ELSE catalog
Reading(entry, stored) == IF entry = Live THEN stored ELSE entry
Read(p, d) == Reading(catalog[d][p], store[p][d])

-----------------------------------------------------------------------------
(* confirm_password_draft                                                  *)

CreateDraft(d) ==
  /\ draft[d] = "none"
  /\ draft' = [draft EXCEPT ![d] = "pending"]
  /\ \E v \in Value : content' = [content EXCEPT ![d] = v]
  /\ UNCHANGED <<vaults, index, job, told, disturbed, faults>>

\* preview, and apply_human_password_values: the person may have typed another value.
BeginConfirm(j) ==
  /\ job[j].pc = "idle"
  /\ \E d \in Draft, p \in Place, v \in Value :
       /\ draft[d] = "pending"
       /\ job' = [job EXCEPT ![j] = [Idle EXCEPT !.pc = "replace", !.kind = "confirm",
                                                 !.draft = d, !.to = p, !.value = v]]
  /\ UNCHANGED <<ledger, vaults, index, told, disturbed, faults>>

Replace(j) ==
  /\ job[j].pc = "replace"
  /\ IF draft[job[j].draft] = "pending"
     THEN content' = [content EXCEPT ![job[j].draft] = job[j].value] /\ Goes(j, "confirm")
     ELSE Ends(j) /\ UNCHANGED content
  /\ UNCHANGED <<draft, vaults, index, told, disturbed, faults>>

\* confirm_and_consume takes the draft out of the ledger, whoever replaced it last.
Confirmed == "committing"
Confirm(j) ==
  /\ job[j].pc = "confirm"
  /\ LET d == job[j].draft IN
     IF draft[d] = "pending"
     THEN /\ draft' = [draft EXCEPT ![d] = Confirmed]
          /\ job' = [job EXCEPT ![j] = [@ EXCEPT !.pc = "place", !.value = content[d]]]
     ELSE Ends(j) /\ UNCHANGED draft
  /\ UNCHANGED <<content, vaults, index, told, disturbed, faults>>

\* complete_draft, or the answer to a change or a migration.
Report(j) ==
  /\ job[j].pc = "report"
  /\ LET d == job[j].draft IN
     /\ draft' = IF job[j].kind = "confirm" THEN [draft EXCEPT ![d] = "committed"] ELSE draft
     /\ current' = IF job[j].kind = "migrate" THEN current
                   ELSE [current EXCEPT ![d] = {job[j].value}]
  /\ Ends(j)
  /\ UNCHANGED <<content, vaults, index, written, disturbed, faults>>

-----------------------------------------------------------------------------
(* Changes and migrations of what is stored                                *)

\* Its confirmation was answered, or died with the desktop.
Ended(d) == draft[d] \in {"committed", "lost"}

\* Nothing keeps two commands from working on one secret.
Begins(j, d) == Disturbs(IF \E k \in Job : WorksOn(job[k], d) THEN {d} ELSE {})

\* update_local_password_values_inner
BeginUpdate(j) ==
  /\ job[j].pc = "idle"
  /\ \E p \in Local, d \in Draft, v \in Value :
       /\ Ended(d) /\ File[d][p] # Absent /\ v # store[p][d]
       /\ job' = [job EXCEPT ![j] = [Idle EXCEPT !.pc = "place", !.kind = "update",
                                                 !.draft = d, !.to = p, !.value = v]]
       /\ Begins(j, d)
  /\ UNCHANGED <<ledger, vaults, index, told, faults>>

\* migrate_password_item_inner, up to the values of the source; from = "none" is a copy. One
\* place is to hold one copy of a secret.
BeginMigrate(j) ==
  /\ job[j].pc = "idle"
  /\ \E p, q \in Place, d \in Draft, move \in BOOLEAN :
       /\ Ended(d) /\ p # q /\ catalog[d][q] = Absent /\ store[q][d] = Gone
       /\ File[d][p] # Absent /\ p \notin aside /\ Read(p, d) \in Value
       /\ job' = [job EXCEPT ![j] =
            [Idle EXCEPT !.pc = "place", !.kind = "migrate", !.draft = d, !.to = q,
                         !.from = IF move THEN p ELSE "none", !.value = Read(p, d)]]
       /\ Begins(j, d)
  /\ UNCHANGED <<ledger, vaults, index, told, faults>>

-----------------------------------------------------------------------------
(* Storing a value in a place, or removing it                              *)

InVault(r) == r.pc \in {"place", "remove"} /\ r.to \in Local
Moves(r, p) == InVault(r) /\ r.to = p /\ r.io = "cut"

\* A local vault is copied and the copy edited; one that is moved aside cannot be copied.
Copy(j) ==
  /\ InVault(job[j]) /\ job[j].io = "none" /\ job[j].to \notin aside
  /\ job' = [job EXCEPT ![j] = [@ EXCEPT !.io = "read", !.copy = store[job[j].to]]]
  /\ UNCHANGED <<ledger, vaults, index, told, disturbed, faults>>

\* commit_staged_vault, its first rename; a change has read the catalog for its own rollback.
\* Where another command has just moved the vault aside there is nothing to move.
MoveAside(j) ==
  /\ InVault(job[j]) /\ job[j].io = "read"
  /\ LET p == job[j].to IN
     /\ aside' = aside \cup {p}
     /\ job' = [job EXCEPT ![j] =
          [@ EXCEPT !.io = "cut", !.old = IF p \in aside THEN Empty ELSE store[p],
                    !.saved = IF job[j].kind = "update" THEN File ELSE Nothing]]
     /\ Disturbs(IF p \in aside \/ (job[j].kind = "update" /\ emptied)
                 THEN {job[j].draft} ELSE {})
  /\ UNCHANGED <<ledger, store, backup, index, told, faults>>

Edited(j) == [job[j].copy EXCEPT ![job[j].draft] = job[j].value]
AfterMove(j) == IF job[j].pc = "remove" THEN "uncatalog"
                ELSE IF job[j].kind = "update" THEN "snapshot" ELSE "register"
Wrote(j) == written' = IF job[j].kind = "confirm"
                       THEN [written EXCEPT ![job[j].draft] = @ \cup {job[j].to}] ELSE written

\* Its second rename. What the vault gained or lost after it was copied is undone.
MoveIn(j) ==
  /\ Moves(job[j], job[j].to)
  /\ store' = [store EXCEPT ![job[j].to] = Edited(j)] /\ aside' = aside \ {job[j].to}
  /\ Disturbs(Differ(job[j].copy, store[job[j].to]))
  /\ Wrote(j)
  /\ job' = [job EXCEPT ![j] = [@ EXCEPT !.pc = AfterMove(j), !.io = "none", !.copy = Empty]]
  /\ UNCHANGED <<ledger, backup, index, current, faults>>

\* What a vault held is now in its backup only.
Strands(p, vault) ==
  /\ store' = [store EXCEPT ![p] = Empty]
  /\ backup' = backup \cup {<<d, vault[d]>> : d \in Draft}

\* The rename fails: the backup, if there is one, goes back, unless that fails too.
MoveInFails(j) ==
  /\ Moves(job[j], job[j].to) /\ Faulty
  /\ LET r == job[j]  p == r.to IN
     /\ \/ store' = (IF r.old = Empty THEN store ELSE [store EXCEPT ![p] = r.old])
           /\ UNCHANGED backup
        \/ r.old # Empty /\ Strands(p, r.old)
     /\ Disturbs(Differ(store'[p], store[p]) \ {r.draft})
     /\ aside' = aside \ {p}
  /\ Fails(j)
  /\ UNCHANGED <<index, current>>

\* item create of the password manager; it may time out after the item was made.
CreateItem(j) ==
  /\ job[j].pc = "place" /\ job[j].to \in External
  /\ store' = [store EXCEPT ![job[j].to][job[j].draft] = job[j].value]
  /\ \/ Goes(j, "register") /\ Wrote(j) /\ UNCHANGED <<ledger, faults>>
     \/ Faulty /\ Fails(j)
  /\ UNCHANGED <<aside, backup, index, current, disturbed>>

\* item delete of the password manager, in the same way.
DeleteItem(j) ==
  /\ job[j].pc = "remove" /\ job[j].to \in External
  /\ store' = [store EXCEPT ![job[j].to][job[j].draft] = Gone]
  /\ \/ Goes(j, "uncatalog") /\ UNCHANGED faults
     \/ Faulty /\ Ends(j)
  /\ UNCHANGED <<ledger, aside, backup, index, told, disturbed>>

\* The vault cannot be copied or opened, the manager refuses, the layout is invalid.
PlaceFails(j) ==
  /\ job[j].pc \in {"place", "remove"} /\ job[j].io # "cut"
  /\ Trouble(job[j].to \in aside /\ job[j].io = "none")
  /\ Fails(j)
  /\ UNCHANGED <<vaults, index, current, disturbed>>

-----------------------------------------------------------------------------
(* Writing the catalog: load, edit, and fs::write, which truncates first   *)

InCatalog(r) == r.pc \in {"register", "snapshot", "annotate", "uncatalog"}

\* update_imported_secret_snapshots, annotate_migrated_references and
\* delete_catalog_references refuse what has no reference.
Missing(j) == job[j].pc # "register" /\ File[job[j].draft][job[j].to] = Absent

Load(j) ==
  /\ InCatalog(job[j]) /\ job[j].io = "none" /\ ~Missing(j)
  /\ job' = [job EXCEPT ![j] = [@ EXCEPT !.io = "read", !.read = File]]
  /\ UNCHANGED <<ledger, vaults, index, told, disturbed, faults>>

Truncate(j) ==
  /\ InCatalog(job[j]) /\ job[j].io = "read"
  /\ job' = [job EXCEPT ![j].io = "cut"]
  /\ emptied' = TRUE
  /\ UNCHANGED <<ledger, vaults, catalog, told, disturbed, faults>>

\* register_secret_references has the value resolved in its place; a change of a value keeps the
\* new one beside the reference, where it takes precedence.
Entry(j) == CASE job[j].pc = "register" -> Live
              [] job[j].pc = "snapshot" -> job[j].value
              [] job[j].pc = "annotate" -> job[j].read[job[j].draft][job[j].to]
              [] job[j].pc = "uncatalog" -> Absent
Recorded(j) == [job[j].read EXCEPT ![job[j].draft][job[j].to] = Entry(j)]
AfterWrite(j) == IF job[j].pc = "register" /\ job[j].kind = "migrate" THEN "annotate"
                 ELSE IF job[j].pc \in {"snapshot", "annotate"} THEN "verify" ELSE "report"

\* What the catalog gained or lost after it was read is undone. When somebody else has written
\* since the file was truncated, the two may mix into a file that does not parse, or this one
\* go to a file that was replaced.
Write(j) ==
  /\ InCatalog(job[j]) /\ job[j].io = "cut"
  /\ IF emptied
     THEN catalog' = Recorded(j) /\ Disturbs(Differ(job[j].read, catalog))
     ELSE /\ catalog' \in {Recorded(j), Nothing, catalog}
          /\ Disturbs(Differ(catalog', catalog) \cup {job[j].draft})
  /\ emptied' = FALSE
  /\ job' = [job EXCEPT ![j] = [@ EXCEPT !.pc = AfterWrite(j), !.io = "none", !.read = Nothing]]
  /\ UNCHANGED <<ledger, vaults, told, faults>>

\* The way back: a vault is rolled back, a new item deleted; a change restores the catalog first.
\* A migration that cannot be annotated deletes its target, or only stops.
GoesBack(j) ==
  LET r == [job[j] EXCEPT !.io = "none", !.read = Nothing] IN
  IF r.pc = "uncatalog" /\ r.to \in External THEN Ends(j)
  ELSE IF r.pc # "annotate"
  THEN job' = [job EXCEPT ![j] = [r EXCEPT !.pc = IF r.pc = "snapshot" THEN "restore"
                                                   ELSE "rollback"]]
  ELSE \/ Ends(j)
       \/ job' = [job EXCEPT ![j] = [r EXCEPT !.pc = "remove", !.from = "none", !.value = Gone]]

\* The catalog cannot be read or written. A write that fails leaves it empty, for good unless
\* the command is to restore it.
CatalogFails(j) ==
  /\ InCatalog(job[j])
  /\ Trouble(Missing(j) /\ job[j].io = "none")
  /\ IF job[j].io = "cut" /\ ~(emptied /\ job[j].pc = "snapshot")
     THEN catalog' \in {File, Nothing}
     ELSE UNCHANGED catalog
  /\ Disturbs(Differ(catalog', catalog))
  /\ GoesBack(j)
  /\ UNCHANGED <<ledger, vaults, emptied, told>>

-----------------------------------------------------------------------------
(* Reading back, and the way back                                          *)

\* A change is read back from the vault, a migration as the catalog says.
Matches(r) ==
  /\ r.to \notin aside
  /\ IF r.kind = "update" THEN store[r.to][r.draft] = r.value
     ELSE File[r.draft][r.to] # Absent /\ Read(r.to, r.draft) = r.value

\* A migration then removes its source, if it is a move.
Verify(j) ==
  /\ job[j].pc = "verify" /\ Matches(job[j])
  /\ job' = [job EXCEPT ![j] =
       IF @.from = "none" THEN [@ EXCEPT !.pc = "report"]
       ELSE [@ EXCEPT !.pc = "remove", !.to = job[j].from, !.from = "none", !.value = Gone]]
  /\ UNCHANGED <<ledger, vaults, index, told, disturbed, faults>>

\* A target that differs is deleted; one that cannot be read stays.
VerifyFails(j) ==
  /\ job[j].pc = "verify" /\ Trouble(~Matches(job[j]))
  /\ \/ job[j].kind = "update" /\ Goes(j, "restore")
     \/ job[j].kind = "migrate" /\ Ends(j)
     \/ /\ job[j].kind = "migrate"
        /\ job' = [job EXCEPT ![j] = [@ EXCEPT !.pc = "remove", !.from = "none", !.value = Gone]]
  /\ UNCHANGED <<ledger, vaults, index, told, disturbed>>

\* An answer that names what could not be undone leaves both values possible.
Unsure(j) ==
  current' = IF job[j].kind = "update" /\ current[job[j].draft] # {}
             THEN [current EXCEPT ![job[j].draft] = @ \cup {job[j].value}] ELSE current

\* write_private_file_atomic puts back the catalog as it was before the change.
Restore(j) ==
  /\ job[j].pc = "restore"
  /\ \/ /\ catalog' = job[j].saved /\ emptied' = FALSE
        /\ Disturbs(Differ(job[j].saved, catalog) \ {job[j].draft})
        /\ UNCHANGED <<current, faults>>
     \/ /\ Faulty /\ catalog' = File
        /\ Disturbs(Differ(File, catalog))
        /\ Unsure(j) /\ UNCHANGED emptied
  /\ Goes(j, "rollback")
  /\ UNCHANGED <<ledger, vaults, written>>

\* The mistake of removing the new vault without putting the backup back.
OnlyRemoved(j) == Empty

\* rollback_staged_vault: the new vault is removed, the backup moved back.
Restored(j) == job[j].old
Rollback(j) ==
  /\ job[j].pc = "rollback" /\ job[j].to \in Local /\ job[j].to \notin aside
  /\ store' = [store EXCEPT ![job[j].to] = Restored(j)]
  /\ Disturbs(Differ(job[j].old, store[job[j].to]) \ {job[j].draft})
  /\ Fails(j)
  /\ UNCHANGED <<aside, backup, index, current, faults>>

\* There is no vault to remove, it cannot be removed, or the backup cannot be moved back.
RollbackFails(j) ==
  /\ job[j].pc = "rollback" /\ job[j].to \in Local
  /\ Trouble(job[j].to \in aside)
  /\ \/ UNCHANGED <<store, backup, disturbed>>
     \/ /\ job[j].to \notin aside /\ job[j].old # Empty
        /\ Strands(job[j].to, job[j].old)
        /\ Disturbs(Differ(Empty, store[job[j].to]) \ {job[j].draft})
  /\ Unsure(j) /\ Fails(j)
  /\ UNCHANGED <<aside, index>>

\* The new item of the password manager is deleted, or stays.
DropItem(j) ==
  /\ job[j].pc = "rollback" /\ job[j].to \in External
  /\ store' \in {store, [store EXCEPT ![job[j].to][job[j].draft] = Gone]}
  /\ Fails(j)
  /\ UNCHANGED <<aside, backup, index, current, disturbed, faults>>

\* What a person may find: the values last reported, or the one of a change under way.
Changes(r, d) == r.kind = "update" /\ r.draft = d /\ r.pc # "place"
Expected(d) == current[d] \cup {job[j].value : j \in {k \in Job : Changes(job[k], d)}}

\* The process dies: what is moved aside is in its backup only, and a truncated catalog is empty.
Crash ==
  /\ Faulty
  /\ store' = [p \in Place |-> IF p \in aside THEN Empty ELSE store[p]] /\ aside' = {}
  /\ backup' = backup \cup {<<d, store[p][d]>> : d \in Draft, p \in aside}
  /\ catalog' = File /\ UNCHANGED emptied
  /\ Disturbs(Differ(File, catalog))
  /\ job' = [j \in Job |-> Idle]
  /\ draft' = [d \in Draft |-> IF draft[d] = "none" THEN "none" ELSE "lost"]
  /\ content' = Empty
  /\ current' = [d \in Draft |-> IF current[d] = {} THEN {} ELSE Expected(d)]
  /\ UNCHANGED written

Step(j) ==
  \/ Replace(j) \/ Confirm(j) \/ Report(j)
  \/ Copy(j) \/ MoveAside(j) \/ MoveIn(j) \/ MoveInFails(j)
  \/ CreateItem(j) \/ DeleteItem(j) \/ PlaceFails(j)
  \/ Load(j) \/ Truncate(j) \/ Write(j) \/ CatalogFails(j)
  \/ Verify(j) \/ VerifyFails(j)
  \/ Restore(j) \/ Rollback(j) \/ RollbackFails(j) \/ DropItem(j)

Next ==
  \/ \E d \in Draft : CreateDraft(d)
  \/ \E j \in Job : BeginConfirm(j) \/ BeginUpdate(j) \/ BeginMigrate(j) \/ Step(j)
  \/ Crash

Spec == Init /\ [][Next]_vars

-----------------------------------------------------------------------------
(* Properties                                                              *)

Takes(r, d) == WorksOn(r, d) /\ r.kind = "confirm"

\* A draft two windows confirm at once, or one that failed and was given back, is stored by
\* one confirmation only, and is "committing" only while a command works on it.
DraftsSettle ==
  \A d \in Draft :
    /\ \A p, q \in written[d] : p = q
    /\ draft[d] = "committing" =>
         \E j \in Job : \A k \in Job : Takes(job[k], d) <=> k = j

\* What can be read of a secret in some of the places or in a backup. A vault that a command has
\* moved aside and a catalog it has truncated count as what they were until the command ends.
Reads(P, d, v) == <<d, v>> \in backup \/ \E p \in P : Read(p, d) = v
Readable(d) == {v \in Value : Reads(Place, d, v)}

\* A command ends, or the desktop, only with the vaults in place and the catalog written; or the
\* entries that a truncated catalog had count as lost.
Rewrites(r) == (InCatalog(r) /\ r.io = "cut") \/ r.pc = "restore"
FilesAreWhole ==
  /\ emptied => catalog = Nothing \/ \E j \in Job : Rewrites(job[j])
  /\ \A p \in aside : \E j \in Job : Moves(job[j], p)

\* A saved secret can always be read, with a value last reported or that of a change that goes
\* on: wherever a change or a migration fails, is rolled back or dies, one referenced copy, or
\* the recovery backup of a vault, holds it. Not so the disturbed secrets: those two commands
\* worked on at once, those whose part of a vault or of the catalog was written from a copy read
\* before it changed or while the file was being replaced, and those whose references were in
\* a catalog when a write of it failed or died between truncation and content.
NothingLost ==
  \A d \in Draft \ disturbed : current[d] # {} => Readable(d) \cap Expected(d) # {}

\* All three.
SavedSafely == DraftsSettle /\ FilesAreWhole /\ NothingLost

-----------------------------------------------------------------------------
(* What makes them inductive: one secret at a time.                        *)
Apart ==
  /\ {Gone, Absent, Live} \cap Value = {} /\ "none" \notin Place
  /\ Local \cap External = {}

Vault == [Draft -> Value \cup {Gone}]
Index == [Draft -> [Place -> Value \cup {Absent, Live}]]
Stages ==
  [confirm |-> {"replace", "confirm", "place", "register", "rollback", "report"},
   update |-> {"place", "snapshot", "verify", "restore", "rollback", "report"},
   migrate |-> {"place", "register", "annotate", "verify", "rollback", "remove", "uncatalog",
                "report"}]
JobType ==
  [pc : {"idle"} \cup UNION {Stages[k] : k \in DOMAIN Stages}, io : {"none", "read", "cut"},
   kind : {"none"} \cup DOMAIN Stages, draft : Draft \cup {"none"}, to : Place \cup {"none"},
   from : Place \cup {"none"}, value : Value \cup {Gone}, copy : Vault, old : Vault,
   read : Index, saved : Index]

Typed(r) ==
  /\ r \in JobType
  /\ IF r.pc = "idle" THEN r = Idle
     ELSE /\ r.kind \in DOMAIN Stages /\ r.pc \in Stages[r.kind]
          /\ r.draft \in Draft /\ r.to \in Place
  /\ r.kind \in {"confirm", "update"} => r.value \in Value /\ r.from = "none"
  /\ r.kind = "update" => r.to \in Local
  /\ r.io # "none" => InVault(r) \/ InCatalog(r)

TypeOK ==
  /\ draft \in [Draft -> {"none", "pending", "committing", "committed", "lost"}]
  /\ content \in Vault /\ \A d \in Draft : draft[d] = "pending" => content[d] \in Value
  /\ store \in [Place -> Vault] /\ aside \subseteq Local
  /\ backup \subseteq Draft \X (Value \cup {Gone})
  /\ catalog \in Index /\ emptied \in BOOLEAN
  /\ job \in [Job -> JobType] /\ \A j \in Job : Typed(job[j])
  /\ current \in [Draft -> SUBSET Value] /\ written \in [Draft -> SUBSET Place]
  /\ disturbed \subseteq Draft

\* What the ledger says of a draft: one confirmation has it, and knows what it wrote.
Settled(d) ==
  /\ draft[d] \in {"none", "pending", "committing"} => current[d] = {}
  /\ draft[d] \in {"none", "pending"} => written[d] = {}
  /\ draft[d] = "committing" => \E j \in Job : Takes(job[j], d)
  /\ \A p, q \in written[d] : p = q
  /\ \A j \in Job :
       /\ WorksOn(job[j], d) /\ job[j].kind # "confirm" => Ended(d)
       /\ Takes(job[j], d) =>
            /\ draft[d] = "committing"
            /\ written[d] = IF job[j].pc = "place" THEN {} ELSE {job[j].to}
            /\ \A k \in Job : Takes(job[k], d) => k = j

\* A value last reported is readable.
Holds(P, d) == \E v \in current[d] : Reads(P, d, v)

\* The catalog with the value of a change beside its reference.
Beside(r) == [r.saved[r.draft] EXCEPT ![r.to] = r.value]

\* A rollback would make a value last reported readable again.
Returns(r) ==
  \E v \in current[r.draft] :
    \/ <<r.draft, v>> \in backup
    \/ \E p \in Place :
         Reading(r.saved[r.draft][p], IF p = r.to THEN r.old[r.draft]
                                      ELSE store[p][r.draft]) = v

Saves(r) ==
  /\ r.pc \in {"register", "report"} => store[r.to][r.draft] = r.value
  /\ r.pc = "report" => catalog[r.draft][r.to] = Live

Updates(r) ==
  LET d == r.draft IN
  /\ r.pc = "place" /\ r.io = "cut" => r.old[d] = store[r.to][d] /\ r.saved[d] = catalog[d]
  /\ r.pc \in {"snapshot", "verify", "restore", "rollback"} =>
       /\ store[r.to][d] = r.value
       /\ current[d] # {} => Returns(r)
       /\ catalog[d] \in {r.saved[d], Beside(r)}
  /\ r.pc = "snapshot" => catalog[d] = r.saved[d]
  /\ r.pc = "rollback" => catalog[d] = r.saved[d] \/ current[d] = {} \/ r.value \in current[d]
  /\ r.pc \in {"verify", "report"} => catalog[d][r.to] = r.value

Migrates(r) ==
  LET d == r.draft IN
  /\ r.pc # "report" /\ current[d] # {} => Holds(Place \ {r.to}, d)
  /\ r.from # "none" =>
       r.from # r.to /\ Read(r.from, d) = r.value /\ r.value \in Value

Good(r) == CASE r.kind = "confirm" -> Saves(r)
             [] r.kind = "update" -> Updates(r)
             [] r.kind = "migrate" -> Migrates(r)

\* A secret nobody disturbed: one command at most works on it, and knows what is where.
Kept(d) ==
  /\ \A j, k \in Job : WorksOn(job[j], d) /\ WorksOn(job[k], d) => j = k
  /\ \A j \in Job : WorksOn(job[j], d) => Good(job[j])
  /\ current[d] # {} =>
       \/ Holds(Place, d)
       \/ \E j \in Job : Changes(job[j], d) /\ Reads(Place, d, job[j].value)

IInv ==
  /\ TypeOK /\ FilesAreWhole
  /\ \A d \in Draft : Settled(d)
  /\ \A d \in Draft \ disturbed : Kept(d)
=============================================================================
