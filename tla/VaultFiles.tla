----------------------------- MODULE VaultFiles -----------------------------
(***************************************************************************)
(* The files of one local vault of the desktop (main.rs): the encrypted    *)
(* database, the unlock file with the only key that opens it, the backup   *)
(* that a replacement leaves for a moment and the recovery directory of    *)
(* deleted vaults. Every command is a series of file operations, any of    *)
(* which may fail; the desktop may die between two of them.                *)
(*                                                                         *)
(* Commands on the vault follow each other here; PasswordStore has two at  *)
(* once.                                                                   *)
(***************************************************************************)
EXTENDS Naturals, SequencesExt

CONSTANTS
  Item,         \* stored credentials
  Key,          \* unlock secrets, drawn at random for each new database
  Foreign,      \* the unlock secret of some other vault, which a person may pick
  Careful,      \* whether people install an unlock file only where there is none
  MaxMishaps    \* bound: failed operations, crashes and files picked by mistake

VARIABLES
  database,     \* <vault>.kdbx: the key it is encrypted with and the items in it
  unlock,       \* .<vault>.unlock
  backups,      \* .<vault>.kdbx.<uuid>.backup
  trash,        \* databases in .trash
  trashKeys,    \* unlock files in .trash
  catalog,      \* the items the catalog has references to
  command,      \* the command that runs
  issued,       \* history: the keys drawn so far, in order
  saved,        \* history: the items whose saving was reported or registered
  mishaps

files == <<database, unlock, backups, trash, trashKeys>>
vars  == <<files, catalog, command, issued, saved, mishaps>>

NoFile == [key |-> "none", items |-> {}]
NoKey == "none"
Idle == [kind |-> "none", pc |-> "idle", key |-> NoKey, staging |-> NoFile,
         fresh |-> FALSE, backup |-> NoFile]

Init ==
  /\ database = NoFile /\ unlock = NoKey /\ backups = {} /\ trash = {} /\ trashKeys = {}
  /\ catalog = {} /\ command = Idle /\ issued = <<>> /\ saved = {} /\ mishaps = 0

Mishap == mishaps < MaxMishaps /\ mishaps' = mishaps + 1
Goes(pc) == command' = [command EXCEPT !.pc = pc]
Ends == command' = Idle
At(kind, pc) == command.kind = kind /\ command.pc = pc
Writing(pc) == command.kind \in {"create", "persist"} /\ command.pc = pc

-----------------------------------------------------------------------------
(* create_local_vault_inner and persist_confirmed_to_local_kdbx            *)

\* local_vault_unlock_secret: the key of the existing vault, or a new one when neither file is there.
UnlockSecret(k) ==
  IF database # NoFile
  THEN /\ unlock # NoKey /\ k = unlock
       /\ UNCHANGED issued
  ELSE /\ unlock = NoKey /\ k \in Key \ ToSet(issued)
       /\ issued' = Append(issued, k)

\* The staged copy: a new database, or the current one with the items added to it.
BeginWrite ==
  /\ command = Idle
  /\ \E kind \in {"create", "persist"}, k \in Key \cup {Foreign}, i \in Item \ saved :
       /\ kind = "create" => database = NoFile
       /\ UnlockSecret(k)
       /\ database # NoFile => database.key = k
       /\ command' = [kind |-> kind, pc |-> "staged", key |-> k, fresh |-> database = NoFile,
                      staging |-> [key |-> k, items |-> IF kind = "create" THEN {}
                                                        ELSE database.items \cup {i}],
                      backup |-> NoFile]
  /\ UNCHANGED <<files, catalog, saved, mishaps>>

\* commit_staged_vault, its first rename: the current database becomes the backup.
MoveAside ==
  /\ Writing("staged")
  /\ IF command.fresh
     THEN /\ Goes("aside")
          /\ UNCHANGED <<database, backups>>
     ELSE /\ backups' = backups \cup {database} /\ database' = NoFile
          /\ command' = [command EXCEPT !.pc = "aside", !.backup = database]
  /\ UNCHANGED <<unlock, trash, trashKeys, catalog, issued, saved, mishaps>>

\* Its second rename; when it fails the backup goes back.
MoveIn ==
  /\ Writing("aside")
  /\ database' = command.staging
  /\ Goes(IF command.fresh THEN "unlock" ELSE "register")
  /\ UNCHANGED <<unlock, backups, trash, trashKeys, catalog, issued, saved, mishaps>>

MoveInFails ==
  /\ Writing("aside") /\ Mishap
  /\ database' = command.backup /\ backups' = backups \ {command.backup}
  /\ Ends
  /\ UNCHANGED <<unlock, trash, trashKeys, catalog, issued, saved>>

WriteUnlock ==
  /\ Writing("unlock")
  /\ unlock' = command.key
  /\ Goes(IF command.kind = "create" THEN "finalize" ELSE "register")
  /\ UNCHANGED <<database, backups, trash, trashKeys, catalog, issued, saved, mishaps>>

\* register_secret_references
Register ==
  /\ At("persist", "register")
  /\ catalog' = catalog \cup command.staging.items
  /\ saved' = saved \cup command.staging.items
  /\ Goes("finalize")
  /\ UNCHANGED <<files, issued, mishaps>>

\* A failure after the swap: a new unlock file goes first, then the new database.
WriteFails ==
  /\ Writing("unlock") \/ At("persist", "register")
  /\ Mishap
  /\ unlock' = IF command.fresh THEN NoKey ELSE unlock
  /\ Goes("rollback")
  /\ UNCHANGED <<database, backups, trash, trashKeys, catalog, issued, saved>>

\* rollback_staged_vault: remove the new database, then bring the backup back.
RemoveUncommitted ==
  /\ Writing("rollback")
  /\ database' = NoFile
  /\ Goes("restore")
  /\ UNCHANGED <<unlock, backups, trash, trashKeys, catalog, issued, saved, mishaps>>

Restored == command.backup
Restore ==
  /\ Writing("restore")
  /\ database' = Restored
  /\ backups' = backups \ {command.backup}
  /\ Ends
  /\ UNCHANGED <<unlock, trash, trashKeys, catalog, issued, saved, mishaps>>

RestoreFails ==
  /\ Writing("rollback") \/ Writing("restore")
  /\ Mishap
  /\ Ends
  /\ UNCHANGED <<files, catalog, issued, saved>>

\* finalize_staged_vault: a backup that cannot be removed is logged and stays.
Finalize ==
  /\ Writing("finalize")
  /\ \/ backups' = backups \ {command.backup} /\ UNCHANGED mishaps
     \/ command.backup # NoFile /\ Mishap /\ UNCHANGED backups
  /\ Ends
  /\ UNCHANGED <<database, unlock, trash, trashKeys, catalog, issued, saved>>

-----------------------------------------------------------------------------
(* delete_local_vault_inner                                                *)

\* Both files are there, and the person typed the name of the vault.
MayDelete == database # NoFile /\ unlock # NoKey

BeginDelete ==
  /\ command = Idle /\ MayDelete
  /\ command' = [Idle EXCEPT !.kind = "delete", !.pc = "unlock", !.key = unlock,
                             !.staging = database]
  /\ trash' = trash \cup {database} /\ database' = NoFile
  /\ UNCHANGED <<unlock, backups, trashKeys, catalog, issued, saved, mishaps>>

TrashUnlock ==
  /\ At("delete", "unlock")
  /\ trashKeys' = trashKeys \cup {unlock} /\ unlock' = NoKey
  /\ Goes("references")
  /\ UNCHANGED <<database, backups, trash, catalog, issued, saved, mishaps>>

\* The database goes back; that this may fail too is ignored.
TrashUnlockFails ==
  /\ At("delete", "unlock") /\ Mishap
  /\ \/ database' = command.staging /\ trash' = trash \ {command.staging}
     \/ UNCHANGED <<database, trash>>
  /\ Ends
  /\ UNCHANGED <<unlock, backups, trashKeys, catalog, issued, saved>>

\* delete_catalog_references
DeleteReferences ==
  /\ At("delete", "references")
  /\ catalog' = catalog \ command.staging.items
  /\ Ends
  /\ UNCHANGED <<files, issued, saved, mishaps>>

\* The catalog cannot be written: each of the two files goes back, or does not.
DeleteReferencesFails ==
  /\ At("delete", "references") /\ Mishap
  /\ \/ database' = command.staging /\ trash' = trash \ {command.staging}
     \/ UNCHANGED <<database, trash>>
  /\ \/ unlock' = command.key /\ trashKeys' = trashKeys \ {command.key}
     \/ UNCHANGED <<unlock, trashKeys>>
  /\ Ends
  /\ UNCHANGED <<backups, catalog, issued, saved>>

-----------------------------------------------------------------------------
(* install_local_vault_unlock_file_inner                                   *)

\* validate_local_vault_unlock_material aside, a key is tried only on a database that is there.
MayInstall(k) ==
  /\ ~(database # NoFile /\ unlock # NoKey)
  /\ database # NoFile => database.key = k

\* The file picked is a copy of the last key of this vault, or by mistake that of another one.
Install ==
  /\ command = Idle
  /\ Careful => unlock = NoKey
  /\ \/ /\ issued # <<>> /\ MayInstall(Last(issued))
        /\ unlock' = Last(issued) /\ UNCHANGED mishaps
     \/ MayInstall(Foreign) /\ unlock' = Foreign /\ Mishap
  /\ UNCHANGED <<database, backups, trash, trashKeys, catalog, command, issued, saved>>

Crash ==
  /\ command # Idle /\ Mishap
  /\ Ends
  /\ UNCHANGED <<files, catalog, issued, saved>>

Next ==
  \/ BeginWrite \/ MoveAside \/ MoveIn \/ MoveInFails \/ WriteUnlock \/ Register \/ WriteFails
  \/ RemoveUncommitted \/ Restore \/ RestoreFails \/ Finalize
  \/ BeginDelete \/ TrashUnlock \/ TrashUnlockFails \/ DeleteReferences \/ DeleteReferencesFails
  \/ Install \/ Crash

Spec == Init /\ [][Next]_vars

-----------------------------------------------------------------------------
\* The files that hold item i, and the keys some unlock file keeps.
Copies(i) == {f \in {database} \cup backups \cup trash : i \in f.items}
Keys == {unlock} \cup trashKeys

\* What was saved can be read again from files on disk: in the vault, a backup or the recovery
\* directory, with its key, whatever fails or dies between two steps of a command.
SavedIsRecoverable == \A i \in saved : \E f \in Copies(i) : f.key \in Keys

\* Without a mishap the catalog never points into a vault that is not there or does not open, no
\* backup is left behind, and a vault is in the recovery directory together with its key.
VaultIsWhole ==
  command = Idle /\ mishaps = 0 =>
    /\ catalog \subseteq database.items
    /\ database # NoFile => unlock = database.key
    /\ backups = {}
    /\ \A f \in trash : f.key \in trashKeys

-----------------------------------------------------------------------------
(* What makes the two inductive, when people are careful.                  *)
Drawn == NoKey \notin Key \cup {Foreign} /\ Foreign \notin Key

File == [key : Key \cup {NoKey}, items : SUBSET Item]
CommandType ==
  [kind : {"none", "create", "persist", "delete"},
   pc : {"idle", "staged", "aside", "unlock", "register", "rollback", "restore", "finalize",
         "references"},
   key : Key \cup {Foreign, NoKey}, staging : File, fresh : BOOLEAN, backup : File]
TypeOK ==
  /\ database \in File /\ backups \subseteq File /\ trash \subseteq File
  /\ unlock \in Key \cup {Foreign, NoKey} /\ issued \in Seq(Key) /\ mishaps \in Nat
  /\ command \in CommandType
  /\ command.kind = "none" => command = Idle

\* Every file is encrypted with a key that was drawn for it or for an earlier version of it.
KeysAreDrawn ==
  \A f \in {database} \cup backups \cup trash : f = NoFile \/ f.key \in ToSet(issued)

\* A write of a new vault: nothing else has its key, and until it is registered nobody counts
\* on its items.
FreshWrite ==
  /\ command.backup = NoFile
  /\ command.pc \in {"staged", "aside", "unlock", "register", "rollback", "restore", "finalize"}
  /\ database = IF command.pc \in {"staged", "aside", "restore"} THEN NoFile ELSE command.staging
  /\ unlock = IF command.pc \in {"register", "finalize"} THEN command.key ELSE NoKey
  /\ command.pc # "finalize" =>
       /\ command.staging.items \cap saved = {}
       /\ \A f \in backups \cup trash : f.key # command.key

\* A write to a vault: what was saved is in the version it replaces.
Rewrite ==
  /\ command.kind = "persist" /\ unlock = command.key
  /\ command.pc \in {"staged", "aside", "register", "rollback", "restore", "finalize"}
  /\ LET old == IF command.pc = "staged" THEN database ELSE command.backup IN
     /\ old # NoFile /\ old.key = command.key /\ old.items \subseteq command.staging.items
     /\ command.pc # "finalize" => command.staging.items \cap saved \subseteq old.items
  /\ command.pc = "staged" => command.backup = NoFile
  /\ command.pc # "staged" => command.backup \in backups
  /\ command.pc \in {"aside", "restore"} => database = NoFile
  /\ command.pc \in {"register", "rollback", "finalize"} => database = command.staging

Writes ==
  command.kind \in {"create", "persist"} =>
    /\ command.key \in ToSet(issued) /\ command.staging.key = command.key
    /\ IF command.fresh THEN FreshWrite ELSE Rewrite

\* A deletion moves the two files one after the other.
Deletes ==
  command.kind = "delete" =>
    /\ command.pc \in {"unlock", "references"}
    /\ database = NoFile /\ command.staging \in trash /\ command.staging # NoFile
    /\ command.key # NoKey /\ command.backup = NoFile
    /\ IF command.pc = "unlock" THEN unlock = command.key
                                 ELSE unlock = NoKey /\ command.key \in trashKeys

\* Without a mishap the references are to the version that is there or was there, which the
\* unlock file opens.
Whole ==
  mishaps = 0 =>
    /\ command.pc \notin {"rollback", "restore"}
    /\ backups = IF command.backup = NoFile THEN {} ELSE {command.backup}
    /\ command.kind \in {"none", "create", "persist"} /\ command.pc \in {"idle", "staged"} =>
         catalog \subseteq database.items /\ (database # NoFile => unlock = database.key)
    /\ command.pc \in {"aside", "unlock", "register"} /\ command.kind # "delete" =>
         catalog \subseteq command.backup.items
    /\ command.pc = "finalize" => catalog \subseteq command.staging.items
    /\ command.kind = "delete" =>
         catalog \subseteq command.staging.items /\ command.staging.key = command.key
    /\ \A f \in trash :
         f.key \in trashKeys \/ (At("delete", "unlock") /\ f.key = unlock)

IInv == TypeOK /\ KeysAreDrawn /\ Writes /\ Deletes /\ Whole /\ SavedIsRecoverable
=============================================================================
