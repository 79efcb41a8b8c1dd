------------------------------ MODULE Passwords ------------------------------
(***************************************************************************)
(* The stored passwords: the change sets (PasswordChanges), what their     *)
(* operations do to the catalog (Catalog), the values behind it            *)
(* (PasswordStore) and the files of a local vault (VaultFiles).  The       *)
(* components run side by side and share no variable.                      *)
(***************************************************************************)
EXTENDS PasswordChanges

CONSTANTS
  Resource, Locator, Item, Label, ItemPolicy, Default, OwnLabel, MaxSteps,  \* of Catalog
  Value,                                                                    \* of both
  Draft, Local, External, Job, MaxStoreFaults,                              \* of PasswordStore
  Credential, Key, Foreign, Careful, MaxMishaps                             \* of VaultFiles

VARIABLES
  file, copy, editing, source, op, steps,
  draft, content, store, aside, backup, references, emptied, job, current, written, disturbed,
  storeFaults,
  database, unlock, backups, trash, trashKeys, registered, command, issued, saved, mishaps

catalogVars == <<file, copy, editing, source, op, steps>>
storeVars ==
  <<draft, content, store, aside, backup, references, emptied, job, current, written, disturbed,
    storeFaults>>
fileVars ==
  <<database, unlock, backups, trash, trashKeys, registered, command, issued, saved, mishaps>>

Content == INSTANCE Catalog WITH Policy <- ItemPolicy, draft <- copy
Values == INSTANCE PasswordStore WITH
  catalog <- references, faults <- storeFaults, MaxFaults <- MaxStoreFaults
Vault == INSTANCE VaultFiles WITH Item <- Credential, catalog <- registered

\* What stands for nothing is none of the things.
ASSUME CatalogAssumption == Content!Absence
ASSUME ValuesAssumption == Values!Apart
ASSUME VaultAssumption == Vault!Drawn

PasswordsInit == Init /\ Content!Init /\ Values!Init /\ Vault!Init

ChangesStep == Next /\ UNCHANGED <<catalogVars, storeVars, fileVars>>
CatalogStep == Content!Next /\ UNCHANGED <<vars, storeVars, fileVars>>
StoreStep == Values!Next /\ UNCHANGED <<vars, catalogVars, fileVars>>
VaultStep == Vault!Next /\ UNCHANGED <<vars, catalogVars, storeVars>>

PasswordsNext == ChangesStep \/ CatalogStep \/ StoreStep \/ VaultStep
passwordsVars == <<vars, catalogVars, storeVars, fileVars>>

PasswordsSpec == PasswordsInit /\ [][PasswordsNext]_passwordsVars

-----------------------------------------------------------------------------
\* A password has one home.
OneHome == Content!OneHome

\* Operations on the catalog keep what they are not about: the policies, and the
\* values that somebody can still read.
EditsKeepTheRest == Content!PolicyKept /\ Content!SecretsSurvive

\* A value that was saved is readable under a reference, in a backup or in the recovery
\* directory, whatever failed on the way, unless a race of two commands or an interrupted
\* write of the catalog reached it, and a draft is stored by one confirmation.
SavedValuesSurvive == Values!SavedSafely /\ Vault!SavedIsRecoverable /\ Vault!VaultIsWhole
=============================================================================
