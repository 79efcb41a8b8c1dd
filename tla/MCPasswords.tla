---------------------------- MODULE MCPasswords ----------------------------
(***************************************************************************)
(* The stored passwords (Passwords) for TLC, which explores each component *)
(* from its own initial states while the others rest, and where two of     *)
(* everything would be too much, a part of it with less of something.      *)
(*                                                                         *)
(* Change also stands for the other sets whose members are interchangeable *)
(* so that one symmetry covers all components.                             *)
(***************************************************************************)
EXTENDS Passwords, MCPasswordChanges

MCOwnLabel == [r1 |-> "a", r2 |-> "b"]

VARIABLE component    \* what this behaviour is about

\* What rests has one initial state.
Resting ==
  /\ component # "commits" => catalog[f2] = p1
  /\ component \notin {"changes", "commits"} => catalog[f1] = p1
  /\ component # "catalog" => \A l \in Locator : source[l] = "v"

MCInit ==
  /\ component \in {"changes", "commits", "catalog", "two secrets", "two values", "windows",
                    "save and change", "save and migrate", "vault"}
  /\ PasswordsInit
  /\ Resting

\* Change sets about one field, without batches.
OneField ==
  /\ catalog'[f2] = p1 /\ review'.field # f2
  /\ \A c \in Change :
       change'[c].batch # b1 /\ Elements(change'[c].ops) \subseteq {set1, set2, drop1}

\* Change sets that only edit; nobody else writes and nothing fails.
OnlyEdits ==
  /\ edits' = 0 /\ faults' = 0 /\ review' = NoReview
  /\ \A c \in Change : drop1 \notin Elements(change'[c].ops)

\* Two secrets and one command at a time; two values of one secret; two windows that confirm it.
OneCommand == job'["j2"] = Values!Idle
OneSecret == Cardinality({d \in Draft : draft'[d] # "none"}) <= 1
OneValue == \A d \in Draft : content'[d] # "w" /\ \A j \in Job : job'[j].value # "w"
Kinds(j, allowed) == job'[j].kind \in {"none"} \cup allowed
Windows == OneSecret /\ OneValue /\ \A j \in Job : Kinds(j, {"confirm"})

\* Two commands about two secrets: while one saves, the other changes a value in the same vault
\* or migrates to another place; until no secret is left that they did not disturb.
SomeCalm == disturbed' # Draft
SaveAndChange ==
  /\ SomeCalm /\ storeFaults' = 0
  /\ Kinds("j1", {"confirm"}) /\ Kinds("j2", {"update"}) /\ job'["j1"].to # "x"
SaveAndMigrate ==
  /\ SomeCalm /\ OneValue /\ Kinds("j1", {"confirm"}) /\ Kinds("j2", {"migrate"})

MCNext ==
  /\ \/ component = "changes" /\ ChangesStep /\ OneField
     \/ component = "commits" /\ ChangesStep /\ OnlyEdits
     \/ component = "catalog" /\ CatalogStep
     \/ component = "two secrets" /\ StoreStep /\ OneCommand /\ OneValue
     \/ component = "two values" /\ StoreStep /\ OneCommand /\ OneSecret
     \/ component = "windows" /\ StoreStep /\ Windows
     \/ component = "save and change" /\ StoreStep /\ SaveAndChange
     \/ component = "save and migrate" /\ StoreStep /\ SaveAndMigrate
     \/ component = "vault" /\ VaultStep
  /\ UNCHANGED component

MCSpec == MCInit /\ [][MCNext]_<<component, passwordsVars>>
=============================================================================
