--------------------------- MODULE DesktopChanges ---------------------------
(***************************************************************************)
(* Who confirms a password change in the desktop application: the monitor, *)
(* a handoff and the confirmation page, which first approve what the       *)
(* permissions cover, the person who sees the page, and the password       *)
(* editor, which stages a batch of its own and confirms it.  All of them   *)
(* act on a list or a response that may be older than the change;          *)
(* PasswordChanges models the daemon.                                      *)
(***************************************************************************)
EXTENDS FiniteSets, Sequences, SequencesExt

CONSTANTS
  Change,
  NoChange,
  Resolver,  \* "page", the monitor of the changes, and a handoff from the CLI
  Op,        \* operations, each submitted once
  Covered,   \* those whose impact the permissions cover when they are on
  Own,       \* those of the password editor, submitted in one batch
  MaxFaults  \* bound: calls that fail

VARIABLES
  ops, state, successor,   \* of each change, in the daemon
  permitted,    \* default_policy_mode and the llm_auto_approve_password_ settings
  todo, manual, \* per resolver: changes listed and not looked at, changes left to a person
  automatic,    \* per resolver: the settings it took with the list
  batch,        \* of the editor: its step, its change, the version it knows
  window, had,  \* the confirmation window; had_pending of the monitor
  reviewed,     \* history: operations somebody entitled has confirmed
  written,      \* history: operations committed to the catalog
  faults

rows     == <<ops, state, successor>>
resolver == <<todo, manual, automatic>>
vars     == <<rows, permitted, resolver, batch, window, had, reviewed, written, faults>>
history  == <<reviewed, written>>

Unused == {c \in Change : state[c] = "unused"}
Submitted == UNION {ToSet(ops[c]) : c \in Change}
Faulty == faults < MaxFaults /\ faults' = faults + 1
Idle == [pc |-> "idle", change |-> NoChange, version |-> 0]

Init ==
  /\ ops = [c \in Change |-> <<>>] /\ state = [c \in Change |-> "unused"]
  /\ successor = [c \in Change |-> NoChange]
  /\ permitted \in BOOLEAN
  /\ todo = [r \in Resolver |-> {}] /\ manual = [r \in Resolver |-> {}]
  /\ automatic = [r \in Resolver |-> FALSE]
  /\ batch = Idle /\ window = FALSE /\ had = FALSE
  /\ reviewed = {} /\ written = {} /\ faults = 0

-----------------------------------------------------------------------------
(* The daemon                                                              *)

\* An operation joins a pending change; for one that has ended it goes to the successor.
Stages(c, target, o) ==
  /\ \/ c = NoChange /\ target \in Unused /\ UNCHANGED successor
     \/ c # NoChange /\ IF state[c] = "pending" THEN target = c /\ UNCHANGED successor
                         ELSE IF successor[c] # NoChange THEN target = successor[c] /\ UNCHANGED successor
                         ELSE target \in Unused /\ successor' = [successor EXCEPT ![c] = target]
  /\ ops' = [ops EXCEPT ![target] = Append(@, o)]
  /\ state' = IF target \in Unused THEN [state EXCEPT ![target] = "pending"] ELSE state

\* Confirming version v commits the first v operations; the rest waits in a successor.
Commits(c, v) ==
  /\ state[c] = "pending" /\ v <= Len(ops[c])
  /\ \E result \in {"committed", "failed"} :
       /\ written' = IF result = "committed" THEN written \cup ToSet(SubSeq(ops[c], 1, v))
                                             ELSE written
       /\ IF v = Len(ops[c])
          THEN state' = [state EXCEPT ![c] = result] /\ UNCHANGED <<ops, successor>>
          ELSE \E s \in Unused :
                 /\ state' = [state EXCEPT ![c] = result, ![s] = "pending"]
                 /\ ops' = [ops EXCEPT ![c] = SubSeq(@, 1, v),
                                       ![s] = SubSeq(ops[c], v + 1, Len(ops[c]))]
                 /\ successor' = [successor EXCEPT ![c] = s]

Confirms(c, v, seen) ==
  /\ Commits(c, v)
  /\ reviewed' = reviewed \cup seen

\* An agent stages an operation with the CLI; the editor's change is not known to it.
Agent(c, target, o) ==
  /\ o \notin Submitted \cup Own
  /\ c # NoChange => ops[c] # <<>> /\ ToSet(ops[c]) \cap Own = {}
  /\ Stages(c, target, o)
  /\ UNCHANGED <<permitted, resolver, batch, window, had, history, faults>>

-----------------------------------------------------------------------------
(* resolve_password_changes_for_review                                     *)

\* A handoff shows the window when a change is left to a person.  The monitor shows it only when
\* nothing was left before and the editor submits nothing.  The window may fail to show.
Shows(r, left) ==
  LET quiet == r = "page" \/ (r = "monitor" /\ batch.pc # "idle")
      shows == ~quiet /\ left # {} /\ (r = "monitor" => ~had)
  IN /\ window' \in {window, window \/ shows}
     /\ had' = IF r = "monitor" /\ ~quiet THEN left # {} ELSE had

Lists(r) ==
  /\ todo[r] = {}
  /\ todo' = [todo EXCEPT ![r] = {[change |-> c, ops |-> ops[c]] : c \in
                {d \in Change : state[d] = "pending"}}]
  /\ manual' = [manual EXCEPT ![r] = {}]
  /\ automatic' = [automatic EXCEPT ![r] = permitted]
  /\ IF todo'[r] = {} THEN Shows(r, {}) ELSE UNCHANGED <<window, had>>
  /\ UNCHANGED <<rows, permitted, batch, history, faults>>

\* should_auto_approve_password_change
MayApprove(r, listed) == automatic[r] /\ ToSet(listed.ops) \subseteq Covered

CurrentVersion(listed) == Len(ops[listed.change])
Version(listed) == Len(listed.ops)

Resolves(r, listed) ==
  /\ listed \in todo[r]
  /\ todo' = [todo EXCEPT ![r] = @ \ {listed}]
  /\ \/ /\ MayApprove(r, listed)
        /\ Confirms(listed.change, Version(listed), ToSet(listed.ops))
        /\ UNCHANGED <<manual, faults>>
     \/ /\ ~MayApprove(r, listed) \/ state[listed.change] # "pending"
        /\ manual' = [manual EXCEPT ![r] = @ \cup {listed}]
        /\ UNCHANGED <<rows, history, faults>>
     \/ /\ MayApprove(r, listed) /\ Faulty
        /\ manual' = [manual EXCEPT ![r] = @ \cup {listed}]
        /\ UNCHANGED <<rows, history>>
  /\ IF todo[r] = {listed} THEN Shows(r, manual'[r]) ELSE UNCHANGED <<window, had>>
  /\ UNCHANGED <<permitted, automatic, batch>>

-----------------------------------------------------------------------------
(* The person, and the editor                                              *)

\* confirm_password_change_command, reject_password_change_command, on what the page shows.
PersonDecides(listed) ==
  /\ todo["page"] = {} /\ listed \in manual["page"]
  /\ \/ Confirms(listed.change, Version(listed), ToSet(listed.ops))
     \/ /\ state[listed.change] = "pending"
        /\ state' = [state EXCEPT ![listed.change] = "rejected"]
        /\ UNCHANGED <<ops, successor, history>>
  /\ window' \in {window, FALSE}
  /\ UNCHANGED <<permitted, resolver, batch, had, faults>>

ChangesPermission ==
  /\ permitted' = ~permitted
  /\ UNCHANGED <<rows, resolver, batch, window, had, history, faults>>

\* submit_desktop_password_change: the operations one by one, then the version of the last answer.
EditorSubmits(target, o) ==
  /\ o \in Own \ Submitted
  /\ Stages(batch.change, target, o)
  /\ batch' = [pc |-> "staging", change |-> target, version |-> Len(ops'[target])]
  /\ UNCHANGED <<permitted, resolver, window, had, history, faults>>

\* An operation cannot be staged: what was staged is rejected, if it still can be.
EditorGivesUp ==
  /\ batch.pc = "staging" /\ Faulty
  /\ state' = IF state[batch.change] = "pending"
              THEN [state EXCEPT ![batch.change] = "rejected"] ELSE state
  /\ batch' = Idle
  /\ UNCHANGED <<ops, successor, permitted, resolver, window, had, history>>

EditorConfirms ==
  /\ batch.pc = "staging" /\ Own \subseteq Submitted
  /\ \/ Confirms(batch.change, batch.version, Own)
     \/ state[batch.change] # "pending" /\ UNCHANGED <<rows, history>>
  /\ batch' = Idle
  /\ UNCHANGED <<permitted, resolver, window, had, faults>>

Next ==
  \/ \E c \in Change \cup {NoChange}, target \in Change, o \in Op : Agent(c, target, o)
  \/ \E r \in Resolver : Lists(r) \/ \E listed \in todo[r] : Resolves(r, listed)
  \/ \E listed \in manual["page"] : PersonDecides(listed)
  \/ ChangesPermission
  \/ \E target \in Change, o \in Op : EditorSubmits(target, o)
  \/ EditorGivesUp \/ EditorConfirms

Spec == Init /\ [][Next]_vars

-----------------------------------------------------------------------------
(* Properties                                                              *)

\* What is written to the catalog was in front of whoever confirmed it: the permissions covered
\* it in the list they were applied to, the person saw it, or the editor had staged it, however
\* many operations joined the change in the meantime.
CommittedIsReviewed == written \subseteq reviewed

-----------------------------------------------------------------------------
(* The inductive invariant.  A version that is confirmed stands for what   *)
(* its confirmer saw, because a pending change only grows: what was listed *)
(* is a prefix of it (ListedIsPrefix).  The editor confirms what it did    *)
(* not list; it relies on changes that hold either its operations or those *)
(* of agents, along the links to successors (RowsArePure).                 *)

\* The absent change is none, and the page is one of the resolvers.
Setting == NoChange \notin Change /\ "page" \in Resolver

Listed == [change : Change, ops : Seq(Op)]

TypeOK ==
  /\ ops \in [Change -> Seq(Op)]
  /\ state \in [Change -> {"unused", "pending", "committed", "failed", "rejected"}]
  /\ successor \in [Change -> Change \cup {NoChange}]
  /\ todo \in [Resolver -> SUBSET Listed] /\ manual \in [Resolver -> SUBSET Listed]
  /\ batch \in [pc : {"idle", "staging"}, change : Change \cup {NoChange}, version : Nat]

OwnOnly(s) == \A i \in DOMAIN s : s[i] \in Own
NoneOwn(s) == \A i \in DOMAIN s : s[i] \notin Own

RowsArePure == \A c \in Change :
  /\ state[c] = "unused" <=> ops[c] = <<>>
  /\ OwnOnly(ops[c]) \/ NoneOwn(ops[c])
  /\ successor[c] # NoChange =>
       /\ state[c] \notin {"unused", "pending"} /\ state[successor[c]] # "unused"
       /\ OwnOnly(ops[c]) <=> OwnOnly(ops[successor[c]])

BatchIsOwn ==
  IF batch.pc = "staging"
  THEN /\ batch.change \in Change /\ batch.version # 0
       /\ ops[batch.change] # <<>> /\ OwnOnly(ops[batch.change])
  ELSE batch = Idle

\* Of a list or an answer, what it says of a change that is still pending.
IsPrefixOf(listed) ==
  /\ listed.ops # <<>> /\ state[listed.change] # "unused"
  /\ state[listed.change] = "pending" =>
       /\ Len(listed.ops) <= Len(ops[listed.change])
       /\ \A i \in DOMAIN listed.ops : listed.ops[i] = ops[listed.change][i]
ListedIsPrefix == \A r \in Resolver : \A listed \in todo[r] \cup manual[r] : IsPrefixOf(listed)

IInv == TypeOK /\ RowsArePure /\ BatchIsOwn /\ ListedIsPrefix /\ CommittedIsReviewed
=============================================================================
