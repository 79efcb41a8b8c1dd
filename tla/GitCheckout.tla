---------------------------- MODULE GitCheckout ----------------------------
(***************************************************************************)
(* The Git checkout behind sync connections: how the desktop prepares the  *)
(* repository of a connection (prepare_git_sync_repository_inner, main.rs) *)
(* and how GitRemote pushes a vault through it (core/sync/mod.rs). The     *)
(* directory is named after the repository, so all the connections of one  *)
(* repository share it, and with it the branch that is checked out.        *)
(*                                                                         *)
(* A branch is the set of its commits <<connection, number>>: numbers are  *)
(* drawn in order, and the last one of a connection is its vault. A push   *)
(* is a fast-forward when nothing of the remote branch is missing locally. *)
(***************************************************************************)
EXTENDS Naturals, FiniteSetsExt

CONSTANTS
  Connection,   \* one vault each
  Branch,
  Default,      \* the branch a clone checks out
  MaxCommits    \* bound

VARIABLES
  remote,       \* the branches of the repository; Absent where there is none
  local,        \* those of the checkout
  head,         \* the branch checked out, "none" before the clone
  staged,       \* vaults written to the working tree and not committed
  connection,   \* the branch of a saved connection
  preparing,    \* the branch a person prepares, and for which connection
  push,         \* the push that runs for a connection
  reported,     \* history: <<branch, commit>> of the pushes that reported success
  strayed,      \* history: commits made while another branch than their connection's was out
  commits       \* the number drawn last

vars == <<remote, local, head, staged, connection, preparing, push, reported, strayed, commits>>

Absent == {<<"absent", 0>>}
Quiet == [pc |-> "idle", number |-> 0, expected |-> 0]
Version(branch, c) == Max({0} \cup {x[2] : x \in {y \in branch : y[1] = c}})
There(branch) == branch # Absent

Init ==
  /\ \E branches \in SUBSET Branch :
       remote = [b \in Branch |-> IF b \in branches THEN {} ELSE Absent]
  /\ local = [b \in Branch |-> Absent] /\ head = "none" /\ staged = {}
  /\ connection = [c \in Connection |-> "none"]
  /\ preparing = [connection |-> "none", branch |-> "none", pc |-> "idle"]
  /\ push = [c \in Connection |-> Quiet] /\ reported = {} /\ strayed = {}
  /\ commits = 0

Goes(c, pc) == push' = [push EXCEPT ![c].pc = pc]
Ends(c) == push' = [push EXCEPT ![c] = Quiet]
Commits == commits < MaxCommits /\ commits' = commits + 1

-----------------------------------------------------------------------------
(* prepare_git_sync_repository_inner                                       *)

\* The dialog is opened for a connection, with a branch; the directory is there or is cloned.
Prepare(c) ==
  /\ preparing.pc = "idle"
  /\ \E b \in Branch :
       preparing' = [connection |-> c, branch |-> b, pc |-> "switch"]
  /\ IF head = "none"
     THEN /\ head' = Default
          /\ local' = [local EXCEPT ![Default] = remote[Default]]
     ELSE UNCHANGED <<head, local>>
  /\ UNCHANGED <<remote, staged, connection, push, reported, strayed, commits>>

\* Which commits the branch starts from: its own, those of the remote branch, or those of HEAD.
StartsFrom(b) ==
  IF There(local[b]) THEN local[b]
  ELSE IF There(remote[b]) THEN remote[b] ELSE local[head]

\* The branch is there or create_branch_if_missing was ticked, and nothing is uncommitted.
Switch ==
  /\ preparing.pc = "switch"
  /\ IF head = preparing.branch
     THEN UNCHANGED <<local, head>>
     ELSE /\ staged = {}
          /\ local' = [local EXCEPT ![preparing.branch] = StartsFrom(preparing.branch)]
          /\ head' = preparing.branch
  /\ preparing' = [preparing EXCEPT !.pc = "prepared"]
  /\ UNCHANGED <<remote, staged, connection, push, reported, strayed, commits>>

\* save_sync_connection, or the dialog is closed after the preparation, or it failed.
Save ==
  /\ preparing.pc = "prepared"
  /\ push[preparing.connection] = Quiet
  /\ connection' = [connection EXCEPT ![preparing.connection] = preparing.branch]
  /\ preparing' = [preparing EXCEPT !.pc = "idle"]
  /\ UNCHANGED <<remote, local, head, staged, push, reported, strayed, commits>>

Cancel ==
  /\ preparing.pc # "idle"
  /\ preparing' = [preparing EXCEPT !.pc = "idle"]
  /\ UNCHANGED <<remote, local, head, staged, connection, push, reported, strayed, commits>>

-----------------------------------------------------------------------------
(* GitRemote::push                                                         *)

\* The sync read the remote vault and merged it into a new one.
Begin(c) ==
  /\ connection[c] # "none" /\ push[c].pc = "idle"
  /\ Commits
  /\ push' = [push EXCEPT ![c] = [pc |-> "fetch", number |-> commits + 1,
                                  expected |-> Version(remote[connection[c]], c)]]
  /\ UNCHANGED <<remote, local, head, staged, connection, preparing, reported, strayed>>

\* The remote vault is no longer the one that was merged: a conflict.
Fetch(c) ==
  /\ push[c].pc = "fetch"
  /\ IF Version(remote[connection[c]], c) = push[c].expected THEN Goes(c, "write") ELSE Ends(c)
  /\ UNCHANGED <<remote, local, head, staged, connection, preparing, reported, strayed, commits>>

\* write_blob_atomically, and git add
Write(c) ==
  /\ push[c].pc = "write"
  /\ staged' = staged \cup {<<c, push[c].number>>}
  /\ Goes(c, "commit")
  /\ UNCHANGED <<remote, local, head, connection, preparing, reported, strayed, commits>>

\* git commit -- path goes to the branch checked out, with what was left of an earlier push.
CommittedAsAdded(c) == local[head]
Committed(c) ==
  (local[head] \ Absent) \cup {x \in staged : x[1] = c}

Commit(c) ==
  /\ push[c].pc = "commit"
  /\ local' = [local EXCEPT ![head] = Committed(c)]
  /\ staged' = {x \in staged : x[1] # c}
  /\ strayed' = IF head = connection[c] THEN strayed
                ELSE strayed \cup {<<c, push[c].number>>}
  /\ Goes(c, "push")
  /\ UNCHANGED <<remote, head, connection, preparing, reported, commits>>

\* git push names the branch of the connection: a branch with nothing new is up to date.
FastForward(b) == There(local[b]) /\ remote[b] \ Absent \subseteq local[b]

Push(c) ==
  LET b == connection[c]
  IN  /\ push[c].pc = "push" /\ FastForward(b)
      /\ remote' = [remote EXCEPT ![b] = local[b]]
      /\ reported' = reported \cup {<<b, <<c, push[c].number>>>>}
      /\ Ends(c)
      /\ UNCHANGED <<local, head, staged, connection, preparing, strayed, commits>>

\* Any failure of git push is reported as a conflict; other steps report an error.
Fails(c) ==
  /\ \/ push[c].pc = "push" /\ ~FastForward(connection[c])
     \/ push[c].pc \in {"fetch", "write", "commit", "push"}
  /\ Ends(c)
  /\ UNCHANGED <<remote, local, head, staged, connection, preparing, reported, strayed, commits>>

\* Another device pushes a vault of this repository.
OtherDevice ==
  /\ Commits
  /\ \E c \in Connection, b \in Branch :
       remote' = [remote EXCEPT ![b] = (remote[b] \ Absent) \cup {<<c, commits + 1>>}]
  /\ UNCHANGED <<local, head, staged, connection, preparing, push, reported, strayed>>

Next ==
  \/ Switch \/ Save \/ Cancel \/ OtherDevice
  \/ \E c \in Connection :
       Prepare(c) \/ Begin(c) \/ Fetch(c) \/ Write(c) \/ Commit(c) \/ Push(c) \/ Fails(c)

Spec == Init /\ [][Next]_vars

-----------------------------------------------------------------------------
\* A push that reported success has its vault on the remote branch of the connection, whichever
\* connections, devices and preparations share the repository, and no commit is ever taken back,
\* unless it was committed to a branch that somebody had checked out for another connection.
PushedIsPublished == \A r \in reported : r[2] \in remote[r[1]] \cup strayed
-----------------------------------------------------------------------------
(* Why it holds: a commit goes to the branch that is pushed next, which    *)
(* nothing shrinks once the clone is there.                                *)

Named == Default \in Branch /\ "none" \notin Branch

TypeOK ==
  /\ DOMAIN local = Branch /\ DOMAIN remote = Branch
  /\ head \in Branch \cup {"none"}
  /\ connection \in [Connection -> Branch \cup {"none"}]
  /\ preparing \in [connection : Connection \cup {"none"}, branch : Branch \cup {"none"},
                     pc : {"idle", "switch", "prepared"}]
  /\ preparing.pc # "idle" =>
       preparing.connection \in Connection /\ preparing.branch \in Branch
  /\ DOMAIN push = Connection
  /\ \A c \in Connection :
       push[c] \in [pc : {"idle", "fetch", "write", "commit", "push"}, number : Nat,
                   expected : {push[c].expected}]
  /\ commits \in Nat

\* A preparation clones the repository, and a connection is saved by one.
Cloned ==
  head = "none" => preparing.pc = "idle" /\ \A c \in Connection : connection[c] = "none"

\* What a push is about is staged, and then on the branch it pushes.
PushesTheirOwn ==
  \A c \in Connection : push[c].pc # "idle" =>
    /\ connection[c] # "none" /\ push[c].number # 0
    /\ push[c].pc = "commit" => <<c, push[c].number>> \in staged
    /\ push[c].pc = "push" => <<c, push[c].number>> \in local[connection[c]] \cup strayed

\* The mark of a branch that is not there is no commit.
ReportsCommits ==
  \A r \in reported : r[1] \in Branch /\ r[2] \notin Absent

IInv ==
  TypeOK /\ Cloned /\ PushesTheirOwn /\ ReportsCommits /\ PushedIsPublished
=============================================================================
