----------------------------- MODULE MCDesktop -----------------------------
(***************************************************************************)
(* The desktop application (Desktop) for TLC, which explores each of its   *)
(* components from its own initial states while the others rest, and the   *)
(* synchronisation over each kind of remote.                               *)
(*                                                                         *)
(* The cfg gives one set of model values to all the sets whose members are *)
(* interchangeable, so that one symmetry covers all components.            *)
(***************************************************************************)
EXTENDS Desktop, TLC

VARIABLE component    \* the one that this behaviour is about

Git == INSTANCE VaultSync WITH Kind <- "git", faults <- syncFaults
Http == INSTANCE VaultSync WITH Kind <- "http", faults <- syncFaults

\* A component that rests has one initial state.
Resting ==
  /\ component # "chat" => review = "over"
  /\ component # "host" => desktop = {}
  /\ component # "links" => initial = {}
  /\ component # "changes" => ~permitted
  /\ component # "page" => \A r \in Request : request[r] = "none"
  /\ component # "checkout" => \A b \in Branch : remote[b] = {}

MCInit ==
  /\ component \in {"backends", "chat", "host", "links", "changes", "page", "sync", "git",
                    "http", "checkout"}
  /\ DesktopInit
  /\ Resting

\* Edits and runs of a device cross over a Git remote, whose own states are the fewest, until
\* one has replaced what the other had put there; over the others they take turns.
TakeTurns == \A d \in Device : editor'[d].pc = "idle" \/ job'[d].pc = "idle"

\* The synchronisation over another kind of remote than the cfg names.
OtherSyncStep ==
  /\ \/ component = "git" /\ raced = {} /\ Git!Next
     \/ component = "http" /\ Http!Next /\ TakeTurns
  /\ UNCHANGED <<vars, chatVars, hostVars, handoffVars, changeVars, pageVars, checkoutVars>>

\* The last commit is drawn while everybody is on the branch that is checked out.
Together ==
  /\ \A c \in Connection : connection'[c] \in {"none", checkout'}
  /\ preparing'.branch \in {"none", checkout'}

MCNext ==
  /\ \/ component = "backends" /\ BackendsStep
     \/ component = "chat" /\ ChatStep
     \/ component = "host" /\ HostStep
     \/ component = "links" /\ LinksStep
     \/ component = "changes" /\ ChangesStep
     \/ component = "page" /\ PageStep
     \/ component = "sync" /\ SyncStep /\ TakeTurns
     \/ component = "checkout" /\ CheckoutStep /\ (commits' < MaxCommits \/ Together)
     \/ OtherSyncStep
  /\ UNCHANGED component

MCSpec == MCInit /\ [][MCNext]_<<component, desktopVars>>

Symmetry == Permutations(Call)
=============================================================================
