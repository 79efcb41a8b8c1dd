-------------------------- MODULE BackendCommands --------------------------
(***************************************************************************)
(* The commands of credential backends (value_resolver.rs): every call     *)
(* starts one process as the leader of a process group of its own, and the *)
(* group is registered while its number may be used for a kill.  The       *)
(* operating system gives the number of a group that has ended to the next *)
(* process of anybody.  A shutdown of the daemon kills every registered    *)
(* group and refuses new ones; a daemon started later in the same process  *)
(* takes the refusal back.                                                 *)
(***************************************************************************)
EXTENDS Naturals

CONSTANTS
  Call,        \* calls of run_bounded_backend_command
  Pid,         \* process numbers of the operating system
  NoPid,       \* the number of a call without a process
  Foreign,     \* the owner of a process that is not ours
  MaxRestarts  \* bound: daemons started after a shutdown in this process

ASSUME BackendAssumption ==
  Foreign \notin Call /\ NoPid \notin Pid /\ MaxRestarts \in Nat

VARIABLES
  closing,   \* BackendCommandRegistry.closing
  groups,    \* BackendCommandRegistry.groups
  pc,        \* where each worker is in capture_backend_command_inner
  pid,       \* BackendProcessGroup.pid of each worker
  owner,     \* operating system: who started the process of a number
  leader,    \* ... whether it runs, has exited but is not reaped, or is gone
  kin,       \* ... whether other members of its process group run
  harmed,    \* history: numbers killed while they belonged to somebody else
  restarts   \* daemons started after a shutdown

registry == <<closing, groups, restarts>>
workers  == <<pc, pid>>
system   == <<owner, leader, kin>>
vars     == <<registry, workers, system, harmed>>

TypeOK ==
  /\ closing \in BOOLEAN
  /\ groups \subseteq Pid
  /\ pc \in [Call -> {"queued", "runs", "finished", "dropped", "returned"}]
  /\ pid \in [Call -> Pid \cup {NoPid}]
  /\ owner \in [Pid -> Call \cup {Foreign}]
  /\ leader \in [Pid -> {"runs", "exited", "none"}]
  /\ kin \in [Pid -> BOOLEAN]
  /\ harmed \subseteq Pid
  /\ restarts \in 0..MaxRestarts

Init ==
  /\ closing = FALSE /\ groups = {}
  /\ pc = [c \in Call |-> "queued"] /\ pid = [c \in Call |-> NoPid]
  /\ owner = [p \in Pid |-> Foreign] /\ leader = [p \in Pid |-> "none"]
  /\ kin = [p \in Pid |-> FALSE]
  /\ harmed = {} /\ restarts = 0

\* A number is given again when its process is reaped and its group is empty.
Free(p) == leader[p] = "none" /\ ~kin[p]

\* SIGKILL to the process groups of a set of numbers ends all their members; the
\* leader of one of our groups stays until it is reaped, any other process is
\* reaped by a parent of its own.
KillGroups(ps) ==
  /\ leader' = [p \in Pid |-> IF p \notin ps THEN leader[p]
                              ELSE IF owner[p] = Foreign THEN "none"
                              ELSE IF leader[p] = "runs" THEN "exited" ELSE leader[p]]
  /\ kin' = [p \in Pid |-> kin[p] /\ p \notin ps]
  /\ harmed' = harmed \cup {p \in ps : owner[p] = Foreign /\ ~Free(p)}
  /\ UNCHANGED owner

\* The leader's status is collected; its number is free unless its group lives.
Reaped(p) ==
  /\ leader' = [leader EXCEPT ![p] = "none"]
  /\ owner' = [owner EXCEPT ![p] = IF kin[p] THEN @ ELSE Foreign]
  /\ UNCHANGED <<kin, harmed>>

-----------------------------------------------------------------------------

\* Creating the process and registering its group are one critical section.
Spawn(c, p) ==
  /\ pc[c] = "queued" /\ ~closing /\ Free(p)
  /\ owner' = [owner EXCEPT ![p] = c] /\ leader' = [leader EXCEPT ![p] = "runs"]
  /\ groups' = groups \cup {p}
  /\ pc' = [pc EXCEPT ![c] = "runs"] /\ pid' = [pid EXCEPT ![c] = p]
  /\ UNCHANGED <<closing, restarts, kin, harmed>>

\* During a shutdown, or when the program is not in PATH.
SpawnRefused(c) ==
  /\ pc[c] = "queued"
  /\ pc' = [pc EXCEPT ![c] = "returned"]
  /\ UNCHANGED <<registry, pid, system, harmed>>

\* A bug that BackendsContained must reveal: the wait reaps the leader while
\* its number is still registered.
CompletesReaping(c) ==
  /\ pc[c] = "runs" /\ leader[pid[c]] = "exited"
  /\ pc' = [pc EXCEPT ![c] = "finished"]
  /\ Reaped(pid[c])
  /\ UNCHANGED <<registry, pid>>

\* The input is written, both streams are at their end, which they reach only
\* when no member of the group holds them or the member has closed them, and
\* the leader has exited; it is not reaped by this wait.
Completes(c) ==
  /\ pc[c] = "runs" /\ leader[pid[c]] = "exited"
  /\ pc' = [pc EXCEPT ![c] = "finished"]
  /\ UNCHANGED <<registry, pid, system, harmed>>

\* The deadline, more output than the limit, or an input that cannot be written:
\* the leader may still run.
Fails(c) ==
  /\ pc[c] = "runs" /\ leader[pid[c]] = "runs"
  /\ pc' = [pc EXCEPT ![c] = "finished"]
  /\ UNCHANGED <<registry, pid, system, harmed>>

\* Dropping the group takes the registration back and kills what is left of the
\* group, under the lock; then a call that failed kills its leader once more.
DropGroup(c) ==
  /\ pc[c] = "finished" /\ pid[c] \in groups
  /\ groups' = groups \ {pid[c]}
  /\ KillGroups({pid[c]})
  /\ pc' = [pc EXCEPT ![c] = "dropped"]
  /\ UNCHANGED <<closing, restarts, pid>>

\* Only this worker reaps the leader, and only now.
Reap(c) ==
  /\ pc[c] = "dropped" /\ leader[pid[c]] = "exited"
  /\ Reaped(pid[c])
  /\ pc' = [pc EXCEPT ![c] = "returned"]
  /\ UNCHANGED <<registry, pid>>

-----------------------------------------------------------------------------

\* cancel_backend_commands, from the shutdown of a daemon or from its drop.
Cancel ==
  /\ closing' = TRUE
  /\ KillGroups(groups)
  /\ UNCHANGED <<groups, restarts, workers>>

\* resume_backend_commands, when a daemon starts.
Resume ==
  /\ closing /\ restarts < MaxRestarts
  /\ closing' = FALSE /\ restarts' = restarts + 1
  /\ UNCHANGED <<groups, workers, system, harmed>>

-----------------------------------------------------------------------------

\* A backend starts another process in its group, which may outlive it.
Forks(p) ==
  /\ owner[p] \in Call /\ leader[p] = "runs"
  /\ kin' = [kin EXCEPT ![p] = TRUE]
  /\ UNCHANGED <<registry, workers, owner, leader, harmed>>

LeaderExits(p) ==
  /\ owner[p] \in Call /\ leader[p] = "runs"
  /\ leader' = [leader EXCEPT ![p] = "exited"]
  /\ UNCHANGED <<registry, workers, owner, kin, harmed>>

KinEnds(p) ==
  /\ owner[p] \in Call /\ kin[p] /\ leader[p] # "none"
  /\ kin' = [kin EXCEPT ![p] = FALSE]
  /\ UNCHANGED <<registry, workers, owner, leader, harmed>>

\* Any other process of the machine takes a free number for a group of its own.
ForeignStarts(p) ==
  /\ Free(p)
  /\ owner' = [owner EXCEPT ![p] = Foreign] /\ leader' = [leader EXCEPT ![p] = "runs"]
  /\ UNCHANGED <<registry, workers, kin, harmed>>

ForeignEnds(p) ==
  /\ owner[p] = Foreign /\ leader[p] = "runs"
  /\ leader' = [leader EXCEPT ![p] = "none"]
  /\ UNCHANGED <<registry, workers, owner, kin, harmed>>

Next ==
  \/ \E c \in Call : \/ \E p \in Pid : Spawn(c, p)
                     \/ SpawnRefused(c) \/ Completes(c) \/ Fails(c)
                     \/ DropGroup(c) \/ Reap(c)
  \/ Cancel \/ Resume
  \/ \E p \in Pid : \/ Forks(p) \/ LeaderExits(p) \/ KinEnds(p)
                    \/ ForeignStarts(p) \/ ForeignEnds(p)

Spec == Init /\ [][Next]_vars

-----------------------------------------------------------------------------

KillsOnlyOwn == harmed = {}

QuietAfterShutdown ==
  closing => \A p \in Pid : owner[p] \in Call => leader[p] # "runs" /\ ~kin[p]

NothingOutlivesItsCall ==
  \A c \in Call : pc[c] = "returned" => \A p \in Pid : owner[p] # c

\* Whatever the order of exits, kills, reaps, shutdowns and restarts: a kill by
\* number never reaches a process that took the number over, no backend process
\* or descendant runs once a shutdown has killed them, and none outlives the
\* call that started it.
BackendsContained == KillsOnlyOwn /\ QuietAfterShutdown /\ NothingOutlivesItsCall

-----------------------------------------------------------------------------
(* The inductive invariant of the proofs: a call in progress owns exactly  *)
(* the number it remembers, unreaped; the number is registered until the   *)
(* call drops its group, which it does after everything of it was killed.  *)

Holding == {"runs", "finished"}

CallsHoldTheirProcess ==
  \A c \in Call :
    /\ pc[c] \in Holding => pid[c] \in groups
    /\ pc[c] \in Holding \cup {"dropped"} =>
         pid[c] \in Pid /\ owner[pid[c]] = c /\ leader[pid[c]] # "none"
    /\ pc[c] = "dropped" => pid[c] \notin groups /\ leader[pid[c]] = "exited" /\ ~kin[pid[c]]

ProcessesAreHeld ==
  \A p \in Pid :
    /\ owner[p] \in Call => pc[owner[p]] \in Holding \cup {"dropped"} /\ pid[owner[p]] = p
    /\ p \in groups => owner[p] \in Call /\ pc[owner[p]] \in Holding

IInv == TypeOK /\ CallsHoldTheirProcess /\ ProcessesAreHeld /\ KillsOnlyOwn /\ QuietAfterShutdown
=============================================================================
