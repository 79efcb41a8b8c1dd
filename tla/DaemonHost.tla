----------------------------- MODULE DaemonHost -----------------------------
(***************************************************************************)
(* The processes that host the daemon: the desktop application, which      *)
(* starts one when it finds none, and planktond.  They find each other     *)
(* through the state file, which names the process that serves.            *)
(***************************************************************************)
EXTENDS FiniteSets, Naturals

CONSTANTS
  Process,           \* processes ever launched, each with a pid of its own
  NoProcess,
  MaxFaults          \* bound: crashes and failing steps

VARIABLES
  desktop,  \* processes of the desktop application; the others are planktond
  pc,       \* of each process
  owns,     \* processes with a RunningDaemon
  file,     \* process that the state file names, NoProcess when there is none
  child,    \* processes with a running consumer or backend command
  asked,    \* EXPLICIT_QUIT or ctrl-c: processes asked to end
  down,     \* progress of the shutdown of each process
  left,     \* history: processes whose state file could not be removed
  checked,  \* history: what each process has found the file to name before it changes it
  overrun,  \* history: processes whose state file a race has written over or removed
  faults

vars == <<desktop, pc, owns, file, child, asked, down, left, checked, overrun, faults>>

Starting == {"ensure", "recover", "unlink", "start", "open", "resume", "setup"}
Alive(p) == pc[p] \notin {"off", "exited", "dead"}
Serves(p) == p \in owns /\ pc[p] \in {"setup", "up"} /\ down[p] = "no"
Faulty == faults < MaxFaults /\ faults' = faults + 1
Goto(p, s) == pc' = [pc EXCEPT ![p] = s]
Launching == UNCHANGED <<desktop, child, asked, down, left>>

\* The file is written or removed, which it would not be if who does so knew what is in it.
Overruns(racing) ==
  overrun' = IF racing THEN overrun \cup ({file} \ {NoProcess}) ELSE overrun

\* The daemon of p is dropped and removes the file, without a look at what is in it.
DropsFile(p) == file' = NoProcess /\ Overruns(p \in overrun)
KeepsFile == UNCHANGED <<file, overrun>>

Init ==
  /\ desktop \in SUBSET Process
  /\ pc = [p \in Process |-> "off"]
  /\ owns = {} /\ file = NoProcess /\ child = {} /\ asked = {}
  /\ down = [p \in Process |-> "no"]
  /\ left = {} /\ faults = 0
  /\ checked = [p \in Process |-> NoProcess] /\ overrun = {}

-----------------------------------------------------------------------------
(* Starting                                                                *)

Launch(p) ==
  /\ pc[p] = "off"
  /\ Goto(p, IF p \in desktop THEN "ensure" ELSE "start")
  /\ UNCHANGED <<owns, checked, faults>> /\ KeepsFile /\ Launching

\* ensure_background_daemon: connect through the state file and ask for its health.
Ensure(p) ==
  /\ pc[p] = "ensure"
  /\ Goto(p, IF file = NoProcess THEN "start" ELSE IF Serves(file) THEN "setup" ELSE "recover")
  /\ UNCHANGED <<owns, checked, faults>> /\ KeepsFile /\ Launching

\* recover_stale_daemon_state reads the file and looks for the process, and then removes the file.
AnyRecorded(q) == q # NoProcess
Stale(q) == q # NoProcess /\ ~Alive(q)
RecoverReads(p) ==
  /\ pc[p] = "recover"
  /\ Goto(p, IF Stale(file) THEN "unlink" ELSE "dead")
  /\ checked' = [checked EXCEPT ![p] = file]
  /\ UNCHANGED <<owns, faults>> /\ KeepsFile /\ Launching

RecoverRemoves(p) ==
  /\ pc[p] = "unlink"
  /\ Goto(p, IF file = NoProcess THEN "dead" ELSE "start")
  /\ file' = NoProcess /\ Overruns(file # checked[p])
  /\ UNCHANGED <<owns, checked, faults>> /\ Launching

\* start: the check for the file, and the store, the recoveries and the listener after it.
StartChecks(p) ==
  /\ pc[p] = "start"
  /\ Goto(p, IF file = NoProcess THEN "open" ELSE "dead")
  /\ checked' = [checked EXCEPT ![p] = file]
  /\ UNCHANGED <<owns, faults>> /\ KeepsFile /\ Launching

\* write_state_atomic renames a file of its own over the state file.
WritesState(p) ==
  /\ pc[p] = "open"
  /\ \/ Goto(p, "resume") /\ file' = p /\ Overruns(file # checked[p]) /\ UNCHANGED faults
     \/ Goto(p, "dead") /\ Faulty /\ KeepsFile
  /\ UNCHANGED <<owns, checked>> /\ Launching

Resumes(p) ==
  /\ pc[p] = "resume"
  /\ \/ Goto(p, IF p \in desktop THEN "setup" ELSE "up")
        /\ owns' = owns \cup {p} /\ KeepsFile /\ UNCHANGED faults
     \/ Goto(p, "dead") /\ DropsFile(p) /\ Faulty /\ UNCHANGED owns
  /\ UNCHANGED checked /\ Launching

\* The rest of `run`.  A second instance hands its arguments to the first and ends at once; an
\* error drops the daemon.
Setup(p) ==
  /\ pc[p] = "setup"
  /\ \/ /\ \A q \in desktop : pc[q] # "up"
        /\ Goto(p, "up") /\ KeepsFile /\ UNCHANGED <<owns, child, faults>>
     \/ /\ \E q \in desktop : pc[q] = "up"
        /\ Goto(p, "dead") /\ owns' = owns \ {p} /\ KeepsFile /\ UNCHANGED <<child, faults>>
     \/ /\ Faulty
        /\ Goto(p, "dead") /\ owns' = owns \ {p} /\ child' = child \ {p}
        /\ IF p \in owns THEN DropsFile(p) ELSE KeepsFile
  /\ UNCHANGED <<desktop, asked, down, left, checked>>

Crash(p) ==
  /\ Alive(p) /\ Faulty
  /\ Goto(p, "dead")
  /\ owns' = owns \ {p} /\ child' = child \ {p}
  /\ KeepsFile
  /\ UNCHANGED <<desktop, asked, down, left, checked>>

-----------------------------------------------------------------------------
(* Ending                                                                  *)

Ending == UNCHANGED <<desktop, pc, checked, faults>>

\* A consumer or a backend command starts; an import of the desktop needs no daemon of its own.
ChildStarts(p) ==
  /\ Serves(p) \/ (p \in desktop /\ pc[p] = "up" /\ down[p] = "no")
  /\ child' = child \cup {p}
  /\ UNCHANGED <<owns, asked, down, left>> /\ KeepsFile /\ Ending

\* request_exit_after_shutdown, and an exit requested with a code before the shutdown is over.
\* Cmd+Q and a closed window, which carry no code, only hide a window.
Asked(p) ==
  /\ pc[p] = "up" /\ p \notin asked
  /\ asked' = asked \cup {p}
  /\ UNCHANGED <<owns, child, down, left>> /\ KeepsFile /\ Ending

\* shutdown_owned_daemon, RunningDaemon::shutdown: consumers and backend commands first.
ShutdownBegins(p) ==
  /\ p \in asked /\ pc[p] = "up" /\ down[p] = "no"
  /\ down' = [down EXCEPT ![p] = IF p \in owns THEN "drain" ELSE "over"]
  /\ child' = child \ {p}
  /\ UNCHANGED <<owns, asked, left>> /\ KeepsFile /\ Ending

\* The connections and the evaluations end, well or with an error kept for later.
Drains(p) ==
  /\ pc[p] = "up" /\ down[p] = "drain"
  /\ down' = [down EXCEPT ![p] = "remove"]
  /\ UNCHANGED <<owns, child, asked, left>> /\ KeepsFile /\ Ending

RemovesState(p) ==
  /\ pc[p] = "up" /\ down[p] = "remove"
  /\ down' = [down EXCEPT ![p] = "over"] /\ owns' = owns \ {p}
  /\ \/ DropsFile(p) /\ UNCHANGED <<left, faults>>
     \/ Faulty /\ left' = left \cup {p} /\ KeepsFile
  /\ UNCHANGED <<desktop, pc, child, asked, checked>>

\* SHUTDOWN_TIMEOUT drops the shutdown, and with it the daemon, which removes the file.
TimesOut(p) ==
  /\ pc[p] = "up" /\ down[p] \in {"drain", "remove"} /\ p \in desktop
  /\ down' = [down EXCEPT ![p] = "over"] /\ owns' = owns \ {p}
  /\ DropsFile(p)
  /\ UNCHANGED <<child, asked, left>> /\ Ending

\* handle_run_event lets an exit pass once the outcome of the shutdown is known.
ExitOnceAsked(p) == p \in asked
MayExit(p) == p \in asked /\ down[p] = "over"
Exits(p) ==
  /\ pc[p] = "up" /\ MayExit(p)
  /\ Goto(p, "exited")
  /\ KeepsFile
  /\ UNCHANGED <<desktop, owns, child, asked, down, left, checked, faults>>

Next == \E p \in Process :
  \/ Launch(p) \/ Ensure(p) \/ RecoverReads(p) \/ RecoverRemoves(p) \/ StartChecks(p)
  \/ WritesState(p) \/ Resumes(p) \/ Setup(p) \/ Crash(p)
  \/ ChildStarts(p) \/ Asked(p) \/ ShutdownBegins(p) \/ Drains(p) \/ RemovesState(p)
  \/ TimesOut(p) \/ Exits(p)

Spec == Init /\ [][Next]_vars

-----------------------------------------------------------------------------
(* Properties                                                              *)

\* The state file names the process that serves: there is at most one daemon, and clients and
\* later launches find it, whatever crashed before and however starts overlap. Not so a process
\* whose file was written over or removed by another one that had checked it before (the check
\* and the change are apart), or by one to which that had happened.
OneDaemon == \A p \in Process \ overrun : Serves(p) => file = p

\* A process that quits or restarts leaves nothing behind: no consumer or backend command of it
\* still runs, and the state file does not name it, unless the file could not be removed.
ExitIsClean == \A p \in Process :
  pc[p] = "exited" => p \notin child /\ (file = p => p \in left)

\* One process is the daemon, and it ends without a process of its own left behind.
OneDaemonExitsCleanly == OneDaemon /\ ExitIsClean

-----------------------------------------------------------------------------
(* The inductive invariants of the two.  That the file names who serves    *)
(* needs that whoever holds a RunningDaemon, or is about to, is named by   *)
(* the file at every moment between writing it and its end unless it was   *)
(* overrun, and that a process which writes or removes the file has found  *)
(* it absent, or naming a process that is gone.  That an exit is clean     *)
(* needs that a process which never wrote the file is not named by it.     *)

\* No process is the absent one.  (A state file names a pid, or there is none.)
Named == NoProcess \notin Process

PC   == {"off", "exited", "dead", "up"} \cup Starting
Down == {"no", "drain", "remove", "over"}

TypeOK ==
  /\ desktop \in SUBSET Process /\ owns \in SUBSET Process
  /\ child \in SUBSET Process /\ asked \in SUBSET Process /\ left \in SUBSET Process
  /\ pc \in [Process -> PC]
  /\ down \in [Process -> Down]
  /\ file \in Process \cup {NoProcess}
  /\ checked \in [Process -> Process \cup {NoProcess}] /\ overrun \in SUBSET Process

\* A process that has not written the state file is not named by it.
Unwritten == {"off", "ensure", "recover", "unlink", "start", "open"}
NamedOnceWritten == \A p \in Process : file = p => pc[p] \notin Unwritten

\* What a process has left behind in each phase of its end.
EndsInOrder == \A p \in Process :
  /\ pc[p] \notin {"up", "exited", "dead"} => down[p] = "no"
  /\ pc[p] = "exited" => down[p] = "over"
  /\ down[p] # "no" => p \notin child
  /\ pc[p] = "up" /\ down[p] \in {"drain", "remove"} => p \in owns
  /\ pc[p] \in {"setup", "up"} /\ down[p] = "no" /\ p \notin owns => file # p
  /\ down[p] = "over" => p \notin owns /\ (file = p => p \in left)

\* A process that holds the daemon has written the file.
OwnersServe == \A p \in owns : pc[p] \in {"setup", "up"}

\* The inductive invariant of an exit; it holds however the starts overlap.
ExitInv == TypeOK /\ NamedOnceWritten /\ EndsInOrder /\ OwnersServe

\* Who holds the daemon, or has written the file for it, is named by the file, and who
\* changes the file has found it absent or stale.
OwnerIsNamed == \A p \in Process \ overrun : p \in owns \/ pc[p] = "resume" => file = p
StartsKnowing == \A p \in Process :
  /\ pc[p] = "unlink" => \E q \in Process : checked[p] = q /\ pc[q] \in {"exited", "dead"}
  /\ pc[p] = "open" => checked[p] = NoProcess
StartInv == OwnerIsNamed /\ StartsKnowing
=============================================================================
