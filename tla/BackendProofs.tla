--------------------------- MODULE BackendProofs ---------------------------
(***************************************************************************)
(* BackendsContained holds for any number of calls and process numbers.    *)
(* A call that has started a process owns its number, unreaped, until it   *)
(* has taken the registration back, so a registered number belongs to a    *)
(* call: that is what IInv adds to the property.                           *)
(***************************************************************************)
EXTENDS BackendCommands, TLAPS

\* Before any call nothing is registered and no process is ours.
LEMMA InitInvariant == Init => IInv
<1> SUFFICES ASSUME Init PROVE IInv
  OBVIOUS
<1>1. TypeOK
  <2>1. restarts \in 0..MaxRestarts
    BY BackendAssumption DEF Init
  <2>2. kin \in [Pid -> BOOLEAN] /\ closing \in BOOLEAN
    BY Zenon DEF Init
  <2>3. leader \in [Pid -> {"runs", "exited", "none"}]
    BY DEF Init
  <2>4. QED
    BY <2>1, <2>2, <2>3 DEF Init, TypeOK
<1>2. QED
  BY <1>1, BackendAssumption DEF Init, IInv, CallsHoldTheirProcess, ProcessesAreHeld,
     KillsOnlyOwn, QuietAfterShutdown, Holding

\* A kill of registered numbers harms nobody else and leaves their leaders to be
\* reaped.
LEMMA KillsAreOwn ==
  ASSUME IInv, NEW ps \in SUBSET groups, KillGroups(ps)
  PROVE  /\ harmed' = {} /\ owner' = owner
         /\ leader' \in [Pid -> {"runs", "exited", "none"}]
         /\ kin' \in [Pid -> BOOLEAN]
         /\ \A p \in Pid : /\ kin'[p] = (kin[p] /\ p \notin ps)
                           /\ p \notin ps => leader'[p] = leader[p]
                           /\ p \in ps => leader'[p] = "exited"
<1>1. \A p \in ps : /\ p \in Pid /\ owner[p] # Foreign /\ leader[p] # "none"
  BY BackendAssumption DEF IInv, TypeOK, ProcessesAreHeld, CallsHoldTheirProcess, Holding
<1>2. harmed' = {}
  BY <1>1 DEF KillGroups, IInv, KillsOnlyOwn
<1>3. \A p \in Pid : /\ p \notin ps => leader'[p] = leader[p]
                     /\ p \in ps => leader'[p] = "exited"
  BY <1>1 DEF KillGroups, IInv, TypeOK
<1>4. leader' \in [Pid -> {"runs", "exited", "none"}]
  BY <1>3 DEF KillGroups, IInv, TypeOK
<1>5. \A p \in Pid : kin'[p] = (kin[p] /\ p \notin ps)
  BY Zenon DEF KillGroups
<1>6. kin' \in [Pid -> BOOLEAN]
  BY Zenon DEF KillGroups
<1>7. QED
  BY <1>2, <1>3, <1>4, <1>5, <1>6 DEF KillGroups

-----------------------------------------------------------------------------
(* One lemma per action that changes what is registered or what runs.      *)

\* A new process is registered in the step that creates it.
LEMMA SpawnKeeps ==
  ASSUME IInv, NEW c \in Call, NEW p \in Pid, Spawn(c, p) PROVE IInv'
<1>1. p \notin groups /\ \A d \in Call : pc[d] \in Holding \cup {"dropped"} => pid[d] # p
  BY DEF IInv, Spawn, Free, CallsHoldTheirProcess, ProcessesAreHeld
<1>2. \A q \in Pid : owner[q] # c
  BY DEF IInv, Spawn, ProcessesAreHeld, Holding
<1>3. TypeOK'
  BY DEF IInv, TypeOK, Spawn
<1>4. CallsHoldTheirProcess'
  BY <1>1 DEF IInv, TypeOK, CallsHoldTheirProcess, Spawn, Holding
<1>5. ProcessesAreHeld'
  BY <1>1, <1>2 DEF IInv, TypeOK, ProcessesAreHeld, Spawn, Holding
<1>6. KillsOnlyOwn' /\ QuietAfterShutdown'
  BY DEF IInv, Spawn, KillsOnlyOwn, QuietAfterShutdown
<1>7. QED
  BY <1>3, <1>4, <1>5, <1>6 DEF IInv

\* A call that drops its group has killed all of it but the unreaped leader.
LEMMA DropGroupKeeps ==
  ASSUME IInv, NEW c \in Call, DropGroup(c) PROVE IInv'
<1> DEFINE p == pid[c]
<1>1. KillGroups({p}) /\ {p} \in SUBSET groups /\ p \in Pid /\ owner[p] = c
  BY DEF DropGroup, IInv, CallsHoldTheirProcess, Holding
<1>2. /\ harmed' = {} /\ owner' = owner
      /\ leader' \in [Pid -> {"runs", "exited", "none"}] /\ kin' \in [Pid -> BOOLEAN]
      /\ leader'[p] = "exited" /\ ~kin'[p]
      /\ \A q \in Pid : /\ q # p => leader'[q] = leader[q]
                        /\ ~kin[q] => ~kin'[q]
  BY <1>1, KillsAreOwn
<1>3. \A d \in Call : d # c /\ pc[d] \in Holding \cup {"dropped"} => pid[d] # p
  BY <1>1 DEF IInv, CallsHoldTheirProcess
<1>4. TypeOK'
  BY <1>2 DEF IInv, TypeOK, DropGroup
<1>5. CallsHoldTheirProcess'
  BY <1>1, <1>2, <1>3 DEF IInv, TypeOK, CallsHoldTheirProcess, DropGroup, Holding
<1>6. ProcessesAreHeld'
  BY <1>1, <1>2 DEF IInv, TypeOK, ProcessesAreHeld, DropGroup, Holding
<1>7. KillsOnlyOwn' /\ QuietAfterShutdown'
  BY <1>1, <1>2 DEF IInv, TypeOK, DropGroup, KillsOnlyOwn, QuietAfterShutdown
<1>8. QED
  BY <1>4, <1>5, <1>6, <1>7 DEF IInv

\* Reaping frees a number that is no longer registered.
LEMMA ReapKeeps ==
  ASSUME IInv, NEW c \in Call, Reap(c) PROVE IInv'
<1> DEFINE p == pid[c]
<1>1. p \in Pid /\ owner[p] = c /\ ~kin[p] /\ p \notin groups /\ pc[c] = "dropped"
  BY DEF Reap, IInv, CallsHoldTheirProcess, Holding
<1>2. leader' = [leader EXCEPT ![p] = "none"] /\ owner' = [owner EXCEPT ![p] = Foreign]
  BY <1>1 DEF Reap, Reaped
<1>3. \A d \in Call : d # c /\ pc[d] \in Holding \cup {"dropped"} => pid[d] # p
  BY <1>1 DEF IInv, CallsHoldTheirProcess
<1>4. TypeOK'
  BY <1>2 DEF IInv, TypeOK, Reap, Reaped, registry
<1>5. CallsHoldTheirProcess'
  BY <1>1, <1>2, <1>3 DEF IInv, TypeOK, CallsHoldTheirProcess, Reap, Reaped, registry, Holding
<1>6. ProcessesAreHeld'
  BY <1>1, <1>2, BackendAssumption
     DEF IInv, TypeOK, ProcessesAreHeld, Reap, Reaped, registry, Holding
<1>7. KillsOnlyOwn' /\ QuietAfterShutdown'
  BY <1>1, <1>2, BackendAssumption
     DEF IInv, TypeOK, Reap, Reaped, registry, KillsOnlyOwn, QuietAfterShutdown
<1>8. QED
  BY <1>4, <1>5, <1>6, <1>7 DEF IInv

\* After a shutdown has killed the registered groups nothing of ours runs: what
\* is no longer registered was killed by its own call.
LEMMA CancelKeeps == ASSUME IInv, Cancel PROVE IInv'
<1>1. /\ harmed' = {} /\ owner' = owner
      /\ leader' \in [Pid -> {"runs", "exited", "none"}] /\ kin' \in [Pid -> BOOLEAN]
      /\ \A p \in Pid : /\ ~kin[p] => ~kin'[p]
                        /\ p \notin groups => leader'[p] = leader[p]
                        /\ p \in groups => leader'[p] = "exited" /\ ~kin'[p]
  BY KillsAreOwn DEF Cancel
<1>2. TypeOK'
  BY <1>1 DEF IInv, TypeOK, Cancel, workers
<1>3. CallsHoldTheirProcess'
  BY <1>1 DEF IInv, TypeOK, CallsHoldTheirProcess, Cancel, workers, Holding
<1>4. ProcessesAreHeld'
  BY <1>1 DEF IInv, TypeOK, ProcessesAreHeld, Cancel, workers
<1>5. KillsOnlyOwn'
  BY <1>1 DEF KillsOnlyOwn
<1>6. QuietAfterShutdown'
  <2> SUFFICES ASSUME NEW p \in Pid, owner[p] \in Call
               PROVE  leader'[p] # "runs" /\ ~kin'[p]
    BY <1>1 DEF QuietAfterShutdown
  <2>1. CASE p \in groups
    BY <1>1, <2>1
  <2>2. CASE p \notin groups
    BY <1>1, <2>2 DEF IInv, CallsHoldTheirProcess, ProcessesAreHeld, Holding
  <2>3. QED
    BY <2>1, <2>2
<1>7. QED
  BY <1>2, <1>3, <1>4, <1>5, <1>6 DEF IInv

\* A worker that waits or is refused moves on without touching a process.
LEMMA WaitKeeps ==
  ASSUME IInv, NEW c \in Call, SpawnRefused(c) \/ Completes(c) \/ Fails(c) PROVE IInv'
<1>1. UNCHANGED <<registry, pid, system, harmed>>
  BY DEF SpawnRefused, Completes, Fails
<1>2. \/ pc[c] = "queued" /\ pc' = [pc EXCEPT ![c] = "returned"]
      \/ pc[c] = "runs" /\ pc' = [pc EXCEPT ![c] = "finished"]
  BY DEF SpawnRefused, Completes, Fails
<1>3. TypeOK'
  BY <1>1, <1>2 DEF IInv, TypeOK, registry, system
<1>4. CallsHoldTheirProcess'
  BY <1>1, <1>2 DEF IInv, TypeOK, CallsHoldTheirProcess, registry, system, Holding
<1>5. ProcessesAreHeld'
  BY <1>1, <1>2 DEF IInv, TypeOK, ProcessesAreHeld, registry, system, Holding
<1>6. KillsOnlyOwn' /\ QuietAfterShutdown'
  BY <1>1 DEF IInv, KillsOnlyOwn, QuietAfterShutdown, registry, system
<1>7. QED
  BY <1>3, <1>4, <1>5, <1>6 DEF IInv

\* The processes themselves never lose an unreaped leader of ours, and start
\* nothing of ours.
LEMMA SystemKeeps ==
  ASSUME IInv, NEW p \in Pid,
         Forks(p) \/ LeaderExits(p) \/ KinEnds(p) \/ ForeignStarts(p) \/ ForeignEnds(p)
  PROVE  IInv'
<1>1. UNCHANGED <<registry, workers, harmed>>
  BY DEF Forks, LeaderExits, KinEnds, ForeignStarts, ForeignEnds
<1>2. TypeOK'
  BY <1>1 DEF IInv, TypeOK, registry, workers, Forks, LeaderExits, KinEnds, ForeignStarts, ForeignEnds
<1>3. \A q \in Pid : owner[q] \in Call \/ owner'[q] \in Call =>
        /\ owner'[q] = owner[q]
        /\ leader[q] # "none" => leader'[q] # "none"
        /\ leader[q] # "runs" => leader'[q] = leader[q]
        /\ leader[q] # "runs" /\ ~kin[q] => ~kin'[q]
  BY BackendAssumption
     DEF IInv, TypeOK, CallsHoldTheirProcess, ProcessesAreHeld, Free, Holding,
         Forks, LeaderExits, KinEnds, ForeignStarts, ForeignEnds
<1>4. CallsHoldTheirProcess'
  BY <1>1, <1>3 DEF IInv, TypeOK, CallsHoldTheirProcess, registry, workers, Holding
<1>5. ProcessesAreHeld'
  BY <1>1, <1>3 DEF IInv, TypeOK, ProcessesAreHeld, registry, workers
<1>6. KillsOnlyOwn' /\ QuietAfterShutdown'
  BY <1>1, <1>3 DEF IInv, TypeOK, KillsOnlyOwn, QuietAfterShutdown, registry, workers
<1>7. QED
  BY <1>2, <1>4, <1>5, <1>6 DEF IInv

-----------------------------------------------------------------------------

\* The invariant is inductive.
LEMMA StepInvariant == IInv /\ [Next]_vars => IInv'
<1> SUFFICES ASSUME IInv, [Next]_vars PROVE IInv'
  OBVIOUS
<1>1. CASE UNCHANGED vars
  BY <1>1 DEF vars, registry, workers, system, IInv, TypeOK, CallsHoldTheirProcess,
     ProcessesAreHeld, KillsOnlyOwn, QuietAfterShutdown
<1>2. ASSUME NEW c \in Call, NEW p \in Pid, Spawn(c, p) PROVE IInv'
  BY <1>2, SpawnKeeps
<1>3. ASSUME NEW c \in Call, SpawnRefused(c) \/ Completes(c) \/ Fails(c) PROVE IInv'
  BY <1>3, WaitKeeps
<1>4. ASSUME NEW c \in Call, DropGroup(c) PROVE IInv'
  BY <1>4, DropGroupKeeps
<1>5. ASSUME NEW c \in Call, Reap(c) PROVE IInv'
  BY <1>5, ReapKeeps
<1>6. CASE Cancel
  BY <1>6, CancelKeeps
<1>7. CASE Resume
  <2>1. UNCHANGED <<groups, workers, system, harmed>> /\ ~closing'
    BY <1>7 DEF Resume
  <2>2. closing' \in BOOLEAN
    BY Zenon, <1>7 DEF Resume
  <2>3. restarts' \in 0..MaxRestarts
    BY <1>7, BackendAssumption DEF Resume, IInv, TypeOK
  <2>4. TypeOK'
    BY <2>1, <2>2, <2>3 DEF IInv, TypeOK, workers, system
  <2>5. CallsHoldTheirProcess' /\ ProcessesAreHeld' /\ KillsOnlyOwn' /\ QuietAfterShutdown'
    BY <2>1 DEF IInv, CallsHoldTheirProcess, ProcessesAreHeld, KillsOnlyOwn,
       QuietAfterShutdown, workers, system
  <2>6. QED
    BY <2>4, <2>5 DEF IInv
<1>8. ASSUME NEW p \in Pid,
             Forks(p) \/ LeaderExits(p) \/ KinEnds(p) \/ ForeignStarts(p) \/ ForeignEnds(p)
      PROVE  IInv'
  BY <1>8, SystemKeeps
<1>9. QED
  BY <1>1, <1>2, <1>3, <1>4, <1>5, <1>6, <1>7, <1>8 DEF Next

\* A call that has returned owns no process: one it owned would be held by it.
LEMMA InvariantSuffices == IInv => BackendsContained
  BY DEF IInv, ProcessesAreHeld, BackendsContained, NothingOutlivesItsCall, Holding

\* For every number of calls, process numbers and restarts: kills reach only
\* groups of our own, a shutdown leaves nothing running, and nothing outlives
\* the call that started it (BackendProcessGroup and its registry).
THEOREM Contained == Spec => []BackendsContained
<1>1. Spec => []IInv
  BY InitInvariant, StepInvariant, PTL DEF Spec
<1>2. QED
  BY <1>1, InvariantSuffices, PTL
=============================================================================
