---------------------------- MODULE DesktopProofs ----------------------------
(***************************************************************************)
(* The parts of the desktop application (Desktop) for any number of        *)
(* processes, conversations, changes, links and requests: the daemon it    *)
(* hosts (DaemonHost), the conversations about a request (ApprovalChat),   *)
(* the changes it resolves (DesktopChanges), the handoffs (DesktopHandoff) *)
(* and its page (DashboardPage).  Each has its own inductive invariant,    *)
(* beside its properties, with the reasons for it; the application only    *)
(* interleaves them, so what holds of each holds of it.                    *)
(***************************************************************************)
EXTENDS Desktop, FiniteSetTheorems, SequencesExt, TLAPS

-----------------------------------------------------------------------------
(* The daemon's hosts                                                      *)

\* Before any launch no process is started, owned or named.
LEMMA HostInit == ASSUME Host!Named, Host!Init PROVE Host!ExitInv /\ Host!StartInv
<1>1. \A p \in Process : process[p] = "off" /\ down[p] = "no" /\ file # p
  BY DEF Host!Init, Host!Named
<1>2. Host!TypeOK
  BY DEF Host!Init, Host!TypeOK, Host!PC, Host!Down
<1>3. Host!NamedOnceWritten /\ Host!EndsInOrder /\ Host!OwnersServe
  BY <1>1 DEF Host!Init, Host!NamedOnceWritten, Host!EndsInOrder, Host!OwnersServe
<1>4. Host!StartInv
  BY <1>1 DEF Host!Init, Host!StartInv, Host!OwnerIsNamed, Host!StartsKnowing
<1>5. QED
  BY <1>2, <1>3, <1>4 DEF Host!ExitInv

\* Every step keeps what an exit relies on.
LEMMA ExitStep == ASSUME Host!Named, Host!ExitInv, [Host!Next]_(Host!vars) PROVE Host!ExitInv'
<1> USE DEF Host!Named, Host!Overruns, Host!DropsFile, Host!KeepsFile
<1>1. Host!TypeOK /\ Host!NamedOnceWritten /\ Host!EndsInOrder /\ Host!OwnersServe
  BY DEF Host!ExitInv
<1>2. ASSUME NEW p \in Process, Host!Launch(p) PROVE Host!ExitInv'
  <2>1. Host!TypeOK'
    BY <1>1, <1>2 DEF Host!Launch, Host!Goto, Host!Launching, Host!TypeOK, Host!PC,
       Host!Down, Host!Starting
  <2>2. Host!NamedOnceWritten'
    BY <1>1, <1>2 DEF Host!Launch, Host!Goto, Host!Launching, Host!TypeOK,
       Host!NamedOnceWritten, Host!OwnersServe, Host!Unwritten
  <2>3. Host!EndsInOrder'
    BY <1>1, <1>2 DEF Host!Launch, Host!Goto, Host!Launching, Host!TypeOK,
       Host!NamedOnceWritten, Host!EndsInOrder,
      Host!OwnersServe, Host!Unwritten
  <2>4. Host!OwnersServe'
    BY <1>1, <1>2 DEF Host!Launch, Host!Goto, Host!Launching, Host!TypeOK, Host!OwnersServe,
       Host!EndsInOrder
  <2>5. QED
    BY <2>1, <2>2, <2>3, <2>4 DEF Host!ExitInv
<1>3. ASSUME NEW p \in Process, Host!Ensure(p) PROVE Host!ExitInv'
  <2>1. Host!TypeOK'
    BY <1>1, <1>3 DEF Host!Ensure, Host!Goto, Host!Launching, Host!Serves, Host!TypeOK,
       Host!PC, Host!Down, Host!Starting
  <2>2. Host!NamedOnceWritten'
    BY <1>1, <1>3 DEF Host!Ensure, Host!Goto, Host!Launching, Host!Serves, Host!TypeOK,
       Host!NamedOnceWritten, Host!OwnersServe,
      Host!Unwritten
  <2>3. Host!EndsInOrder'
    BY <1>1, <1>3 DEF Host!Ensure, Host!Goto, Host!Launching, Host!Serves, Host!TypeOK,
       Host!NamedOnceWritten, Host!EndsInOrder,
      Host!OwnersServe, Host!Unwritten
  <2>4. Host!OwnersServe'
    BY <1>1, <1>3 DEF Host!Ensure, Host!Goto, Host!Launching, Host!Serves, Host!TypeOK,
       Host!OwnersServe, Host!EndsInOrder
  <2>5. QED
    BY <2>1, <2>2, <2>3, <2>4 DEF Host!ExitInv
<1>4. ASSUME NEW p \in Process, Host!RecoverReads(p) PROVE Host!ExitInv'
  <2>1. Host!TypeOK'
    BY <1>1, <1>4 DEF Host!RecoverReads, Host!Goto, Host!Launching, Host!Stale, Host!Alive,
       Host!TypeOK, Host!PC, Host!Down, Host!Starting
  <2>2. Host!NamedOnceWritten'
    BY <1>1, <1>4 DEF Host!RecoverReads, Host!Goto, Host!Launching, Host!Stale, Host!Alive,
       Host!TypeOK, Host!NamedOnceWritten,
      Host!OwnersServe, Host!Unwritten
  <2>3. Host!EndsInOrder'
    BY <1>1, <1>4 DEF Host!RecoverReads, Host!Goto, Host!Launching, Host!Stale, Host!Alive,
       Host!TypeOK, Host!NamedOnceWritten,
      Host!EndsInOrder, Host!OwnersServe, Host!Unwritten
  <2>4. Host!OwnersServe'
    BY <1>1, <1>4 DEF Host!RecoverReads, Host!Goto, Host!Launching, Host!Stale, Host!Alive,
       Host!TypeOK, Host!OwnersServe,
      Host!EndsInOrder
  <2>5. QED
    BY <2>1, <2>2, <2>3, <2>4 DEF Host!ExitInv
<1>5. ASSUME NEW p \in Process, Host!RecoverRemoves(p) PROVE Host!ExitInv'
  <2>1. Host!TypeOK'
    BY <1>1, <1>5 DEF Host!RecoverRemoves, Host!Goto, Host!Launching, Host!TypeOK, Host!PC,
       Host!Down, Host!Starting
  <2>2. Host!NamedOnceWritten'
    BY <1>1, <1>5 DEF Host!RecoverRemoves, Host!Goto, Host!Launching, Host!TypeOK,
       Host!NamedOnceWritten, Host!OwnersServe,
      Host!Unwritten
  <2>3. Host!EndsInOrder'
    BY <1>1, <1>5 DEF Host!RecoverRemoves, Host!Goto, Host!Launching, Host!TypeOK,
       Host!NamedOnceWritten, Host!EndsInOrder,
      Host!OwnersServe, Host!Unwritten
  <2>4. Host!OwnersServe'
    BY <1>1, <1>5 DEF Host!RecoverRemoves, Host!Goto, Host!Launching, Host!TypeOK,
       Host!OwnersServe, Host!EndsInOrder
  <2>5. QED
    BY <2>1, <2>2, <2>3, <2>4 DEF Host!ExitInv
<1>6. ASSUME NEW p \in Process, Host!StartChecks(p) PROVE Host!ExitInv'
  <2>1. Host!TypeOK'
    BY <1>1, <1>6 DEF Host!StartChecks, Host!Goto, Host!Launching, Host!TypeOK, Host!PC,
       Host!Down, Host!Starting
  <2>2. Host!NamedOnceWritten'
    BY <1>1, <1>6 DEF Host!StartChecks, Host!Goto, Host!Launching, Host!TypeOK,
       Host!NamedOnceWritten, Host!OwnersServe,
      Host!Unwritten
  <2>3. Host!EndsInOrder'
    BY <1>1, <1>6 DEF Host!StartChecks, Host!Goto, Host!Launching, Host!TypeOK,
       Host!NamedOnceWritten, Host!EndsInOrder,
      Host!OwnersServe, Host!Unwritten
  <2>4. Host!OwnersServe'
    BY <1>1, <1>6 DEF Host!StartChecks, Host!Goto, Host!Launching, Host!TypeOK,
       Host!OwnersServe, Host!EndsInOrder
  <2>5. QED
    BY <2>1, <2>2, <2>3, <2>4 DEF Host!ExitInv
<1>7. ASSUME NEW p \in Process, Host!WritesState(p) PROVE Host!ExitInv'
  <2>1. Host!TypeOK'
    BY <1>1, <1>7 DEF Host!WritesState, Host!Goto, Host!Launching, Host!Faulty, Host!TypeOK,
       Host!PC, Host!Down, Host!Starting
  <2>2. Host!NamedOnceWritten'
    BY <1>1, <1>7 DEF Host!WritesState, Host!Goto, Host!Launching, Host!Faulty, Host!TypeOK,
       Host!NamedOnceWritten,
      Host!OwnersServe, Host!Unwritten
  <2>3. Host!EndsInOrder'
    BY <1>1, <1>7 DEF Host!WritesState, Host!Goto, Host!Launching, Host!Faulty, Host!TypeOK,
       Host!NamedOnceWritten,
      Host!EndsInOrder, Host!OwnersServe, Host!Unwritten
  <2>4. Host!OwnersServe'
    BY <1>1, <1>7 DEF Host!WritesState, Host!Goto, Host!Launching, Host!Faulty, Host!TypeOK,
       Host!OwnersServe, Host!EndsInOrder
  <2>5. QED
    BY <2>1, <2>2, <2>3, <2>4 DEF Host!ExitInv
<1>8. ASSUME NEW p \in Process, Host!Resumes(p) PROVE Host!ExitInv'
  <2>1. Host!TypeOK'
    BY <1>1, <1>8 DEF Host!Resumes, Host!Goto, Host!Launching, Host!Faulty, Host!TypeOK,
       Host!PC, Host!Down, Host!Starting
  <2>2. Host!NamedOnceWritten'
    BY <1>1, <1>8 DEF Host!Resumes, Host!Goto, Host!Launching, Host!Faulty, Host!TypeOK,
       Host!NamedOnceWritten,
      Host!OwnersServe, Host!Unwritten
  <2>3. Host!EndsInOrder'
    BY <1>1, <1>8 DEF Host!Resumes, Host!Goto, Host!Launching, Host!Faulty, Host!TypeOK,
       Host!NamedOnceWritten,
      Host!EndsInOrder, Host!OwnersServe, Host!Unwritten
  <2>4. Host!OwnersServe'
    BY <1>1, <1>8 DEF Host!Resumes, Host!Goto, Host!Launching, Host!Faulty, Host!TypeOK,
       Host!OwnersServe, Host!EndsInOrder
  <2>5. QED
    BY <2>1, <2>2, <2>3, <2>4 DEF Host!ExitInv
<1>9. ASSUME NEW p \in Process, Host!Setup(p) PROVE Host!ExitInv'
  <2>1. Host!TypeOK'
    BY <1>1, <1>9 DEF Host!Setup, Host!Goto, Host!Faulty, Host!TypeOK, Host!PC, Host!Down,
       Host!Starting
  <2>2. Host!NamedOnceWritten'
    BY <1>1, <1>9 DEF Host!Setup, Host!Goto, Host!Faulty, Host!TypeOK, Host!NamedOnceWritten,
       Host!OwnersServe, Host!Unwritten
  <2>3. Host!EndsInOrder'
    BY <1>1, <1>9 DEF Host!Setup, Host!Goto, Host!Faulty, Host!TypeOK, Host!NamedOnceWritten,
       Host!EndsInOrder,
      Host!OwnersServe, Host!Unwritten
  <2>4. Host!OwnersServe'
    BY <1>1, <1>9 DEF Host!Setup, Host!Goto, Host!Faulty, Host!TypeOK, Host!OwnersServe,
       Host!EndsInOrder
  <2>5. QED
    BY <2>1, <2>2, <2>3, <2>4 DEF Host!ExitInv
<1>10. ASSUME NEW p \in Process, Host!Crash(p) PROVE Host!ExitInv'
  <2>1. Host!TypeOK'
    BY <1>1, <1>10 DEF Host!Crash, Host!Goto, Host!Faulty, Host!Alive, Host!TypeOK, Host!PC,
       Host!Down, Host!Starting
  <2>2. Host!NamedOnceWritten'
    BY <1>1, <1>10 DEF Host!Crash, Host!Goto, Host!Faulty, Host!Alive, Host!TypeOK,
       Host!NamedOnceWritten, Host!OwnersServe,
      Host!Unwritten
  <2>3. Host!EndsInOrder'
    BY <1>1, <1>10 DEF Host!Crash, Host!Goto, Host!Faulty, Host!Alive, Host!TypeOK,
       Host!NamedOnceWritten, Host!EndsInOrder,
      Host!OwnersServe, Host!Unwritten
  <2>4. Host!OwnersServe'
    BY <1>1, <1>10 DEF Host!Crash, Host!Goto, Host!Faulty, Host!Alive, Host!TypeOK,
       Host!OwnersServe, Host!EndsInOrder
  <2>5. QED
    BY <2>1, <2>2, <2>3, <2>4 DEF Host!ExitInv
<1>11. ASSUME NEW p \in Process, Host!ChildStarts(p) PROVE Host!ExitInv'
  <2>1. Host!TypeOK'
    BY <1>1, <1>11 DEF Host!ChildStarts, Host!Ending, Host!Serves, Host!TypeOK, Host!PC,
       Host!Down, Host!Starting
  <2>2. Host!NamedOnceWritten'
    BY <1>1, <1>11 DEF Host!ChildStarts, Host!Ending, Host!Serves, Host!TypeOK,
       Host!NamedOnceWritten, Host!OwnersServe,
      Host!Unwritten
  <2>3. Host!EndsInOrder'
    BY <1>1, <1>11 DEF Host!ChildStarts, Host!Ending, Host!Serves, Host!TypeOK,
       Host!NamedOnceWritten, Host!EndsInOrder,
      Host!OwnersServe, Host!Unwritten
  <2>4. Host!OwnersServe'
    BY <1>1, <1>11 DEF Host!ChildStarts, Host!Ending, Host!Serves, Host!TypeOK,
       Host!OwnersServe, Host!EndsInOrder
  <2>5. QED
    BY <2>1, <2>2, <2>3, <2>4 DEF Host!ExitInv
<1>12. ASSUME NEW p \in Process, Host!Asked(p) PROVE Host!ExitInv'
  <2>1. Host!TypeOK'
    BY <1>1, <1>12 DEF Host!Asked, Host!Ending, Host!TypeOK, Host!PC, Host!Down, Host!Starting
  <2>2. Host!NamedOnceWritten'
    BY <1>1, <1>12 DEF Host!Asked, Host!Ending, Host!TypeOK, Host!NamedOnceWritten,
       Host!OwnersServe, Host!Unwritten
  <2>3. Host!EndsInOrder'
    BY <1>1, <1>12 DEF Host!Asked, Host!Ending, Host!TypeOK, Host!NamedOnceWritten,
       Host!EndsInOrder, Host!OwnersServe,
      Host!Unwritten
  <2>4. Host!OwnersServe'
    BY <1>1, <1>12 DEF Host!Asked, Host!Ending, Host!TypeOK, Host!OwnersServe, Host!EndsInOrder
  <2>5. QED
    BY <2>1, <2>2, <2>3, <2>4 DEF Host!ExitInv
<1>13. ASSUME NEW p \in Process, Host!ShutdownBegins(p) PROVE Host!ExitInv'
  <2>1. Host!TypeOK'
    BY <1>1, <1>13 DEF Host!ShutdownBegins, Host!Ending, Host!TypeOK, Host!PC, Host!Down,
       Host!Starting
  <2>2. Host!NamedOnceWritten'
    BY <1>1, <1>13 DEF Host!ShutdownBegins, Host!Ending, Host!TypeOK, Host!NamedOnceWritten,
       Host!OwnersServe, Host!Unwritten
  <2>3. Host!EndsInOrder'
    BY <1>1, <1>13 DEF Host!ShutdownBegins, Host!Ending, Host!TypeOK, Host!NamedOnceWritten,
       Host!EndsInOrder,
      Host!OwnersServe, Host!Unwritten
  <2>4. Host!OwnersServe'
    BY <1>1, <1>13 DEF Host!ShutdownBegins, Host!Ending, Host!TypeOK, Host!OwnersServe,
       Host!EndsInOrder
  <2>5. QED
    BY <2>1, <2>2, <2>3, <2>4 DEF Host!ExitInv
<1>14. ASSUME NEW p \in Process, Host!Drains(p) PROVE Host!ExitInv'
  <2>1. Host!TypeOK'
    BY <1>1, <1>14 DEF Host!Drains, Host!Ending, Host!TypeOK, Host!PC, Host!Down, Host!Starting
  <2>2. Host!NamedOnceWritten'
    BY <1>1, <1>14 DEF Host!Drains, Host!Ending, Host!TypeOK, Host!NamedOnceWritten,
       Host!OwnersServe, Host!Unwritten
  <2>3. Host!EndsInOrder'
    BY <1>1, <1>14 DEF Host!Drains, Host!Ending, Host!TypeOK, Host!NamedOnceWritten,
       Host!EndsInOrder, Host!OwnersServe,
      Host!Unwritten
  <2>4. Host!OwnersServe'
    BY <1>1, <1>14 DEF Host!Drains, Host!Ending, Host!TypeOK, Host!OwnersServe,
       Host!EndsInOrder
  <2>5. QED
    BY <2>1, <2>2, <2>3, <2>4 DEF Host!ExitInv
<1>15. ASSUME NEW p \in Process, Host!RemovesState(p) PROVE Host!ExitInv'
  <2>1. Host!TypeOK'
    BY <1>1, <1>15 DEF Host!RemovesState, Host!Faulty, Host!TypeOK, Host!PC, Host!Down,
       Host!Starting
  <2>2. Host!NamedOnceWritten'
    BY <1>1, <1>15 DEF Host!RemovesState, Host!Faulty, Host!TypeOK, Host!NamedOnceWritten,
       Host!OwnersServe, Host!Unwritten
  <2>3. Host!EndsInOrder'
    BY <1>1, <1>15 DEF Host!RemovesState, Host!Faulty, Host!TypeOK, Host!NamedOnceWritten,
       Host!EndsInOrder,
      Host!OwnersServe, Host!Unwritten
  <2>4. Host!OwnersServe'
    BY <1>1, <1>15 DEF Host!RemovesState, Host!Faulty, Host!TypeOK, Host!OwnersServe,
       Host!EndsInOrder
  <2>5. QED
    BY <2>1, <2>2, <2>3, <2>4 DEF Host!ExitInv
<1>16. ASSUME NEW p \in Process, Host!TimesOut(p) PROVE Host!ExitInv'
  <2>1. Host!TypeOK'
    BY <1>1, <1>16 DEF Host!TimesOut, Host!Ending, Host!TypeOK, Host!PC, Host!Down,
       Host!Starting
  <2>2. Host!NamedOnceWritten'
    BY <1>1, <1>16 DEF Host!TimesOut, Host!Ending, Host!TypeOK, Host!NamedOnceWritten,
       Host!OwnersServe, Host!Unwritten
  <2>3. Host!EndsInOrder'
    BY <1>1, <1>16 DEF Host!TimesOut, Host!Ending, Host!TypeOK, Host!NamedOnceWritten,
       Host!EndsInOrder, Host!OwnersServe,
      Host!Unwritten
  <2>4. Host!OwnersServe'
    BY <1>1, <1>16 DEF Host!TimesOut, Host!Ending, Host!TypeOK, Host!OwnersServe,
       Host!EndsInOrder
  <2>5. QED
    BY <2>1, <2>2, <2>3, <2>4 DEF Host!ExitInv
<1>17. ASSUME NEW p \in Process, Host!Exits(p) PROVE Host!ExitInv'
  <2>1. Host!TypeOK'
    BY <1>1, <1>17 DEF Host!Exits, Host!Goto, Host!MayExit, Host!TypeOK, Host!PC, Host!Down,
       Host!Starting
  <2>2. Host!NamedOnceWritten'
    BY <1>1, <1>17 DEF Host!Exits, Host!Goto, Host!MayExit, Host!TypeOK,
       Host!NamedOnceWritten, Host!OwnersServe, Host!Unwritten
  <2>3. Host!EndsInOrder'
    BY <1>1, <1>17 DEF Host!Exits, Host!Goto, Host!MayExit, Host!TypeOK,
       Host!NamedOnceWritten, Host!EndsInOrder,
      Host!OwnersServe, Host!Unwritten
  <2>4. Host!OwnersServe'
    BY <1>1, <1>17 DEF Host!Exits, Host!Goto, Host!MayExit, Host!TypeOK, Host!OwnersServe,
       Host!EndsInOrder
  <2>5. QED
    BY <2>1, <2>2, <2>3, <2>4 DEF Host!ExitInv
<1>18. CASE UNCHANGED Host!vars
  BY <1>1, <1>18 DEF Host!vars, Host!ExitInv, Host!TypeOK, Host!NamedOnceWritten,
     Host!EndsInOrder, Host!OwnersServe
<1>19. QED
  BY <1>2, <1>3, <1>4, <1>5, <1>6, <1>7, <1>8, <1>9, <1>10, <1>11, <1>12, <1>13, <1>14,
     <1>15, <1>16, <1>17, <1>18 DEF Host!Next

\* Every step keeps whoever has the daemon named by the file, unless it was overrun.
LEMMA StartStep ==
  ASSUME Host!Named, Host!ExitInv, Host!StartInv, [Host!Next]_(Host!vars)
  PROVE  Host!StartInv'
<1> USE DEF Host!Named, Host!Overruns, Host!DropsFile, Host!KeepsFile, Host!Goto, Host!Stale,
            Host!Alive, Host!Starting
<1>1. Host!TypeOK /\ Host!NamedOnceWritten /\ Host!EndsInOrder /\ Host!OwnersServe
  BY DEF Host!ExitInv
<1>2. Host!OwnerIsNamed /\ Host!StartsKnowing
  BY DEF Host!StartInv
<1>3. ASSUME NEW p \in Process, Host!Launch(p) PROVE Host!StartInv'
  <2>1. Host!OwnerIsNamed'
    BY <1>1, <1>2, <1>3 DEF Host!Launch, Host!Launching, Host!TypeOK, Host!OwnerIsNamed,
       Host!OwnersServe, Host!StartsKnowing
  <2>2. Host!StartsKnowing'
    BY <1>1, <1>2, <1>3 DEF Host!Launch, Host!Launching, Host!TypeOK, Host!StartsKnowing
  <2>3. QED
    BY <2>1, <2>2 DEF Host!StartInv
<1>4. ASSUME NEW p \in Process, Host!Ensure(p) PROVE Host!StartInv'
  <2>1. Host!OwnerIsNamed'
    BY <1>1, <1>2, <1>4 DEF Host!Ensure, Host!Launching, Host!TypeOK, Host!OwnerIsNamed,
       Host!OwnersServe, Host!StartsKnowing
  <2>2. Host!StartsKnowing'
    BY <1>1, <1>2, <1>4 DEF Host!Ensure, Host!Launching, Host!TypeOK, Host!StartsKnowing
  <2>3. QED
    BY <2>1, <2>2 DEF Host!StartInv
<1>5. ASSUME NEW p \in Process, Host!RecoverReads(p) PROVE Host!StartInv'
  <2>1. Host!OwnerIsNamed'
    BY <1>1, <1>2, <1>5 DEF Host!RecoverReads, Host!Launching, Host!TypeOK, Host!OwnerIsNamed,
       Host!OwnersServe, Host!StartsKnowing
  <2>2. Host!StartsKnowing'
    BY <1>1, <1>2, <1>5 DEF Host!RecoverReads, Host!Launching, Host!TypeOK, Host!StartsKnowing,
       Host!NamedOnceWritten, Host!Unwritten
  <2>3. QED
    BY <2>1, <2>2 DEF Host!StartInv
<1>6. ASSUME NEW p \in Process, Host!RecoverRemoves(p) PROVE Host!StartInv'
  <2>1. Host!OwnerIsNamed'
    BY <1>1, <1>2, <1>6 DEF Host!RecoverRemoves, Host!Launching, Host!TypeOK, Host!OwnerIsNamed,
       Host!OwnersServe, Host!StartsKnowing
  <2>2. Host!StartsKnowing'
    BY <1>1, <1>2, <1>6 DEF Host!RecoverRemoves, Host!Launching, Host!TypeOK, Host!StartsKnowing
  <2>3. QED
    BY <2>1, <2>2 DEF Host!StartInv
<1>7. ASSUME NEW p \in Process, Host!StartChecks(p) PROVE Host!StartInv'
  <2>1. Host!OwnerIsNamed'
    BY <1>1, <1>2, <1>7 DEF Host!StartChecks, Host!Launching, Host!TypeOK, Host!OwnerIsNamed,
       Host!OwnersServe, Host!StartsKnowing
  <2>2. Host!StartsKnowing'
    BY <1>1, <1>2, <1>7 DEF Host!StartChecks, Host!Launching, Host!TypeOK, Host!StartsKnowing
  <2>3. QED
    BY <2>1, <2>2 DEF Host!StartInv
<1>8. ASSUME NEW p \in Process, Host!WritesState(p) PROVE Host!StartInv'
  <2>1. Host!OwnerIsNamed'
    BY <1>1, <1>2, <1>8 DEF Host!WritesState, Host!Launching, Host!TypeOK, Host!OwnerIsNamed,
       Host!OwnersServe, Host!StartsKnowing
  <2>2. Host!StartsKnowing'
    BY <1>1, <1>2, <1>8 DEF Host!WritesState, Host!Launching, Host!TypeOK, Host!StartsKnowing
  <2>3. QED
    BY <2>1, <2>2 DEF Host!StartInv
<1>9. ASSUME NEW p \in Process, Host!Resumes(p) PROVE Host!StartInv'
  <2>1. Host!OwnerIsNamed'
    BY <1>1, <1>2, <1>9 DEF Host!Resumes, Host!Launching, Host!TypeOK, Host!OwnerIsNamed,
       Host!OwnersServe, Host!StartsKnowing
  <2>2. Host!StartsKnowing'
    BY <1>1, <1>2, <1>9 DEF Host!Resumes, Host!Launching, Host!TypeOK, Host!StartsKnowing
  <2>3. QED
    BY <2>1, <2>2 DEF Host!StartInv
<1>10. ASSUME NEW p \in Process, Host!Setup(p) PROVE Host!StartInv'
  <2>1. Host!OwnerIsNamed'
    BY <1>1, <1>2, <1>10 DEF Host!Setup, Host!TypeOK, Host!OwnerIsNamed,
       Host!OwnersServe, Host!StartsKnowing
  <2>2. Host!StartsKnowing'
    BY <1>1, <1>2, <1>10 DEF Host!Setup, Host!TypeOK, Host!StartsKnowing
  <2>3. QED
    BY <2>1, <2>2 DEF Host!StartInv
<1>11. ASSUME NEW p \in Process, Host!Crash(p) PROVE Host!StartInv'
  <2>1. Host!OwnerIsNamed'
    BY <1>1, <1>2, <1>11 DEF Host!Crash, Host!TypeOK, Host!OwnerIsNamed,
       Host!OwnersServe, Host!StartsKnowing
  <2>2. Host!StartsKnowing'
    BY <1>1, <1>2, <1>11 DEF Host!Crash, Host!TypeOK, Host!StartsKnowing
  <2>3. QED
    BY <2>1, <2>2 DEF Host!StartInv
<1>12. ASSUME NEW p \in Process, Host!ChildStarts(p) PROVE Host!StartInv'
  <2>1. Host!OwnerIsNamed'
    BY <1>1, <1>2, <1>12 DEF Host!ChildStarts, Host!Ending, Host!TypeOK, Host!OwnerIsNamed,
       Host!OwnersServe, Host!StartsKnowing
  <2>2. Host!StartsKnowing'
    BY <1>1, <1>2, <1>12 DEF Host!ChildStarts, Host!Ending, Host!TypeOK, Host!StartsKnowing
  <2>3. QED
    BY <2>1, <2>2 DEF Host!StartInv
<1>13. ASSUME NEW p \in Process, Host!Asked(p) PROVE Host!StartInv'
  <2>1. Host!OwnerIsNamed'
    BY <1>1, <1>2, <1>13 DEF Host!Asked, Host!Ending, Host!TypeOK, Host!OwnerIsNamed,
       Host!OwnersServe, Host!StartsKnowing
  <2>2. Host!StartsKnowing'
    BY <1>1, <1>2, <1>13 DEF Host!Asked, Host!Ending, Host!TypeOK, Host!StartsKnowing
  <2>3. QED
    BY <2>1, <2>2 DEF Host!StartInv
<1>14. ASSUME NEW p \in Process, Host!ShutdownBegins(p) PROVE Host!StartInv'
  <2>1. Host!OwnerIsNamed'
    BY <1>1, <1>2, <1>14 DEF Host!ShutdownBegins, Host!Ending, Host!TypeOK, Host!OwnerIsNamed,
       Host!OwnersServe, Host!StartsKnowing
  <2>2. Host!StartsKnowing'
    BY <1>1, <1>2, <1>14 DEF Host!ShutdownBegins, Host!Ending, Host!TypeOK, Host!StartsKnowing
  <2>3. QED
    BY <2>1, <2>2 DEF Host!StartInv
<1>15. ASSUME NEW p \in Process, Host!Drains(p) PROVE Host!StartInv'
  <2>1. Host!OwnerIsNamed'
    BY <1>1, <1>2, <1>15 DEF Host!Drains, Host!Ending, Host!TypeOK, Host!OwnerIsNamed,
       Host!OwnersServe, Host!StartsKnowing
  <2>2. Host!StartsKnowing'
    BY <1>1, <1>2, <1>15 DEF Host!Drains, Host!Ending, Host!TypeOK, Host!StartsKnowing
  <2>3. QED
    BY <2>1, <2>2 DEF Host!StartInv
<1>16. ASSUME NEW p \in Process, Host!RemovesState(p) PROVE Host!StartInv'
  <2>1. Host!OwnerIsNamed'
    BY <1>1, <1>2, <1>16 DEF Host!RemovesState, Host!TypeOK, Host!OwnerIsNamed,
       Host!EndsInOrder
  <2>2. Host!StartsKnowing'
    BY <1>1, <1>2, <1>16 DEF Host!RemovesState, Host!TypeOK, Host!StartsKnowing
  <2>3. QED
    BY <2>1, <2>2 DEF Host!StartInv
<1>17. ASSUME NEW p \in Process, Host!TimesOut(p) PROVE Host!StartInv'
  <2>1. Host!OwnerIsNamed'
    BY <1>1, <1>2, <1>17 DEF Host!TimesOut, Host!Ending, Host!TypeOK, Host!OwnerIsNamed,
       Host!EndsInOrder
  <2>2. Host!StartsKnowing'
    BY <1>1, <1>2, <1>17 DEF Host!TimesOut, Host!Ending, Host!TypeOK, Host!StartsKnowing
  <2>3. QED
    BY <2>1, <2>2 DEF Host!StartInv
<1>18. ASSUME NEW p \in Process, Host!Exits(p) PROVE Host!StartInv'
  <2>1. Host!OwnerIsNamed'
    BY <1>1, <1>2, <1>18 DEF Host!Exits, Host!TypeOK, Host!OwnerIsNamed,
       Host!OwnersServe, Host!StartsKnowing
  <2>2. Host!StartsKnowing'
    BY <1>1, <1>2, <1>18 DEF Host!Exits, Host!TypeOK, Host!StartsKnowing
  <2>3. QED
    BY <2>1, <2>2 DEF Host!StartInv
<1>19. CASE UNCHANGED Host!vars
  BY <1>2, <1>19 DEF Host!vars, Host!StartInv, Host!OwnerIsNamed, Host!StartsKnowing
<1>20. QED
  BY <1>3, <1>4, <1>5, <1>6, <1>7, <1>8, <1>9, <1>10, <1>11, <1>12, <1>13, <1>14, <1>15,
     <1>16, <1>17, <1>18, <1>19 DEF Host!Next

\* A process that quits or restarts leaves no command behind, and no state file that
\* names it unless the file could not be removed, also when starts overlap.
LEMMA EndsCleanly == ASSUME Host!Named PROVE Host!Spec => []Host!ExitIsClean
<1>1. Host!ExitInv => Host!ExitIsClean
  BY DEF Host!ExitInv, Host!EndsInOrder, Host!ExitIsClean
<1>2. QED
  BY <1>1, HostInit, ExitStep, PTL DEF Host!Spec

\* The state file names the process that serves, so at most one that no race overran
\* does, and it ends cleanly: whatever crashed, and wherever a shutdown was.
LEMMA OneServes == ASSUME Host!Named PROVE Host!Spec => []Host!OneDaemonExitsCleanly
<1>1. Host!ExitInv /\ Host!StartInv => Host!OneDaemonExitsCleanly
  BY DEF Host!ExitInv, Host!StartInv, Host!OwnerIsNamed, Host!EndsInOrder,
     Host!OneDaemonExitsCleanly, Host!OneDaemon,
     Host!ExitIsClean, Host!Serves
<1>2. QED
  BY <1>1, HostInit, ExitStep, StartStep, PTL DEF Host!Spec

-----------------------------------------------------------------------------
(* The conversations                                                       *)

\* Before the first message no conversation has a turn.
LEMMA ChatsInit == Chats!Init => Chats!IInv
  BY DEF Chats!Init, Chats!IInv, Chats!TypeOK, Chats!OwnedByCanceller, Chats!OpenIsLatest,
     Chats!OwnersAreLatest, Chats!SavedIsSettled,
     Chats!State, Chats!PC, Chats!Busy, Chats!Owners, Chats!Of, Chats!IdleHandler

\* Every step keeps the one owner, and its messages the last ones.
LEMMA ChatsInductive == ASSUME ~LateFailures, Chats!IInv, [Chats!Next]_(Chats!vars)
                        PROVE  Chats!IInv'
<1>1. /\ Chats!TypeOK /\ Chats!OwnedByCanceller /\ Chats!OpenIsLatest
      /\ Chats!OwnersAreLatest /\ Chats!SavedIsSettled
  BY DEF Chats!IInv
<1>2. ASSUME NEW h \in Handler, Chats!WaitReady(h) PROVE Chats!IInv'
  <2>1. Chats!TypeOK'
    BY <1>1, <1>2 DEF Chats!WaitReady, Chats!Goes, Chats!chat, Chats!request, Chats!TypeOK,
       Chats!State, Chats!PC, Chats!IdleHandler
  <2>2. Chats!OwnedByCanceller'
    BY <1>1, <1>2 DEF Chats!WaitReady, Chats!Goes, Chats!chat, Chats!request, Chats!TypeOK,
       Chats!PC, Chats!OwnedByCanceller, Chats!Owners,
      Chats!Of, Chats!Busy, Chats!IdleHandler
  <2>3. Chats!OpenIsLatest'
    BY <1>1, <1>2 DEF Chats!WaitReady, Chats!Goes, Chats!chat, Chats!request, Chats!TypeOK,
       Chats!PC, Chats!OwnedByCanceller,
      Chats!OpenIsLatest, Chats!OwnersAreLatest, Chats!Owners, Chats!Of, Chats!Busy
  <2>4. Chats!OwnersAreLatest'
    BY <1>1, <1>2 DEF Chats!WaitReady, Chats!Goes, Chats!chat, Chats!request, Chats!TypeOK,
       Chats!PC, Chats!OwnedByCanceller,
      Chats!OwnersAreLatest, Chats!Owners, Chats!Of, Chats!Busy, Chats!IdleHandler
  <2>5. Chats!SavedIsSettled'
    BY <1>1, <1>2, <2>1, <2>3 DEF Chats!WaitReady, Chats!Goes, Chats!chat, Chats!request,
       Chats!TypeOK, Chats!OpenIsLatest,
      Chats!SavedIsSettled, Chats!Busy
  <2>6. QED
    BY <2>1, <2>2, <2>3, <2>4, <2>5 DEF Chats!IInv
<1>3. ASSUME NEW h \in Handler, Chats!WaitTimesOut(h) PROVE Chats!IInv'
  <2>1. Chats!TypeOK'
    BY <1>1, <1>3 DEF Chats!WaitTimesOut, Chats!FailsChat, Chats!Closes, Chats!Saves,
       Chats!Goes, Chats!Of, Chats!chat, Chats!request,
      Chats!TypeOK, Chats!State, Chats!PC, Chats!IdleHandler
  <2>2. Chats!OwnedByCanceller'
    BY <1>1, <1>3 DEF Chats!WaitTimesOut, Chats!FailsChat, Chats!Closes, Chats!Saves,
       Chats!Goes, Chats!Of, Chats!chat, Chats!request,
      Chats!TypeOK, Chats!PC, Chats!OwnedByCanceller, Chats!Owners, Chats!Busy,
      Chats!IdleHandler
  <2>3. Chats!OpenIsLatest'
    BY <1>1, <1>3 DEF Chats!WaitTimesOut, Chats!FailsChat, Chats!Closes, Chats!Saves,
       Chats!Goes, Chats!Of, Chats!chat, Chats!request,
      Chats!TypeOK, Chats!PC, Chats!OwnedByCanceller, Chats!OpenIsLatest,
      Chats!OwnersAreLatest, Chats!Owners, Chats!Busy
  <2>4. Chats!OwnersAreLatest'
    BY <1>1, <1>3 DEF Chats!WaitTimesOut, Chats!FailsChat, Chats!Closes, Chats!Saves,
       Chats!Goes, Chats!Of, Chats!chat, Chats!request,
      Chats!TypeOK, Chats!PC, Chats!OwnedByCanceller, Chats!OwnersAreLatest, Chats!Owners,
      Chats!Busy, Chats!IdleHandler
  <2>5. Chats!SavedIsSettled'
    BY <1>1, <1>3, <2>1, <2>3 DEF Chats!WaitTimesOut, Chats!FailsChat, Chats!Closes,
       Chats!Saves, Chats!Goes, Chats!Of, Chats!chat,
      Chats!request, Chats!TypeOK, Chats!OpenIsLatest, Chats!SavedIsSettled, Chats!Busy
  <2>6. QED
    BY <2>1, <2>2, <2>3, <2>4, <2>5 DEF Chats!IInv
<1>4. ASSUME NEW h \in Handler, Chats!StartQueued(h) PROVE Chats!IInv'
  <2>1. Chats!TypeOK'
    BY <1>1, <1>4 DEF Chats!StartQueued, Chats!MaySave, Chats!Saves, Chats!Goes, Chats!Of,
       Chats!chat, Chats!request, Chats!TypeOK, Chats!State,
      Chats!PC, Chats!IdleHandler
  <2>2. Chats!OwnedByCanceller'
    BY <1>1, <1>4 DEF Chats!StartQueued, Chats!MaySave, Chats!Saves, Chats!Goes, Chats!Of,
       Chats!chat, Chats!request, Chats!TypeOK, Chats!PC,
      Chats!OwnedByCanceller, Chats!Owners, Chats!Busy, Chats!IdleHandler
  <2>3. Chats!OpenIsLatest'
    BY <1>1, <1>4 DEF Chats!StartQueued, Chats!MaySave, Chats!Saves, Chats!Goes, Chats!Of,
       Chats!chat, Chats!request, Chats!TypeOK, Chats!PC,
      Chats!OwnedByCanceller, Chats!OpenIsLatest, Chats!OwnersAreLatest, Chats!Owners,
      Chats!Busy
  <2>4. Chats!OwnersAreLatest'
    BY <1>1, <1>4 DEF Chats!StartQueued, Chats!MaySave, Chats!Saves, Chats!Goes, Chats!Of,
       Chats!chat, Chats!request, Chats!TypeOK, Chats!PC,
      Chats!OwnedByCanceller, Chats!OwnersAreLatest, Chats!Owners, Chats!Busy,
      Chats!IdleHandler
  <2>5. Chats!SavedIsSettled'
    BY <1>1, <1>4, <2>1, <2>3 DEF Chats!StartQueued, Chats!MaySave, Chats!Saves, Chats!Goes,
       Chats!Of, Chats!chat, Chats!request,
      Chats!TypeOK, Chats!OpenIsLatest, Chats!SavedIsSettled, Chats!Busy
  <2>6. QED
    BY <2>1, <2>2, <2>3, <2>4, <2>5 DEF Chats!IInv
<1>5. ASSUME NEW h \in Handler, Chats!StartRefused(h) PROVE Chats!IInv'
  <2>1. Chats!TypeOK'
    BY <1>1, <1>5 DEF Chats!StartRefused, Chats!FailsTurn, Chats!FailsChat, Chats!Closes,
       Chats!Saves, Chats!Ends, Chats!Of, Chats!chat,
      Chats!request, Chats!TypeOK, Chats!State, Chats!PC, Chats!IdleHandler
  <2>2. Chats!OwnedByCanceller'
    BY <1>1, <1>5 DEF Chats!StartRefused, Chats!FailsTurn, Chats!FailsChat, Chats!Closes,
       Chats!Saves, Chats!Ends, Chats!Of, Chats!chat,
      Chats!request, Chats!TypeOK, Chats!PC, Chats!OwnedByCanceller, Chats!Owners,
      Chats!Busy, Chats!IdleHandler
  <2>3. Chats!OpenIsLatest'
    BY <1>1, <1>5 DEF Chats!StartRefused, Chats!FailsTurn, Chats!FailsChat, Chats!Closes,
       Chats!Saves, Chats!Ends, Chats!Of, Chats!chat,
      Chats!request, Chats!TypeOK, Chats!PC, Chats!OwnedByCanceller, Chats!OpenIsLatest,
      Chats!OwnersAreLatest, Chats!Owners, Chats!Busy
  <2>4. Chats!OwnersAreLatest'
    BY <1>1, <1>5 DEF Chats!StartRefused, Chats!FailsTurn, Chats!FailsChat, Chats!Closes,
       Chats!Saves, Chats!Ends, Chats!Of, Chats!chat,
      Chats!request, Chats!TypeOK, Chats!PC, Chats!OwnedByCanceller, Chats!OwnersAreLatest,
      Chats!Owners, Chats!Busy, Chats!IdleHandler
  <2>5. Chats!SavedIsSettled'
    BY <1>1, <1>5, <2>1, <2>3 DEF Chats!StartRefused, Chats!FailsTurn, Chats!FailsChat,
       Chats!Closes, Chats!Saves, Chats!Ends,
      Chats!Of, Chats!chat, Chats!request, Chats!TypeOK, Chats!OpenIsLatest,
      Chats!SavedIsSettled, Chats!Busy
  <2>6. QED
    BY <2>1, <2>2, <2>3, <2>4, <2>5 DEF Chats!IInv
<1>6. ASSUME NEW h \in Handler, Chats!Cancelled(h) PROVE Chats!IInv'
  <2>1. Chats!TypeOK'
    <3>1. /\ state' = [state EXCEPT ![Chats!Of(h)] = "idle"]
          /\ open' = [open EXCEPT ![Chats!Of(h)] = {}]
          /\ cancel' = [cancel EXCEPT ![Chats!Of(h)] = NoHandler] /\ UNCHANGED <<latest, turns>>
          /\ history' = [c \in Chat |-> [state |-> state'[c], open |-> open'[c]]]
          /\ handler' = [handler EXCEPT ![h].pc = "settle"] /\ handler[h].pc # "none"
      BY <1>6 DEF Chats!Cancelled, Chats!Stopped, Chats!Closes, Chats!Saves, Chats!Goes,
         Chats!chat
    <3>2. state' \in [Chat -> Chats!State] /\ open' \in [Chat -> SUBSET Nat]
      BY <1>1, <3>1 DEF Chats!TypeOK, Chats!State
    <3>3. history' \in [Chat -> [state : Chats!State, open : SUBSET Nat]]
      BY <3>1, <3>2
    <3>4. handler' \in [Handler -> [pc : Chats!PC, chat : Chat \cup {NoHandler},
                                    cancelled : BOOLEAN, turn : Nat]]
      BY <1>1, <3>1 DEF Chats!TypeOK, Chats!PC
    <3>5. \A x \in Handler : handler'[x].pc # "none" => handler'[x].chat \in Chat
      BY <1>1, <3>1 DEF Chats!TypeOK
    <3>6. QED
      BY <1>1, <3>1, <3>2, <3>3, <3>4, <3>5 DEF Chats!TypeOK
  <2>2. Chats!OwnedByCanceller'
    BY <1>1, <1>6 DEF Chats!Cancelled, Chats!Stopped, Chats!Closes, Chats!Saves, Chats!Goes,
       Chats!Of, Chats!chat, Chats!request, Chats!TypeOK, Chats!PC,
      Chats!OwnedByCanceller, Chats!Owners, Chats!Busy, Chats!IdleHandler
  <2>3. Chats!OpenIsLatest'
    BY <1>1, <1>6 DEF Chats!Cancelled, Chats!Stopped, Chats!Closes, Chats!Saves, Chats!Goes,
       Chats!Of, Chats!chat, Chats!request, Chats!TypeOK, Chats!PC,
      Chats!OwnedByCanceller, Chats!OpenIsLatest, Chats!OwnersAreLatest, Chats!Owners,
      Chats!Busy
  <2>4. Chats!OwnersAreLatest'
    BY <1>1, <1>6 DEF Chats!Cancelled, Chats!Stopped, Chats!Closes, Chats!Saves, Chats!Goes,
       Chats!Of, Chats!chat, Chats!request, Chats!TypeOK, Chats!PC,
      Chats!OwnedByCanceller, Chats!OwnersAreLatest, Chats!Owners, Chats!Busy,
      Chats!IdleHandler
  <2>5. Chats!SavedIsSettled'
    BY <1>1, <1>6, <2>1, <2>3 DEF Chats!Cancelled, Chats!Stopped, Chats!Closes, Chats!Saves,
       Chats!Goes, Chats!Of, Chats!chat, Chats!request,
      Chats!TypeOK, Chats!OpenIsLatest, Chats!SavedIsSettled, Chats!Busy
  <2>6. QED
    BY <2>1, <2>2, <2>3, <2>4, <2>5 DEF Chats!IInv
<1>7. ASSUME NEW h \in Handler, Chats!Connect(h) PROVE Chats!IInv'
  <2>1. Chats!TypeOK'
    BY <1>1, <1>7 DEF Chats!Connect, Chats!Goes, Chats!chat, Chats!request, Chats!TypeOK,
       Chats!State, Chats!PC, Chats!IdleHandler
  <2>2. Chats!OwnedByCanceller'
    BY <1>1, <1>7 DEF Chats!Connect, Chats!Goes, Chats!chat, Chats!request, Chats!TypeOK,
       Chats!PC, Chats!OwnedByCanceller, Chats!Owners, Chats!Of,
      Chats!Busy, Chats!IdleHandler
  <2>3. Chats!OpenIsLatest'
    BY <1>1, <1>7 DEF Chats!Connect, Chats!Goes, Chats!chat, Chats!request, Chats!TypeOK,
       Chats!PC, Chats!OwnedByCanceller,
      Chats!OpenIsLatest, Chats!OwnersAreLatest, Chats!Owners, Chats!Of, Chats!Busy
  <2>4. Chats!OwnersAreLatest'
    BY <1>1, <1>7 DEF Chats!Connect, Chats!Goes, Chats!chat, Chats!request, Chats!TypeOK,
       Chats!PC, Chats!OwnedByCanceller,
      Chats!OwnersAreLatest, Chats!Owners, Chats!Of, Chats!Busy, Chats!IdleHandler
  <2>5. Chats!SavedIsSettled'
    BY <1>1, <1>7, <2>1, <2>3 DEF Chats!Connect, Chats!Goes, Chats!chat, Chats!request,
       Chats!TypeOK, Chats!OpenIsLatest,
      Chats!SavedIsSettled, Chats!Busy
  <2>6. QED
    BY <2>1, <2>2, <2>3, <2>4, <2>5 DEF Chats!IInv
<1>8. ASSUME NEW h \in Handler, Chats!Streams(h) PROVE Chats!IInv'
  <2>1. Chats!TypeOK'
    BY <1>1, <1>8 DEF Chats!Streams, Chats!MaySave, Chats!Saves, Chats!Of, Chats!chat,
       Chats!request, Chats!TypeOK, Chats!State, Chats!PC,
      Chats!IdleHandler
  <2>2. Chats!OwnedByCanceller'
    BY <1>1, <1>8 DEF Chats!Streams, Chats!MaySave, Chats!Saves, Chats!Of, Chats!chat,
       Chats!request, Chats!TypeOK, Chats!PC,
      Chats!OwnedByCanceller, Chats!Owners, Chats!Busy, Chats!IdleHandler
  <2>3. Chats!OpenIsLatest'
    BY <1>1, <1>8 DEF Chats!Streams, Chats!MaySave, Chats!Saves, Chats!Of, Chats!chat,
       Chats!request, Chats!TypeOK, Chats!PC,
      Chats!OwnedByCanceller, Chats!OpenIsLatest, Chats!OwnersAreLatest, Chats!Owners,
      Chats!Busy
  <2>4. Chats!OwnersAreLatest'
    BY <1>1, <1>8 DEF Chats!Streams, Chats!MaySave, Chats!Saves, Chats!Of, Chats!chat,
       Chats!request, Chats!TypeOK, Chats!PC,
      Chats!OwnedByCanceller, Chats!OwnersAreLatest, Chats!Owners, Chats!Busy,
      Chats!IdleHandler
  <2>5. Chats!SavedIsSettled'
    <3>1. Chats!Saves \/ UNCHANGED history
      BY <1>8 DEF Chats!Streams, Chats!MaySave
    <3>2. UNCHANGED state
      BY <1>8 DEF Chats!Streams
    <3>3. CASE Chats!Saves
      BY <2>3, <3>3 DEF Chats!Saves, Chats!OpenIsLatest, Chats!SavedIsSettled
    <3>4. CASE UNCHANGED history
      BY <1>1, <3>4 DEF Chats!SavedIsSettled
    <3>5. QED
      BY <3>1, <3>3, <3>4
  <2>6. QED
    BY <2>1, <2>2, <2>3, <2>4, <2>5 DEF Chats!IInv
<1>9. ASSUME NEW h \in Handler, Chats!EventsEnd(h) PROVE Chats!IInv'
  <2>1. Chats!TypeOK'
    BY <1>1, <1>9 DEF Chats!EventsEnd, Chats!Goes, Chats!chat, Chats!request, Chats!TypeOK,
       Chats!State, Chats!PC, Chats!IdleHandler
  <2>2. Chats!OwnedByCanceller'
    BY <1>1, <1>9 DEF Chats!EventsEnd, Chats!Goes, Chats!chat, Chats!request, Chats!TypeOK,
       Chats!PC, Chats!OwnedByCanceller, Chats!Owners,
      Chats!Of, Chats!Busy, Chats!IdleHandler
  <2>3. Chats!OpenIsLatest'
    BY <1>1, <1>9 DEF Chats!EventsEnd, Chats!Goes, Chats!chat, Chats!request, Chats!TypeOK,
       Chats!PC, Chats!OwnedByCanceller,
      Chats!OpenIsLatest, Chats!OwnersAreLatest, Chats!Owners, Chats!Of, Chats!Busy
  <2>4. Chats!OwnersAreLatest'
    BY <1>1, <1>9 DEF Chats!EventsEnd, Chats!Goes, Chats!chat, Chats!request, Chats!TypeOK,
       Chats!PC, Chats!OwnedByCanceller,
      Chats!OwnersAreLatest, Chats!Owners, Chats!Of, Chats!Busy, Chats!IdleHandler
  <2>5. Chats!SavedIsSettled'
    BY <1>1, <1>9, <2>1, <2>3 DEF Chats!EventsEnd, Chats!Goes, Chats!chat, Chats!request,
       Chats!TypeOK, Chats!OpenIsLatest,
      Chats!SavedIsSettled, Chats!Busy
  <2>6. QED
    BY <2>1, <2>2, <2>3, <2>4, <2>5 DEF Chats!IInv
<1>10. ASSUME NEW h \in Handler, Chats!Complete(h) PROVE Chats!IInv'
  <2>1. Chats!TypeOK'
    BY <1>1, <1>10 DEF Chats!Complete, Chats!Completes, Chats!Closes, Chats!Saves,
       Chats!Goes, Chats!Of, Chats!chat, Chats!request, Chats!TypeOK,
      Chats!State, Chats!PC, Chats!IdleHandler
  <2>2. Chats!OwnedByCanceller'
    BY <1>1, <1>10 DEF Chats!Complete, Chats!Completes, Chats!Closes, Chats!Saves,
       Chats!Goes, Chats!Of, Chats!chat, Chats!request, Chats!TypeOK,
      Chats!PC, Chats!OwnedByCanceller, Chats!Owners, Chats!Busy, Chats!IdleHandler
  <2>3. Chats!OpenIsLatest'
    BY <1>1, <1>10 DEF Chats!Complete, Chats!Completes, Chats!Closes, Chats!Saves,
       Chats!Goes, Chats!Of, Chats!chat, Chats!request, Chats!TypeOK,
      Chats!PC, Chats!OwnedByCanceller, Chats!OpenIsLatest, Chats!OwnersAreLatest,
      Chats!Owners, Chats!Busy
  <2>4. Chats!OwnersAreLatest'
    BY <1>1, <1>10 DEF Chats!Complete, Chats!Completes, Chats!Closes, Chats!Saves,
       Chats!Goes, Chats!Of, Chats!chat, Chats!request, Chats!TypeOK,
      Chats!PC, Chats!OwnedByCanceller, Chats!OwnersAreLatest, Chats!Owners, Chats!Busy,
      Chats!IdleHandler
  <2>5. Chats!SavedIsSettled'
    BY <1>1, <1>10, <2>1, <2>3 DEF Chats!Complete, Chats!Completes, Chats!Closes,
       Chats!Saves, Chats!Goes, Chats!Of, Chats!chat,
      Chats!request, Chats!TypeOK, Chats!OpenIsLatest, Chats!SavedIsSettled, Chats!Busy
  <2>6. QED
    BY <2>1, <2>2, <2>3, <2>4, <2>5 DEF Chats!IInv
<1>11. ASSUME NEW h \in Handler, Chats!Settle(h) PROVE Chats!IInv'
  <2>1. Chats!TypeOK'
    BY <1>1, <1>11 DEF Chats!Settle, Chats!Over, Chats!Saves, Chats!Ends, Chats!Of,
       Chats!chat, Chats!request, Chats!TypeOK, Chats!State, Chats!PC,
      Chats!IdleHandler
  <2>2. Chats!OwnedByCanceller'
    BY <1>1, <1>11 DEF Chats!Settle, Chats!Over, Chats!Saves, Chats!Ends, Chats!Of,
       Chats!chat, Chats!request, Chats!TypeOK, Chats!PC,
      Chats!OwnedByCanceller, Chats!Owners, Chats!Busy, Chats!IdleHandler
  <2>3. Chats!OpenIsLatest'
    BY <1>1, <1>11 DEF Chats!Settle, Chats!Over, Chats!Saves, Chats!Ends, Chats!Of,
       Chats!chat, Chats!request, Chats!TypeOK, Chats!PC,
      Chats!OwnedByCanceller, Chats!OpenIsLatest, Chats!OwnersAreLatest, Chats!Owners,
      Chats!Busy
  <2>4. Chats!OwnersAreLatest'
    BY <1>1, <1>11 DEF Chats!Settle, Chats!Over, Chats!Saves, Chats!Ends, Chats!Of,
       Chats!chat, Chats!request, Chats!TypeOK, Chats!PC,
      Chats!OwnedByCanceller, Chats!OwnersAreLatest, Chats!Owners, Chats!Busy,
      Chats!IdleHandler
  <2>5. Chats!SavedIsSettled'
    BY <1>1, <1>11, <2>1, <2>3 DEF Chats!Settle, Chats!Over, Chats!Saves, Chats!Ends,
       Chats!Of, Chats!chat, Chats!request, Chats!TypeOK,
      Chats!OpenIsLatest, Chats!SavedIsSettled, Chats!Busy
  <2>6. QED
    BY <2>1, <2>2, <2>3, <2>4, <2>5 DEF Chats!IInv
<1>12. ASSUME NEW h \in Handler, Chats!HistoryFails(h) PROVE Chats!IInv'
  <2>1. Chats!TypeOK'
    BY <1>1, <1>12 DEF Chats!HistoryFails, Chats!FailsTurn, Chats!FailsChat, Chats!Closes,
       Chats!Saves, Chats!Ends, Chats!Of, Chats!Faulty,
      Chats!chat, Chats!request, Chats!TypeOK, Chats!State, Chats!PC, Chats!IdleHandler
  <2>2. Chats!OwnedByCanceller'
    BY <1>1, <1>12 DEF Chats!HistoryFails, Chats!FailsTurn, Chats!FailsChat, Chats!Closes,
       Chats!Saves, Chats!Ends, Chats!Of, Chats!Faulty,
      Chats!chat, Chats!request, Chats!TypeOK, Chats!PC, Chats!OwnedByCanceller,
      Chats!Owners, Chats!Busy, Chats!IdleHandler
  <2>3. Chats!OpenIsLatest'
    BY <1>1, <1>12 DEF Chats!HistoryFails, Chats!FailsTurn, Chats!FailsChat, Chats!Closes,
       Chats!Saves, Chats!Ends, Chats!Of, Chats!Faulty,
      Chats!chat, Chats!request, Chats!TypeOK, Chats!PC, Chats!OwnedByCanceller,
      Chats!OpenIsLatest, Chats!OwnersAreLatest, Chats!Owners, Chats!Busy
  <2>4. Chats!OwnersAreLatest'
    BY <1>1, <1>12 DEF Chats!HistoryFails, Chats!FailsTurn, Chats!FailsChat, Chats!Closes,
       Chats!Saves, Chats!Ends, Chats!Of, Chats!Faulty,
      Chats!chat, Chats!request, Chats!TypeOK, Chats!PC, Chats!OwnedByCanceller,
      Chats!OwnersAreLatest, Chats!Owners, Chats!Busy, Chats!IdleHandler
  <2>5. Chats!SavedIsSettled'
    BY <1>1, <1>12, <2>1, <2>3 DEF Chats!HistoryFails, Chats!FailsTurn, Chats!FailsChat,
       Chats!Closes, Chats!Saves, Chats!Ends,
      Chats!Of, Chats!Faulty, Chats!chat, Chats!request, Chats!TypeOK, Chats!OpenIsLatest,
      Chats!SavedIsSettled, Chats!Busy
  <2>6. QED
    BY <2>1, <2>2, <2>3, <2>4, <2>5 DEF Chats!IInv
<1>13. ASSUME NEW h \in Handler, Chats!AgentFails(h) PROVE Chats!IInv'
  <2>1. Chats!TypeOK'
    <3>1. handler[h].chat \in Chat
      BY <1>1, <1>13 DEF Chats!AgentFails, Chats!TypeOK
    <3>2. /\ state' \in [Chat -> Chats!State]
          /\ cancel' \in [Chat -> Handler \cup {NoHandler}]
          /\ open' \in [Chat -> SUBSET Nat]
          /\ UNCHANGED latest
      <4>1. Chats!Stopped(Chats!Of(h)) \/ Chats!FailsChat(Chats!Of(h))
        BY <1>13, Zenon DEF Chats!AgentFails
      <4>2. \E s \in Chats!State, rest \in SUBSET Nat : Chats!Closes(Chats!Of(h), s, rest)
        BY <1>1, <3>1, <4>1 DEF Chats!Stopped, Chats!FailsChat, Chats!Of, Chats!TypeOK,
           Chats!State
      <4>3. QED
        BY <1>1, <3>1, <4>2 DEF Chats!Closes, Chats!Of, Chats!TypeOK
    <3>3. history' \in [Chat -> [state : Chats!State, open : SUBSET Nat]]
      BY <1>13, <3>2 DEF Chats!AgentFails, Chats!Saves
    <3>4. QED
      BY <1>1, <1>13, <3>2, <3>3 DEF Chats!AgentFails, Chats!Goes, Chats!request,
         Chats!TypeOK, Chats!PC
  <2>2. Chats!OwnedByCanceller'
    BY <1>1, <1>13 DEF Chats!AgentFails, Chats!Stopped, Chats!FailsChat, Chats!Closes,
       Chats!Saves, Chats!Goes, Chats!Of, Chats!Faulty, Chats!chat,
      Chats!request, Chats!TypeOK, Chats!PC, Chats!OwnedByCanceller, Chats!Owners,
      Chats!Busy, Chats!IdleHandler
  <2>3. Chats!OpenIsLatest'
    <3>1. handler[h].chat \in Chat /\ h \in Chats!Owners(Chats!Of(h))
      BY <1>1, <1>13 DEF Chats!AgentFails, Chats!TypeOK, Chats!Owners, Chats!Of
    <3>2. Chats!Stopped(Chats!Of(h)) \/ Chats!FailsChat(Chats!Of(h))
      BY <1>13, Zenon DEF Chats!AgentFails
    <3>3. open[Chats!Of(h)] \ {latest[Chats!Of(h)]} = {}
      BY <1>1, <3>1 DEF Chats!OpenIsLatest, Chats!Of
    <3>4. \E s \in {"idle", "failed"} : Chats!Closes(Chats!Of(h), s, {})
      BY <3>2, <3>3 DEF Chats!Stopped, Chats!FailsChat
    <3>5. QED
      BY <1>1, <3>1, <3>4 DEF Chats!Closes, Chats!Of, Chats!TypeOK, Chats!OpenIsLatest,
         Chats!Busy
  <2>4. Chats!OwnersAreLatest'
    BY <1>1, <1>13 DEF Chats!AgentFails, Chats!Stopped, Chats!FailsChat, Chats!Closes,
       Chats!Saves, Chats!Goes, Chats!Of, Chats!Faulty, Chats!chat,
      Chats!request, Chats!TypeOK, Chats!PC, Chats!OwnedByCanceller, Chats!OwnersAreLatest,
      Chats!Owners, Chats!Busy, Chats!IdleHandler
  <2>5. Chats!SavedIsSettled'
    BY <1>1, <1>13, <2>1, <2>3 DEF Chats!AgentFails, Chats!Stopped, Chats!FailsChat,
       Chats!Closes, Chats!Saves, Chats!Goes, Chats!Of,
      Chats!Faulty, Chats!chat, Chats!request, Chats!TypeOK, Chats!OpenIsLatest,
      Chats!SavedIsSettled, Chats!Busy
  <2>6. QED
    BY <2>1, <2>2, <2>3, <2>4, <2>5 DEF Chats!IInv
<1>14. ASSUME NEW h \in Handler, Chats!SettleFails(h) PROVE Chats!IInv'
  <2>1. Chats!TypeOK'
    BY <1>1, <1>14 DEF Chats!SettleFails, Chats!FailsTurn, Chats!FailsChat, Chats!Closes,
       Chats!Saves, Chats!Ends, Chats!Of, Chats!Faulty,
      Chats!chat, Chats!request, Chats!TypeOK, Chats!State, Chats!PC, Chats!IdleHandler
  <2>2. Chats!OwnedByCanceller'
    BY <1>1, <1>14 DEF Chats!SettleFails, Chats!FailsTurn, Chats!FailsChat, Chats!Closes,
       Chats!Saves, Chats!Ends, Chats!Of, Chats!Faulty,
      Chats!chat, Chats!request, Chats!TypeOK, Chats!PC, Chats!OwnedByCanceller,
      Chats!Owners, Chats!Busy, Chats!IdleHandler
  <2>3. Chats!OpenIsLatest'
    BY <1>1, <1>14 DEF Chats!SettleFails, Chats!FailsTurn, Chats!FailsChat, Chats!Closes,
       Chats!Saves, Chats!Ends, Chats!Of, Chats!Faulty,
      Chats!chat, Chats!request, Chats!TypeOK, Chats!PC, Chats!OwnedByCanceller,
      Chats!OpenIsLatest, Chats!OwnersAreLatest, Chats!Owners, Chats!Busy
  <2>4. Chats!OwnersAreLatest'
    BY <1>1, <1>14 DEF Chats!SettleFails, Chats!FailsTurn, Chats!FailsChat, Chats!Closes,
       Chats!Saves, Chats!Ends, Chats!Of, Chats!Faulty,
      Chats!chat, Chats!request, Chats!TypeOK, Chats!PC, Chats!OwnedByCanceller,
      Chats!OwnersAreLatest, Chats!Owners, Chats!Busy, Chats!IdleHandler
  <2>5. Chats!SavedIsSettled'
    BY <1>1, <1>14, <2>1, <2>3 DEF Chats!SettleFails, Chats!FailsTurn, Chats!FailsChat,
       Chats!Closes, Chats!Saves, Chats!Ends,
      Chats!Of, Chats!Faulty, Chats!chat, Chats!request, Chats!TypeOK, Chats!OpenIsLatest,
      Chats!SavedIsSettled, Chats!Busy
  <2>6. QED
    BY <2>1, <2>2, <2>3, <2>4, <2>5 DEF Chats!IInv
<1>15. ASSUME NEW h \in Handler, NEW c \in Chat, Chats!Begin(h, c) PROVE Chats!IInv'
  <2>0. Chats!Saves \/ UNCHANGED history
    BY <1>15 DEF Chats!Begin, Chats!MaySave
  <2>1. Chats!TypeOK'
    BY <1>1, <1>15, <2>0 DEF Chats!Begin, Chats!Refuses, Chats!Saves, Chats!chat, Chats!request,
       Chats!TypeOK, Chats!State, Chats!PC, Chats!IdleHandler
  <2>2. Chats!OwnedByCanceller'
    BY <1>1, <1>15 DEF Chats!Begin, Chats!Refuses, Chats!Saves, Chats!chat, Chats!request,
       Chats!TypeOK, Chats!PC, Chats!OwnedByCanceller,
      Chats!Owners, Chats!Of, Chats!Busy, Chats!IdleHandler
  <2>3. Chats!OpenIsLatest'
    BY <1>1, <1>15 DEF Chats!Begin, Chats!Refuses, Chats!Saves, Chats!chat, Chats!request,
       Chats!TypeOK, Chats!PC, Chats!OwnedByCanceller,
      Chats!OpenIsLatest, Chats!OwnersAreLatest, Chats!Owners, Chats!Of, Chats!Busy
  <2>4. Chats!OwnersAreLatest'
    BY <1>1, <1>15 DEF Chats!Begin, Chats!Refuses, Chats!Saves, Chats!chat, Chats!request,
       Chats!TypeOK, Chats!PC, Chats!OwnedByCanceller,
      Chats!OwnersAreLatest, Chats!Owners, Chats!Of, Chats!Busy, Chats!IdleHandler
  <2>5. Chats!SavedIsSettled'
    <3>1. CASE Chats!Saves
      BY <2>3, <3>1 DEF Chats!Saves, Chats!OpenIsLatest, Chats!SavedIsSettled
    <3>2. CASE UNCHANGED history
      BY <1>1, <3>2 DEF Chats!SavedIsSettled
    <3>3. QED
      BY <2>0, <3>1, <3>2
  <2>6. QED
    BY <2>1, <2>2, <2>3, <2>4, <2>5 DEF Chats!IInv
<1>16. ASSUME NEW c \in Chat, Chats!Stop(c) PROVE Chats!IInv'
  <2>1. Chats!TypeOK'
    <3>0. \/ UNCHANGED handler
          \/ /\ cancel[c] \in Handler
             /\ handler' = [handler EXCEPT ![cancel[c]].cancelled = TRUE]
      BY <1>16 DEF Chats!Stop
    <3>1. /\ handler' \in [Handler -> [pc : Chats!PC, chat : Chat \cup {NoHandler},
                                       cancelled : BOOLEAN, turn : Nat]]
          /\ \A h \in Handler : /\ handler'[h].chat = handler[h].chat
                                /\ handler'[h].pc = handler[h].pc
      <4>1. CASE UNCHANGED handler
        BY <1>1, <4>1 DEF Chats!TypeOK
      <4>2. CASE /\ cancel[c] \in Handler
                 /\ handler' = [handler EXCEPT ![cancel[c]].cancelled = TRUE]
        <5>1. handler \in [Handler -> [pc : Chats!PC, chat : Chat \cup {NoHandler},
                                       cancelled : BOOLEAN, turn : Nat]]
          BY <1>1 DEF Chats!TypeOK
        <5>2. \A h \in Handler :
                 handler'[h] = IF h = cancel[c] THEN [handler[h] EXCEPT !.cancelled = TRUE]
                                               ELSE handler[h]
          BY <4>2, <5>1
        <5>3. ASSUME NEW h \in Handler
              PROVE  /\ handler'[h] \in [pc : Chats!PC, chat : Chat \cup {NoHandler},
                                          cancelled : BOOLEAN, turn : Nat]
                     /\ handler'[h].chat = handler[h].chat
                     /\ handler'[h].pc = handler[h].pc
          BY <5>1, <5>2
        <5>4. DOMAIN handler' = Handler /\ handler' = [h \in Handler |-> handler'[h]]
          BY <4>2, <5>1
        <5>5. QED
          BY <5>3, <5>4
      <4>3. QED
        BY <3>0, <4>1, <4>2
    <3>2. QED
      BY <1>1, <1>16, <3>1 DEF Chats!Stop, Chats!Saves, Chats!chat, Chats!request,
         Chats!TypeOK, Chats!State
  <2>2. Chats!OwnedByCanceller'
    BY <1>1, <1>16 DEF Chats!Stop, Chats!Saves, Chats!chat, Chats!request, Chats!TypeOK,
       Chats!PC, Chats!OwnedByCanceller, Chats!Owners, Chats!Of,
      Chats!Busy, Chats!IdleHandler
  <2>3. Chats!OpenIsLatest'
    BY <1>1, <1>16 DEF Chats!Stop, Chats!Saves, Chats!chat, Chats!request, Chats!TypeOK,
       Chats!PC, Chats!OwnedByCanceller,
      Chats!OpenIsLatest, Chats!OwnersAreLatest, Chats!Owners, Chats!Of, Chats!Busy
  <2>4. Chats!OwnersAreLatest'
    BY <1>1, <1>16 DEF Chats!Stop, Chats!Saves, Chats!chat, Chats!request, Chats!TypeOK,
       Chats!PC, Chats!OwnedByCanceller,
      Chats!OwnersAreLatest, Chats!Owners, Chats!Of, Chats!Busy, Chats!IdleHandler
  <2>5. Chats!SavedIsSettled'
    BY <1>1, <1>16, <2>1, <2>3 DEF Chats!Stop, Chats!Saves, Chats!chat, Chats!request,
       Chats!TypeOK, Chats!OpenIsLatest,
      Chats!SavedIsSettled, Chats!Busy
  <2>6. QED
    BY <2>1, <2>2, <2>3, <2>4, <2>5 DEF Chats!IInv
<1>17. CASE Chats!Decide
  <2>1. Chats!TypeOK'
    BY <1>1, <1>17 DEF Chats!Decide, Chats!chat, Chats!request, Chats!TypeOK, Chats!State,
       Chats!PC, Chats!IdleHandler
  <2>2. Chats!OwnedByCanceller'
    BY <1>1, <1>17 DEF Chats!Decide, Chats!chat, Chats!request, Chats!TypeOK, Chats!PC,
       Chats!OwnedByCanceller, Chats!Owners, Chats!Of, Chats!Busy,
      Chats!IdleHandler
  <2>3. Chats!OpenIsLatest'
    BY <1>1, <1>17 DEF Chats!Decide, Chats!chat, Chats!request, Chats!TypeOK, Chats!PC,
       Chats!OwnedByCanceller, Chats!OpenIsLatest,
      Chats!OwnersAreLatest, Chats!Owners, Chats!Of, Chats!Busy
  <2>4. Chats!OwnersAreLatest'
    BY <1>1, <1>17 DEF Chats!Decide, Chats!chat, Chats!request, Chats!TypeOK, Chats!PC,
       Chats!OwnedByCanceller, Chats!OwnersAreLatest,
      Chats!Owners, Chats!Of, Chats!Busy, Chats!IdleHandler
  <2>5. Chats!SavedIsSettled'
    BY <1>1, <1>17, <2>1, <2>3 DEF Chats!Decide, Chats!chat, Chats!request, Chats!TypeOK,
       Chats!OpenIsLatest,
      Chats!SavedIsSettled, Chats!Busy
  <2>6. QED
    BY <2>1, <2>2, <2>3, <2>4, <2>5 DEF Chats!IInv
<1>18. CASE Chats!ReviewEnds
  <2>1. Chats!TypeOK'
    BY <1>1, <1>18 DEF Chats!ReviewEnds, Chats!chat, Chats!request, Chats!TypeOK,
       Chats!State, Chats!PC, Chats!IdleHandler
  <2>2. Chats!OwnedByCanceller'
    BY <1>1, <1>18 DEF Chats!ReviewEnds, Chats!chat, Chats!request, Chats!TypeOK, Chats!PC,
       Chats!OwnedByCanceller, Chats!Owners, Chats!Of,
      Chats!Busy, Chats!IdleHandler
  <2>3. Chats!OpenIsLatest'
    BY <1>1, <1>18 DEF Chats!ReviewEnds, Chats!chat, Chats!request, Chats!TypeOK, Chats!PC,
       Chats!OwnedByCanceller, Chats!OpenIsLatest,
      Chats!OwnersAreLatest, Chats!Owners, Chats!Of, Chats!Busy
  <2>4. Chats!OwnersAreLatest'
    BY <1>1, <1>18 DEF Chats!ReviewEnds, Chats!chat, Chats!request, Chats!TypeOK, Chats!PC,
       Chats!OwnedByCanceller,
      Chats!OwnersAreLatest, Chats!Owners, Chats!Of, Chats!Busy, Chats!IdleHandler
  <2>5. Chats!SavedIsSettled'
    BY <1>1, <1>18, <2>1, <2>3 DEF Chats!ReviewEnds, Chats!chat, Chats!request, Chats!TypeOK,
       Chats!OpenIsLatest,
      Chats!SavedIsSettled, Chats!Busy
  <2>6. QED
    BY <2>1, <2>2, <2>3, <2>4, <2>5 DEF Chats!IInv
<1>19. CASE Chats!Restart
  <2>1. Chats!TypeOK'
    BY <1>1, <1>19 DEF Chats!Restart, Chats!Faulty, Chats!Recovered, Chats!IdleHandler,
       Chats!chat, Chats!request, Chats!TypeOK, Chats!State,
      Chats!PC
  <2>2. Chats!OwnedByCanceller'
    BY <1>1, <1>19 DEF Chats!Restart, Chats!Faulty, Chats!Recovered, Chats!IdleHandler,
       Chats!chat, Chats!request, Chats!TypeOK, Chats!PC,
      Chats!OwnedByCanceller, Chats!Owners, Chats!Of, Chats!Busy
  <2>3. Chats!OpenIsLatest'
    BY <1>1, <1>19 DEF Chats!Restart, Chats!Faulty, Chats!Recovered, Chats!IdleHandler,
       Chats!chat, Chats!request, Chats!TypeOK, Chats!PC,
      Chats!OwnedByCanceller, Chats!OpenIsLatest, Chats!OwnersAreLatest, Chats!Owners,
      Chats!Of, Chats!Busy, Chats!State, Chats!SavedIsSettled
  <2>4. Chats!OwnersAreLatest'
    BY <1>1, <1>19 DEF Chats!Restart, Chats!Faulty, Chats!Recovered, Chats!IdleHandler,
       Chats!chat, Chats!request, Chats!TypeOK, Chats!PC,
      Chats!OwnedByCanceller, Chats!OwnersAreLatest, Chats!Owners, Chats!Of, Chats!Busy
  <2>5. Chats!SavedIsSettled'
    BY <1>1, <1>19, <2>1, <2>3 DEF Chats!Restart, Chats!Faulty, Chats!Recovered,
       Chats!IdleHandler, Chats!chat, Chats!request,
      Chats!TypeOK, Chats!OpenIsLatest, Chats!SavedIsSettled, Chats!Busy
  <2>6. QED
    BY <2>1, <2>2, <2>3, <2>4, <2>5 DEF Chats!IInv
<1>20. CASE UNCHANGED Chats!vars
  BY <1>1, <1>20 DEF Chats!vars, Chats!chat, Chats!IInv, Chats!TypeOK,
     Chats!OwnedByCanceller, Chats!OpenIsLatest,
     Chats!OwnersAreLatest, Chats!SavedIsSettled, Chats!Owners, Chats!Of
<1>21. QED
  BY <1>2, <1>3, <1>4, <1>5, <1>6, <1>7, <1>8, <1>9, <1>10, <1>11, <1>12, <1>13, <1>14,
     <1>15, <1>16, <1>17, <1>18, <1>19, <1>20 DEF Chats!Next, Chats!Step

\* What the invariant says of a conversation: its turn has one handler, or there is none
\* and no message is open.
LEMMA OwnedTurns == Chats!IInv => Chats!TurnOwnsConversation
<1> SUFFICES ASSUME Chats!IInv, NEW c \in Chat
             PROVE  IF state[c] \in Chats!Busy
                    THEN Cardinality(Chats!Owners(c)) = 1 /\ cancel[c] \in Chats!Owners(c)
                    ELSE Chats!Owners(c) = {} /\ open[c] = {}
  BY DEF Chats!TurnOwnsConversation, Cardinality, Chats!Cardinality
<1>1. CASE state[c] \in Chats!Busy
  <2>1. cancel[c] \in Chats!Owners(c) /\ \A h \in Chats!Owners(c) : h = cancel[c]
    BY <1>1 DEF Chats!IInv, Chats!OwnedByCanceller, Chats!Owners
  <2>2. Chats!Owners(c) = {cancel[c]}
    BY <2>1
  <2>3. Cardinality(Chats!Owners(c)) = 1
    BY <2>2, FS_Singleton
  <2>4. QED
    BY <1>1, <2>1, <2>3
<1>2. CASE state[c] \notin Chats!Busy
  <2>1. Chats!Owners(c) = {}
    BY <1>2 DEF Chats!IInv, Chats!OwnedByCanceller, Chats!Owners
  <2>2. open[c] = {}
    BY <1>2 DEF Chats!IInv, Chats!OpenIsLatest
  <2>3. QED
    BY <1>2, <2>1, <2>2
<1>3. QED
  BY <1>1, <1>2

\* A conversation that shows a turn as going on has one handler working on it, which a
\* stop reaches; one that shows none has no handler and no open message.  It takes that
\* a turn that ended late does not fail the next one (LateFailures).
LEMMA OwnedByTurns == ASSUME ~LateFailures PROVE Chats!Spec => []Chats!TurnOwnsConversation
<1>1. QED
  BY ChatsInit, ChatsInductive, OwnedTurns, PTL DEF Chats!Spec

-----------------------------------------------------------------------------
(* The resolution of password changes                                      *)

\* The operations of a pending change that were seen are the ones a version stands for.
LEMMA PrefixIsSeen ==
  ASSUME NEW S, NEW s \in Seq(S), NEW t \in Seq(S), Len(t) <= Len(s),
         \A i \in DOMAIN t : t[i] = s[i]
  PROVE  Changes!ToSet(SubSeq(s, 1, Len(t))) \subseteq Changes!ToSet(t)
<1> SUFFICES ASSUME NEW i \in DOMAIN SubSeq(s, 1, Len(t))
             PROVE  SubSeq(s, 1, Len(t))[i] \in Changes!ToSet(t)
  BY DEF Changes!ToSet
<1>1. i \in DOMAIN t /\ SubSeq(s, 1, Len(t))[i] = s[i]
  OBVIOUS
<1>2. QED
  BY <1>1 DEF Changes!ToSet

\* Nothing is staged before the first call.
LEMMA ChangesInit == Changes!Init => Changes!IInv
<1> SUFFICES ASSUME Changes!Init PROVE Changes!IInv
  OBVIOUS
<1>1. Changes!TypeOK
  BY DEF Changes!Init, Changes!TypeOK, Changes!Idle
<1>2. Changes!RowsArePure
  BY DEF Changes!Init, Changes!RowsArePure, Changes!OwnOnly, Changes!NoneOwn
<1>3. Changes!BatchIsOwn /\ Changes!ListedIsPrefix /\ Changes!CommittedIsReviewed
  BY DEF Changes!Init, Changes!BatchIsOwn, Changes!ListedIsPrefix,
     Changes!CommittedIsReviewed, Changes!Idle
<1>4. QED
  BY <1>1, <1>2, <1>3 DEF Changes!IInv

RowsTyped ==
  /\ ops \in [Change -> Seq(Op)]
  /\ change \in [Change -> {"unused", "pending", "committed", "failed", "rejected"}]
  /\ successor \in [Change -> Change \cup {NoChange}]

\* Staging an operation where others of its kind are keeps the rows pure, and only
\* appends to a pending change.
LEMMA StagesKeeps ==
  ASSUME Changes!Setting, RowsTyped, Changes!RowsArePure,
         NEW c \in Change \cup {NoChange}, NEW target \in Change, NEW o \in Op,
         Changes!Stages(c, target, o),
         c # NoChange =>
           /\ ops[c] # <<>>
           /\ IF o \in Own THEN Changes!OwnOnly(ops[c]) ELSE Changes!NoneOwn(ops[c])
  PROVE  /\ RowsTyped' /\ Changes!RowsArePure'
         /\ ops'[target] # <<>> /\ (o \in Own => Changes!OwnOnly(ops'[target]))
         /\ \A d \in Change :
              /\ Changes!OwnOnly(ops[d]) /\ ops[d] # <<>> => Changes!OwnOnly(ops'[d])
              /\ ops[d] # <<>> => ops'[d] # <<>>
         /\ \A l \in Changes!Listed : Changes!IsPrefixOf(l) => Changes!IsPrefixOf(l)'
<1>1. /\ ops[target] = <<>> <=> change[target] = "unused"
      /\ ops[target] # <<>> =>
           IF o \in Own THEN Changes!OwnOnly(ops[target]) ELSE Changes!NoneOwn(ops[target])
  <2>1. CASE change[target] = "unused"
    BY <2>1 DEF Changes!RowsArePure
  <2>2. CASE change[target] # "unused"
    <3>1. c # NoChange /\ c \in Change
      BY <2>2 DEF Changes!Stages, Changes!Unused
    <3>2. target = c \/ (successor[c] = target /\ successor[c] # NoChange)
      BY <2>2, <3>1 DEF Changes!Stages, Changes!Unused, Changes!Setting
    <3>3. CASE target = c
      BY <3>1, <3>3, <2>2 DEF Changes!RowsArePure
    <3>4. CASE successor[c] = target /\ successor[c] # NoChange
      <4>1. Changes!OwnOnly(ops[c]) <=> Changes!OwnOnly(ops[target])
        BY <3>1, <3>4 DEF Changes!RowsArePure
      <4>2. Changes!OwnOnly(ops[target]) \/ Changes!NoneOwn(ops[target])
        BY DEF Changes!RowsArePure
      <4>3. o \notin Own => ~Changes!OwnOnly(ops[c])
        BY <3>1 DEF Changes!OwnOnly, Changes!NoneOwn, RowsTyped
      <4>4. QED
        BY <3>1, <4>1, <4>2, <4>3, <2>2 DEF Changes!RowsArePure
    <3>5. QED
      BY <3>2, <3>3, <3>4
  <2>3. QED
    BY <2>1, <2>2
<1>2. /\ ops' = [ops EXCEPT ![target] = Append(@, o)]
      /\ change' = IF target \in Changes!Unused
                  THEN [change EXCEPT ![target] = "pending"] ELSE change
      /\ \/ UNCHANGED successor
         \/ /\ c \in Change /\ change[c] \notin {"pending"} /\ successor[c] = NoChange
            /\ target \in Changes!Unused /\ successor' = [successor EXCEPT ![c] = target]
  BY DEF Changes!Stages
<1>3. RowsTyped'
  <2>1. Append(ops[target], o) \in Seq(Op)
    BY DEF RowsTyped
  <2>2. QED
    BY <1>2, <2>1 DEF RowsTyped
<1>4. /\ ops'[target] # <<>>
      /\ o \in Own => Changes!OwnOnly(ops'[target])
      /\ o \notin Own => Changes!NoneOwn(ops'[target])
  <2>1. ops'[target] = Append(ops[target], o) /\ ops[target] \in Seq(Op)
    BY <1>2 DEF RowsTyped
  <2>2. /\ DOMAIN ops'[target] = 1..(Len(ops[target]) + 1)
        /\ DOMAIN ops[target] = 1..Len(ops[target])
        /\ \A i \in 1..Len(ops[target]) : ops'[target][i] = ops[target][i]
        /\ ops'[target][Len(ops[target]) + 1] = o
    BY <2>1
  <2>3. QED
    BY <2>1, <2>2, <1>1 DEF Changes!OwnOnly, Changes!NoneOwn
<1>5. \A d \in Change : d # target => ops'[d] = ops[d] /\ change'[d] = change[d]
  BY <1>2 DEF RowsTyped
<1>6. Changes!RowsArePure'
  <2> SUFFICES ASSUME NEW d \in Change
               PROVE  /\ change'[d] = "unused" <=> ops'[d] = <<>>
                      /\ Changes!OwnOnly(ops'[d]) \/ Changes!NoneOwn(ops'[d])
                      /\ successor'[d] # NoChange =>
                           /\ change'[d] \notin {"unused", "pending"}
                           /\ change'[successor'[d]] # "unused"
                           /\ Changes!OwnOnly(ops'[d]) <=> Changes!OwnOnly(ops'[successor'[d]])
    BY DEF Changes!RowsArePure, Changes!OwnOnly, Changes!NoneOwn
  <2>1. change'[target] # "unused"
    BY <1>2 DEF RowsTyped, Changes!Unused
  <2>2. /\ change'[d] = "unused" <=> ops'[d] = <<>>
        /\ Changes!OwnOnly(ops'[d]) \/ Changes!NoneOwn(ops'[d])
    BY <1>4, <1>5, <2>1 DEF Changes!RowsArePure
  <2>3. ASSUME successor'[d] # NoChange, successor[d] # NoChange
        PROVE  /\ change'[d] \notin {"unused", "pending"}
               /\ change'[successor'[d]] # "unused"
               /\ Changes!OwnOnly(ops'[d]) <=> Changes!OwnOnly(ops'[successor'[d]])
    <3>1. successor'[d] = successor[d] /\ successor[d] \in Change
      BY <1>2, <2>3 DEF RowsTyped
    <3>2. /\ change[d] \notin {"unused", "pending"} /\ change[successor[d]] # "unused"
          /\ Changes!OwnOnly(ops[d]) <=> Changes!OwnOnly(ops[successor[d]])
          /\ ops[d] # <<>> /\ ops[successor[d]] # <<>>
      BY <2>3, <3>1 DEF Changes!RowsArePure
    <3>3. \A e \in Change :
            ops[e] # <<>> => (Changes!OwnOnly(ops'[e]) <=> Changes!OwnOnly(ops[e]))
      <4> SUFFICES ASSUME NEW e \in Change, ops[e] # <<>>
                   PROVE  Changes!OwnOnly(ops'[e]) <=> Changes!OwnOnly(ops[e])
        OBVIOUS
      <4>1. CASE e = target
        <5>1. ops[target] \in Seq(Op) /\ ops'[target] \in Seq(Op)
          BY <1>3 DEF RowsTyped
        <5>2. o \notin Own => ~Changes!OwnOnly(ops[target]) /\ ~Changes!OwnOnly(ops'[target])
          BY <1>1, <1>4, <4>1, <5>1 DEF Changes!OwnOnly, Changes!NoneOwn
        <5>3. QED
          BY <1>1, <1>4, <4>1, <5>2
      <4>2. QED
        BY <4>1, <1>5
    <3>4. change'[d] = change[d] /\ change'[successor[d]] # "unused"
      BY <1>2, <3>1, <3>2 DEF RowsTyped, Changes!Unused
    <3>5. QED
      BY <3>1, <3>2, <3>3, <3>4
  <2>4. ASSUME successor'[d] # NoChange, successor[d] = NoChange
        PROVE  /\ change'[d] \notin {"unused", "pending"}
               /\ change'[successor'[d]] # "unused"
               /\ Changes!OwnOnly(ops'[d]) <=> Changes!OwnOnly(ops'[successor'[d]])
    <3>1. /\ d = c /\ successor'[d] = target /\ change[c] # "pending"
          /\ target \in Changes!Unused
          /\ c # NoChange /\ c \in Change
      BY <1>2, <2>4 DEF RowsTyped, Changes!Setting
    <3>2. ops[c] # <<>> /\ change[c] # "unused" /\ d # target
      BY <3>1 DEF Changes!RowsArePure, Changes!Unused
    <3>3. ops[c] \in Seq(Op) /\ ops'[target] \in Seq(Op)
      BY <1>3, <3>1 DEF RowsTyped
    <3>4. o \notin Own => ~Changes!OwnOnly(ops[c]) /\ ~Changes!OwnOnly(ops'[target])
      BY <3>1, <3>2, <3>3, <1>4 DEF Changes!OwnOnly, Changes!NoneOwn
    <3>5. Changes!OwnOnly(ops'[d]) <=> Changes!OwnOnly(ops'[target])
      BY <3>1, <3>2, <3>4, <1>4, <1>5
    <3>6. QED
      BY <3>1, <3>2, <3>5, <2>1, <1>5
  <2>5. QED
    BY <2>2, <2>3, <2>4
<1>7. \A d \in Change : /\ Changes!OwnOnly(ops[d]) /\ ops[d] # <<>> => Changes!OwnOnly(ops'[d])
                        /\ ops[d] # <<>> => ops'[d] # <<>>
  <2>1. ops[target] # <<>> /\ Changes!OwnOnly(ops[target]) => o \in Own
    BY <1>1 DEF Changes!OwnOnly, Changes!NoneOwn, RowsTyped
  <2>2. QED
    BY <1>4, <1>5, <2>1
<1>8. ASSUME NEW listed \in Changes!Listed, Changes!IsPrefixOf(listed)
      PROVE  Changes!IsPrefixOf(listed)'
  <2>1. CASE listed.change = target
    <3>1. /\ Append(ops[target], o) = ops'[target] /\ ops[target] \in Seq(Op)
          /\ change'[target] = change[target]
      BY <1>2, <1>8, <2>1 DEF RowsTyped, Changes!Unused, Changes!IsPrefixOf
    <3>2. listed.ops \in Seq(Op)
      BY <1>8 DEF Changes!Listed
    <3>3. /\ Len(ops'[target]) = Len(ops[target]) + 1
          /\ \A i \in 1..Len(ops[target]) : ops'[target][i] = ops[target][i]
          /\ DOMAIN listed.ops = 1..Len(listed.ops) /\ Len(listed.ops) \in Nat
          /\ Len(ops[target]) \in Nat
      BY <3>1, <3>2
    <3>4. QED
      BY <1>8, <2>1, <3>1, <3>3 DEF Changes!IsPrefixOf
  <2>2. CASE listed.change # target
    BY <1>8, <2>2, <1>5 DEF Changes!IsPrefixOf, Changes!Listed
  <2>3. QED
    BY <2>1, <2>2
<1>9. QED
  BY <1>3, <1>4, <1>6, <1>7, <1>8

\* A confirmation ends a change: its prefix is written, and the rest starts a change
\* of the same kind.
LEMMA CommitsKeeps ==
  ASSUME Changes!Setting, RowsTyped, Changes!RowsArePure, NEW c \in Change, NEW v \in Nat \ {0},
         Changes!Commits(c, v)
  PROVE  /\ RowsTyped' /\ Changes!RowsArePure'
         /\ \A d \in Change :
              /\ Changes!OwnOnly(ops[d]) /\ ops[d] # <<>> => Changes!OwnOnly(ops'[d])
              /\ ops[d] # <<>> => ops'[d] # <<>>
         /\ \A l \in Changes!Listed : Changes!IsPrefixOf(l) => Changes!IsPrefixOf(l)'
         /\ written' \subseteq written \cup Changes!ToSet(SubSeq(ops[c], 1, v))
<1>1. change[c] = "pending" /\ v <= Len(ops[c]) /\ ops[c] \in Seq(Op) /\ successor[c] = NoChange
  BY DEF Changes!Commits, RowsTyped, Changes!RowsArePure
<1>2. PICK result \in {"committed", "failed"} :
        /\ written' = IF result
             = "committed" THEN written \cup Changes!ToSet(SubSeq(ops[c], 1, v))
                                              ELSE written
        /\ IF v = Len(ops[c])
           THEN change' = [change EXCEPT ![c] = result] /\ UNCHANGED <<ops, successor>>
           ELSE \E s \in Changes!Unused :
                  /\ change' = [change EXCEPT ![c] = result, ![s] = "pending"]
                  /\ ops' = [ops EXCEPT ![c] = SubSeq(@, 1, v),
                                        ![s] = SubSeq(ops[c], v + 1, Len(ops[c]))]
                  /\ successor' = [successor EXCEPT ![c] = s]
  BY DEF Changes!Commits
<1>3. written' \subseteq written \cup Changes!ToSet(SubSeq(ops[c], 1, v))
  BY <1>2
<1>4. CASE v = Len(ops[c])
  <2>1. change' = [change EXCEPT ![c] = result] /\ UNCHANGED <<ops, successor>>
    BY <1>2, <1>4
  <2>2. RowsTyped'
    BY <2>1 DEF RowsTyped
  <2>3. Changes!RowsArePure'
    BY <1>1, <2>1 DEF Changes!RowsArePure, RowsTyped, Changes!OwnOnly, Changes!NoneOwn
  <2>4. \A l \in Changes!Listed : Changes!IsPrefixOf(l) => Changes!IsPrefixOf(l)'
    BY <2>1 DEF Changes!IsPrefixOf, RowsTyped, Changes!Listed
  <2>5. QED
    BY <2>1, <2>2, <2>3, <2>4, <1>3
<1>5. CASE v # Len(ops[c])
  <2>1. PICK s \in Changes!Unused :
          /\ change' = [change EXCEPT ![c] = result, ![s] = "pending"]
          /\ ops' = [ops EXCEPT ![c] = SubSeq(@, 1, v),
                                ![s] = SubSeq(ops[c], v + 1, Len(ops[c]))]
          /\ successor' = [successor EXCEPT ![c] = s]
    BY <1>2, <1>5
  <2>2. /\ s \in Change /\ s # c /\ change[s] = "unused" /\ ops[s] = <<>>
        /\ successor[s] = NoChange
    BY <1>1 DEF Changes!Unused, Changes!RowsArePure
  <2>3. /\ ops'[c] = SubSeq(ops[c], 1, v) /\ change'[c] = result /\ successor'[c] = s
        /\ ops'[s] = SubSeq(ops[c], v + 1, Len(ops[c])) /\ change'[s] = "pending"
        /\ successor'[s] = NoChange
        /\ \A d \in Change \ {c, s} : /\ ops'[d] = ops[d] /\ change'[d] = change[d]
                                      /\ successor'[d] = successor[d]
    BY <2>1, <2>2 DEF RowsTyped
  <2>4. /\ ops'[c] \in Seq(Op) /\ Len(ops'[c]) = v
        /\ ops'[s] \in Seq(Op) /\ Len(ops'[s]) = Len(ops[c]) - v /\ Len(ops'[s]) # 0
        /\ \A i \in 1..v : ops'[c][i] = ops[c][i]
        /\ \A i \in 1..(Len(ops[c]) - v) : ops'[s][i] = ops[c][v + i]
    BY <1>1, <1>5, <2>3
  <2>5. RowsTyped'
    BY <2>1, <2>2, <2>4 DEF RowsTyped
  <2>6. /\ ops'[c] # <<>> /\ ops'[s] # <<>> /\ ops[c] # <<>>
        /\ Changes!OwnOnly(ops[c]) => Changes!OwnOnly(ops'[c]) /\ Changes!OwnOnly(ops'[s])
        /\ Changes!NoneOwn(ops[c]) => Changes!NoneOwn(ops'[c]) /\ Changes!NoneOwn(ops'[s])
    <3>1. ops'[c] # <<>> /\ ops'[s] # <<>> /\ ops[c] # <<>>
      BY <2>4, <1>1
    <3>2. \A i \in DOMAIN ops'[c] : \E j \in DOMAIN ops[c] : ops'[c][i] = ops[c][j]
      BY <2>4, <1>1
    <3>3. ASSUME NEW i \in DOMAIN ops'[s]
          PROVE  \E j \in DOMAIN ops[c] : ops'[s][i] = ops[c][j]
      <4>1. i \in 1..(Len(ops[c]) - v) /\ v + i \in DOMAIN ops[c]
        BY <2>4, <1>1
      <4>2. QED
        BY <4>1, <2>4
    <3>4. QED
      BY <3>1, <3>2, <3>3 DEF Changes!OwnOnly, Changes!NoneOwn
  <2>7. Changes!RowsArePure'
    <3> SUFFICES ASSUME NEW d \in Change
                 PROVE  /\ change'[d] = "unused" <=> ops'[d] = <<>>
                        /\ Changes!OwnOnly(ops'[d]) \/ Changes!NoneOwn(ops'[d])
                        /\ successor'[d] # NoChange =>
                             /\ change'[d] \notin {"unused", "pending"}
                             /\ change'[successor'[d]] # "unused"
                             /\ Changes!OwnOnly(ops'[d]) <=> Changes!OwnOnly(ops'[successor'[d]])
      BY DEF Changes!RowsArePure, Changes!OwnOnly, Changes!NoneOwn
    <3>0. Changes!OwnOnly(ops[c]) \/ Changes!NoneOwn(ops[c])
      BY DEF Changes!RowsArePure
    <3>1. CASE d = c
      <4>1. Changes!OwnOnly(ops'[c]) <=> Changes!OwnOnly(ops'[s])
        <5>1. CASE Changes!OwnOnly(ops[c])
          BY <5>1, <2>6
        <5>2. CASE Changes!NoneOwn(ops[c])
          <6>1. Changes!NoneOwn(ops'[c]) /\ Changes!NoneOwn(ops'[s])
            BY <5>2, <2>6
          <6>2. 1 \in DOMAIN ops'[c] /\ 1 \in DOMAIN ops'[s]
            BY <2>4
          <6>3. QED
            BY <6>1, <6>2 DEF Changes!OwnOnly, Changes!NoneOwn
        <5>3. QED
          BY <5>1, <5>2, <3>0
      <4>2. QED
        BY <3>0, <3>1, <4>1, <2>3, <2>6
    <3>2. CASE d = s
      BY <3>0, <3>2, <2>3, <2>6
    <3>3. CASE d \notin {c, s}
      <4>1. successor[d] # NoChange => successor[d] # s /\ successor[d] \in Change
        BY <2>2 DEF Changes!RowsArePure, RowsTyped
      <4>2. ASSUME successor[d] # NoChange, successor[d] = c
            PROVE  Changes!OwnOnly(ops'[d]) <=> Changes!OwnOnly(ops'[c])
        <5>1. /\ Changes!OwnOnly(ops[d]) <=> Changes!OwnOnly(ops[c])
              /\ Changes!OwnOnly(ops[d]) \/ Changes!NoneOwn(ops[d])
          BY <4>2 DEF Changes!RowsArePure
        <5>2. ~Changes!OwnOnly(ops[c]) => ~Changes!OwnOnly(ops'[c])
          <6> SUFFICES ASSUME ~Changes!OwnOnly(ops[c]) PROVE ~Changes!OwnOnly(ops'[c])
            OBVIOUS
          <6>1. Changes!NoneOwn(ops'[c])
            BY <3>0, <2>6
          <6>2. 1 \in DOMAIN ops'[c]
            BY <2>4
          <6>3. QED
            BY <6>1, <6>2 DEF Changes!OwnOnly, Changes!NoneOwn
        <5>3. QED
          BY <5>1, <5>2, <2>3, <2>6, <3>3
      <4>3. successor[d] # NoChange => change'[successor[d]] # "unused"
        BY <4>1, <2>3 DEF Changes!RowsArePure
      <4>4. ops'[d] = ops[d] /\ change'[d] = change[d] /\ successor'[d] = successor[d]
        BY <3>3, <2>3
      <4>5. CASE successor[d] = NoChange
        BY <4>4, <4>5 DEF Changes!RowsArePure
      <4>6. CASE successor[d] = c
        BY <4>2, <4>3, <4>4, <4>6 DEF Changes!RowsArePure
      <4>7. CASE successor[d] \notin {NoChange, c}
        <5>1. ops'[successor[d]] = ops[successor[d]]
          BY <4>1, <4>7, <2>3
        <5>2. QED
          BY <4>3, <4>4, <4>7, <5>1 DEF Changes!RowsArePure
      <4>8. QED
        BY <4>5, <4>6, <4>7
    <3>4. QED
      BY <3>1, <3>2, <3>3
  <2>8. ASSUME NEW listed \in Changes!Listed, Changes!IsPrefixOf(listed)
        PROVE  Changes!IsPrefixOf(listed)'
    <3>1. listed.change \in Change
      BY DEF Changes!Listed
    <3>2. CASE listed.change = c
      BY <2>8, <3>2, <2>3 DEF Changes!IsPrefixOf
    <3>3. CASE listed.change = s
      BY <2>8, <3>3, <2>2 DEF Changes!IsPrefixOf
    <3>4. CASE listed.change \notin {c, s}
      BY <2>8, <3>1, <3>4, <2>3 DEF Changes!IsPrefixOf
    <3>5. QED
      BY <3>2, <3>3, <3>4
  <2>9. \A d \in Change :
          ops[d] # <<>> =>
               ops'[d] # <<>> /\ (Changes!OwnOnly(ops[d]) => Changes!OwnOnly(ops'[d]))
    BY <2>2, <2>3, <2>6
  <2>10. QED
    BY <2>5, <2>7, <2>8, <2>9, <1>3
<1>6. QED
  BY <1>4, <1>5

\* What the parts of the invariant that name lists say of rows that kept their prefixes.
LEMMA ListsKeep ==
  ASSUME Changes!IInv,
         \A l \in Changes!Listed : Changes!IsPrefixOf(l) => Changes!IsPrefixOf(l)',
         \A r \in Resolver : /\ todo'[r] \subseteq todo[r]
                             /\ manual'[r] \subseteq manual[r] \cup todo[r]
  PROVE  Changes!ListedIsPrefix'
<1> SUFFICES ASSUME NEW r \in Resolver, NEW listed \in todo'[r] \cup manual'[r]
             PROVE  Changes!IsPrefixOf(listed)'
  BY DEF Changes!ListedIsPrefix
<1>1. listed \in todo[r] \cup manual[r] /\ listed \in Changes!Listed
  BY DEF Changes!IInv, Changes!TypeOK
<1>2. QED
  BY <1>1 DEF Changes!IInv, Changes!ListedIsPrefix

\* Whoever confirms what he saw of a listed change writes nothing unseen.
LEMMA ListedConfirms ==
  ASSUME Changes!Setting, Changes!IInv, NEW r \in Resolver,
         NEW listed \in todo[r] \cup manual[r],
         Changes!Confirms(listed.change, Changes!Version(listed), Changes!ToSet(listed.ops)),
         UNCHANGED batch

  PROVE  /\ RowsTyped' /\ Changes!RowsArePure' /\ Changes!BatchIsOwn'
         /\ Changes!CommittedIsReviewed'
         /\ \A l \in Changes!Listed : Changes!IsPrefixOf(l) => Changes!IsPrefixOf(l)'
<1> DEFINE c == listed.change
           v == Len(listed.ops)
<1>1. /\ listed \in Changes!Listed /\ c \in Change /\ listed.ops \in Seq(Op)
      /\ RowsTyped /\ Changes!RowsArePure /\ Changes!IsPrefixOf(listed)
  BY DEF Changes!IInv, Changes!TypeOK, Changes!Listed, RowsTyped, Changes!ListedIsPrefix
<1>2. /\ Changes!Commits(c, v) /\ reviewed' = reviewed \cup Changes!ToSet(listed.ops)
      /\ change[c] = "pending" /\ v <= Len(ops[c])
  BY DEF Changes!Confirms, Changes!Version, Changes!Commits
<1>3. v # 0
  BY <1>1 DEF Changes!IsPrefixOf
<1>4. CASE v # 0
  <2>1. /\ RowsTyped' /\ Changes!RowsArePure'
        /\ \A d \in Change :
             /\ Changes!OwnOnly(ops[d]) /\ ops[d] # <<>> => Changes!OwnOnly(ops'[d])
             /\ ops[d] # <<>> => ops'[d] # <<>>
        /\ \A l \in Changes!Listed : Changes!IsPrefixOf(l) => Changes!IsPrefixOf(l)'
        /\ written' \subseteq written \cup Changes!ToSet(SubSeq(ops[c], 1, v))
    BY <1>1, <1>2, <1>4, CommitsKeeps
  <2>2. Changes!ToSet(SubSeq(ops[c], 1, v)) \subseteq Changes!ToSet(listed.ops)
    BY <1>1, <1>2, PrefixIsSeen DEF Changes!IsPrefixOf, RowsTyped
  <2>3. Changes!CommittedIsReviewed'
    BY <1>2, <2>1, <2>2 DEF Changes!IInv, Changes!CommittedIsReviewed
  <2>4. Changes!BatchIsOwn'
    BY <2>1 DEF Changes!IInv, Changes!BatchIsOwn, Changes!Idle
  <2>5. QED
    BY <2>1, <2>3, <2>4
<1>5. QED
  BY <1>3, <1>4

\* Rejecting pending changes keeps the rows.
LEMMA RejectsKeep ==
  ASSUME Changes!IInv, NEW c \in Change,
         change' = IF change[c] = "pending" THEN [change EXCEPT ![c] = "rejected"] ELSE change,
         UNCHANGED <<ops, successor>>
  PROVE  /\ RowsTyped' /\ Changes!RowsArePure'
         /\ \A l \in Changes!Listed : Changes!IsPrefixOf(l) => Changes!IsPrefixOf(l)'
<1>1. RowsTyped /\ Changes!RowsArePure
  BY DEF Changes!IInv, Changes!TypeOK, RowsTyped
<1>2. /\ change' \in [Change -> {"unused", "pending", "committed", "failed", "rejected"}]
      /\ \A d \in Change : /\ (change'[d] = "unused") <=> (change[d] = "unused")
                           /\ change'[d] = "pending" => change[d] = "pending"
  BY <1>1 DEF RowsTyped
<1>3. RowsTyped'
  BY <1>1, <1>2 DEF RowsTyped
<1>4. Changes!RowsArePure'
  <2> SUFFICES ASSUME NEW d \in Change
               PROVE  /\ change'[d] = "unused" <=> ops[d] = <<>>
                      /\ Changes!OwnOnly(ops[d]) \/ Changes!NoneOwn(ops[d])
                      /\ successor[d] # NoChange =>
                           /\ change'[d] \notin {"unused", "pending"}
                           /\ change'[successor[d]] # "unused"
                           /\ Changes!OwnOnly(ops[d]) <=> Changes!OwnOnly(ops[successor[d]])
    BY DEF Changes!RowsArePure, Changes!OwnOnly, Changes!NoneOwn
  <2>1. successor[d] # NoChange => successor[d] \in Change
    BY <1>1 DEF RowsTyped
  <2>2. QED
    BY <1>1, <1>2, <2>1 DEF Changes!RowsArePure
<1>5. \A l \in Changes!Listed : Changes!IsPrefixOf(l) => Changes!IsPrefixOf(l)'
  BY <1>2 DEF Changes!IsPrefixOf, Changes!Listed
<1>6. QED
  BY <1>3, <1>4, <1>5

\* Every step keeps lists prefixes and rows pure.
LEMMA ChangesInductive == ASSUME Changes!Setting, Changes!IInv, [Changes!Next]_(Changes!vars)
                     PROVE  Changes!IInv'
<1> USE DEF Changes!Setting
<1>1. /\ Changes!TypeOK /\ RowsTyped /\ Changes!RowsArePure /\ Changes!BatchIsOwn
      /\ Changes!ListedIsPrefix
      /\ Changes!CommittedIsReviewed
  BY DEF Changes!IInv, Changes!TypeOK, RowsTyped
<1>2. ASSUME NEW c \in Change \cup {NoChange}, NEW target \in Change, NEW o \in Op,
             Changes!Agent(c, target, o)
      PROVE  Changes!IInv'
  <2>1. /\ Changes!Stages(c, target, o) /\ o \notin Own
        /\ UNCHANGED <<todo, manual, automatic, batch, reviewed, written>>
    BY <1>2 DEF Changes!Agent, Changes!resolver, Changes!history
  <2>2. c # NoChange => ops[c] # <<>> /\ Changes!NoneOwn(ops[c])
    BY <1>2 DEF Changes!Agent, Changes!NoneOwn, Changes!ToSet
  <2>3. /\ RowsTyped' /\ Changes!RowsArePure'
        /\ \A d \in Change :
             /\ Changes!OwnOnly(ops[d]) /\ ops[d] # <<>> => Changes!OwnOnly(ops'[d])
             /\ ops[d] # <<>> => ops'[d] # <<>>
        /\ \A l \in Changes!Listed : Changes!IsPrefixOf(l) => Changes!IsPrefixOf(l)'
    BY <1>1, <2>1, <2>2, StagesKeeps
  <2>4. Changes!TypeOK' /\ Changes!BatchIsOwn' /\ Changes!CommittedIsReviewed'
    BY <1>1, <2>1, <2>3 DEF Changes!TypeOK, RowsTyped, Changes!BatchIsOwn, Changes!Idle,
       Changes!CommittedIsReviewed
  <2>5. Changes!ListedIsPrefix'
    BY <2>1, <2>3, ListsKeep
  <2>6. QED
    BY <2>3, <2>4, <2>5 DEF Changes!IInv
<1>3. ASSUME NEW r \in Resolver, Changes!Lists(r) PROVE Changes!IInv'
  <2>1. /\ todo' = [todo EXCEPT ![r] = {[change |-> c, ops |-> ops[c]] : c \in
                      {d \in Change : change[d] = "pending"}}]
        /\ manual' = [manual EXCEPT ![r] = {}]
        /\ UNCHANGED <<ops, change, successor, batch, reviewed, written>>
    BY <1>3 DEF Changes!Lists, Changes!rows, Changes!history
  <2>2. Changes!TypeOK'
    BY <1>1, <2>1 DEF Changes!TypeOK, Changes!Listed
  <2>3. Changes!RowsArePure' /\ Changes!BatchIsOwn' /\ Changes!CommittedIsReviewed'
    BY <1>1, <2>1 DEF Changes!RowsArePure, Changes!OwnOnly, Changes!NoneOwn,
       Changes!BatchIsOwn, Changes!Idle, Changes!CommittedIsReviewed
  <2>4. Changes!ListedIsPrefix'
    <3> SUFFICES ASSUME NEW q \in Resolver, NEW listed \in todo'[q] \cup manual'[q]
                 PROVE  Changes!IsPrefixOf(listed)'
      BY DEF Changes!ListedIsPrefix
    <3>1. CASE listed \in todo[q] \cup manual[q]
      BY <1>1, <2>1, <3>1 DEF Changes!ListedIsPrefix, Changes!IsPrefixOf
    <3>2. CASE listed \notin todo[q] \cup manual[q]
      <4>1. PICK c \in Change : /\ change[c] = "pending"
                                /\ listed = [change |-> c, ops |-> ops[c]]
        BY <2>1, <3>2, <1>1 DEF Changes!TypeOK
      <4>2. ops[c] # <<>> /\ ops[c] \in Seq(Op)
        BY <1>1, <4>1 DEF Changes!RowsArePure, RowsTyped
      <4>3. QED
        BY <2>1, <4>1, <4>2 DEF Changes!IsPrefixOf
    <3>3. QED
      BY <3>1, <3>2
  <2>5. QED
    BY <2>2, <2>3, <2>4 DEF Changes!IInv
<1>4. ASSUME NEW r \in Resolver, NEW listed \in todo[r], Changes!Resolves(r, listed)
      PROVE  Changes!IInv'
  <2>1. /\ todo' = [todo EXCEPT ![r] = @ \ {listed}] /\ UNCHANGED batch
        /\ \/ /\ Changes!Confirms(listed.change, Changes!Version(listed), Changes!ToSet(listed.ops))
              /\ UNCHANGED manual
           \/ /\ manual' = [manual EXCEPT ![r] = @ \cup {listed}]
              /\ UNCHANGED <<ops, change, successor, reviewed, written>>
    BY <1>4 DEF Changes!Resolves, Changes!rows, Changes!history
  <2>2. /\ todo' \in [Resolver -> SUBSET Changes!Listed]
        /\ manual' \in [Resolver -> SUBSET Changes!Listed]
        /\ \A q \in Resolver : /\ todo'[q] \subseteq todo[q]
                               /\ manual'[q] \subseteq manual[q] \cup todo[q]
    <3>1. manual' = manual \/ manual' = [manual EXCEPT ![r] = @ \cup {listed}]
      BY <2>1
    <3>2. listed \in Changes!Listed
      BY <1>1 DEF Changes!TypeOK
    <3>3. /\ manual' \in [Resolver -> SUBSET Changes!Listed]
          /\ \A q \in Resolver : manual'[q] \subseteq manual[q] \cup {listed}
          /\ \A q \in Resolver \ {r} : manual'[q] = manual[q]
      <4>1. CASE manual' = manual
        BY <1>1, <4>1 DEF Changes!TypeOK
      <4>2. CASE manual' = [manual EXCEPT ![r] = @ \cup {listed}]
        BY <1>1, <3>2, <4>2 DEF Changes!TypeOK
      <4>3. QED
        BY <3>1, <4>1, <4>2
    <3>4. /\ todo' \in [Resolver -> SUBSET Changes!Listed]
          /\ \A q \in Resolver : todo'[q] \subseteq todo[q]
      BY <1>1, <2>1 DEF Changes!TypeOK
    <3>5. QED
      BY <3>3, <3>4
  <2>3. CASE Changes!Confirms(listed.change, Changes!Version(listed), Changes!ToSet(listed.ops))
    <3>1. /\ RowsTyped' /\ Changes!RowsArePure' /\ Changes!BatchIsOwn'
          /\ Changes!CommittedIsReviewed'
          /\ \A l \in Changes!Listed : Changes!IsPrefixOf(l) => Changes!IsPrefixOf(l)'
      BY <2>1, <2>3, ListedConfirms
    <3>2. Changes!ListedIsPrefix'
      BY <2>2, <3>1, ListsKeep
    <3>3. QED
      BY <1>1, <2>1, <2>2, <3>1, <3>2 DEF Changes!IInv, Changes!TypeOK, RowsTyped
  <2>4. CASE UNCHANGED <<ops, change, successor, reviewed, written>>
    <3>1. /\ Changes!TypeOK' /\ Changes!RowsArePure' /\ Changes!BatchIsOwn'
          /\ Changes!CommittedIsReviewed'
          /\ \A l \in Changes!Listed : Changes!IsPrefixOf(l) => Changes!IsPrefixOf(l)'
      BY <1>1, <2>1, <2>2, <2>4 DEF Changes!TypeOK, Changes!RowsArePure, Changes!OwnOnly,
         Changes!NoneOwn, Changes!BatchIsOwn, Changes!Idle,
         Changes!CommittedIsReviewed, Changes!IsPrefixOf
    <3>2. Changes!ListedIsPrefix'
      BY <2>2, <3>1, ListsKeep
    <3>3. QED
      BY <3>1, <3>2 DEF Changes!IInv
  <2>5. QED
    BY <2>1, <2>3, <2>4
<1>5. ASSUME NEW listed \in manual["page"], Changes!PersonDecides(listed) PROVE Changes!IInv'
  <2>1. /\ UNCHANGED <<todo, manual, batch>>
        /\ \/ Changes!Confirms(listed.change, Changes!Version(listed), Changes!ToSet(listed.ops))
           \/ /\ change[listed.change] = "pending"
              /\ change' = [change EXCEPT ![listed.change] = "rejected"]
              /\ UNCHANGED <<ops, successor, reviewed, written>>
    BY <1>5 DEF Changes!PersonDecides, Changes!resolver, Changes!history
  <2>2. listed.change \in Change
    BY <1>1, <1>5 DEF Changes!TypeOK, Changes!Listed
  <2>3. /\ RowsTyped' /\ Changes!RowsArePure' /\ Changes!BatchIsOwn'
        /\ Changes!CommittedIsReviewed'
        /\ \A l \in Changes!Listed : Changes!IsPrefixOf(l) => Changes!IsPrefixOf(l)'
    <3>1. CASE Changes!Confirms(listed.change, Changes!Version(listed), Changes!ToSet(listed.ops))
      BY <1>5, <2>1, <3>1, ListedConfirms
    <3>2. CASE /\ change[listed.change] = "pending"
               /\ change' = [change EXCEPT ![listed.change] = "rejected"]
               /\ UNCHANGED <<ops, successor, reviewed, written>>
      <4>1. /\ RowsTyped' /\ Changes!RowsArePure'
            /\ \A l \in Changes!Listed : Changes!IsPrefixOf(l) => Changes!IsPrefixOf(l)'
        BY <2>2, <3>2, RejectsKeep
      <4>2. QED
        BY <1>1, <2>1, <3>2, <4>1 DEF Changes!BatchIsOwn, Changes!OwnOnly, Changes!Idle,
           Changes!CommittedIsReviewed
    <3>3. QED
      BY <2>1, <3>1, <3>2
  <2>4. Changes!ListedIsPrefix'
    BY <2>1, <2>3, ListsKeep
  <2>5. QED
    BY <1>1, <2>1, <2>3, <2>4 DEF Changes!IInv, Changes!TypeOK, RowsTyped
<1>6. ASSUME NEW target \in Change, NEW o \in Op, Changes!EditorSubmits(target, o)
      PROVE  Changes!IInv'
  <2>1. /\ Changes!Stages(batch.change, target, o) /\ o \in Own
        /\ batch' = [pc |-> "staging", change |-> target, version |-> Len(ops'[target])]
        /\ UNCHANGED <<todo, manual, automatic, reviewed, written>>
    BY <1>6 DEF Changes!EditorSubmits, Changes!resolver, Changes!history
  <2>2. /\ batch.change \in Change \cup {NoChange}
        /\ batch.change # NoChange =>
             ops[batch.change] # <<>> /\ Changes!OwnOnly(ops[batch.change])
    BY <1>1 DEF Changes!BatchIsOwn, Changes!Idle
  <2>3. /\ RowsTyped' /\ Changes!RowsArePure'
        /\ ops'[target] # <<>> /\ Changes!OwnOnly(ops'[target])
        /\ \A l \in Changes!Listed : Changes!IsPrefixOf(l) => Changes!IsPrefixOf(l)'
    BY <1>1, <2>1, <2>2, StagesKeeps
  <2>4. Changes!ListedIsPrefix'
    BY <2>1, <2>3, ListsKeep
  <2>5. Len(ops'[target]) \in Nat \ {0}
    BY <2>3 DEF RowsTyped
  <2>6. Changes!TypeOK' /\ Changes!BatchIsOwn' /\ Changes!CommittedIsReviewed'
    BY <1>1, <2>1, <2>3, <2>5 DEF Changes!TypeOK, RowsTyped, Changes!BatchIsOwn,
       Changes!OwnOnly, Changes!CommittedIsReviewed
  <2>7. QED
    BY <2>3, <2>4, <2>6 DEF Changes!IInv
<1>7. CASE Changes!EditorGivesUp
  <2>1. /\ batch' = Changes!Idle /\ batch.change \in Change
        /\ change' = IF change[batch.change] = "pending"
                    THEN [change EXCEPT ![batch.change] = "rejected"] ELSE change
        /\ UNCHANGED <<ops, successor, todo, manual, reviewed, written>>
    BY <1>1, <1>7 DEF Changes!EditorGivesUp, Changes!BatchIsOwn, Changes!resolver,
       Changes!history
  <2>2. /\ RowsTyped' /\ Changes!RowsArePure'
        /\ \A l \in Changes!Listed : Changes!IsPrefixOf(l) => Changes!IsPrefixOf(l)'
    BY <2>1, RejectsKeep
  <2>3. Changes!ListedIsPrefix'
    BY <2>1, <2>2, ListsKeep
  <2>4. QED
    BY <1>1, <2>1, <2>2, <2>3 DEF Changes!IInv, Changes!TypeOK, RowsTyped,
       Changes!BatchIsOwn, Changes!Idle, Changes!CommittedIsReviewed
<1>8. CASE Changes!EditorConfirms
  <2>1. /\ batch.pc = "staging" /\ batch.change \in Change /\ batch' = Changes!Idle
        /\ ops[batch.change] # <<>> /\ Changes!OwnOnly(ops[batch.change])
        /\ \/ Changes!Confirms(batch.change, batch.version, Own)
           \/ UNCHANGED <<ops, change, successor, reviewed, written>>
        /\ UNCHANGED <<todo, manual>>
    BY <1>1, <1>8 DEF Changes!EditorConfirms, Changes!BatchIsOwn, Changes!rows,
       Changes!resolver, Changes!history
  <2>2. CASE Changes!Confirms(batch.change, batch.version, Own)
    <3>1. /\ Changes!Commits(batch.change, batch.version) /\ reviewed' = reviewed \cup Own
          /\ batch.version \in Nat /\ batch.version <= Len(ops[batch.change])
      BY <1>1, <2>2 DEF Changes!Confirms, Changes!Commits, Changes!TypeOK
    <3>2. batch.version # 0
      BY <1>1, <2>1 DEF Changes!BatchIsOwn
    <3>3. /\ RowsTyped' /\ Changes!RowsArePure'
          /\ \A l \in Changes!Listed : Changes!IsPrefixOf(l) => Changes!IsPrefixOf(l)'
          /\ written' \subseteq
               written \cup Changes!ToSet(SubSeq(ops[batch.change], 1, batch.version))
      BY <1>1, <2>1, <3>1, <3>2, CommitsKeeps
    <3>4. Changes!ToSet(SubSeq(ops[batch.change], 1, batch.version)) \subseteq Own
      <4>1. ops[batch.change] \in Seq(Op)
        BY <1>1, <2>1 DEF RowsTyped
      <4>2. QED
        BY <4>1, <2>1, <3>1 DEF Changes!OwnOnly, Changes!ToSet
    <3>5. Changes!ListedIsPrefix'
      BY <2>1, <3>3, ListsKeep
    <3>6. QED
      BY <1>1, <2>1, <3>1, <3>3, <3>4, <3>5
         DEF Changes!IInv, Changes!TypeOK, RowsTyped, Changes!BatchIsOwn, Changes!Idle,
            Changes!CommittedIsReviewed
  <2>3. CASE UNCHANGED <<ops, change, successor, reviewed, written>>
    <3>1. \A l \in Changes!Listed : Changes!IsPrefixOf(l) => Changes!IsPrefixOf(l)'
      BY <2>3 DEF Changes!IsPrefixOf
    <3>2. Changes!ListedIsPrefix'
      BY <2>1, <3>1, ListsKeep
    <3>3. QED
      BY <1>1, <2>1, <2>3, <3>2 DEF Changes!IInv, Changes!TypeOK, Changes!RowsArePure,
         Changes!OwnOnly, Changes!NoneOwn, Changes!BatchIsOwn,
         Changes!Idle, Changes!CommittedIsReviewed
  <2>4. QED
    BY <2>1, <2>2, <2>3
<1>9. CASE Changes!ChangesPermission \/ UNCHANGED Changes!vars
  <2>1. UNCHANGED <<ops, change, successor, todo, manual, batch, reviewed, written>>
    BY <1>9 DEF Changes!ChangesPermission, Changes!vars, Changes!rows, Changes!resolver,
       Changes!history
  <2>2. QED
    BY <1>1, <2>1 DEF Changes!IInv, Changes!TypeOK, Changes!RowsArePure, Changes!OwnOnly,
       Changes!NoneOwn, Changes!BatchIsOwn, Changes!Idle,
       Changes!ListedIsPrefix, Changes!IsPrefixOf, Changes!CommittedIsReviewed
<1>10. QED
  BY <1>2, <1>3, <1>4, <1>5, <1>6, <1>7, <1>8, <1>9 DEF Changes!Setting, Changes!Next

\* No operation is committed that nobody entitled has reviewed, however many resolvers,
\* changes and operations there are and whatever joins a change meanwhile.
LEMMA Reviewed == ASSUME Changes!Setting
                           PROVE  Changes!Spec => []Changes!CommittedIsReviewed
<1>1. Changes!IInv => Changes!CommittedIsReviewed
  BY DEF Changes!IInv
<1>2. QED
  BY <1>1, ChangesInit, ChangesInductive, PTL DEF Changes!Spec

-----------------------------------------------------------------------------
(* The handoffs                                                            *)

\* What the arguments of the start left in the slots is what was last sent.
LEMMA LinksInit == ASSUME Links!Absence, Links!Init PROVE Links!IInv
<1>1. initial \subseteq Links!Handoffs
  BY DEF Links!Init, Links!Arguments
<1>2. ASSUME NEW k \in Links!Slots, \E h \in initial : h[1] = k
      PROVE  (CHOOSE h \in initial : h[1] = k)[2] \in Id
  <2>1. (CHOOSE h \in initial : h[1] = k) \in Links!Handoffs
    BY <1>1, <1>2
  <2>2. QED
    BY <2>1 DEF Links!Handoffs
<1>3. pending \in [Links!Slots -> Id \cup {NoId}]
  BY <1>2 DEF Links!Init
<1>4. Links!TypeOK
  BY <1>1, <1>3 DEF Links!Init, Links!TypeOK
<1>5. Links!HoldsWhileTaking /\ Links!HandoffIsKept
  BY <1>4 DEF Links!Init, Links!TypeOK, Links!HoldsWhileTaking, Links!HandoffIsKept
<1>6. QED
  BY <1>4, <1>5 DEF Links!IInv

\* A handoff that arrives is kept in its slot, and the ones of other kinds stay.
LEMMA Dispatched ==
  ASSUME Links!Absence, Links!IInv, NEW h \in LinkKind \X Id, Links!Dispatches(h),
         UNCHANGED <<initial, page, held>>
  PROVE  Links!IInv'
<1>1. /\ Links!TypeOK /\ Links!HoldsWhileTaking /\ Links!HandoffIsKept
      /\ h[1] \in LinkKind /\ h[2] \in Id
  BY DEF Links!IInv
<1>2. CASE h[1] \in Links!InWindow
  BY <1>1, <1>2 DEF Links!Dispatches, Links!IInv, Links!TypeOK, Links!HoldsWhileTaking,
     Links!HandoffIsKept
<1>3. CASE h[1] \notin Links!InWindow
  <2>1. /\ h[1] \in Links!Slots
        /\ pending' = [pending EXCEPT ![h[1]] = h[2]] /\ sent' = [sent EXCEPT ![h[1]] = h[2]]
        /\ handedOver \ {h} \subseteq handedOver'
    BY <1>1, <1>3 DEF Links!Dispatches, Links!Kept, Links!Slots
  <2>2. Links!TypeOK' /\ Links!HoldsWhileTaking'
    BY <1>1, <2>1 DEF Links!TypeOK, Links!HoldsWhileTaking
  <2>3. Links!HandoffIsKept'
    <3> SUFFICES ASSUME NEW k \in Links!Slots
                 PROVE  \/ sent'[k] = NoId \/ <<k, sent'[k]>> \in handedOver'
                        \/ sent'[k] \in {pending'[k], held'[k]}
      BY DEF Links!HandoffIsKept
    <3>1. CASE k = h[1]
      BY <1>1, <2>1, <3>1 DEF Links!TypeOK
    <3>2. CASE k # h[1]
      <4>1. <<k, sent[k]>> # h
        BY <3>2
      <4>2. sent'[k] = sent[k] /\ pending'[k] = pending[k] /\ held'[k] = held[k]
        BY <1>1, <2>1, <3>2 DEF Links!TypeOK
      <4>3. QED
        BY <1>1, <2>1, <4>1, <4>2 DEF Links!HandoffIsKept
    <3>3. QED
      BY <3>1, <3>2
  <2>4. QED
    BY <2>2, <2>3 DEF Links!IInv
<1>4. QED
  BY <1>2, <1>3

\* The same for one of several handoffs, or none.
LEMMA DispatchedAny ==
  ASSUME Links!Absence, Links!IInv, NEW handoffs \in SUBSET (LinkKind \X Id),
         Links!DispatchesAny(handoffs), UNCHANGED <<initial, page, held>>
  PROVE  Links!IInv'
<1>1. CASE handoffs = {} /\ UNCHANGED <<pending, sent, handedOver>>
  BY <1>1 DEF Links!IInv, Links!TypeOK, Links!HoldsWhileTaking, Links!HandoffIsKept
<1>2. ASSUME NEW h \in handoffs, Links!Dispatches(h) PROVE Links!IInv'
  BY <1>2, Dispatched
<1>3. QED
  BY <1>1, <1>2 DEF Links!DispatchesAny

\* Every step keeps the last handoff of each kind.
LEMMA LinksInductive == ASSUME Links!Absence, ~ReloadsMidTake, Links!IInv,
                               [Links!Next]_(Links!vars)
                   PROVE  Links!IInv'
<1>1. /\ Links!TypeOK /\ Links!HoldsWhileTaking /\ Links!HandoffIsKept
      /\ Links!Handoffs \subseteq LinkKind \X Id
  BY DEF Links!IInv, Links!Handoffs
<1>2. CASE Links!Starts
  <2>1. Links!First(Links!StartOrder, initial) \subseteq LinkKind \X Id
    BY <1>1 DEF Links!First, Links!TypeOK
  <2>2. QED
    BY <1>2, <2>1, DispatchedAny DEF Links!Starts, Links!pageVars
<1>3. ASSUME NEW handoffs \in Links!Arguments, Links!SecondInstance(handoffs) PROVE Links!IInv'
  <2>1. Links!First(Links!InstanceOrder, handoffs) \subseteq LinkKind \X Id
    BY <1>1 DEF Links!First, Links!Arguments
  <2>2. QED
    BY <1>3, <2>1, DispatchedAny DEF Links!SecondInstance, Links!pageVars
<1>4. ASSUME NEW g \in Links!Handoffs \cup {Links!Other},
             NEW h \in Links!Handoffs \cup {Links!Other},
             Links!DeepLink(<<g, h>>)
      PROVE  Links!IInv'
  <2> DEFINE urls == <<g, h>>
             known == {i \in DOMAIN urls : urls[i] # Links!Other}
             first == {urls[i] : i \in {j \in known : \A n \in known : j <= n}}
  <2>1. Links!DispatchesAny(first) /\ UNCHANGED <<initial, page, held>>
    BY <1>4 DEF Links!DeepLink, Links!pageVars
  <2>2. first \subseteq LinkKind \X Id
    <3>1. \A i \in known : urls[i] \in Links!Handoffs
      OBVIOUS
    <3>2. QED
      BY <1>1, <3>1
  <2> HIDE DEF first
  <2>3. QED
    BY <2>1, <2>2, DispatchedAny
<1>5. ASSUME NEW id \in Id, Links!OpenDetails(id) PROVE Links!IInv'
  <2>1. <<"details", id>> \in LinkKind \X Id
    BY <1>5 DEF Links!OpenDetails
  <2>2. QED
    BY <1>5, <2>1, Dispatched DEF Links!OpenDetails, Links!pageVars
<1>6. CASE Links!Reloads
  <2>1. \A k \in Links!Slots : held[k] = NoId
    BY <1>1, <1>6 DEF Links!Reloads, Links!HoldsWhileTaking
  <2>2. QED
    BY <1>1, <1>6, <2>1 DEF Links!Reloads, Links!IInv, Links!TypeOK, Links!HoldsWhileTaking,
       Links!HandoffIsKept
<1>7. ASSUME NEW k \in Links!Slots, Links!Takes(k) PROVE Links!IInv'
  <2>1. Links!TypeOK' /\ Links!HoldsWhileTaking'
    BY <1>1, <1>7 DEF Links!Takes, Links!Elsewhere, Links!TypeOK, Links!HoldsWhileTaking
  <2>2. Links!HandoffIsKept'
    BY <1>1, <1>7 DEF Links!Takes, Links!Elsewhere, Links!TypeOK, Links!HoldsWhileTaking,
       Links!HandoffIsKept
  <2>3. QED
    BY <2>1, <2>2 DEF Links!IInv
<1>8. ASSUME NEW k \in Links!Slots, Links!ShowsTaken(k) PROVE Links!IInv'
  <2>1. Links!TypeOK' /\ Links!HoldsWhileTaking'
    BY <1>1, <1>8 DEF Links!ShowsTaken, Links!Elsewhere, Links!TypeOK, Links!HoldsWhileTaking
  <2>2. Links!HandoffIsKept'
    BY <1>1, <1>8 DEF Links!ShowsTaken, Links!Elsewhere, Links!TypeOK, Links!HandoffIsKept
  <2>3. QED
    BY <2>1, <2>2 DEF Links!IInv
<1>9. ASSUME NEW k \in Links!Slots, Links!Listens(k) PROVE Links!IInv'
  BY <1>1, <1>9 DEF Links!Listens, Links!Elsewhere, Links!IInv, Links!TypeOK,
     Links!HoldsWhileTaking, Links!HandoffIsKept
<1>10. CASE UNCHANGED Links!vars
  BY <1>1, <1>10 DEF Links!vars, Links!IInv, Links!TypeOK, Links!HoldsWhileTaking,
     Links!HandoffIsKept
<1>11. QED
  BY <1>2, <1>3, <1>4, <1>5, <1>6, <1>7, <1>8, <1>9, <1>10 DEF Links!Next

\* The last handoff of a kind is shown, on its way to the page or in its slot, for any
\* number of links, unless the page reloads while it is being given what it took.
LEMMA HandoffKept ==
  ASSUME Links!Absence, ~ReloadsMidTake PROVE Links!Spec => []Links!HandoffIsKept
<1>1. Links!IInv => Links!HandoffIsKept
  BY DEF Links!IInv
<1>2. QED
  BY <1>1, LinksInit, LinksInductive, PTL DEF Links!Spec

-----------------------------------------------------------------------------
(* The list of requests                                                    *)

\* Before the first answer nothing is shown or decided.
LEMMA PageInit == ASSUME Page!Absence, Page!Init PROVE Page!IInv
<1>1. Page!In("resolved") = {}
  BY DEF Page!Init, Page!In
<1>2. Page!TypeOK
  BY DEF Page!Init, Page!TypeOK, Page!List, Page!None, Page!NoFetch
<1>3. Page!DecisionIsFetched /\ Page!FetchIsFresh /\ Page!DecisionIsShown
  BY DEF Page!Init, Page!DecisionIsFetched, Page!FetchIsFresh, Page!DecisionIsShown,
     Page!NoFetch, Page!None
<1>4. QED
  BY <1>2, <1>3 DEF Page!IInv

\* A resolved request stays resolved.
LEMMA ResolvedStays ==
  ASSUME Page!IInv, NEW r \in Request, NEW s \in {"pending", "resolved"},
         request[r] # "resolved", request' = [request EXCEPT ![r] = s]
  PROVE  /\ request' \in [Request -> {"none", "pending", "resolved"}]
         /\ Page!In("resolved") \subseteq Page!In("resolved")'
  BY DEF Page!IInv, Page!TypeOK, Page!In

\* An explicit refresh that loads has a fetch of its own.
LEMMA Loaded ==
  ASSUME Page!IInv, NEW k \in Explicit, Page!Load(k),
         UNCHANGED <<dashboard, selected, deciding, decided>>,
         request' \in [Request -> {"none", "pending", "resolved"}],
         Page!In("resolved") \subseteq Page!In("resolved")',
         k = "decide" => deciding \in Page!In("resolved")',
         task[k] # "loading"
  PROVE  Page!IInv'
<1>1. Page!TypeOK /\ Page!DecisionIsFetched /\ Page!FetchIsFresh /\ Page!DecisionIsShown
  BY DEF Page!IInv
<1>2. CASE ~Page!Refreshing
  <2>1. /\ fetch' = [pc |-> "asked", data |-> Page!None]
        /\ task' = [task EXCEPT ![k] = "loading"]
    BY <1>2 DEF Page!Load, Page!Starts
  <2>2. Page!TypeOK'
    BY <1>1, <2>1 DEF Page!TypeOK, Page!List, Page!None
  <2>3. Page!DecisionIsFetched'
    BY <1>1, <1>2, <2>1 DEF Page!TypeOK, Page!DecisionIsFetched, Page!Refreshing, Page!None
  <2>4. Page!FetchIsFresh' /\ Page!DecisionIsShown'
    BY <1>1, <2>1 DEF Page!FetchIsFresh, Page!DecisionIsShown, Page!None
  <2>5. QED
    BY <2>2, <2>3, <2>4 DEF Page!IInv
<1>3. CASE Page!Refreshing
  <2>1. UNCHANGED fetch /\ task' = [task EXCEPT ![k] = "waiting"]
    BY <1>3 DEF Page!Load, Page!Joins
  <2>2. Page!TypeOK'
    BY <1>1, <2>1 DEF Page!TypeOK, Page!List
  <2>3. Page!DecisionIsFetched'
    BY <1>1, <1>3, <2>1 DEF Page!TypeOK, Page!DecisionIsFetched, Page!Refreshing
  <2>4. Page!FetchIsFresh' /\ Page!DecisionIsShown'
    BY <1>1, <2>1 DEF Page!FetchIsFresh, Page!DecisionIsShown
  <2>5. QED
    BY <2>2, <2>3, <2>4 DEF Page!IInv
<1>4. QED
  BY <1>2, <1>3

\* Every step keeps decided requests out of the lists to come.
LEMMA PageInductive == ASSUME Page!Absence, Page!IInv, [Page!Next]_(Page!vars) PROVE Page!IInv'
<1>1. Page!TypeOK /\ Page!DecisionIsFetched /\ Page!FetchIsFresh /\ Page!DecisionIsShown
  BY DEF Page!IInv
<1>2. CASE Page!Tick
  BY <1>1, <1>2 DEF Page!Tick, Page!Starts, Page!page, Page!IInv, Page!TypeOK, Page!List,
     Page!None, Page!In, Page!DecisionIsFetched,
     Page!Refreshing, Page!FetchIsFresh, Page!DecisionIsShown
<1>3. CASE Page!Button
  BY <1>3, <1>1, Loaded DEF Page!Button, Page!page, Page!In, Page!TypeOK
<1>4. ASSUME NEW k \in Explicit, Page!Wake(k) PROVE Page!IInv'
  BY <1>4, <1>1, Loaded DEF Page!Wake, Page!page, Page!In, Page!TypeOK, Page!DecisionIsFetched
<1>5. CASE Page!Serve
  <2>1. /\ fetch'.pc = "read" /\ fetch'.data.pending = Page!In("pending")
        /\ fetch' \in [pc : {"idle", "asked", "read"}, data : Page!List]
    BY <1>5 DEF Page!Serve, Page!List, Page!In
  <2>2. Page!In("pending") \cap Page!In("resolved") = {}
    BY DEF Page!In
  <2>3. QED
    BY <1>1, <1>5, <2>1, <2>2 DEF Page!Serve, Page!page, Page!IInv, Page!TypeOK, Page!In,
       Page!DecisionIsFetched, Page!Refreshing,
       Page!FetchIsFresh, Page!DecisionIsShown
<1>6. CASE Page!Answer
  <2>1. /\ task' \in [Explicit -> {"idle", "waiting", "loading"}]
        /\ \A k \in Explicit : task'[k] = IF task[k] = "loading" THEN "idle" ELSE task[k]
        /\ fetch' = Page!NoFetch /\ dashboard' = fetch.data /\ UNCHANGED request
    BY <1>1, <1>6 DEF Page!Answer, Page!Ended, Page!TypeOK
  <2>2. CASE Page!Decided
    <3>1. /\ decided' = decided \cup {deciding} /\ deciding' = Page!NoRequest
          /\ deciding \in Page!In("resolved") /\ deciding \notin fetch.data.pending
      BY <1>1, <1>6, <2>2 DEF Page!Answer, Page!Decided, Page!DecisionIsFetched
    <3>2. Page!TypeOK'
      BY <1>1, <2>1, <3>1 DEF Page!TypeOK, Page!NoFetch, Page!None, Page!List, Page!In
    <3>3. Page!DecisionIsFetched' /\ Page!FetchIsFresh' /\ Page!DecisionIsShown'
      BY <1>1, <2>1, <2>2, <3>1 DEF Page!Decided, Page!DecisionIsFetched, Page!FetchIsFresh,
         Page!DecisionIsShown,
         Page!NoFetch, Page!None
    <3>4. QED
      BY <3>2, <3>3 DEF Page!IInv
  <2>3. CASE ~Page!Decided
    <3>1. UNCHANGED <<decided, deciding>>
      BY <1>6, <2>3 DEF Page!Answer
    <3>2. Page!TypeOK'
      BY <1>1, <2>1, <3>1 DEF Page!TypeOK, Page!NoFetch, Page!None, Page!List, Page!In
    <3>3. Page!DecisionIsFetched' /\ Page!FetchIsFresh' /\ Page!DecisionIsShown'
      BY <1>1, <2>1, <2>3, <3>1 DEF Page!Decided, Page!DecisionIsFetched, Page!FetchIsFresh,
         Page!DecisionIsShown,
         Page!NoFetch, Page!None, Page!In
    <3>4. QED
      BY <3>2, <3>3 DEF Page!IInv
  <2>4. QED
    BY <2>2, <2>3
<1>7. CASE Page!AnswerFails
  <2>1. /\ task' \in [Explicit -> {"idle", "waiting", "loading"}]
        /\ \A k \in Explicit : task'[k] = IF task[k] = "loading" THEN "idle" ELSE task[k]
        /\ fetch' = Page!NoFetch /\ UNCHANGED <<request, dashboard, decided>>
        /\ deciding' = IF Page!Decided THEN Page!NoRequest ELSE deciding
    BY <1>1, <1>7 DEF Page!AnswerFails, Page!Ended, Page!TypeOK, Page!page
  <2>2. Page!TypeOK'
    BY <1>1, <2>1 DEF Page!TypeOK, Page!NoFetch, Page!None, Page!List, Page!In
  <2>3. Page!DecisionIsFetched' /\ Page!FetchIsFresh' /\ Page!DecisionIsShown'
    BY <1>1, <2>1 DEF Page!Decided, Page!DecisionIsFetched, Page!FetchIsFresh,
       Page!DecisionIsShown, Page!NoFetch,
       Page!None, Page!In
  <2>4. QED
    BY <2>2, <2>3 DEF Page!IInv
<1>8. CASE Page!Decide
  BY <1>1, <1>8 DEF Page!Decide, Page!page, Page!IInv, Page!TypeOK, Page!List, Page!In,
     Page!DecisionIsFetched, Page!Refreshing,
     Page!FetchIsFresh, Page!DecisionIsShown, Page!Absence
<1>9. CASE Page!DecisionStored
  <2>1. /\ deciding \in Request /\ "decide" \in Explicit /\ Page!Load("decide")
        /\ request[deciding] = "pending" /\ request' = [request EXCEPT ![deciding] = "resolved"]
        /\ UNCHANGED <<dashboard, selected, deciding, decided>> /\ task["decide"] # "loading"
    BY <1>1, <1>9 DEF Page!DecisionStored, Page!TypeOK, Page!page
  <2>2. /\ request' \in [Request -> {"none", "pending", "resolved"}]
        /\ Page!In("resolved") \subseteq Page!In("resolved")'
    BY <2>1, ResolvedStays
  <2>3. deciding \in Page!In("resolved")'
    BY <1>1, <2>1 DEF Page!In, Page!TypeOK
  <2>4. QED
    BY <2>1, <2>2, <2>3, Loaded
<1>10. CASE Page!DecisionFails
  BY <1>1, <1>10 DEF Page!DecisionFails, Page!page, Page!IInv, Page!TypeOK, Page!In,
     Page!DecisionIsFetched, Page!Refreshing,
     Page!FetchIsFresh, Page!DecisionIsShown
<1>11. ASSUME NEW r \in Request, Page!Handoff(r) PROVE Page!IInv'
  <2>1. CASE task["handoff"] = "idle"
    BY <1>1, <1>11, <2>1, Loaded DEF Page!Handoff, Page!In, Page!TypeOK
  <2>2. CASE task["handoff"] # "idle"
    BY <1>1, <1>11, <2>2 DEF Page!Handoff, Page!IInv, Page!TypeOK, Page!In,
       Page!DecisionIsFetched, Page!Refreshing,
       Page!FetchIsFresh, Page!DecisionIsShown
  <2>3. QED
    BY <2>1, <2>2
<1>12. ASSUME NEW r \in Request, Page!Select(r) PROVE Page!IInv'
  BY <1>1, <1>12 DEF Page!Select, Page!IInv, Page!TypeOK, Page!In, Page!DecisionIsFetched,
     Page!Refreshing, Page!FetchIsFresh,
     Page!DecisionIsShown
<1>13. ASSUME NEW r \in Request, Page!Arrives(r) \/ Page!ResolvedElsewhere(r) PROVE Page!IInv'
  <2>1. /\ request' \in [Request -> {"none", "pending", "resolved"}]
        /\ Page!In("resolved") \subseteq Page!In("resolved")'
        /\ UNCHANGED <<dashboard, fetch, task, deciding, decided>>
    BY <1>13, ResolvedStays DEF Page!Arrives, Page!ResolvedElsewhere, Page!page
  <2>2. QED
    BY <1>1, <2>1 DEF Page!IInv, Page!TypeOK, Page!DecisionIsFetched, Page!Refreshing,
       Page!FetchIsFresh,
       Page!DecisionIsShown
<1>14. CASE UNCHANGED Page!vars
  BY <1>1, <1>14 DEF Page!vars, Page!page, Page!IInv, Page!TypeOK, Page!In,
     Page!DecisionIsFetched, Page!Refreshing,
     Page!FetchIsFresh, Page!DecisionIsShown
<1>15. QED
  BY <1>2, <1>3, <1>4, <1>5, <1>6, <1>7, <1>8, <1>9, <1>10, <1>11, <1>12, <1>13,
     <1>14 DEF Page!Next

\* A request that was decided is not offered again once the decision has ended with a
\* list, however many refreshes run into each other.
LEMMA DecisionShown == ASSUME Page!Absence PROVE Page!Spec => []Page!DecisionIsShown
<1>1. Page!IInv => Page!DecisionIsShown
  BY DEF Page!IInv
<1>2. QED
  BY <1>1, PageInit, PageInductive, PTL DEF Page!Spec

-----------------------------------------------------------------------------
(* The application                                                         *)

\* A step of the application is a step of each component or leaves it alone.
LEMMA DesktopRunsParts ==
  DesktopSpec => Chats!Spec /\ Host!Spec /\ Links!Spec /\ Changes!Spec /\ Page!Spec
<1>1. DesktopInit => Chats!Init /\ Host!Init /\ Links!Init /\ Changes!Init /\ Page!Init
  BY DEF DesktopInit
<1> USE DEF DesktopNext, desktopVars, BackendsStep, ChatStep, HostStep, LinksStep, ChangesStep,
            PageStep, SyncStep, CheckoutStep
<1>2. [DesktopNext]_desktopVars => [Chats!Next]_(Chats!vars)
  BY DEF chatVars, Chats!vars, Chats!chat, Chats!request
<1>3. [DesktopNext]_desktopVars => [Host!Next]_(Host!vars)
  BY DEF hostVars, Host!vars
<1>4. [DesktopNext]_desktopVars => [Links!Next]_(Links!vars)
  BY DEF handoffVars, Links!vars
<1>5. [DesktopNext]_desktopVars => [Changes!Next]_(Changes!vars)
  BY DEF changeVars, Changes!vars, Changes!rows, Changes!resolver
<1>6. [DesktopNext]_desktopVars => [Page!Next]_(Page!vars)
  BY DEF pageVars, Page!vars, Page!page
<1>7. QED
  BY <1>1, <1>2, <1>3, <1>4, <1>5, <1>6, PTL
     DEF DesktopSpec, Chats!Spec, Host!Spec, Links!Spec, Changes!Spec, Page!Spec

\* A process that quits or restarts leaves no command of its daemon behind, and no state file
\* that names it unless the file could not be removed, also when starts overlap.
THEOREM CleanExit == DesktopSpec => []Host!ExitIsClean
<1>1. Host!Spec => []Host!ExitIsClean
  BY EndsCleanly, DesktopAssumption
<1>2. QED
  BY <1>1, DesktopRunsParts, PTL

\* The state file names the process that serves, so at most one does, and it ends cleanly,
\* whatever crashed, wherever a shutdown was and however starts overlap; except for a process whose
\* file another wrote over or removed after checking it earlier, or that such a one overran.
THEOREM OneDaemonServes == DesktopSpec => []OneDaemonExitsCleanly
<1>1. Host!Spec => []Host!OneDaemonExitsCleanly
  BY OneServes, DesktopAssumption
<1>2. QED
  BY <1>1, DesktopRunsParts, PTL DEF OneDaemonExitsCleanly

\* A conversation that shows a turn as going on has exactly one handler at work on it, the one
\* that a stop reaches, and one that shows none has no handler and no open message, while the
\* settling of a turn does not fail after the next has begun.
THEOREM Turns == ASSUME ~LateFailures PROVE DesktopSpec => []TurnOwnsConversation
<1>1. Chats!Spec => []Chats!TurnOwnsConversation
  BY OwnedByTurns
<1>2. QED
  BY <1>1, DesktopRunsParts, PTL DEF TurnOwnsConversation

\* No operation is committed that nobody entitled has reviewed, however many resolvers,
\* changes and operations there are.
THEOREM ReviewedCommits == DesktopSpec => []CommittedIsReviewed
<1>1. Changes!Spec => []Changes!CommittedIsReviewed
  BY Reviewed, DesktopAssumption
<1>2. QED
  BY <1>1, DesktopRunsParts, PTL DEF CommittedIsReviewed

\* Neither the handoff that was sent last nor a decision is lost on the way to the page,
\* however refreshes overlap, unless the page reloads while it takes a handoff.
THEOREM PageFollows == ASSUME ~ReloadsMidTake PROVE DesktopSpec => []PageShowsTheLatest
<1>1. (Links!Spec => []Links!HandoffIsKept) /\ (Page!Spec => []Page!DecisionIsShown)
  BY HandoffKept, DecisionShown, DesktopAssumption
<1>2. Links!HandoffIsKept /\ Page!DecisionIsShown => PageShowsTheLatest
  BY DEF PageShowsTheLatest
<1>3. QED
  BY <1>1, <1>2, DesktopRunsParts, PTL
=============================================================================
