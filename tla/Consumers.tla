----------------------------- MODULE Consumers -----------------------------
(***************************************************************************)
(* The execution of a command with a credential: the registry of the       *)
(* daemon (Execution), the command line it was given (CommandScan), the    *)
(* files it was reviewed with (ExecutionEvidence) and the process that     *)
(* waits for it (ConsumerRun).  They run side by side and share no         *)
(* variable.                                                               *)
(***************************************************************************)
EXTENDS Execution

CONSTANTS
  MaxWords,                                      \* of CommandScan
  Path, File, NoPath, MaxCommands, MaxEdits,     \* of ExecutionEvidence
  Kind, RetryLimit, MaxRunFaults                 \* of ConsumerRun

VARIABLES
  language, words, input, env,
  target, disk, newest, edits, returned, unseen, script, plan, evidencePc, at, found, ran,
  kind, work, link, op, code, reached, runPc, answer, named, retries, handed, exit, submitted,
  launched, runFaults

scanVars == <<language, words, input, env>>
evidenceVars ==
  <<target, disk, newest, edits, returned, unseen, script, plan, evidencePc, at, found, ran>>
runVars ==
  <<kind, work, link, op, code, reached, runPc, answer, named, retries, handed, exit, submitted,
    launched, runFaults>>

Line     == INSTANCE CommandScan
Evidence == INSTANCE ExecutionEvidence WITH pc <- evidencePc
Command  == INSTANCE ConsumerRun WITH
  job <- work, pc <- runPc, faults <- runFaults, MaxFaults <- MaxRunFaults

\* What stands for no file is none of the names.
ASSUME EvidenceAssumption == Evidence!Absence /\ MaxCommands \in Nat

ConsumersInit == Init /\ Line!Init /\ Evidence!Init /\ Command!Init

RegistryStep == Next /\ UNCHANGED <<scanVars, evidenceVars, runVars>>
ScanStep     == Line!Next /\ UNCHANGED <<vars, evidenceVars, runVars>>
EvidenceStep == Evidence!Next /\ UNCHANGED <<vars, scanVars, runVars>>
CommandStep  == Command!Next /\ UNCHANGED <<vars, scanVars, evidenceVars>>

ConsumersNext == RegistryStep \/ ScanStep \/ EvidenceStep \/ CommandStep

consumersVars == <<vars, scanVars, evidenceVars, runVars>>

ConsumersSpec == ConsumersInit /\ [][ConsumersNext]_consumersVars

-----------------------------------------------------------------------------
\* The bytes that a person and the reviewer were shown are those that are compared and
\* started; a command reads the caller's input only if it runs what it reads, and what it
\* captured as data is data, but for one shell option.
EvidenceHolds ==
  /\ Evidence!ShownIsChecked /\ Evidence!RunsWhatWasShown
  /\ Line!StdinOnlyWhenRead /\ Line!CodeIsNotCalledData

\* The exit code of the command, with the successor that a change names, tells what happened to
\* its request.
ExitTellsOutcome == Command!ExitTellsOutcome
=============================================================================
