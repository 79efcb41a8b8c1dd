---------------------------- MODULE ConsumerRun ----------------------------
(***************************************************************************)
(* A command of the plankton CLI that submits work to the daemon and waits *)
(* for its outcome: `run` (a consumer), `password create --wait` (a draft) *)
(* and a password change with `--commit sync`.  Only the reading of a      *)
(* status is repeated when the daemon cannot be reached.                   *)
(***************************************************************************)
EXTENDS Naturals

CONSTANTS
  Kind,        \* of the command: "run", "draft", "change"
  RetryLimit,  \* STATUS_POLL_RETRY_LIMIT
  MaxFaults    \* bound: lost answers, failed handoffs and daemon restarts

VARIABLES
  kind,      \* of this command
  job,       \* what was submitted, as the daemon knows it; for a change, the state of the change
             \* set that took the operation of this command
  link,      \* that change set names a successor
  code,      \* exit code of the consumer: "zero", "other" or "none"
  reached,   \* the daemon the command is connected to still runs
  pc, answer, named, retries, handed,   \* the command, and the last status it read, with or
                                        \* without the name of a successor
  exit,      \* how the command ended: "none" (not yet), with a result ("zero", "one"), or with an
             \* error message instead ("error", which sets exit code 1 as well)
  submitted, launched,           \* history: submissions taken, consumers started
  op,        \* history of a change: this operation is "staged", in the catalog ("applied"), cut
             \* off into the successor ("moved") and applied by it ("later"), or came "late", to a
             \* change set that was no longer open
  faults

change == <<link, op>>
work == <<job, code, launched, change>>
cli  == <<pc, answer, named, retries, handed, exit>>
vars == <<kind, work, reached, cli, submitted, faults>>

Pending == {"evaluating", "review", "approved"}
Terminal == {"completed", "failed", "denied"}
Faulty == faults < MaxFaults /\ faults' = faults + 1
Limit == IF kind = "change" THEN 0 ELSE RetryLimit

Init ==
  /\ kind \in Kind
  /\ job = "none" /\ code = "none" /\ reached = TRUE /\ launched = 0
  /\ link = FALSE /\ op = "none"
  /\ pc = "submit" /\ answer = "none" /\ named = FALSE
  /\ retries = 0 /\ handed = FALSE /\ exit = "none"
  /\ submitted = 0 /\ faults = 0

-----------------------------------------------------------------------------
(* What happens to the work behind the daemon                              *)

Moves(from, to) == job \in from /\ job' \in to
Works == UNCHANGED <<kind, reached, cli, submitted, faults>>

Reviewed ==
  /\ \/ kind = "run" /\ Moves({"evaluating"}, {"review", "approved", "denied"})
     \/ kind = "run" /\ Moves({"evaluating", "review"}, {"approved", "denied"})
     \/ kind = "draft" /\ Moves({"review"}, {"completed"})
  /\ UNCHANGED <<code, launched, change>> /\ Works

\* PasswordChangeCoordinator::confirm of a version that has the operation.  Later operations are
\* cut off into a successor, whose name is saved with the end.  A confirmation that cannot save
\* its end leaves the change set committing, with the catalog written or not.
ConfirmedWith ==
  /\ kind = "change"
  /\ \/ Moves({"review"}, {"completed"}) /\ op' = "applied" /\ link' \in BOOLEAN
     \/ Moves({"review"}, {"failed"}) /\ op' = op /\ link' \in BOOLEAN
     \/ Moves({"review"}, {"committing"}) /\ op' \in {"staged", "applied"} /\ link' = link
  /\ UNCHANGED <<code, launched>> /\ Works

\* Of an earlier version: the operation goes to the successor, or is lost with the end of it.
ConfirmedWithout ==
  /\ kind = "change"
  /\ \/ Moves({"review"}, {"completed", "failed"}) /\ op' = "moved" /\ link' = TRUE
     \/ Moves({"review"}, {"committing"}) /\ UNCHANGED change
  /\ UNCHANGED <<code, launched>> /\ Works

\* The change set is rejected as a whole.
Rejected ==
  /\ kind = "change" /\ Moves({"review"}, {"denied"})
  /\ UNCHANGED <<code, launched, change>> /\ Works

\* What happens after: another submission makes the successor, and the successor is committed.
Succeeds ==
  /\ \/ kind = "change" /\ job \notin {"none", "review"} /\ link' = TRUE /\ op' = op
     \/ op = "moved" /\ op' = "later" /\ link' = link
  /\ UNCHANGED <<job, code, launched>> /\ Works

Expires ==
  /\ kind = "run" /\ job \in Pending
  /\ job' = "failed" /\ UNCHANGED <<code, launched, change>> /\ Works

\* complete_execution: a consumer that ended well still fails when its audit cannot be kept.
ConsumerEnds ==
  /\ job = "running"
  /\ \E c \in {"zero", "other", "none"} :
       /\ code' = c
       /\ job' \in {"failed"} \cup (IF c = "zero" THEN {"completed"} ELSE {})
  /\ UNCHANGED <<launched, change>> /\ Works

\* A new daemon has another port; plans and consumers of the old one are gone.
DaemonRestarts ==
  /\ reached /\ Faulty /\ reached' = FALSE
  /\ job' = IF kind = "run" /\ job \in Pending \cup {"running"} THEN "failed" ELSE job
  /\ UNCHANGED <<kind, code, launched, change, cli, submitted>>

-----------------------------------------------------------------------------
(* The command                                                             *)

Ends(e) == pc' = "done" /\ exit' = e
Errs == Ends("error") /\ UNCHANGED <<answer, named, retries, handed>>

\* An operation joins an open change set, or the successor of one that is not open, whatever
\* the state of that (PasswordChangeCoordinator::successor_for).
Joins ==
  \/ job' = "review" /\ op' = "staged" /\ link' = FALSE
  \/ job' \in Terminal \cup {"committing"} /\ op' = "late" /\ link' \in BOOLEAN

\* submit_execution_and_wait, create_password_draft, submit_password_change: sent once, and
\* refused or not taken at all.
Submit ==
  /\ pc = "submit"
  /\ \/ /\ reached /\ submitted' = submitted + 1
        /\ \/ kind = "run" /\ job' \in {"evaluating", "review"} /\ UNCHANGED change
           \/ kind = "draft" /\ job' = "review" /\ UNCHANGED change
           \/ kind = "change" /\ Joins
        /\ \/ pc' = "judge" /\ answer' = job' /\ named' = link'
              /\ UNCHANGED <<retries, handed, exit, faults>>
           \/ Faulty /\ Errs
     \/ Errs /\ UNCHANGED <<job, change, submitted, faults>>
  /\ UNCHANGED <<kind, code, launched, reached>>

\* The desktop is asked for a person: for a draft or a change at once, for a run only when its
\* review needs one.
HandsOff == ~handed /\ (kind # "run" \/ answer = "review")

\* execution_exit_code, exit_for_password_change
FailedPassesCode(c) == IF c = "zero" THEN "zero" ELSE "one"
FailedCode(c) == "one"
ExitOf(state) ==
  CASE state = "completed"                 -> "zero"
    [] state = "failed" /\ kind = "run"    -> FailedCode(code)
    [] state = "failed" /\ kind # "run"    -> "one"
    [] state = "denied"                    -> "one"

\* poll_execution_until_resolved, wait_for_password_draft, wait_for_password_change
Judge ==
  /\ pc = "judge"
  /\ CASE HandsOff ->
            \/ /\ handed' = TRUE /\ pc' = IF kind = "run" THEN "judge" ELSE "poll"
               /\ UNCHANGED <<answer, named, retries, exit, faults>>
            \/ Faulty /\ Errs
       [] ~HandsOff /\ answer \in Pending \cup {"running", "committing"} ->
            pc' = "poll" /\ retries' = 0 /\ UNCHANGED <<answer, named, handed, exit, faults>>
       [] ~HandsOff /\ answer \in Terminal ->
            Ends(ExitOf(answer)) /\ UNCHANGED <<answer, named, retries, handed, faults>>
  /\ UNCHANGED <<kind, work, reached, submitted>>

\* `password change --commit sync` and `password create --wait` give up after a time.
TimesOut ==
  /\ pc = "poll" /\ kind # "run"
  /\ Errs
  /\ UNCHANGED <<kind, work, reached, submitted, faults>>

\* The daemon answers with the status; reading it starts an approved consumer, when one more
\* may run.
Answers ==
  /\ \/ job = "approved" /\ job' = "running" /\ launched' = launched + 1
     \/ UNCHANGED <<job, launched>>
  /\ UNCHANGED change

Poll ==
  /\ pc = "poll" /\ reached
  /\ Answers /\ answer' = job' /\ named' = link /\ pc' = "judge"
  /\ UNCHANGED <<kind, code, reached, retries, handed, exit, submitted, faults>>

\* retry_transient_status: no connection or no answer in time.
RetryOrErr ==
  IF retries < Limit THEN retries' = retries + 1 /\ UNCHANGED <<pc, answer, named, handed, exit>>
                     ELSE Errs

\* The answer is lost, or is an error, which is not repeated.
PollLost ==
  /\ pc = "poll" /\ reached /\ Faulty
  /\ Answers
  /\ RetryOrErr \/ Errs
  /\ UNCHANGED <<kind, code, reached, submitted>>

PollUnavailable ==
  /\ pc = "poll" /\ ~reached
  /\ RetryOrErr
  /\ UNCHANGED <<kind, work, reached, submitted, faults>>

Next ==
  \/ Reviewed \/ ConfirmedWith \/ ConfirmedWithout \/ Rejected \/ Succeeds
  \/ Expires \/ ConsumerEnds \/ DaemonRestarts
  \/ Submit \/ Judge \/ TimesOut \/ Poll \/ PollLost \/ PollUnavailable

Spec == Init /\ [][Next]_vars

-----------------------------------------------------------------------------
(* Properties                                                              *)

\* What a script that called the command may conclude: work was taken and a consumer started at
\* most once however many answers were lost.  Exit code 0 of `run` and `password create` means that
\* it was done and recorded.  Of a change it means that the version a person confirmed is in the
\* catalog, and this operation with it, unless the printed status names the successor into which
\* later operations were cut or the change set was no longer open when the operation came.  Exit
\* code 1 with a result means that this change set did not apply the operation.
\* (cli main.rs, "The submission future is consumed once; only read-only status may be retried.")
ExitTellsOutcome ==
  /\ submitted <= 1 /\ launched <= 1
  /\ exit = "zero" =>
       /\ job = "completed"
       /\ kind = "run" => launched = 1 /\ code = "zero"
       /\ kind = "change" /\ op # "late" => op = "applied" \/ named
  /\ exit = "one" => job \in {"failed", "denied"} /\ op # "applied"

-----------------------------------------------------------------------------
(* The invariant                                                           *)

\* Work that has ended stays as it is, and is completed only by a consumer that ended well.
WorkSaysWhatRan ==
  /\ launched = 0 \/ (launched = 1 /\ job \in {"running"} \cup Terminal)
  /\ kind = "run" /\ job \in {"running", "completed"} => launched = 1
  /\ kind = "run" /\ job = "completed" => code = "zero"

\* What the command has read is a state the work was in, and the last one if it was an end.
States ==
  CASE kind = "run"    -> {"running"} \cup Pending \cup Terminal
    [] kind = "change" -> {"review", "committing"} \cup Terminal
    [] OTHER           -> {"review"} \cup Terminal
AnswersAreTrue ==
  /\ job \in {"none"} \cup States /\ answer \in {"none"} \cup States
  /\ pc = "submit" => submitted = 0 /\ job = "none"
  /\ pc \in {"judge", "poll"} => job # "none" /\ answer # "none"
  /\ pc # "done" => exit = "none"
  /\ submitted \in 0..1
  /\ answer \in Terminal => job = answer

\* Where an operation is, by the state of the change set that took it.
OperationFollowsChange ==
  /\ op \in {"none", "staged", "applied", "moved", "later", "late"}
  /\ op = "none" <=> kind # "change" \/ job = "none"
  /\ job = "review" => op \in {"none", "staged"}
  /\ kind = "change" /\ job = "completed" => op \in {"applied", "moved", "later", "late"}
  /\ job \in {"failed", "denied"} => op # "applied"
  /\ op \in {"moved", "later"} => link
  /\ answer \in Terminal /\ op \in {"moved", "later"} => named

IInv == WorkSaysWhatRan /\ AnswersAreTrue /\ OperationFollowsChange /\ ExitTellsOutcome
=============================================================================
