-------------------------- MODULE ApprovalOutcome --------------------------
(***************************************************************************)
(* What the approval store promises its clients: a request is submitted    *)
(* once, decided at most once, and never changes afterwards.  The audit    *)
(* trail names the one who decided.                                        *)
(***************************************************************************)
CONSTANTS Request, Decider
VARIABLES outcome, decider

Outcome == {"approved", "rejected"}

Init ==
  /\ outcome = [r \in Request |-> "absent"]
  /\ decider = [r \in Request |-> "none"]

Submit(r) ==
  /\ outcome[r] = "absent"
  /\ outcome' = [outcome EXCEPT ![r] = "pending"]
  /\ UNCHANGED decider

\* Pending requests are decided; a batch ticket decides at submission.
Decide(r, who, o) ==
  /\ \/ outcome[r] = "pending"
     \/ outcome[r] = "absent" /\ who = "system_auto"
  /\ outcome' = [outcome EXCEPT ![r] = o]
  /\ decider' = [decider EXCEPT ![r] = who]

Next ==
  \E r \in Request :
    Submit(r) \/ \E who \in Decider, o \in Outcome : Decide(r, who, o)

Spec == Init /\ [][Next]_<<outcome, decider>>
=============================================================================
