------------------------------ MODULE MCReview ------------------------------
(***************************************************************************)
(* An automatic review (Review) for TLC, which explores each component     *)
(* from its own initial states while the others rest; the agent's process  *)
(* once with reviews and failures and once with the other commands.        *)
(***************************************************************************)
EXTENDS Review, MCApproval

VARIABLE component    \* what this behaviour is about

\* What the agent may advertise: two options, or a mode alone that has one value.
Offers(current) == [current |-> current, offers |-> {"full", "ask"}]
MCCatalogs ==
  [{"model", "mode"} -> {Offers("ask"), Offers("full")}]
    \cup {[model |-> [current |-> "unset", offers |-> {}],
           mode |-> [current |-> "ask", offers |-> {"ask"}]]}

\* What rests has one initial state.
Resting ==
  /\ component # "conversation" => \A r \in Turn : kind[r] = "staged"
  /\ component = "conversation" => \A r \in Turn : kind[r] # "staged"
  /\ component \notin {"supervisor", "conversation"} => single
  /\ component # "client" =>
       /\ mode = "probe" /\ ~legacy
       /\ configured = [o \in Client!Option |-> Client!Unset]
  /\ component # "reviewer" => provider = "acp"
  /\ component # "decision" =>
       /\ policy = Verdict /\ breach = "unset"
       /\ evidence = [decision |-> "deny", error |-> TRUE, trusted |-> FALSE,
                      report |-> "missing"]

MCInit ==
  /\ component \in {"store", "supervisor", "conversation", "client", "reviewer", "decision"}
  /\ ReviewInit /\ Resting

MCNext ==
  /\ \/ component = "store" /\ StoreStep
     \/ component = "supervisor" /\ SupervisorStep
     \/ component = "conversation" /\ SupervisorStep /\ agentFaults' = 0
     \/ component = "client" /\ ClientStep
     \/ component = "reviewer" /\ ReviewerStep
     \/ component = "decision" /\ DecisionStep
  /\ UNCHANGED component

MCSpec == MCInit /\ [][MCNext]_<<component, reviewVars>>
=============================================================================
