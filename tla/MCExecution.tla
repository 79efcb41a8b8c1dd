---------------------------- MODULE MCExecution ----------------------------
(***************************************************************************)
(* The execution of a command with a credential, for TLC.  The components  *)
(* of Consumers share no variable: each is explored from its own initial   *)
(* states while the others rest.  The registry is explored twice, with two *)
(* plans and all that can happen to them, and with three that are admitted *)
(* and expire.  Every behaviour is one of ConsumersSpec.                   *)
(***************************************************************************)
EXTENDS Consumers, TLC

VARIABLE component    \* the one that this behaviour is about

\* A component that rests has one initial state.
Resting ==
  /\ component # "scan" => language = "native" /\ ~input /\ ~env
  /\ component # "evidence" => target = [p \in Path |-> "f"]
  /\ component # "command" => kind = "run"

SliceInit ==
  /\ component \in {"registry", "admission", "scan", "evidence", "command"}
  /\ ConsumersInit /\ Resting

TwoPlans == Cardinality({p \in Plan : handler[p] # "idle"}) <= 2

\* An entry is inserted long after its room was checked, and more plans are submitted than
\* the registry has room for.
Admission ==
  \/ \E p \in Plan : Admit(p) \/ PlanAges(p) \/ DenyExpired(p) \/ Decided(p) \/ HandlerDropped(p)
  \/ Cleanup

SliceNext ==
  /\ \/ component = "registry" /\ RegistryStep /\ TwoPlans'
     \/ component = "admission" /\ Admission /\ UNCHANGED <<scanVars, evidenceVars, runVars>>
     \/ component = "scan" /\ ScanStep
     \/ component = "evidence" /\ EvidenceStep
     \/ component = "command" /\ CommandStep
  /\ UNCHANGED component

SliceSpec == SliceInit /\ [][SliceNext]_<<component, consumersVars>>

Symmetry == Permutations(Plan)
=============================================================================
