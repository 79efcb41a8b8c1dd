------------------------- MODULE ExecutionEvidence -------------------------
(***************************************************************************)
(* The evidence of a consumer command (execution.rs): the daemon collects  *)
(* the files a command and the commands of its shell source would run,     *)
(* shows their contents to the reviewer, and compares the files again when *)
(* the approved command is about to start.  Meanwhile anybody writes the   *)
(* files and moves the links that name them; and the command itself writes *)
(* the files it redirects output to before the next one starts.            *)
(***************************************************************************)
EXTENDS Naturals, Sequences, FiniteSets, FiniteSetsExt

CONSTANTS
  Path,       \* the names commands use; each is a link to a file
  File,       \* the files themselves
  NoPath,     \* a command without a redirection
  MaxCommands,  \* bound: commands of a script
  MaxEdits      \* bound: changes by others

VARIABLES
  target,     \* where each name points
  disk,       \* the version of each file's content
  newest,     \* the newest version
  edits,      \* changes made by others
  returned,   \* history: a file or a name went back to what it was before
  unseen,     \* history: a change no later check can see, see Blind
  script,     \* the commands of the request, in order
  plan,       \* ExecutionPlan: files, sources and output_paths
  pc, at,     \* the step, and the command or file it is about
  found,      \* the target bind_file or verify_unchanged has resolved
  ran         \* what each command really started with

environment == <<target, disk, newest, edits, returned, unseen>>
progress    == <<script, plan, pc, at, found, ran>>
vars        == <<environment, progress>>

\* A simple command of the shell source: it runs a script or input file, or a tool
\* that is itself a script; or the shell does it; or it cannot be recognised.
Simple == [does : {"entry", "tool"}, path : Path, output : Path \cup {NoPath}]
     \cup [does : {"builtin"}, path : {NoPath}, output : Path \cup {NoPath}]
     \cup [does : {"unbound"}, path : {NoPath}, output : {NoPath}]
Script == UNION {[1..n -> Simple] : n \in 1..MaxCommands}

NoPlan == [files |-> <<>>, sources |-> <<>>, outputs |-> {}]
Content(p) == disk[target[p]]
Outputs(s) == {s[i].output : i \in DOMAIN s} \ {NoPath}

Init ==
  /\ target \in [Path -> File] /\ disk = [f \in File |-> 0] /\ newest = 0
  /\ edits = 0 /\ returned = FALSE /\ unseen = FALSE
  /\ script = <<>> /\ plan = NoPlan /\ pc = "idle" /\ at = 0 /\ found = "none" /\ ran = <<>>

Goes(step, index) == pc' = step /\ at' = index

-----------------------------------------------------------------------------
(* ExecutionPlan::prepare                                                  *)

Prepare ==
  /\ pc = "idle"
  /\ script' \in Script
  /\ Goes("command", 1)
  /\ UNCHANGED <<environment, plan, found, ran>>

\* analyze_shell: where the output of the command goes now, then its files.
Analyze ==
  /\ pc = "command" /\ at \in DOMAIN script
  /\ LET c == script[at] IN
     /\ plan' = IF c.output = NoPath THEN plan
                ELSE [plan EXCEPT !.outputs = @ \cup {target[c.output]}]
     /\ CASE c.does = "unbound" -> Goes("refused", at)
          [] c.does = "builtin" -> Goes("command", at + 1)
          [] OTHER              -> Goes("resolve", at)
  /\ UNCHANGED <<environment, script, found, ran>>

\* bind_file resolves the name, and then reads the file through the name again.
Resolve ==
  /\ pc = "resolve"
  /\ found' = target[script[at].path]
  /\ Goes("read", at)
  /\ UNCHANGED <<environment, script, plan, ran>>

Bound(p) == \E i \in DOMAIN plan.files : plan.files[i].path = p
Source(p) == [path |-> p, content |-> Content(p)]

\* A name is bound once: later reads of it are not compared with the first.  The
\* bytes of a script are the source; a tool is read once more.
Read ==
  /\ pc = "read"
  /\ LET c == script[at]
         bound == [path |-> c.path, target |-> found, content |-> Content(c.path)]
     IN /\ plan' = [plan EXCEPT !.files = IF Bound(c.path) THEN @ ELSE Append(@, bound),
                                !.sources = IF c.does = "tool" THEN @ ELSE Append(@, Source(c.path))]
        /\ IF c.does = "tool" THEN Goes("again", at) ELSE Goes("command", at + 1)
  /\ UNCHANGED <<environment, script, found, ran>>

ReadAgain ==
  /\ pc = "again"
  /\ plan' = [plan EXCEPT !.sources = Append(@, Source(script[at].path))]
  /\ Goes("command", at + 1)
  /\ UNCHANGED <<environment, script, found, ran>>

\* A bug that RunsWhatWasShown must reveal: outputs are not compared.
ReplacesNothing == FALSE

ReplacesEntry == \E i \in DOMAIN plan.files : plan.files[i].target \in plan.outputs

\* The plan is kept, unless its own redirections would replace what it collected.
Ready ==
  /\ pc = "command" /\ at \notin DOMAIN script
  /\ IF ReplacesEntry THEN Goes("refused", at) ELSE Goes("ready", 1)
  /\ UNCHANGED <<environment, script, plan, found, ran>>

-----------------------------------------------------------------------------
(* verify_unchanged, when the request was approved                         *)

Verify ==
  /\ pc = "ready"
  /\ found' = IF at \in DOMAIN plan.files THEN target[plan.files[at].path] ELSE "none"
  /\ IF at \in DOMAIN plan.files THEN Goes("compare", at) ELSE Goes("run", 1)
  /\ UNCHANGED <<environment, script, plan, ran>>

\* A bug that ShownIsChecked must reveal: only the link is compared.
SameTarget(f) == f.target = found

Same(f) == f.target = found /\ f.content = Content(f.path)

Compare ==
  /\ pc = "compare"
  /\ IF Same(plan.files[at]) THEN Goes("ready", at + 1) ELSE Goes("refused", at)
  /\ UNCHANGED <<environment, script, plan, found, ran>>

\* The command runs: the shell opens the output of each command before it starts.
Run ==
  /\ pc = "run" /\ at \in DOMAIN script
  /\ LET c == script[at]
         written == IF c.output = NoPath THEN disk
                    ELSE [disk EXCEPT ![target[c.output]] = newest + 1]
     IN /\ disk' = written
        /\ newest' = IF c.output = NoPath THEN newest ELSE newest + 1
        /\ ran' = IF c.path = NoPath THEN ran
                  ELSE Append(ran, [path |-> c.path, content |-> written[target[c.path]]])
  /\ Goes("run", at + 1)
  /\ UNCHANGED <<target, edits, returned, unseen, script, plan, found>>

-----------------------------------------------------------------------------
(* Everybody else on the machine                                           *)

\* Output paths are resolved while the plan is made and not again; files are compared
\* one by one before the start, and what follows is not seen.
Started == pc = "run" \/ (pc = "ready" /\ at > 1) \/ pc = "compare"
Blind(p) == Started \/ p \in Outputs(script)

WriteNew(f) ==
  /\ disk' = [disk EXCEPT ![f] = newest + 1] /\ newest' = newest + 1
  /\ unseen' = (unseen \/ Started)
  /\ UNCHANGED <<target, returned>>

WriteOld(f) ==
  /\ \E v \in 0..newest : v # disk[f] /\ disk' = [disk EXCEPT ![f] = v]
  /\ returned' = TRUE /\ unseen' = (unseen \/ Started)
  /\ UNCHANGED <<target, newest>>

\* A name that moves may come back later.
Relink(p, f) ==
  /\ f # target[p]
  /\ target' = [target EXCEPT ![p] = f]
  /\ returned' = (returned \/ edits > 0) /\ unseen' = (unseen \/ Blind(p))
  /\ UNCHANGED <<disk, newest>>

Edit ==
  /\ edits < MaxEdits /\ pc \notin {"idle", "refused"} /\ edits' = edits + 1
  /\ \/ \E f \in File : WriteNew(f) \/ WriteOld(f)
     \/ \E p \in Path, f \in File : Relink(p, f)
  /\ UNCHANGED progress

Next == \/ Prepare \/ Analyze \/ Resolve \/ Read \/ ReadAgain \/ Ready
        \/ Verify \/ Compare \/ Run \/ Edit

Spec == Init /\ [][Next]_vars

-----------------------------------------------------------------------------

\* read_allowlisted_call_chain_file: the desktop shows the frozen source of the first
\* node with that path, never the live file.
Preview(p) == Min({i \in DOMAIN plan.sources : plan.sources[i].path = p})

\* The content of every source the reviewer and the person were shown is what the
\* check before the start has compared, although the source was read at another
\* moment than the file was bound: unless something went back to what it was.
ShownIsChecked ==
  pc = "run" /\ ~returned =>
    \A i \in DOMAIN plan.sources : LET s == plan.sources[i] IN
      /\ \E j \in DOMAIN plan.files : plan.files[j].path = s.path /\ plan.files[j].content = s.content
      /\ plan.sources[Preview(s.path)].content = s.content

\* Every command starts with what was shown of it, whatever else changed before the
\* check and whatever the earlier commands of the same script have written.
RunsWhatWasShown ==
  ~returned /\ ~unseen => \A i \in DOMAIN ran : ran[i] = plan.sources[i]

\* The comment of the module: "named files ... are hash checked immediately before
\* launch".  It leaves no exception for a file that changed back.
ShownIsAlwaysChecked ==
  pc = "run" => \A i \in DOMAIN plan.sources : \E j \in DOMAIN plan.files :
                  /\ plan.files[j].path = plan.sources[i].path
                  /\ plan.files[j].content = plan.sources[i].content

-----------------------------------------------------------------------------
(* The invariant                                                           *)

SourceType == [path : Path, content : 0..newest]
FileType == [path : Path, target : File, content : 0..newest]

TypeOK ==
  /\ newest \in Nat /\ edits \in Nat
  /\ target \in [Path -> File] /\ disk \in [File -> 0..newest]
  /\ returned \in BOOLEAN /\ unseen \in BOOLEAN
  /\ script \in Script \cup {<<>>}
  /\ plan \in [files : Seq(FileType), sources : Seq(SourceType), outputs : SUBSET File]
  /\ pc \in {"idle", "command", "resolve", "read", "again", "refused",
             "ready", "compare", "run"}
  /\ at \in Nat /\ found \in File \cup {"none"}
  /\ ran \in Seq([path : Path, content : Nat])

Collecting == pc \in {"command", "resolve", "read", "again"}
Planned    == pc \in {"ready", "compare", "run"}

\* The command or file each step is about exists.
StepsAreAbout ==
  /\ pc = "idle" => plan = NoPlan
  /\ pc \in {"command", "run"} => at \in 1..(Len(script) + 1)
  /\ pc \in {"resolve", "read", "again"} => at \in DOMAIN script /\ script[at].path \in Path
  /\ pc = "read" => found \in File
  /\ pc = "again" => Bound(script[at].path)
  /\ pc = "ready" => at > 0
  /\ pc = "compare" => at \in DOMAIN plan.files
  /\ pc # "run" => ran = <<>>

\* A command that names a file has one source, in the order of the commands.
Before(s, n) == Cardinality({i \in 1..(n - 1) : s[i].path # NoPath})
Analyzed(i) == i \in DOMAIN script /\ (Planned \/ (Collecting /\ i < at))
SourcesInOrder ==
  /\ Collecting => Len(plan.sources) = Before(script, at)
  /\ \A i \in DOMAIN script : Analyzed(i) /\ script[i].path # NoPath =>
       /\ Before(script, i) + 1 \in DOMAIN plan.sources
       /\ plan.sources[Before(script, i) + 1].path = script[i].path
  /\ \A i \in DOMAIN plan.sources : Bound(plan.sources[i].path)

\* What a name reads only grows until the command runs, unless something went back.
ContentGrows ==
  ~returned =>
    /\ pc # "run" =>
         /\ edits = 0 => newest = 0
         /\ \A i \in DOMAIN plan.files : plan.files[i].content <= Content(plan.files[i].path)
         /\ \A i \in DOMAIN plan.sources :
              plan.sources[i].content <= Content(plan.sources[i].path)
    /\ \A i \in DOMAIN plan.files, j \in DOMAIN plan.sources :
         plan.files[i].path = plan.sources[j].path =>
           plan.files[i].content <= plan.sources[j].content

\* A file that was compared has the content of every source of its name.
Compared(i) == i \in DOMAIN plan.files /\ (pc = "run" \/ (pc \in {"ready", "compare"} /\ i < at))
ComparedIsShown ==
  ~returned => \A i \in DOMAIN plan.files : Compared(i) =>
    \A j \in DOMAIN plan.sources : plan.sources[j].path = plan.files[i].path =>
      plan.sources[j].content = plan.files[i].content

\* Nobody else interferes after the comparison, and the outputs of the script are none
\* of the files that were compared.
OutputsAreKnown ==
  /\ Planned => \A i \in DOMAIN plan.files : plan.files[i].target \notin plan.outputs
  /\ ~unseen => \A i \in DOMAIN script :
       (Analyzed(i) \/ (pc \in {"resolve", "read", "again"} /\ i = at)) /\ script[i].output # NoPath =>
         target[script[i].output] \in plan.outputs
ComparedIsThere ==
  ~returned /\ ~unseen =>
    /\ \A i \in DOMAIN plan.files : Compared(i) =>
         /\ target[plan.files[i].path] = plan.files[i].target
         /\ disk[plan.files[i].target] = plan.files[i].content
    /\ pc = "compare" => found = target[plan.files[at].path]
    /\ pc = "run" => Len(ran) = Before(script, at)

IInv ==
  /\ TypeOK /\ StepsAreAbout /\ SourcesInOrder /\ ContentGrows /\ ComparedIsShown
  /\ OutputsAreKnown /\ ComparedIsThere /\ RunsWhatWasShown

Absence == NoPath \notin Path
=============================================================================
