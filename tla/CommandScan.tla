---------------------------- MODULE CommandScan ----------------------------
(***************************************************************************)
(* Where a consumer command reads its program from.  The command line asks *)
(* requires_source_stdin (execution.rs) whether it must capture its own    *)
(* stdin as the program; the daemon scans the same arguments while it      *)
(* collects the source (ExecutionPlan::analyze) and labels the captured    *)
(* bytes by asking requires_source_stdin again.  Both walk over the words  *)
(* after the program, each with its own table of options.                  *)
(***************************************************************************)
EXTENDS Naturals, Sequences

CONSTANT MaxWords   \* bound: words after the program

VARIABLES
  language,   \* Kind of the program
  words,      \* the words after it
  input,      \* --input was given
  env         \* --env was given

vars == <<language, words, input, env>>

Languages == {"python", "node", "shell", "native"}

\* The words the two scans tell apart; "name" is a path or a value, "pipefail" is
\* a value that shell -o accepts.
Word ==
  [python |-> {"-c", "-m", "-W", "-I", "-i", "-", "--", "name"},
   node   |-> {"-e", "--eval=code", "--input-type", "--no-warnings", "--watch", "-", "--", "name"},
   shell  |-> {"-c", "-ec", "-s", "-x", "-o", "-os", "-l", "--norc", "--login", "-", "--",
               "name", "pipefail"},
   native |-> {"name"}]

\* What an option means to the scan of the daemon: it stands alone, takes the next
\* word, names the program, makes stdin the program, or is not recognised.
OptionOf ==
  [python |-> [w \in Word.python |->
     CASE w = "-c" -> "inline" [] w = "-W" -> "value" [] w = "-I" -> "alone"
       [] w \in {"-m", "-i"} -> "unknown" [] OTHER -> "operand"],
   node |-> [w \in Word.node |->
     CASE w = "-e" -> "inline" [] w = "--eval=code" -> "joined" [] w = "--input-type" -> "value"
       [] w = "--no-warnings" -> "alone" [] w = "--watch" -> "unknown" [] OTHER -> "operand"],
   shell |-> [w \in Word.shell |->
     CASE w \in {"-c", "-ec"} -> "inline" [] w = "-s" -> "stdin" [] w = "-o" -> "setting"
       [] w \in {"-x", "--norc"} -> "alone" [] w \in {"-os", "-l", "--login"} -> "unknown"
       [] OTHER -> "operand"]]

Separates(lang, w) == w = "--" \/ (lang = "shell" /\ w = "-")
Has(argv, i) == i \in DOMAIN argv
After(argv, i) == IF Has(argv, i + 1) THEN argv[i + 1] ELSE "none"

\* The position where a scan stops that starts at the first word and goes on by steps[i]
\* words from word i, as long as that is not 0.
Positions(argv) == 1..(Len(argv) + 3)
Walk(argv, steps) ==
  LET f[i \in Positions(argv)] == IF steps[i] = 0 THEN i ELSE f[i + steps[i]]
  IN f[1]

\* The scan of analyze steps over an option with its value ...
Steps(lang, argv) ==
  [i \in Positions(argv) |->
     IF ~Has(argv, i) THEN 0
     ELSE LET option == OptionOf[lang][argv[i]]
          IN CASE option = "alone" -> 1
               [] option = "value" -> 2
               [] option = "setting" /\ After(argv, i) = "pipefail" -> 2
               [] OTHER -> 0]

\* ... and what it has found where it stops: the kind of the source and the word it is in.
Found(lang, argv, i) ==
  LET found(kind, at) == [from |-> kind, at |-> at]
      next == After(argv, i)
  IN IF ~Has(argv, i) \/ (argv[i] = "-" /\ lang # "shell") THEN found("stdin", 0)
     ELSE IF Separates(lang, argv[i]) THEN
            IF next # "none" /\ (next # "-" \/ lang = "shell")
            THEN found("file", i + 1) ELSE found("stdin", 0)
     ELSE LET option == OptionOf[lang][argv[i]]
          IN CASE option = "inline" ->
                    IF next # "none" THEN found("inline", i + 1) ELSE found("rejected", 0)
               [] option = "joined" -> found("inline", i)
               [] option = "stdin" ->
                    IF next \in {"none", "--", "name", "pipefail"}
                    THEN found("stdin", 0) ELSE found("rejected", 0)
               [] option \in {"setting", "unknown"} -> found("rejected", 0)
               [] option = "operand" -> found("file", i)

Scan(lang, argv) ==
  IF lang = "native" THEN [from |-> "none", at |-> 0]
  ELSE Found(lang, argv, Walk(argv, Steps(lang, argv)))

\* The options of requires_source_stdin: those that name the program, those that
\* make stdin the program and those that take the next word; it steps over every
\* other word with a dash and stops at a name.
HintSource == [python |-> {"-c", "-m"}, node |-> {"-e", "--eval=code"}, shell |-> {"-c", "-ec"}]
HintStdin  == [python |-> {}, node |-> {}, shell |-> {"-s", "-os"}]

\* A bug that StdinOnlyWhenRead must reveal: a Node option without its value.
HintValueOfPython == [python |-> {"-W"}, node |-> {}, shell |-> {}]

HintValue == [python |-> {"-W"}, node |-> {"--input-type"}, shell |-> {}]

HintSteps(lang, argv) ==
  [i \in Positions(argv) |->
     IF ~Has(argv, i) THEN 0
     ELSE CASE Separates(lang, argv[i]) \/ argv[i] \in {"-", "name", "pipefail"} -> 0
            [] argv[i] \in HintSource[lang] \cup HintStdin[lang] -> 0
            [] argv[i] \in HintValue[lang] -> 2
            [] OTHER -> 1]

Asks(lang, argv, i) ==
  Has(argv, i) =>
    IF Separates(lang, argv[i])
    THEN After(argv, i) = "none" \/ (lang # "shell" /\ After(argv, i) = "-")
    ELSE argv[i] \in {"-"} \cup HintStdin[lang]

RequiresSourceStdin(lang, argv) ==
  lang # "native" /\ Asks(lang, argv, Walk(argv, HintSteps(lang, argv)))

-----------------------------------------------------------------------------

\* execution_request of the command line: without --env stdin is the credential's.
RefusedByCli == ~env /\ (input \/ RequiresSourceStdin(language, words))
CapturesStdin == input \/ RequiresSourceStdin(language, words)

\* ExecutionPlan::prepare admits the request, or finds no source for the program.
Admitted ==
  /\ ~RefusedByCli
  /\ Scan(language, words).from # "rejected"
  /\ Scan(language, words).from = "stdin" => CapturesStdin

\* execution_stdin_kind of the evidence shown to the reviewer.
StdinKind ==
  IF ~CapturesStdin THEN "none"
  ELSE IF RequiresSourceStdin(language, words) THEN "source" ELSE "data"

Init == language \in Languages /\ words = <<>> /\ input \in BOOLEAN /\ env \in BOOLEAN

\* The user types one more word.
Type ==
  /\ Len(words) < MaxWords
  /\ \E w \in Word[language] : words' = Append(words, w)
  /\ UNCHANGED <<language, input, env>>

Next == Type
Spec == Init /\ [][Next]_vars

-----------------------------------------------------------------------------

\* The command line reads its own stdin only for a command that runs what it reads,
\* so that it never waits for, or swallows, input of somebody else.
StdinOnlyWhenRead ==
  Admitted /\ RequiresSourceStdin(language, words) => Scan(language, words).from = "stdin"

\* The reviewer is told which captured bytes are code and which are task data: code is called
\* data only behind a shell setting with a value (-o pipefail), which requires_source_stdin
\* takes for the program.
CodeIsNotCalledData ==
  Admitted /\ StdinKind = "data" /\ Scan(language, words).from = "stdin" =>
    \E i \in DOMAIN words : words[i] = "pipefail" /\ i > 1 /\ words[i - 1] = "-o"
=============================================================================
