------------------------------ MODULE AcpClient ------------------------------
(***************************************************************************)
(* One session of the reviewer's agent as its client sees it (plankton-core *)
(* acp.rs, acp/session_options.rs): the connection is initialized, a        *)
(* session opened and its options configured, a prompt sent, and the        *)
(* messages that arrive while it runs are handled.  A probe asks the agent  *)
(* for READY and judges the complete answer; a review lets it write three   *)
(* report files and validate them.                                          *)
(*                                                                          *)
(* The read loop resolves a response at once and leaves each message to a   *)
(* task: when the prompt is answered, messages that arrived before it may   *)
(* not have been handled.                                                   *)
(***************************************************************************)
EXTENDS Naturals, Sequences, FiniteSets, SequencesExt

CONSTANTS
  Value,        \* values an option may have
  Catalogs,     \* what the agent may advertise
  Message,      \* messages of the agent: "READY", "text", "image", "tool"
  MaxMessages,  \* bound: messages in a turn
  MaxTurns      \* bound: prompts in a session

VARIABLES
  mode,         \* "discover", "probe" or "review"
  configured,   \* session_options of the profile
  legacy,       \* the agent advertises only models and modes
  pc, basic, readiness,
  options,      \* the catalog the client last saw
  left,         \* option values still to be selected
  inbox,        \* received and not yet handled
  sent,         \* what the agent sent in this session, in order
  handled,      \* processed_client_messages
  content, nonText,
  expected,     \* what the barrier waits for
  stop,         \* the stop reason
  files, validated,  \* review_files, validated_exposure_report
  turns

check == <<pc, basic, readiness>>
selection == <<options, left>>
stream == <<inbox, sent, handled, content, nonText, expected, stop>>
workspace == <<files, validated>>
vars == <<mode, configured, legacy, check, selection, stream, workspace, turns>>

Option == {"model", "mode"}
File == {"chain", "nodes", "exposure"}
Unset == "unset"
Full == "full"               \* the permission mode the client prefers

\* session_options: an option that is not advertised, or is no selection, is absent.
Absent == [current |-> Unset, offers |-> {}]
Advertised == [current : Value, offers : SUBSET Value] \cup {Absent}

\* The configured values, and a mode of full access when the agent offers one.
Desired(catalog) ==
  [o \in Option |->
     IF o = "mode" /\ configured[o] = Unset /\ Full \in catalog[o].offers THEN Full
     ELSE configured[o]]

\* Models are selected before the options that depend on them.
Selections(catalog) ==
  SelectSeq(<<"model", "mode">>, LAMBDA o : Desired(catalog)[o] # Unset)

Init ==
  /\ mode \in {"discover", "probe", "review"}
  /\ configured \in [Option -> Value \cup {Unset}] /\ legacy \in BOOLEAN
  /\ pc = "initialize" /\ basic = "not_run" /\ readiness = "not_run"
  /\ options = [o \in Option |-> Absent] /\ left = <<>>
  /\ inbox = <<>> /\ sent = <<>> /\ handled = <<>> /\ content = <<>>
  /\ nonText = FALSE /\ expected = <<>> /\ stop = "none"
  /\ files = [f \in File |-> "none"] /\ validated = "none" /\ turns = 0

Strict == mode # "discover"

Concludes(verdict) == pc' = "done" /\ readiness' = verdict /\ UNCHANGED basic
GoesTo(next) == pc' = next /\ UNCHANGED <<basic, readiness>>

Initialize ==
  /\ pc = "initialize"
  /\ \/ pc' = "open" /\ basic' = "passed" /\ UNCHANGED readiness
     \/ pc' = "done" /\ basic' = "failed" /\ UNCHANGED readiness
  /\ UNCHANGED <<mode, configured, legacy, selection, stream, workspace, turns>>

OpenSession ==
  /\ pc = "open" /\ GoesTo("configure")
  /\ options' \in Catalogs /\ left' = Selections(options')
  /\ UNCHANGED <<mode, configured, legacy, stream, workspace, turns>>

-----------------------------------------------------------------------------
\* configure_session: one selection.
Selected == Desired(options)[Head(left)]
Offered(option, value) == value \in options[option].offers

\* A value that the agent does not offer is an error, or is skipped.
SkipOption ==
  /\ pc = "configure" /\ left # <<>> /\ ~Offered(Head(left), Selected)
  /\ IF Strict THEN Concludes("failed") ELSE GoesTo("configure")
  /\ left' = Tail(left)
  /\ UNCHANGED <<mode, configured, legacy, options, stream, workspace, turns>>

KeepOption ==
  /\ pc = "configure" /\ left # <<>> /\ Offered(Head(left), Selected)
  /\ options[Head(left)].current = Selected
  /\ left' = Tail(left) /\ GoesTo("configure")
  /\ UNCHANGED <<mode, configured, legacy, options, stream, workspace, turns>>

\* set_option: the agent answers with its whole catalog, in which other options may
\* have changed; an agent without configOptions answers with nothing.
SetOption ==
  /\ pc = "configure" /\ left # <<>> /\ Offered(Head(left), Selected)
  /\ options[Head(left)].current # Selected
  /\ \E catalog \in IF legacy THEN {[options EXCEPT ![Head(left)].current = Selected]}
                    ELSE Catalogs :
       /\ options' = catalog
       /\ IF catalog[Head(left)].current = Selected THEN GoesTo("configure")
          ELSE Concludes("failed")
  /\ left' = Tail(left)
  /\ UNCHANGED <<mode, configured, legacy, stream, workspace, turns>>

\* The user's choices are compared with the last catalog once more.
Kept == \A o \in Option : configured[o] # Unset => options[o].current = configured[o]

ConfiguredUnchecked ==     \* mutant: each confirmation is taken as the last word
  /\ pc = "configure" /\ left = <<>>
  /\ IF mode = "discover" THEN Concludes("not_run") ELSE GoesTo("ready")
  /\ UNCHANGED <<mode, configured, legacy, selection, stream, workspace, turns>>
Configured ==
  /\ pc = "configure" /\ left = <<>>
  /\ CASE ~Strict -> Concludes("not_run")
       [] Strict /\ ~Kept -> Concludes("failed")
       [] OTHER -> GoesTo("ready")
  /\ UNCHANGED <<mode, configured, legacy, selection, stream, workspace, turns>>

-----------------------------------------------------------------------------
\* reset_for_next_turn, and session/prompt.
Prompt ==
  /\ pc = "ready" /\ turns < MaxTurns
  /\ turns' = turns + 1 /\ GoesTo("prompting")
  /\ handled' = <<>> /\ content' = <<>> /\ nonText' = FALSE
  /\ files' = [f \in File |-> "none"] /\ validated' = "none"
  /\ sent' = <<>> /\ inbox' = <<>>
  /\ UNCHANGED <<mode, configured, legacy, selection, expected, stop>>

AgentSends(message) ==
  /\ pc = "prompting" /\ Len(sent) < MaxMessages
  /\ sent' = Append(sent, message) /\ inbox' = Append(inbox, message)
  /\ UNCHANGED <<mode, configured, legacy, check, selection, handled, content, nonText,
                 expected, stop, workspace, turns>>

\* session_notification.
HandleMessage ==
  /\ inbox # <<>>
  /\ inbox' = Tail(inbox) /\ handled' = Append(handled, Head(inbox))
  /\ content' = IF Head(inbox) \in {"READY", "text"} THEN Append(content, Head(inbox))
                ELSE content
  /\ nonText' = (nonText \/ Head(inbox) = "image")
  /\ UNCHANGED <<mode, configured, legacy, check, selection, sent, expected, stop,
                 workspace, turns>>

\* collect_client_messages_through_prompt_response: the messages on the wire
\* before the response are what the probe waits for.
Respond ==
  /\ pc = "prompting"
  /\ stop' \in {"end_turn", "refusal"}
  /\ IF mode = "probe" THEN GoesTo("barrier") /\ expected' = sent
     ELSE GoesTo("ready") /\ UNCHANGED expected
  /\ UNCHANGED <<mode, configured, legacy, selection, inbox, sent, handled, content,
                 nonText, workspace, turns>>

\* includes_all_observed_client_messages counts equal messages.
Occurrences(message, messages) == Cardinality({i \in DOMAIN messages : messages[i] = message})
IncludesAny(messages, wanted) ==   \* mutant: equal messages are counted once
  Range(wanted) \subseteq Range(messages)
IncludesAll(messages, wanted) ==
  \A m \in Message : Occurrences(m, messages) >= Occurrences(m, wanted)

\* The probe passes when the agent ended its turn and everything it said is READY.
Judge ==
  /\ pc = "barrier" /\ IncludesAll(handled, expected)
  /\ Concludes(IF stop = "end_turn" /\ ~nonText /\ content = <<"READY">>
               THEN "passed" ELSE "failed")
  /\ UNCHANGED <<mode, configured, legacy, selection, stream, workspace, turns>>

\* A request or a barrier that fails or times out; a prompt is cancelled first.
GiveUp ==
  /\ pc \in {"open", "configure", "ready", "prompting", "barrier"}
  /\ Concludes("failed")
  /\ UNCHANGED <<mode, configured, legacy, selection, stream, workspace, turns>>

-----------------------------------------------------------------------------
\* write_text_file in a review: what was validated is validated no more.
WriteKeepingReport(file, version) ==     \* mutant: the validated report stays
  /\ mode = "review" /\ pc = "prompting"
  /\ files' = [files EXCEPT ![file] = version]
  /\ UNCHANGED <<mode, configured, legacy, check, selection, stream, validated, turns>>
WriteFile(file, version) ==
  /\ mode = "review" /\ pc = "prompting"
  /\ files' = [files EXCEPT ![file] = version] /\ validated' = "none"
  /\ UNCHANGED <<mode, configured, legacy, check, selection, stream, turns>>

\* validate_acp_review_workspace: an early failure leaves the last report.
ReadValidation ==
  /\ mode = "review" /\ pc = "prompting"
  /\ (\A f \in File : files[f] # "none") /\ \A f \in {"nodes", "exposure"} : files[f] # "bad"
  /\ validated' = files.exposure
  /\ UNCHANGED <<mode, configured, legacy, check, selection, stream, files, turns>>

Next ==
  \/ Initialize \/ OpenSession \/ SkipOption \/ KeepOption \/ SetOption \/ Configured
  \/ Prompt \/ HandleMessage \/ Respond \/ Judge \/ GiveUp \/ ReadValidation
  \/ (\E m \in Message : AgentSends(m))
  \/ \E f \in File, v \in {"v1", "v2", "bad"} : WriteFile(f, v)

Spec == Init /\ [][Next]_vars

-----------------------------------------------------------------------------
\* A readiness check that passes has judged everything the agent said before it
\* answered, and all of it was READY: no message is still waiting to be handled
\* (run_acp_probe_requests waits for the observed messages to be processed).
ReadyIsComplete ==
  readiness = "passed" =>
    /\ stop = "end_turn"
    /\ \E i \in DOMAIN sent :
         sent[i] = "READY" /\ \A j \in DOMAIN sent \ {i} : sent[j] = "tool"

\* A session in which reviews run has every value the user configured, although
\* selecting one option may reset another (configure_session: "A later selection
\* must not silently reset an earlier user choice").
ConfiguredValuesHold ==
  pc \in {"ready", "prompting", "barrier"} => Kept

\* The report that is kept as validated is the one that the files hold.
ValidatedReportIsCurrent ==
  validated # "none" =>
    /\ validated = files.exposure
    /\ \A f \in File : files[f] # "none"
    /\ \A f \in {"nodes", "exposure"} : files[f] # "bad"

-----------------------------------------------------------------------------
(* What makes them inductive: a message is handled once and in order, what *)
(* was handled is in the answer, and the barrier waits for what was sent.  *)
Known == Message \subseteq {"READY", "text", "image", "tool"}

Streams ==
  /\ inbox \in Seq(Message) /\ handled \in Seq(Message) /\ content \in Seq(Message)
  /\ sent = handled \o inbox
  /\ files \in [File -> {"none", "v1", "v2", "bad"}]

Wording == {"READY", "text"}
Heard ==
  /\ ~nonText => \A i \in DOMAIN handled : handled[i] # "image"
  /\ content = <<>> => \A i \in DOMAIN handled : handled[i] \notin Wording
  /\ Len(content) = 1 => \E i \in DOMAIN handled :
       /\ handled[i] = content[1]
       /\ \A j \in DOMAIN handled \ {i} : handled[j] \notin Wording

Judging == (pc = "barrier" => expected = sent) /\ (readiness = "passed" => pc = "done")

IInv ==
  /\ Streams /\ Heard /\ Judging
  /\ ReadyIsComplete /\ ConfiguredValuesHold /\ ValidatedReportIsCurrent
=============================================================================
