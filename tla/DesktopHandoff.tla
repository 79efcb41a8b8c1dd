--------------------------- MODULE DesktopHandoff ---------------------------
(***************************************************************************)
(* Handoffs to the desktop application: plankton:// links that arrive as   *)
(* arguments of its start, as arguments of a second instance or as deep    *)
(* links, and the requests whose details are opened from the approval      *)
(* window.  A change or a request is shown in a review window.  The others *)
(* are kept in a slot of their kind, which the page of the main window     *)
(* takes when it loads, and sent to the page as an event.                  *)
(***************************************************************************)
EXTENDS Naturals, Sequences

CONSTANTS
  Kind,           \* kinds of link that occur
  Id,             \* of a draft, an item, a change or a request
  NoId,
  ReloadsMidTake, \* may the page reload while it is being given what it took
  MaxLinks        \* bound: deep links and second instances

VARIABLES
  started,   \* the setup of the application is over
  initial,   \* handoffs among the arguments of the start
  pending,   \* the slots
  page,      \* per kind: "loading", "taking", "taken", and what is on the way to it
  held, listening,
  reloaded,  \* refresh_frontend_cache has reloaded the page
  sent,      \* history: the last handoff of each kind
  shown,     \* history: the handoffs shown since they were sent
  links

vars == <<started, initial, pending, page, held, listening, reloaded, sent, shown, links>>
pageVars == <<page, held, listening, reloaded>>

InWindow == {"change", "request"}
Slots == Kind \ InWindow
Handoffs == (Kind \ {"details"}) \X Id
Other == <<"other", NoId>>

\* What a start and a second instance look for first.
StartOrder    == <<"change", "draft", "edit", "migration", "vault", "request">>
InstanceOrder == <<"change", "edit", "migration", "vault", "request", "draft">>

First(order, handoffs) ==
  LET place(h) == CHOOSE i \in DOMAIN order : order[i] = h[1]
  IN {h \in handoffs : \A other \in handoffs : place(h) <= place(other)}

Arguments == {{}} \cup {{h} : h \in Handoffs}
  \cup {{g, h} : g, h \in Handoffs}

Init ==
  /\ started = FALSE
  /\ initial \in {handoffs \in Arguments : \A g, h \in handoffs : g[1] = h[1] => g = h}
  /\ pending = [k \in Slots |-> IF \E h \in initial : h[1] = k
                                THEN (CHOOSE h \in initial : h[1] = k)[2] ELSE NoId]
  /\ page = [k \in Slots |-> "loading"] /\ held = [k \in Slots |-> NoId]
  /\ listening = [k \in Slots |-> FALSE] /\ reloaded = FALSE
  /\ sent = pending /\ shown = {} /\ links = 0

-----------------------------------------------------------------------------
(* The application                                                         *)

\* The event reaches the page when it listens for it and the event can be sent; the slot keeps
\* the handoff in any case.
Unkept(k, id) == pending
Kept(k, id) == [pending EXCEPT ![k] = id]
Dispatches(h) ==
  IF h[1] \in InWindow
  THEN shown' = shown \cup {h} /\ UNCHANGED <<pending, sent>>
  ELSE /\ pending' = Kept(h[1], h[2])
       /\ sent' = [sent EXCEPT ![h[1]] = h[2]]
       /\ \E heard \in {listening[h[1]], FALSE} :
            shown' = (shown \ {h}) \cup (IF heard THEN {h} ELSE {})

DispatchesAny(handoffs) ==
  \/ \E h \in handoffs : Dispatches(h)
  \/ handoffs = {} /\ UNCHANGED <<pending, sent, shown>>

\* startup_actions: one of the arguments, at the end of the setup.
Starts ==
  /\ ~started /\ started' = TRUE
  /\ DispatchesAny(First(StartOrder, initial))
  /\ UNCHANGED <<initial, pageVars, links>>

SecondInstance(handoffs) ==
  /\ links < MaxLinks /\ links' = links + 1
  /\ DispatchesAny(First(InstanceOrder, handoffs))
  /\ UNCHANGED <<started, initial, pageVars>>

\* handle_deep_link_payload: the first link of the payload that is a handoff.
DeepLink(urls) ==
  /\ started /\ links < MaxLinks /\ links' = links + 1
  /\ LET known == {i \in DOMAIN urls : urls[i] # Other}
     IN DispatchesAny({urls[i] : i \in {j \in known : \A n \in known : j <= n}})
  /\ UNCHANGED <<started, initial, pageVars>>

\* open_full_request_details, from the approval window.
OpenDetails(id) ==
  /\ "details" \in Kind /\ links < MaxLinks /\ links' = links + 1
  /\ Dispatches(<<"details", id>>)
  /\ UNCHANGED <<started, initial, pageVars>>

\* refresh_frontend_cache, after an update of the application.
Reloads ==
  /\ ~reloaded
  /\ ReloadsMidTake \/ \A k \in Slots : page[k] # "taking"
  /\ reloaded' = TRUE
  /\ page' = [k \in Slots |-> "loading"] /\ held' = [k \in Slots |-> NoId]
  /\ listening' = [k \in Slots |-> FALSE]
  /\ UNCHANGED <<started, initial, pending, sent, shown, links>>

-----------------------------------------------------------------------------
(* The page                                                                *)

Elsewhere == UNCHANGED <<started, initial, reloaded, sent, links>>

\* consume_password_draft and its siblings empty the slot.
Takes(k) ==
  /\ page[k] = "loading"
  /\ page' = [page EXCEPT ![k] = "taking"]
  /\ held' = [held EXCEPT ![k] = pending[k]] /\ pending' = [pending EXCEPT ![k] = NoId]
  /\ UNCHANGED <<listening, shown>> /\ Elsewhere

ShowsTaken(k) ==
  /\ page[k] = "taking"
  /\ page' = [page EXCEPT ![k] = "taken"]
  /\ held' = [held EXCEPT ![k] = NoId]
  /\ shown' = IF held[k] = NoId THEN shown ELSE shown \cup {<<k, held[k]>>}
  /\ UNCHANGED <<pending, listening>> /\ Elsewhere

\* The page asks for a password slot before it registers for the event.
Listens(k) ==
  /\ page[k] # "loading" \/ k = "details"
  /\ ~listening[k]
  /\ listening' = [listening EXCEPT ![k] = TRUE]
  /\ UNCHANGED <<pending, page, held, shown>> /\ Elsewhere

Next ==
  \/ Starts \/ Reloads
  \/ \E id \in Id : OpenDetails(id)
  \/ \E handoffs \in Arguments : SecondInstance(handoffs)
  \/ \E g, h \in Handoffs \cup {Other} : DeepLink(<<g, h>>)
  \/ \E k \in Slots : Takes(k) \/ ShowsTaken(k) \/ Listens(k)

Spec == Init /\ [][Next]_vars

-----------------------------------------------------------------------------
(* Properties                                                              *)

\* The last handoff of a kind is not lost: it has been shown, or it is on its way to the page, or
\* it waits in its slot for the page to load, whenever it arrives while the application starts,
\* the page loads or the page is reloaded.
HandoffIsKept == \A k \in Slots :
  sent[k] = NoId \/ <<k, sent[k]>> \in shown \/ sent[k] \in {pending[k], held[k]}

-----------------------------------------------------------------------------
(* The inductive invariant.  What the page took it holds until it shows    *)
(* it, and it holds nothing else, so a reload that does not come in        *)
(* between drops nothing.                                                  *)

\* The absent identifier is none.
Absence == NoId \notin Id

TypeOK ==
  /\ initial \subseteq Handoffs
  /\ pending \in [Slots -> Id \cup {NoId}] /\ sent \in [Slots -> Id \cup {NoId}]
  /\ held \in [Slots -> Id \cup {NoId}]
  /\ page \in [Slots -> {"loading", "taking", "taken"}]

HoldsWhileTaking == \A k \in Slots : page[k] # "taking" => held[k] = NoId

IInv == TypeOK /\ HoldsWhileTaking /\ HandoffIsKept
=============================================================================
