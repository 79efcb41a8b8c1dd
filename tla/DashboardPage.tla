--------------------------- MODULE DashboardPage ---------------------------
(***************************************************************************)
(* The list of requests on the page of the desktop (useDesktopApp.ts): the *)
(* refreshes that a timer, a decision, a handoff and the user start, and   *)
(* the selection each of them settles.  One fetch is on the way at a time; *)
(* a timer tick joins it, everything else waits for it and fetches again,  *)
(* since the fetch may have read the store before the decision was made.   *)
(***************************************************************************)
EXTENDS Naturals, FiniteSets

CONSTANTS
  Request,
  Explicit,     \* what refreshes besides the timer: "decide", "handoff", "button"
  MaxFetches    \* bound

VARIABLES
  request,      \* the requests in the store: "none", "pending" or "resolved"
  dashboard,    \* the pending and resolved requests shown; None before the first answer
  fetch,        \* the fetch on the way, and what it has read
  task,         \* where each explicit refresh is
  deciding,     \* the request a decision was submitted for
  handoff,      \* pendingHandoffRequestId
  selected,     \* selectedDetail
  shown,        \* history: decided requests whose decision ended with a fresh list
  fetches

page == <<dashboard, handoff, selected>>
vars == <<request, page, fetch, task, deciding, shown, fetches>>

None == [pending |-> {}, resolved |-> {}, loaded |-> FALSE]
NoFetch == [pc |-> "idle", data |-> None]
NoRequest == "none"
In(state) == {r \in Request : request[r] = state}

Init ==
  /\ request \in [Request -> {"none", "pending"}]
  /\ dashboard = None /\ fetch = NoFetch /\ task = [k \in Explicit |-> "idle"]
  /\ deciding = NoRequest /\ handoff = NoRequest /\ selected = NoRequest
  /\ shown = {} /\ fetches = 0

\* dashboardRefreshRef holds the refresh that is on the way.
Refreshing == fetch.pc # "idle"
Starts ==
  /\ fetches < MaxFetches /\ fetches' = fetches + 1
  /\ fetch' = [pc |-> "asked", data |-> None]

-----------------------------------------------------------------------------
(* loadDashboard                                                           *)

\* A tick joins the refresh on the way, which changes nothing.
Tick ==
  /\ ~Refreshing /\ Starts
  /\ UNCHANGED <<request, page, task, deciding, shown>>

JoinsAny(k) == TRUE
Joins(k) == FALSE

\* An explicit refresh starts, or waits for the one on the way to end and looks again.
Load(k) ==
  IF ~Refreshing THEN Starts /\ task' = [task EXCEPT ![k] = "loading"]
  ELSE /\ task' = [task EXCEPT ![k] = IF Joins(k) THEN "loading" ELSE "waiting"]
       /\ UNCHANGED <<fetch, fetches>>

Wake(k) ==
  /\ task[k] = "waiting" /\ ~Refreshing
  /\ Load(k)
  /\ UNCHANGED <<request, page, deciding, shown>>

Button ==
  /\ "button" \in Explicit /\ task["button"] = "idle"
  /\ Load("button")
  /\ UNCHANGED <<request, page, deciding, shown>>

\* dashboard: the store is read once.
Serve ==
  /\ fetch.pc = "asked"
  /\ fetch' = [pc |-> "read", data |-> [pending |-> In("pending"), resolved |-> In("resolved"),
                                        loaded |-> TRUE]]
  /\ UNCHANGED <<request, page, task, deciding, shown, fetches>>

\* syncSelection: a handed-off request that is pending, else the selection while the list has
\* it, else a pending request, else a resolved one.
Selection(data) ==
  IF handoff \in data.pending THEN {handoff}
  ELSE IF selected \in data.pending \cup data.resolved THEN {selected}
  ELSE IF data.pending # {} THEN data.pending
  ELSE IF data.resolved # {} THEN data.resolved ELSE {NoRequest}

\* A refresh ends: the decision that waited for it is over, and so are the others.
Ended ==
  /\ fetch' = NoFetch
  /\ task' = [k \in Explicit |-> IF task[k] = "loading" THEN "idle" ELSE task[k]]
Decided == "decide" \in Explicit /\ task["decide"] = "loading"

Answer ==
  /\ fetch.pc = "read"
  /\ dashboard' = fetch.data
  /\ selected' \in Selection(fetch.data)
  /\ handoff' = IF handoff \in fetch.data.pending THEN NoRequest ELSE handoff
  /\ Ended
  /\ shown' = IF Decided THEN shown \cup {deciding} ELSE shown
  /\ deciding' = IF Decided THEN NoRequest ELSE deciding
  /\ UNCHANGED <<request, fetches>>

\* The error is shown over the list that was there.
AnswerFails ==
  /\ Refreshing
  /\ Ended
  /\ deciding' = IF Decided THEN NoRequest ELSE deciding
  /\ UNCHANGED <<request, page, shown, fetches>>

-----------------------------------------------------------------------------
(* decide, the handoff event, and what else happens to requests            *)

\* The buttons are off while a decision is submitted.
Decide ==
  /\ "decide" \in Explicit /\ deciding = NoRequest
  /\ selected \in dashboard.pending
  /\ deciding' = selected
  /\ UNCHANGED <<request, page, fetch, task, shown, fetches>>

\* approve_request or reject_request; the page then refreshes.
DecisionStored ==
  /\ deciding # NoRequest /\ task["decide"] = "idle"
  /\ request[deciding] = "pending"
  /\ request' = [request EXCEPT ![deciding] = "resolved"]
  /\ Load("decide")
  /\ UNCHANGED <<page, deciding, shown>>

\* The request was resolved meanwhile, or the store failed: there is no refresh.
DecisionFails ==
  /\ deciding # NoRequest /\ task["decide"] = "idle"
  /\ deciding' = NoRequest
  /\ UNCHANGED <<request, page, fetch, task, shown, fetches>>

\* queueHandoffRequest; the refreshes of two handoffs are taken as one while the first waits.
Handoff(r) ==
  /\ "handoff" \in Explicit /\ request[r] # "none"
  /\ handoff' = r
  /\ IF task["handoff"] = "idle" THEN Load("handoff") ELSE UNCHANGED <<fetch, task, fetches>>
  /\ UNCHANGED <<request, dashboard, selected, deciding, shown>>

\* selectPendingRequest, selectResolvedRequest
Select(r) ==
  /\ r \in dashboard.pending \cup dashboard.resolved
  /\ selected' = r
  /\ UNCHANGED <<request, dashboard, handoff, fetch, task, deciding, shown, fetches>>

Arrives(r) ==
  /\ request[r] = "none"
  /\ request' = [request EXCEPT ![r] = "pending"]
  /\ UNCHANGED <<page, fetch, task, deciding, shown, fetches>>

ResolvedElsewhere(r) ==
  /\ request[r] = "pending"
  /\ request' = [request EXCEPT ![r] = "resolved"]
  /\ UNCHANGED <<page, fetch, task, deciding, shown, fetches>>

Next ==
  \/ Tick \/ Button \/ Serve \/ Answer \/ AnswerFails
  \/ Decide \/ DecisionStored \/ DecisionFails
  \/ \E k \in Explicit : Wake(k)
  \/ \E r \in Request : Handoff(r) \/ Select(r) \/ Arrives(r) \/ ResolvedElsewhere(r)

Spec == Init /\ [][Next]_vars

-----------------------------------------------------------------------------
\* A request the user decided on is not offered again once the decision has ended with a list:
\* "Explicit refreshes wait and then fetch again so a decision made during an older fetch is
\* not missed" (useDesktopApp.ts, 646), and no older answer replaces a newer list.
DecisionIsShown == \A r \in shown : r \notin dashboard.pending

-----------------------------------------------------------------------------
(* The inductive invariant.  A decision that is loading waits for a fetch  *)
(* that was asked for after it was stored, so neither what this fetch read *)
(* nor any list that follows offers the request again.                     *)

\* The absent request is none.
Absence == NoRequest \notin Request

List == [pending : SUBSET Request, resolved : SUBSET Request, loaded : BOOLEAN]

TypeOK ==
  /\ request \in [Request -> {"none", "pending", "resolved"}]
  /\ dashboard \in List
  /\ fetch \in [pc : {"idle", "asked", "read"}, data : List]
  /\ task \in [Explicit -> {"idle", "waiting", "loading"}]
  /\ deciding \in Request \cup {NoRequest}
  /\ deciding # NoRequest => "decide" \in Explicit
  /\ shown \subseteq In("resolved")

\* Where a decision is: not stored, waiting for an older fetch, or for its own.
DecisionIsFetched ==
  "decide" \in Explicit =>
    /\ task["decide"] # "idle" => deciding \in In("resolved")
    /\ task["decide"] = "loading" => Refreshing /\ deciding \notin fetch.data.pending

FetchIsFresh == fetch.data.pending \cap shown = {}

IInv == TypeOK /\ DecisionIsFetched /\ FetchIsFresh /\ DecisionIsShown
=============================================================================
