------------------------------ MODULE Desktop ------------------------------
(***************************************************************************)
(* The desktop application and what it runs: backend processes             *)
(* (BackendCommands), conversations about a request (ApprovalChat), the    *)
(* daemon it may host (DaemonHost), links it is started with               *)
(* (DesktopHandoff), password changes it resolves (DesktopChanges), its    *)
(* page (DashboardPage), vaults it synchronises (VaultSync) and the        *)
(* checkout it does that in (GitCheckout).  The components run side by     *)
(* side and share no variable.                                             *)
(***************************************************************************)
EXTENDS BackendCommands

CONSTANTS
  Chat, Handler, NoHandler, LateFailures, MaxTurns,       \* of ApprovalChat
  Process, NoProcess, MaxHostFaults,                      \* of DaemonHost
  LinkKind, Id, NoId, ReloadsMidTake, MaxLinks,           \* of DesktopHandoff
  Change, NoChange, Resolver, Op, Covered, Own,           \* of DesktopChanges
  Request, Explicit, MaxFetches,                          \* of DashboardPage
  Device, Edit, NoVault, RemoteKind, Direction, MaxVersion,  \* of VaultSync
  Connection, Branch, Default, MaxCommits,                \* of GitCheckout
  MaxFaults                                               \* of the others

VARIABLES
  state, cancel, open, latest, history, handler, review, undecided, visible, turns, chatFaults,
  desktop, process, owns, file, child, asked, down, left, checked, overrun,
  hostFaults,
  started, initial, pending, page, held, listening, reloaded, sent, handedOver, links,
  ops, change, successor, permitted, todo, manual, automatic, batch, window, had, reviewed,
  written, changeFaults,
  request, dashboard, fetch, task, deciding, handoff, selected, decided, fetches,
  vault, aside, editor, saved, job, record, blob, meta, lock, head, branch, published, blamed,
  raced, syncFaults,
  remote, local, checkout, staged, connection, preparing, push, reported, strayed,
  commits

chatVars ==
  <<state, cancel, open, latest, history, handler, review, undecided, visible, turns,
    chatFaults>>
hostVars ==
  <<desktop, process, owns, file, child, asked, down, left, checked, overrun, hostFaults>>
handoffVars ==
  <<started, initial, pending, page, held, listening, reloaded, sent, handedOver, links>>
changeVars ==
  <<ops, change, successor, permitted, todo, manual, automatic, batch, window, had, reviewed,
    written, changeFaults>>
pageVars ==
  <<request, dashboard, fetch, task, deciding, handoff, selected, decided, fetches>>
syncVars ==
  <<vault, aside, editor, saved, job, record, blob, meta, lock, head, branch, published,
    blamed, raced, syncFaults>>
checkoutVars ==
  <<remote, local, checkout, staged, connection, preparing, push, reported, strayed,
    commits>>

Chats == INSTANCE ApprovalChat WITH
  saved <- history, pending <- undecided, faults <- chatFaults
Host == INSTANCE DaemonHost WITH
  pc <- process, faults <- hostFaults, MaxFaults <- MaxHostFaults
Links == INSTANCE DesktopHandoff WITH Kind <- LinkKind, shown <- handedOver
Changes == INSTANCE DesktopChanges WITH state <- change, faults <- changeFaults
Page == INSTANCE DashboardPage WITH shown <- decided
Sync == INSTANCE VaultSync WITH Kind <- RemoteKind, faults <- syncFaults
Checkout == INSTANCE GitCheckout WITH head <- checkout

\* What stands for nothing is none of the things.
ASSUME DesktopAssumption ==
  /\ Host!Named /\ Links!Absence /\ Changes!Setting /\ Page!Absence
  /\ Sync!Setting /\ Checkout!Named

DesktopInit ==
  /\ Init /\ Chats!Init /\ Host!Init /\ Links!Init /\ Changes!Init /\ Page!Init
  /\ Sync!Init /\ Checkout!Init

BackendsStep ==
  /\ Next
  /\ UNCHANGED <<chatVars, hostVars, handoffVars, changeVars, pageVars, syncVars, checkoutVars>>
ChatStep ==
  /\ Chats!Next
  /\ UNCHANGED <<vars, hostVars, handoffVars, changeVars, pageVars, syncVars, checkoutVars>>
HostStep ==
  /\ Host!Next
  /\ UNCHANGED <<vars, chatVars, handoffVars, changeVars, pageVars, syncVars, checkoutVars>>
LinksStep ==
  /\ Links!Next
  /\ UNCHANGED <<vars, chatVars, hostVars, changeVars, pageVars, syncVars, checkoutVars>>
ChangesStep ==
  /\ Changes!Next
  /\ UNCHANGED <<vars, chatVars, hostVars, handoffVars, pageVars, syncVars, checkoutVars>>
PageStep ==
  /\ Page!Next
  /\ UNCHANGED <<vars, chatVars, hostVars, handoffVars, changeVars, syncVars, checkoutVars>>
SyncStep ==
  /\ Sync!Next
  /\ UNCHANGED <<vars, chatVars, hostVars, handoffVars, changeVars, pageVars, checkoutVars>>
CheckoutStep ==
  /\ Checkout!Next
  /\ UNCHANGED <<vars, chatVars, hostVars, handoffVars, changeVars, pageVars, syncVars>>

DesktopNext ==
  \/ BackendsStep \/ ChatStep \/ HostStep \/ LinksStep \/ ChangesStep \/ PageStep
  \/ SyncStep \/ CheckoutStep

desktopVars ==
  <<vars, chatVars, hostVars, handoffVars, changeVars, pageVars, syncVars, checkoutVars>>

DesktopSpec == DesktopInit /\ [][DesktopNext]_desktopVars

-----------------------------------------------------------------------------
\* One turn at a time owns a conversation, and its history can be taken up again.
TurnOwnsConversation == Chats!TurnOwnsConversation

\* One process is the daemon, and it ends without a process of its own left behind.
OneDaemonExitsCleanly == Host!OneDaemonExitsCleanly

\* What a link asked for and what a decision did reach the page, although it loads,
\* reloads and asks again in the meantime.
PageShowsTheLatest == Links!HandoffIsKept /\ Page!DecisionIsShown

\* No operation is committed that nobody entitled has reviewed.
CommittedIsReviewed == Changes!CommittedIsReviewed

\* What a remote has confirmed stays in it or on a device, over a folder, Git or HTTP,
\* and a push that reported success is in the branch of the repository.
PublishedIsKept == Sync!SyncLosesNothing /\ Checkout!PushedIsPublished

\* A saved edit stays on its device until every other one can have it.
SavedEditsStay == [][~Sync!ForgetsSaved]_syncVars
=============================================================================
