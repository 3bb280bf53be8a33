------------------------------- MODULE SongPage -------------------------------
(***************************************************************************)
(* The rights record page in the browser: the shell of App.tsx with its    *)
(* guard RequireAuth, SongRoute, RightsRecordView and its tabs.            *)
(*                                                                         *)
(* A click on a button starts a handler, an async function that posts to   *)
(* the API and then refreshes: it loads the record again and then the      *)
(* workspace (GET /me).  Nothing cancels a handler, several may run, and   *)
(* their answers arrive in any order.                                      *)
(*                                                                         *)
(* RequireAuth is a component defined inside App, so every render of App   *)
(* makes a new component type and React mounts everything under it afresh. *)
(* A handler of an old mount still runs, but what it sets is thrown away.  *)
(* The record on the server is a revision number and whether its version   *)
(* is confirmed; other people change it too.                               *)
(***************************************************************************)
EXTENDS Naturals

CONSTANTS Handlers,     \* clicks whose promises may be pending together
          Kinds,        \* bound: the operations each of them may be
          MaxRevision   \* bound: revisions of the record

Operations ==
  {"metadata", "save", "bump", "add", "remove", "invite", "agree", "upload"}

ASSUME KindsAssumption == Kinds \in [Handlers -> SUBSET Operations]
ASSUME RevisionAssumption == MaxRevision \in Nat \ {0}

VARIABLES record,    \* the rights record as the server holds it
          own,       \* history: the revision this page's last change made
          lost,      \* history: has an answer been lost?
          auth,      \* App's authState
          page,      \* the mounted SongRoute and what is mounted inside it
          handlers   \* the running handlers

vars == <<record, own, lost, auth, page, handlers>>

None == [revision |-> 0, locked |-> FALSE]   \* no detail has been loaded

TabOf ==
  [k \in Operations |->
     CASE k = "metadata" -> "overview"
       [] k \in {"save", "bump"} -> "ownership"
       [] k \in {"add", "remove", "invite"} -> "contributors"
       [] k = "agree" -> "agreements"
       [] OTHER -> "documents"]

Tabs == {"overview", "ownership", "contributors", "agreements", "documents", "audit"}

(* The dialogs that cover the page, and the operations each one submits.   *)
Covering == {"bump", "add", "invite", "upload"}

(* The flag a running operation raises on its tab; "remove" and "metadata" *)
(* raise none, and "add" and "invite" share one.                           *)
FlagOf ==
  [k \in Operations |->
     CASE k \in {"add", "invite"} -> {"loading"}
       [] k \in {"remove", "metadata"} -> {}
       [] OTHER -> {k}]

Flags == {"loading", "save", "bump", "agree", "upload"}

(* A fresh mount: nothing shown, the record asked for, the first tab.      *)
NewPage ==
  [detail |-> None, mount |-> "asked", seen |-> None, tab |-> "overview",
   dialogs |-> {}, busy |-> {}, typed |-> FALSE, dirty |-> FALSE,
   panel |-> FALSE]

Idle == [kind |-> "none", phase |-> "idle", seen |-> None, onTab |-> FALSE,
         onPage |-> FALSE]

(* mutant: RequireAuth keeps its identity, so a render of App keeps the page *)
RemountedKeeps(p) == p

(* What a render of App leaves of the page: a new mount.                   *)
Remounted(p) == NewPage

(* The handlers after that render: none belongs to what is mounted.        *)
Detached(hs) == [h \in Handlers |-> [hs[h] EXCEPT !.onTab = FALSE, !.onPage = FALSE]]

(* mutant: new answers do not reset the inputs' dirty mark *)
ShowsStaleLabel(p, d) == [p EXCEPT !.detail = d, !.typed = TRUE, !.dirty = FALSE]

(* setDetail: the ownership tab copies the allocations into its inputs.    *)
Shows(p, d) == [p EXCEPT !.detail = d, !.typed = FALSE, !.dirty = FALSE]

-----------------------------------------------------------------------------
Init ==
  /\ record = [revision |-> 1, locked |-> FALSE]
  /\ own = 0
  /\ lost = FALSE
  /\ auth = "checking"
  /\ page = NewPage
  /\ handlers = [h \in Handlers |-> Idle]

(* The first GET /me is answered, or fails, and then the user signs in and *)
(* comes back: in both cases the page mounts.                              *)
Authenticated ==
  /\ auth \in {"checking", "anonymous"}
  /\ auth' = "authenticated"
  /\ page' = NewPage
  /\ UNCHANGED <<record, own, lost, handlers>>

(* Someone else changes the record: a contributor's answer may confirm the *)
(* version, another member may edit or bump it.                            *)
ChangedElsewhere ==
  /\ record.revision < MaxRevision
  /\ \E b \in BOOLEAN :
       record' = [revision |-> record.revision + 1, locked |-> b]
  /\ UNCHANGED <<own, lost, auth, page, handlers>>

Shown == auth = "authenticated" /\ page.detail # None

(* The tab bar: the old tab unmounts, with its inputs, dialogs and flags.  *)
SwitchTab ==
  /\ Shown
  /\ page.dialogs \intersect Covering = {}
  /\ \E t \in Tabs \ {page.tab} :
       page' = [page EXCEPT !.tab = t, !.dialogs = @ \intersect {"metadata"},
                            !.busy = {}, !.typed = FALSE, !.dirty = FALSE,
                            !.panel = FALSE]
  /\ handlers' = [h \in Handlers |-> [handlers[h] EXCEPT !.onTab = FALSE]]
  /\ UNCHANGED <<record, own, lost, auth>>

(* Typing a percentage; refused when the loaded version is confirmed, but  *)
(* not while a save is running.                                            *)
TypeSplit ==
  /\ Shown
  /\ page.tab = "ownership"
  /\ page.dialogs \intersect Covering = {}
  /\ ~page.detail.locked
  /\ page' = [page EXCEPT !.typed = TRUE, !.dirty = TRUE]
  /\ UNCHANGED <<record, own, lost, auth, handlers>>

(* A button of tab t opens its dialog d; Cancel closes it again.           *)
Opens(t, d) ==
  /\ Shown
  /\ page.tab = t
  /\ page.dialogs \intersect Covering = {}
  /\ d \notin page.dialogs
  /\ page' = [page EXCEPT !.dialogs = @ \union {d}]
  /\ UNCHANGED <<record, own, lost, auth, handlers>>

Closes(t, d) ==
  /\ Shown
  /\ page.tab = t
  /\ d \in page.dialogs
  /\ page' = [page EXCEPT !.dialogs = @ \ {d}]
  /\ UNCHANGED <<record, own, lost, auth, handlers>>

MetadataForm == Opens("overview", "metadata") \/ Closes("overview", "metadata")

(* Offered when the loaded version is confirmed; a refused save opens it   *)
(* too.                                                                    *)
BumpDialog ==
  \/ page.detail.locked /\ Opens("ownership", "bump")
  \/ Closes("ownership", "bump")

AddDialog == Opens("contributors", "add") \/ Closes("contributors", "add")

InviteDialog == Opens("contributors", "invite") \/ Closes("contributors", "invite")

(* The only dialog that cannot be closed while its operation runs.         *)
UploadDialog ==
  \/ Opens("documents", "upload")
  \/ "upload" \notin page.busy /\ Closes("documents", "upload")

(* The header's button sets the shell's state, App renders, and the page   *)
(* under RequireAuth mounts again, losing what was typed.                  *)
OpenCreateModal ==
  /\ Shown
  /\ page.dialogs \intersect Covering = {}
  /\ page' = Remounted(page)
  /\ handlers' = Detached(handlers)
  /\ UNCHANGED <<record, own, lost, auth>>

(* The header's other button.  Another tab of the browser may sign in      *)
(* again, so what the running handlers still ask for can be served.        *)
SignOut ==
  /\ auth = "authenticated"
  /\ page.dialogs \intersect Covering = {}
  /\ auth' = "anonymous"
  /\ page' = NewPage
  /\ handlers' = Detached(handlers)
  /\ UNCHANGED <<record, own, lost>>

-----------------------------------------------------------------------------
(* A button of the page or of the dialog that covers it can be clicked.    *)
Clickable(k) ==
  /\ Shown
  /\ page.tab = TabOf[k]
  /\ page.busy \intersect FlagOf[k] = {}
  /\ IF k \in Covering
     THEN k \in page.dialogs
     ELSE page.dialogs \intersect Covering = {}

(* A click starts a handler, which raises its flag.                        *)
Click(h, k) ==
  /\ handlers[h] = Idle
  /\ k \in Kinds[h]
  /\ Clickable(k)
  /\ page' = [page EXCEPT !.busy = @ \union FlagOf[k]]
  /\ handlers' = [handlers EXCEPT ![h] =
       [kind |-> k, phase |-> IF k = "upload" THEN "storing" ELSE "posted",
        seen |-> None, onTab |-> TRUE, onPage |-> TRUE]]
  /\ UNCHANGED <<record, own, lost, auth>>

SaveMetadata(h) == "metadata" \in page.dialogs /\ Click(h, "metadata")

(* The button is dead while nothing was typed or the version is locked.    *)
SaveEnabled == page.dirty /\ ~page.detail.locked
Save(h) == SaveEnabled /\ Click(h, "save")

TriggerBump(h) == Click(h, "bump")
AddContributor(h) == Click(h, "add")
RemoveContributor(h) == Click(h, "remove")
DispatchInvites(h) == Click(h, "invite")
GenerateAgreement(h) == Click(h, "agree")

(* An upload first hashes the file, then asks for a place and sends the    *)
(* bytes, and only then posts its completion.                              *)
Upload(h) == Click(h, "upload")

Stored(h) ==
  /\ handlers[h].phase = "storing"
  /\ handlers' = [handlers EXCEPT ![h].phase = "posted"]
  /\ UNCHANGED <<record, own, lost, auth, page>>

(* The server does what was posted.  A save of a confirmed version is      *)
(* refused; a new version is not confirmed.                                *)
Committed(h) ==
  LET k == handlers[h].kind IN
  /\ handlers[h].phase = "posted"
  /\ record.revision < MaxRevision
  /\ k = "save" => ~record.locked
  /\ record' = [revision |-> record.revision + 1,
                locked |-> record.locked /\ k # "bump"]
  /\ own' = record.revision + 1
  /\ handlers' = [handlers EXCEPT ![h].phase = "done"]
  /\ UNCHANGED <<lost, auth, page>>

(* mutant: the flag is lowered after the refresh only, not in a finally *)
FailsKeepingFlag(h, p) ==
  IF handlers[h].onTab
  THEN [p EXCEPT !.dialogs =
          IF handlers[h].kind = "save" /\ record.locked THEN @ \union {"bump"} ELSE @]
  ELSE p

(* The catch and finally of a handler whose post failed: the flag falls,   *)
(* and a save that needs a new version opens the dialog for one.           *)
Fails(h, p) ==
  IF handlers[h].onTab
  THEN [p EXCEPT !.busy = @ \ FlagOf[handlers[h].kind],
                 !.dialogs = IF handlers[h].kind = "save" /\ record.locked
                             THEN @ \union {"bump"} ELSE @]
  ELSE p

(* The server refuses: a confirmed version, a plan limit, a bad field, a   *)
(* file that did not arrive.                                               *)
Refused(h) ==
  /\ handlers[h].phase \in {"storing", "posted"}
  /\ page' = Fails(h, page)
  /\ handlers' = [handlers EXCEPT ![h] = Idle]
  /\ UNCHANGED <<record, own, lost, auth>>

(* The answer of the post arrives and refresh() begins: load().            *)
PostAnswered(h) ==
  /\ handlers[h].phase = "done"
  /\ handlers' = [handlers EXCEPT ![h].phase = "loading"]
  /\ UNCHANGED <<record, own, lost, auth, page>>

RecordRead(h) ==
  /\ handlers[h].phase = "loading"
  /\ handlers' = [handlers EXCEPT ![h].phase = "loaded", ![h].seen = record]
  /\ UNCHANGED <<record, own, lost, auth, page>>

(* mutant: the refresh ends with the record and leaves the workspace alone *)
LoadAnsweredEnds(h) ==
  /\ handlers[h].phase = "loaded"
  /\ page' = IF handlers[h].onPage
             THEN [Shows(page, handlers[h].seen) EXCEPT !.busy = @ \ FlagOf[handlers[h].kind]]
             ELSE page
  /\ handlers' = [handlers EXCEPT ![h] = Idle]
  /\ UNCHANGED <<record, own, lost, auth>>

(* load() shows what it read, if its SongRoute is still mounted, and then  *)
(* onWorkspaceChanged() asks for the workspace.                            *)
LoadAnswered(h) ==
  /\ handlers[h].phase = "loaded"
  /\ page' = IF handlers[h].onPage THEN Shows(page, handlers[h].seen) ELSE page
  /\ handlers' = [handlers EXCEPT ![h].phase = "workspace", ![h].seen = None]
  /\ UNCHANGED <<record, own, lost, auth>>

(* What a handler sets after its refresh, if its tab is still mounted.     *)
Succeeds(h, p) ==
  IF handlers[h].onTab
  THEN [p EXCEPT !.busy = @ \ FlagOf[handlers[h].kind],
                 !.dialogs = @ \ {handlers[h].kind},
                 !.dirty = @ /\ handlers[h].kind # "save",
                 !.panel = @ \/ handlers[h].kind = "invite"]
  ELSE p

(* GET /me is answered: the handler finishes, App renders, all is mounted  *)
(* again.                                                                  *)
WorkspaceAnswered(h) ==
  /\ handlers[h].phase = "workspace"
  /\ page' = Remounted(Succeeds(h, page))
  /\ handlers' = Detached([handlers EXCEPT ![h] = Idle])
  /\ auth' = "authenticated"
  /\ UNCHANGED <<record, own, lost>>

(* GET /me fails, for whatever reason: the user counts as signed out and   *)
(* RequireAuth sends them to the sign-in page.                             *)
WorkspaceFails(h) ==
  /\ handlers[h].phase = "workspace"
  /\ page' = NewPage
  /\ handlers' = Detached([handlers EXCEPT ![h] = Idle])
  /\ auth' = "anonymous"
  /\ UNCHANGED <<record, own, lost>>

(* The answer of a post is lost after the server acted: the handler takes  *)
(* it for a refusal.  A lost answer to load() is only logged.              *)
PostLost(h) ==
  /\ handlers[h].phase = "done"
  /\ lost' = TRUE
  /\ page' = Fails(h, page)
  /\ handlers' = [handlers EXCEPT ![h] = Idle]
  /\ UNCHANGED <<record, own, auth>>

LoadLost(h) ==
  /\ handlers[h].phase \in {"loading", "loaded"}
  /\ lost' = TRUE
  /\ handlers' = [handlers EXCEPT ![h].phase = "workspace", ![h].seen = None]
  /\ UNCHANGED <<record, own, auth, page>>

-----------------------------------------------------------------------------
(* The effect of a mount: load() of the new SongRoute.                     *)
MountRead ==
  /\ page.mount = "asked"
  /\ auth = "authenticated"
  /\ page' = [page EXCEPT !.mount = "read", !.seen = record]
  /\ UNCHANGED <<record, own, lost, auth, handlers>>

MountAnswered ==
  /\ page.mount = "read"
  /\ page' = [Shows(page, page.seen) EXCEPT !.mount = "done", !.seen = None]
  /\ UNCHANGED <<record, own, lost, auth, handlers>>

(* Without a detail the page stays on its spinner.                         *)
MountLost ==
  /\ page.mount \in {"asked", "read"}
  /\ auth = "authenticated"
  /\ lost' = TRUE
  /\ page' = [page EXCEPT !.mount = "done", !.seen = None]
  /\ UNCHANGED <<record, own, auth, handlers>>

Submit(h) ==
  \/ SaveMetadata(h) \/ Save(h) \/ TriggerBump(h) \/ AddContributor(h)
  \/ RemoveContributor(h) \/ DispatchInvites(h) \/ GenerateAgreement(h) \/ Upload(h)

Dialog == MetadataForm \/ BumpDialog \/ AddDialog \/ InviteDialog \/ UploadDialog

Progress(h) ==
  \/ Stored(h) \/ Committed(h) \/ Refused(h) \/ PostAnswered(h) \/ RecordRead(h)
  \/ LoadAnswered(h) \/ WorkspaceAnswered(h) \/ WorkspaceFails(h)

Next ==
  \/ Authenticated \/ ChangedElsewhere
  \/ SwitchTab \/ TypeSplit \/ Dialog \/ OpenCreateModal \/ SignOut
  \/ MountRead \/ MountAnswered \/ MountLost
  \/ \E h \in Handlers : Submit(h) \/ Progress(h) \/ PostLost(h) \/ LoadLost(h)

Spec == Init /\ [][Next]_vars

(* The API answers or refuses every request in the end; users owe nothing. *)
FairSpec == Spec /\ \A h \in Handlers : WF_vars(Progress(h))

-----------------------------------------------------------------------------
Records == [revision : 0 .. MaxRevision, locked : BOOLEAN]

Pages ==
  [detail : Records, mount : {"asked", "read", "done"}, seen : Records,
   tab : Tabs, dialogs : SUBSET (Covering \union {"metadata"}),
   busy : SUBSET Flags, typed : BOOLEAN, dirty : BOOLEAN, panel : BOOLEAN]

Phases == {"idle", "storing", "posted", "done", "loading", "loaded", "workspace"}

TypeOK ==
  /\ record \in Records
  /\ own \in 0 .. MaxRevision
  /\ lost \in BOOLEAN
  /\ auth \in {"checking", "authenticated", "anonymous"}
  /\ page \in Pages
  /\ handlers \in [Handlers ->
       [kind : Operations \union {"none"}, phase : Phases, seen : Records,
        onTab : BOOLEAN, onPage : BOOLEAN]]

(* A change whose handler is still on its way to a new mount.              *)
Refreshing(h) == handlers[h].phase \in {"done", "loading", "loaded", "workspace"}

Settled ==
  /\ auth = "authenticated"
  /\ page.mount = "done"
  /\ \A h \in Handlers : handlers[h].phase = "idle"

(***************************************************************************)
(* Whatever the order in which answers to overlapping refreshes arrive,    *)
(* once the page is quiet and no answer was lost it shows the record with  *)
(* every change made from it (SongRoute.refresh, App.tsx:409): an older    *)
(* answer never has the last word.                                         *)
(***************************************************************************)
SettledPageIsCurrent ==
  Settled /\ ~lost => page.detail.revision >= own

(***************************************************************************)
(* The ownership tab says "Allocations Saved" (OwnershipTab.tsx:247) only  *)
(* while its inputs hold what was loaded, although a save marks them clean *)
(* after a refresh during which the user may have typed on.                *)
(***************************************************************************)
SavedLabelIsTrue == page.dirty \/ ~page.typed

(***************************************************************************)
(* A change no refresh is still on its way for is, or will be, in what the *)
(* page loads: the induction behind SettledPageIsCurrent.                  *)
(***************************************************************************)
ChangesReachPage ==
  \/ lost
  \/ \E h \in Handlers : Refreshing(h)
  \/ page.mount = "asked"
  \/ page.mount = "read" /\ page.seen.revision >= own
  \/ page.mount = "done" /\ page.detail.revision >= own

IInv == TypeOK /\ own <= record.revision /\ ChangesReachPage /\ SavedLabelIsTrue

(***************************************************************************)
(* A button that went busy comes back (the finally of every handler, and   *)
(* the new mounts): no refusal or failure leaves the tab waiting forever.  *)
(***************************************************************************)
BusyEnds == \A f \in Flags : f \in page.busy ~> f \notin page.busy

(***************************************************************************)
(* ContributorsTab.tsx:225 tells the user to copy each link now, since it  *)
(* cannot be shown again: when the handler that made links has finished on *)
(* the tab it was clicked on, the tab shows them.                          *)
(***************************************************************************)
DispatchedLinksAreShown ==
  [][\A h \in Handlers :
       handlers[h].kind = "invite" /\ handlers[h].onTab /\ WorkspaceAnswered(h)
         => page'.panel]_vars
=============================================================================
