--------------------------- MODULE SongPage_proofs ---------------------------
(***************************************************************************)
(* Proofs about SongPage for any set of overlapping handlers: the inductive *)
(* invariant, that a quiet page shows the changes made from it, and that   *)
(* the save label tells the truth.                                         *)
(***************************************************************************)
EXTENDS SongPage, TLAPS

USE RevisionAssumption

-------------------------------------------------------------------------------
(* The values of the page and of the handlers *)

Handler ==
  [kind : Operations \union {"none"}, phase : Phases, seen : Records,
   onTab : BOOLEAN, onPage : BOOLEAN]

LEMMA NoneType == None \in Records
  BY DEF None, Records

LEMMA NewPageType == NewPage \in Pages
  BY NoneType DEF NewPage, Pages, Tabs

LEMMA IdleType == Idle \in Handler
  BY NoneType DEF Idle, Handler, Phases

LEMMA FlagOfType == \A k \in Operations : FlagOf[k] \subseteq Flags
  BY DEF FlagOf, Flags, Operations

\* Showing a record keeps the mount and leaves nothing typed.
LEMMA ShowsType ==
    ASSUME NEW p \in Pages, NEW d \in Records
    PROVE  /\ Shows(p, d) \in Pages
           /\ Shows(p, d).detail = d
           /\ Shows(p, d).mount = p.mount
           /\ ~Shows(p, d).typed
  BY DEF Shows, Pages

\* A failure touches only flags and dialogs.
LEMMA FailsType ==
    ASSUME NEW h \in Handlers, NEW p \in Pages
    PROVE  /\ Fails(h, p) \in Pages
           /\ Fails(h, p).mount = p.mount
           /\ Fails(h, p).seen = p.seen
           /\ Fails(h, p).detail = p.detail
           /\ Fails(h, p).typed = p.typed
           /\ Fails(h, p).dirty = p.dirty
<1>1. "bump" \in Covering
  BY DEF Covering
<1>2. QED
  BY <1>1 DEF Fails, Pages

\* A render of App leaves the handlers' phases alone.
LEMMA DetachedType ==
    ASSUME NEW hs \in [Handlers -> Handler]
    PROVE  /\ Detached(hs) \in [Handlers -> Handler]
           /\ \A h \in Handlers : Detached(hs)[h].phase = hs[h].phase
  BY DEF Detached, Handler

\* Moving one handler leaves the others.
LEMMA MoveType ==
    ASSUME NEW hs \in [Handlers -> Handler], NEW h \in Handlers, NEW x \in Handler
    PROVE  /\ [hs EXCEPT ![h] = x] \in [Handlers -> Handler]
           /\ [hs EXCEPT ![h] = x][h] = x
           /\ \A g \in Handlers \ {h} : [hs EXCEPT ![h] = x][g] = hs[g]
  OBVIOUS

-------------------------------------------------------------------------------
(* Steps of a kind *)

\* The page is mounted anew: its effect will load what the server holds.
LEMMA NewMountStep ==
    ASSUME IInv, page' = NewPage, UNCHANGED <<record, own, lost>>,
           auth' \in {"checking", "authenticated", "anonymous"},
           handlers' \in [Handlers -> Handler]
    PROVE  IInv'
<1>1. page' \in Pages /\ page'.mount = "asked" /\ ~page'.typed
  BY NewPageType DEF NewPage
<1>2. TypeOK'
  BY <1>1 DEF IInv, TypeOK, Handler
<1>3. (own <= record.revision)'
  BY DEF IInv
<1>4. ChangesReachPage' /\ SavedLabelIsTrue'
  BY <1>1 DEF ChangesReachPage, SavedLabelIsTrue
<1>5. QED
  BY <1>2, <1>3, <1>4 DEF IInv

\* The user or a failure changes what covers the page, not what it loaded.
LEMMA QuietPageStep ==
    ASSUME IInv, page' \in Pages, UNCHANGED <<record, own, lost, auth>>,
           page'.mount = page.mount, page'.seen = page.seen,
           page'.detail = page.detail,
           page'.dirty \/ ~page'.typed,
           handlers' \in [Handlers -> Handler],
           \A h \in Handlers : Refreshing(h) => Refreshing(h)'
    PROVE  IInv'
<1>1. TypeOK'
  BY DEF IInv, TypeOK, Handler
<1>2. (own <= record.revision)' /\ SavedLabelIsTrue'
  BY DEF IInv, SavedLabelIsTrue
<1>3. ChangesReachPage'
  BY DEF IInv, ChangesReachPage
<1>4. QED
  BY <1>1, <1>2, <1>3 DEF IInv

\* A handler is, after the step, still refreshing, and the mount is as it was.
LEMMA RefreshStep ==
    ASSUME IInv, NEW h \in Handlers, handlers' \in [Handlers -> Handler],
           Refreshing(h)', page' \in Pages, page'.dirty \/ ~page'.typed,
           UNCHANGED <<record, own, auth>>, lost' \in BOOLEAN
    PROVE  IInv'
<1>1. TypeOK'
  BY DEF IInv, TypeOK, Handler
<1>2. (own <= record.revision)' /\ SavedLabelIsTrue'
  BY DEF IInv, SavedLabelIsTrue
<1>3. ChangesReachPage'
  BY DEF ChangesReachPage
<1>4. QED
  BY <1>1, <1>2, <1>3 DEF IInv

-------------------------------------------------------------------------------
(* The inductive invariant *)

LEMMA InitIInv == Init => IInv
<1> SUFFICES ASSUME Init PROVE IInv
  OBVIOUS
<1>1. page \in Pages /\ page.mount = "asked" /\ ~page.typed
  BY NewPageType DEF Init, NewPage
<1>2. handlers \in [Handlers -> Handler]
  BY IdleType DEF Init
<1>3. record \in Records /\ own \in 0 .. MaxRevision /\ own <= record.revision
  BY DEF Init, Records
<1>4. TypeOK
  BY <1>1, <1>2, <1>3 DEF Init, TypeOK, Handler
<1>5. QED
  BY <1>1, <1>3, <1>4 DEF Init, IInv, ChangesReachPage, SavedLabelIsTrue

LEMMA UserSteps ==
    ASSUME IInv, SwitchTab \/ TypeSplit \/ OpenCreateModal \/ SignOut
    PROVE  IInv'
<1>0. page \in Pages /\ handlers \in [Handlers -> Handler] /\ auth \in {"checking", "authenticated", "anonymous"}
  BY DEF IInv, TypeOK, Handler
<1>1. CASE SwitchTab
  <2>1. page' \in Pages /\ page'.mount = page.mount /\ page'.seen = page.seen
        /\ page'.detail = page.detail /\ ~page'.typed
    <3>1. PICK t \in Tabs :
            page' = [page EXCEPT !.tab = t, !.dialogs = @ \intersect {"metadata"},
                                 !.busy = {}, !.typed = FALSE, !.dirty = FALSE,
                                 !.panel = FALSE]
      BY <1>1 DEF SwitchTab
    <3>2. {} \in SUBSET Flags
          /\ page.dialogs \intersect {"metadata"} \in SUBSET (Covering \union {"metadata"})
      OBVIOUS
    <3>3. QED
      BY <1>0, <3>1, <3>2 DEF Pages
  <2>2. handlers' \in [Handlers -> Handler]
        /\ \A h \in Handlers : Refreshing(h) => Refreshing(h)'
    BY <1>0, <1>1 DEF SwitchTab, Handler, Refreshing
  <2>3. QED
    BY <2>1, <2>2, <1>1, QuietPageStep DEF SwitchTab
<1>2. CASE TypeSplit
  <2>1. page' \in Pages /\ page'.mount = page.mount /\ page'.seen = page.seen
        /\ page'.detail = page.detail /\ page'.dirty
    BY <1>0, <1>2 DEF TypeSplit, Pages
  <2>2. QED
    BY <2>1, <1>0, <1>2, QuietPageStep DEF TypeSplit, Refreshing
<1>3. CASE OpenCreateModal
  BY <1>0, <1>3, DetachedType, NewMountStep DEF OpenCreateModal, Remounted
<1>4. CASE SignOut
  BY <1>0, <1>4, DetachedType, NewMountStep DEF SignOut
<1>5. QED
  BY <1>1, <1>2, <1>3, <1>4

\* Opening or closing a dialog.
LEMMA DialogStep ==
    ASSUME IInv, NEW t \in Tabs, NEW d \in Covering \union {"metadata"},
           Opens(t, d) \/ Closes(t, d)
    PROVE  IInv'
<1>0. page \in Pages /\ handlers \in [Handlers -> Handler]
  BY DEF IInv, TypeOK, Handler
<1>1. page' \in Pages /\ page'.mount = page.mount /\ page'.seen = page.seen
      /\ page'.detail = page.detail /\ page'.typed = page.typed
      /\ page'.dirty = page.dirty
  BY <1>0 DEF Opens, Closes, Pages
<1>2. page'.dirty \/ ~page'.typed
  BY <1>1 DEF IInv, SavedLabelIsTrue
<1>3. UNCHANGED <<record, own, lost, auth, handlers>>
  BY DEF Opens, Closes
<1>4. QED
  BY <1>0, <1>1, <1>2, <1>3, QuietPageStep DEF Refreshing

LEMMA DialogSteps ==
    ASSUME IInv, Dialog
    PROVE  IInv'
<1>1. {"overview", "ownership", "contributors", "documents"} \subseteq Tabs
      /\ {"bump", "add", "invite", "upload"} \subseteq Covering
  BY DEF Tabs, Covering
<1>2. CASE MetadataForm
  BY <1>1, <1>2, DialogStep DEF MetadataForm
<1>3. CASE BumpDialog
  BY <1>1, <1>3, DialogStep DEF BumpDialog
<1>4. CASE AddDialog
  BY <1>1, <1>4, DialogStep DEF AddDialog
<1>5. CASE InviteDialog
  BY <1>1, <1>5, DialogStep DEF InviteDialog
<1>6. CASE UploadDialog
  BY <1>1, <1>6, DialogStep DEF UploadDialog
<1>7. QED
  BY <1>2, <1>3, <1>4, <1>5, <1>6 DEF Dialog

LEMMA ClickStep ==
    ASSUME IInv, NEW h \in Handlers, NEW k \in Operations, Click(h, k)
    PROVE  IInv'
<1>0. page \in Pages /\ handlers \in [Handlers -> Handler]
  BY DEF IInv, TypeOK, Handler
<1>1. /\ page' = [page EXCEPT !.busy = @ \union FlagOf[k]]
      /\ handlers' = [handlers EXCEPT ![h] =
             [kind |-> k, phase |-> IF k = "upload" THEN "storing" ELSE "posted",
              seen |-> None, onTab |-> TRUE, onPage |-> TRUE]]
  BY DEF Click
<1>2. page' \in Pages /\ page'.mount = page.mount /\ page'.seen = page.seen
      /\ page'.detail = page.detail /\ page'.typed = page.typed /\ page'.dirty = page.dirty
  BY <1>0, <1>1, FlagOfType DEF Pages
<1>3. handlers' \in [Handlers -> Handler]
  BY <1>0, <1>1, NoneType DEF Handler, Phases
<1>4. \A g \in Handlers : Refreshing(g) => Refreshing(g)'
  BY <1>0, <1>1 DEF Click, Idle, Refreshing
<1>5. QED
  BY <1>2, <1>3, <1>4, QuietPageStep DEF Click, IInv, SavedLabelIsTrue

LEMMA SubmitStep ==
    ASSUME IInv, NEW h \in Handlers, Submit(h)
    PROVE  IInv'
<1>1. Operations = {"metadata", "save", "bump", "add", "remove", "invite", "agree", "upload"}
  BY DEF Operations
<1>2. \E k \in Operations : Click(h, k)
  BY <1>1 DEF Submit, SaveMetadata, Save, TriggerBump, AddContributor,
     RemoveContributor, DispatchInvites, GenerateAgreement, Upload
<1>3. QED
  BY <1>2, ClickStep

\* The steps after which h is on its way to a new mount: its change, and what follows.
LEMMA RefreshSteps ==
    ASSUME IInv, NEW h \in Handlers,
           PostAnswered(h) \/ RecordRead(h) \/ LoadAnswered(h) \/ LoadLost(h)
    PROVE  IInv'
<1>0. page \in Pages /\ handlers \in [Handlers -> Handler] /\ record \in Records /\ lost \in BOOLEAN
  BY DEF IInv, TypeOK, Handler
<1>1. handlers' \in [Handlers -> Handler] /\ Refreshing(h)'
  BY <1>0 DEF PostAnswered, RecordRead, LoadAnswered, LoadLost, Handler, Phases, Refreshing
<1>2. handlers[h].seen \in Records
  BY <1>0 DEF Handler
<1>3. page' \in Pages /\ (page'.dirty \/ ~page'.typed)
  BY <1>0, <1>2, ShowsType
     DEF PostAnswered, RecordRead, LoadAnswered, LoadLost, IInv, SavedLabelIsTrue
<1>4. UNCHANGED <<record, own, auth>> /\ lost' \in BOOLEAN
  BY <1>0 DEF PostAnswered, RecordRead, LoadAnswered, LoadLost
<1>5. QED
  BY <1>1, <1>3, <1>4, RefreshStep

LEMMA CommittedStep ==
    ASSUME IInv, NEW h \in Handlers, Committed(h)
    PROVE  IInv'
<1>0. handlers \in [Handlers -> Handler] /\ record \in Records /\ own \in 0 .. MaxRevision
  BY DEF IInv, TypeOK, Handler
<1>1. handlers' \in [Handlers -> Handler] /\ Refreshing(h)'
  BY <1>0 DEF Committed, Handler, Phases, Refreshing
<1>2. record' \in Records /\ own' \in 0 .. MaxRevision /\ own' = record'.revision
  BY <1>0 DEF Committed, Records
<1>3. TypeOK'
  BY <1>1, <1>2 DEF Committed, IInv, TypeOK, Handler
<1>4. (own <= record.revision)'
  BY <1>2 DEF Records
<1>5. QED
  BY <1>1, <1>3, <1>4 DEF Committed, IInv, ChangesReachPage, SavedLabelIsTrue

\* A post that was refused changes nothing; one whose answer is lost may have.
LEMMA FailureSteps ==
    ASSUME IInv, NEW h \in Handlers, Refused(h) \/ PostLost(h)
    PROVE  IInv'
<1>0. page \in Pages /\ handlers \in [Handlers -> Handler]
  BY DEF IInv, TypeOK, Handler
<1>1. page' = Fails(h, page) /\ handlers' = [handlers EXCEPT ![h] = Idle]
      /\ UNCHANGED <<record, own, auth>>
  BY DEF Refused, PostLost
<1>2. handlers' \in [Handlers -> Handler]
  BY <1>0, <1>1, IdleType, MoveType
<1>3. page' \in Pages /\ page'.mount = page.mount /\ page'.seen = page.seen
      /\ page'.detail = page.detail /\ (page'.dirty \/ ~page'.typed)
  BY <1>0, <1>1, FailsType DEF IInv, SavedLabelIsTrue
<1>4. CASE Refused(h)
  <2>1. \A g \in Handlers : Refreshing(g) => Refreshing(g)'
    BY <1>0, <1>1, <1>4 DEF Refused, Refreshing
  <2>2. UNCHANGED <<record, own, lost, auth>>
    BY <1>4 DEF Refused
  <2>3. QED
    BY <1>2, <1>3, <2>1, <2>2, QuietPageStep
<1>5. CASE PostLost(h)
  <2>1. lost' = TRUE
    BY <1>5 DEF PostLost
  <2>2. TypeOK'
    BY <1>1, <1>2, <1>3, <2>1 DEF IInv, TypeOK, Handler
  <2>3. QED
    BY <1>1, <1>3, <2>1, <2>2 DEF IInv, ChangesReachPage, SavedLabelIsTrue
<1>6. QED
  BY <1>4, <1>5

LEMMA StoredStep ==
    ASSUME IInv, NEW h \in Handlers, Stored(h)
    PROVE  IInv'
<1>0. page \in Pages /\ handlers \in [Handlers -> Handler]
  BY DEF IInv, TypeOK, Handler
<1>1. handlers' \in [Handlers -> Handler]
  BY <1>0 DEF Stored, Handler, Phases
<1>2. \A g \in Handlers : Refreshing(g) => Refreshing(g)'
  BY <1>0 DEF Stored, Refreshing
<1>3. QED
  BY <1>0, <1>1, <1>2, QuietPageStep DEF Stored, IInv, SavedLabelIsTrue

LEMMA WorkspaceSteps ==
    ASSUME IInv, NEW h \in Handlers, WorkspaceAnswered(h) \/ WorkspaceFails(h)
    PROVE  IInv'
<1>0. handlers \in [Handlers -> Handler]
  BY DEF IInv, TypeOK, Handler
<1>1. [handlers EXCEPT ![h] = Idle] \in [Handlers -> Handler]
  BY <1>0, IdleType, MoveType
<1>2. handlers' \in [Handlers -> Handler] /\ page' = NewPage
  BY <1>1, DetachedType DEF WorkspaceAnswered, WorkspaceFails, Remounted
<1>3. auth' \in {"checking", "authenticated", "anonymous"} /\ UNCHANGED <<record, own, lost>>
  BY DEF WorkspaceAnswered, WorkspaceFails
<1>4. QED
  BY <1>2, <1>3, NewMountStep

LEMMA MountSteps ==
    ASSUME IInv, MountRead \/ MountAnswered \/ MountLost
    PROVE  IInv'
<1>0. page \in Pages /\ record \in Records
  BY DEF IInv, TypeOK
<1>1. CASE MountRead
  <2>1. page' \in Pages /\ page'.mount = "read" /\ page'.seen = record
        /\ page'.typed = page.typed /\ page'.dirty = page.dirty
    BY <1>0, <1>1 DEF MountRead, Pages
  <2>2. QED
    BY <1>1, <2>1 DEF MountRead, IInv, TypeOK, ChangesReachPage, SavedLabelIsTrue
<1>2. CASE MountAnswered
  <2>1. page.seen \in Records /\ page.mount = "read"
    BY <1>0, <1>2 DEF Pages, MountAnswered
  <2>2. Shows(page, page.seen) \in Pages /\ Shows(page, page.seen).detail = page.seen
        /\ ~Shows(page, page.seen).typed
    BY <1>0, <2>1, ShowsType
  <2>3. page' \in Pages /\ page'.mount = "done" /\ page'.detail = page.seen /\ ~page'.typed
    BY <1>2, <2>2, NoneType DEF MountAnswered, Pages
  <2>4. TypeOK' /\ SavedLabelIsTrue' /\ (own <= record.revision)'
    BY <1>2, <2>3 DEF MountAnswered, IInv, TypeOK, SavedLabelIsTrue
  <2>5. ChangesReachPage'
    BY <1>2, <2>1, <2>3 DEF MountAnswered, IInv, ChangesReachPage, Refreshing
  <2>6. QED
    BY <2>4, <2>5 DEF IInv
<1>3. CASE MountLost
  <2>1. page' \in Pages /\ page'.typed = page.typed /\ page'.dirty = page.dirty /\ lost'
    BY <1>0, <1>3, NoneType DEF MountLost, Pages
  <2>2. QED
    BY <1>3, <2>1 DEF MountLost, IInv, TypeOK, ChangesReachPage, SavedLabelIsTrue
<1>4. QED
  BY <1>1, <1>2, <1>3

LEMMA OutsideSteps ==
    ASSUME IInv, Authenticated \/ ChangedElsewhere
    PROVE  IInv'
<1>1. CASE Authenticated
  BY <1>1, NewMountStep DEF Authenticated, IInv, TypeOK, Handler
<1>2. CASE ChangedElsewhere
  <2>1. record' \in Records /\ record'.revision = record.revision + 1
    BY <1>2 DEF ChangedElsewhere, IInv, TypeOK, Records
  <2>2. TypeOK' /\ SavedLabelIsTrue' /\ ChangesReachPage'
    BY <1>2, <2>1 DEF ChangedElsewhere, IInv, TypeOK, SavedLabelIsTrue, ChangesReachPage, Refreshing
  <2>3. own \in Nat /\ record.revision \in Nat /\ own <= record.revision /\ own' = own
    BY <1>2 DEF ChangedElsewhere, IInv, TypeOK, Records
  <2>4. QED
    BY <2>1, <2>2, <2>3 DEF IInv
<1>3. QED
  BY <1>1, <1>2

LEMMA NextIInv == IInv /\ [Next]_vars => IInv'
<1> SUFFICES ASSUME IInv, [Next]_vars PROVE IInv'
  OBVIOUS
<1>1. CASE UNCHANGED vars
  BY <1>1 DEF vars, IInv, TypeOK, ChangesReachPage, SavedLabelIsTrue, Refreshing
<1>2. CASE Authenticated \/ ChangedElsewhere
  BY <1>2, OutsideSteps
<1>3. CASE SwitchTab \/ TypeSplit \/ Dialog \/ OpenCreateModal \/ SignOut
  BY <1>3, UserSteps, DialogSteps
<1>4. CASE MountRead \/ MountAnswered \/ MountLost
  BY <1>4, MountSteps
<1>5. ASSUME NEW h \in Handlers, Submit(h) \/ Progress(h) \/ PostLost(h) \/ LoadLost(h)
      PROVE  IInv'
  BY <1>5, SubmitStep, RefreshSteps, CommittedStep, FailureSteps, StoredStep,
     WorkspaceSteps DEF Progress
<1>6. QED
  BY <1>1, <1>2, <1>3, <1>4, <1>5 DEF Next

(***************************************************************************)
(* The inductive invariant holds whatever handlers overlap: a change made  *)
(* from the page is always in what the page shows or will load.            *)
(***************************************************************************)
THEOREM Inductive == Spec => []IInv
  BY InitIInv, NextIInv, PTL DEF Spec

(***************************************************************************)
(* A quiet page shows every change made from it, whichever order the       *)
(* answers of overlapping refreshes came in (SongRoute.refresh).           *)
(***************************************************************************)
THEOREM QuietPageIsCurrent == Spec => []SettledPageIsCurrent
<1>1. IInv => SettledPageIsCurrent
  BY DEF IInv, ChangesReachPage, Refreshing, SettledPageIsCurrent, Settled
<1>2. QED
  BY <1>1, Inductive, PTL

(***************************************************************************)
(* "Allocations Saved" is shown only over inputs nobody has typed in since *)
(* they were loaded (OwnershipTab.handleSave).                             *)
(***************************************************************************)
THEOREM LabelIsTrue == Spec => []SavedLabelIsTrue
<1>1. IInv => SavedLabelIsTrue
  BY DEF IInv
<1>2. QED
  BY <1>1, Inductive, PTL
===============================================================================
