------------------------------- MODULE Answering -------------------------------
(***************************************************************************)
(* How a review link reaches a contributor and an answer comes back: the   *)
(* messages sent after an invitation, the review portal in the             *)
(* contributor's browser, the buttons of the WhatsApp message, and the     *)
(* notices to the owner.                                                   *)
(*                                                                         *)
(* It is about one version of a song whose every contributor has a share.  *)
(* Transactions are one step here, at their COMMIT (RightsRecord has their *)
(* statements); what the code does before and after them is not.  Messages *)
(* are sent without waiting for them, out of the memory of a process that  *)
(* may stop at any time.                                                   *)
(***************************************************************************)
EXTENDS Integers, Sequences, FiniteSets

CONSTANTS
    Contributors,
    Links,        \* review links that may be issued
    For,          \* the contributor of each link
    Phones,       \* contributors with a number that WhatsApp can reach
    OwnerPhone,   \* does the owner have one?
    Requests,     \* requests the server handles at the same time
    MaxTerms,     \* bound: contents that the splits have one after the other
    MaxReloads,   \* bound: times a page is loaded again while it waits
    MaxFaults     \* bound: failures and restarts

ASSUME LinksAssumption == For \in [Links -> Contributors]
ASSUME PhonesAssumption == Phones \subseteq Contributors /\ OwnerPhone \in BOOLEAN
ASSUME AnsweringBounds ==
    MaxTerms \in Nat \ {0} /\ MaxReloads \in Nat /\ MaxFaults \in Nat

Actions  == {"confirmed", "change_requested"}
Channels == {"email", "whatsapp"}

VARIABLES
    terms,        \* which content the splits of the version have
    status,       \* of the version
    agreements,   \* contents of the fully confirmed agreements
    link,         \* invitations; status "none" is a link not issued
    answer,       \* contributor_confirmations of the version
    portal,       \* the page of each link in its contributor's browser
    req,          \* requests
    outbox,       \* invitations the process is handing to a provider
    mailbox,      \* external: invitations that were delivered
    notices,      \* notices to the owner that the process is sending
    told,         \* external: the notices the owner got
    copied,       \* links that the owner got in a response
    dropped,      \* history: links of which an answer or a notice was lost
    reloads, faults

db      == <<terms, status, agreements, link, answer>>
sending == <<outbox, mailbox, notices, told, copied>>
vars    == <<db, sending, portal, req, dropped, reloads, faults>>

Idle     == [at |-> "idle", link |-> "none", action |-> "none", seen |-> 0, page |-> FALSE]
NoAnswer == [action |-> "none", seen |-> 0]

Init ==
    /\ terms = 1
    /\ status = "proposed"
    /\ agreements = {}
    /\ link = [l \in Links |-> [status |-> "none", expired |-> FALSE]]
    /\ answer = [c \in Contributors |-> NoAnswer]
    /\ portal = [l \in Links |-> [at |-> "closed", seen |-> 0, action |-> "none"]]
    /\ req = [r \in Requests |-> Idle]
    /\ outbox = {}
    /\ mailbox = {}
    /\ notices = {}
    /\ told = [m \in Links \X Channels |-> <<>>]
    /\ copied = {}
    /\ dropped = {}
    /\ reloads = 0
    /\ faults = 0

Pending(l) == link[l].status \in {"pending", "viewed"}
Used(l)    == link[l].status \in Actions

Finish(r)  == req' = [req EXCEPT ![r] = Idle]
Go(r, at)  == req' = [req EXCEPT ![r].at = at]

-------------------------------------------------------------------------------
(* The owner: inviting, and what else happens to the version *)

\* The mail has the link only; the WhatsApp message has the share and buttons.
MailTo(l)           == [link |-> l, seen |-> 0, channel |-> "email"]
WhatsAppTo(l, seen) == [link |-> l, seen |-> seen, channel |-> "whatsapp"]

\* The mail, and the WhatsApp message if there is a number for it.
Invitations(l, seen) ==
    {MailTo(l)} \union IF For[l] \in Phones THEN {WhatsAppTo(l, seen)} ELSE {}

\* A token is new each time.
Unissued(l) == link[l].status = "none" /\ \A q \in Requests : req[q].link # l

\* POST /songs/:id/invitations.  The share that the messages name is read early.
Invite(r, l) ==
    /\ req[r].at = "idle"
    /\ Unissued(l)
    /\ req' = [req EXCEPT ![r] = [at |-> "issue", link |-> l, action |-> "none",
                                  seen |-> terms, page |-> FALSE]]
    /\ UNCHANGED <<db, sending, portal, dropped, reloads, faults>>

\* The transaction: earlier links of the contributor are withdrawn.
IssueCommit(r) ==
    LET l == req[r].link IN
    /\ req[r].at = "issue"
    /\ link' = [k \in Links |->
         IF k = l THEN [link[k] EXCEPT !.status = "pending"]
         ELSE IF For[k] = For[l] /\ Pending(k) THEN [link[k] EXCEPT !.status = "revoked"]
         ELSE link[k]]
    /\ status' = "proposed"
    /\ Go(r, "issued")
    /\ UNCHANGED <<terms, agreements, answer, sending, portal, dropped, reloads, faults>>

\* The messages are started and the response with the links goes out.
IssueAnswered(r) ==
    LET l == req[r].link IN
    /\ req[r].at = "issued"
    /\ outbox' = outbox \union Invitations(l, req[r].seen)
    /\ copied' = copied \union {l}
    /\ Finish(r)
    /\ UNCHANGED <<db, mailbox, notices, told, portal, dropped, reloads, faults>>

\* A provider takes a message, or fails, which is logged.
Taken(m) ==
    /\ m \in outbox
    /\ outbox' = outbox \ {m}
    /\ mailbox' = mailbox \union {m}
    /\ UNCHANGED <<db, notices, told, copied, portal, req, dropped, reloads, faults>>

Failed(m) ==
    /\ m \in outbox
    /\ faults < MaxFaults
    /\ outbox' = outbox \ {m}
    /\ faults' = faults + 1
    /\ UNCHANGED <<db, mailbox, notices, told, copied, portal, req, dropped, reloads>>

DeliverMail(m)     == m.channel = "email" /\ Taken(m)
DeliverWhatsApp(m) == m.channel = "whatsapp" /\ Taken(m)
MailFails(m)       == m.channel = "email" /\ Failed(m)
WhatsAppFails(m)   == m.channel = "whatsapp" /\ Failed(m)

\* POST /songs/:id/ownership, with the same splits or others: answers on file
\* stay as they are.
Save ==
    /\ status # "confirmed"
    /\ terms' \in {terms, terms + 1} \intersect 1 .. MaxTerms
    /\ status' = "proposed"
    /\ UNCHANGED <<agreements, link, answer, sending, portal, req, dropped, reloads, faults>>

\* Another invitation, or a bump, withdraws a link.
Withdraw(l) ==
    /\ Pending(l)
    /\ link' = [link EXCEPT ![l].status = "revoked"]
    /\ UNCHANGED <<terms, status, agreements, answer, sending, portal, req, dropped, reloads, faults>>

Expire(l) ==
    /\ link[l].status # "none" /\ ~link[l].expired
    /\ link' = [link EXCEPT ![l].expired = TRUE]
    /\ UNCHANGED <<terms, status, agreements, answer, sending, portal, req, dropped, reloads, faults>>

-------------------------------------------------------------------------------
(* The review portal *)

Waiting == {"loading", "submitting"}

Held(l) == l \in copied \/ \E m \in mailbox : m.link = l

\* Requests of a page that is no longer there.
Left(l) == [r \in Requests |-> IF req[r].link = l THEN [req[r] EXCEPT !.page = FALSE] ELSE req[r]]

\* The link is opened, or its page loaded again.
Open(r, l) ==
    /\ Held(l)
    /\ req[r].at = "idle"
    /\ IF portal[l].at \in Waiting THEN reloads < MaxReloads /\ reloads' = reloads + 1
                                   ELSE UNCHANGED reloads
    /\ portal' = [portal EXCEPT ![l] = [at |-> "loading", seen |-> 0, action |-> "none"]]
    /\ req' = [Left(l) EXCEPT ![r] = [at |-> "load", link |-> l, action |-> "none",
                                      seen |-> 0, page |-> TRUE]]
    /\ UNCHANGED <<db, sending, dropped, faults>>

\* The page shows an error instead of the record.
Show(r, l, at) == portal' = IF req[r].page THEN [portal EXCEPT ![l].at = at] ELSE portal

\* loadInvitationContext
Valid(l) == link[l].status \notin {"none", "revoked"} /\ ~link[l].expired

LoadRefusedKeepsLoading(r) ==       \* mutant: no finally around the GET of the page
    LET l == req[r].link IN
    /\ req[r].at = "load"
    /\ IF Valid(l) THEN Go(r, "loadRead") ELSE Finish(r)
    /\ UNCHANGED <<db, sending, portal, dropped, reloads, faults>>

LoadCheck(r) ==
    LET l == req[r].link IN
    /\ req[r].at = "load"
    /\ IF Valid(l) THEN Go(r, "loadRead") /\ UNCHANGED portal
       ELSE Finish(r) /\ Show(r, l, "error")
    /\ UNCHANGED <<db, sending, dropped, reloads, faults>>

\* What the page shows: the splits as they were read, or the thanks.
Displayed(p, t)  == [p EXCEPT !.at = "form", !.seen = t]
Thanked(r, l)    == Show(r, l, "success")

\* The link is marked as viewed, the splits are read and the page shows them.
LoadRead(r) ==
    LET l == req[r].link IN
    /\ req[r].at = "loadRead"
    /\ link' = IF link[l].status = "pending" THEN [link EXCEPT ![l].status = "viewed"] ELSE link
    /\ portal' = IF req[r].page THEN [portal EXCEPT ![l] = Displayed(@, terms)]
                 ELSE portal
    /\ Finish(r)
    /\ UNCHANGED <<terms, status, agreements, answer, sending, dropped, reloads, faults>>

\* The button, after the box is ticked; or the form for a change.
Submit(r, l, a) ==
    /\ portal[l].at = "form"
    /\ req[r].at = "idle"
    /\ portal' = [portal EXCEPT ![l].at = "submitting", ![l].action = a]
    /\ req' = [req EXCEPT ![r] = [at |-> "check", link |-> l, action |-> a,
                                  seen |-> portal[l].seen, page |-> TRUE]]
    /\ UNCHANGED <<db, sending, dropped, reloads, faults>>

\* A note of fewer than five letters is refused by the server only.
ShortNote(r) ==
    /\ req[r].at = "check" /\ req[r].page /\ req[r].action = "change_requested"
    /\ Finish(r) /\ Show(r, req[r].link, "error")
    /\ UNCHANGED <<db, sending, dropped, reloads, faults>>

-------------------------------------------------------------------------------
(* WhatsApp buttons *)

\* A tap on a delivered message, once or again.  The test of its signature comes
\* before this step: a server that fails in it, as the bundle does (see Billing),
\* takes no tap at all.
Tap(r, m, a) ==
    /\ m \in mailbox /\ m.channel = "whatsapp"
    /\ req[r].at = "idle"
    /\ req' = [req EXCEPT ![r] = [at |-> "tap", link |-> m.link, action |-> a,
                                  seen |-> m.seen, page |-> FALSE]]
    /\ UNCHANGED <<db, sending, portal, dropped, reloads, faults>>

TapCheckUnseen(r) ==                \* mutant: only a link not viewed on the web is taken
    /\ req[r].at = "tap"
    /\ IF Valid(req[r].link) /\ link[req[r].link].status = "pending"
       THEN Go(r, "check") ELSE Finish(r)
    /\ UNCHANGED <<db, sending, portal, dropped, reloads, faults>>

\* The webhook looks the link and the sender up before it goes on; a link that
\* cannot be answered is logged, and Twilio is told 200.
TapCheck(r) ==
    /\ req[r].at = "tap"
    /\ IF Valid(req[r].link) THEN Go(r, "check") ELSE Finish(r)
    /\ UNCHANGED <<db, sending, portal, dropped, reloads, faults>>

-------------------------------------------------------------------------------
(* processInvitationResponse *)

Check(r) ==
    LET l == req[r].link IN
    /\ req[r].at = "check"
    /\ IF Valid(l) /\ ~Used(l) THEN Go(r, "record") /\ UNCHANGED portal
       ELSE Finish(r) /\ Show(r, l, "error")
    /\ UNCHANGED <<db, sending, dropped, reloads, faults>>

\* What the transaction writes: the answer, the link, the version, and with the
\* last confirmation the agreement.
Recorded(l, a, seen) ==
    /\ answer' = [answer EXCEPT ![For[l]] = [action |-> a, seen |-> seen]]
    /\ link' = [link EXCEPT ![l].status = a]
    /\ LET all == \A c \in Contributors : answer'[c].action = "confirmed" IN
       /\ status' = IF a = "change_requested" THEN "draft"
                    ELSE IF all THEN "confirmed" ELSE status
       /\ agreements' = IF a = "confirmed" /\ all THEN agreements \union {terms} ELSE agreements
    /\ UNCHANGED terms

RecordUnlocked(r) ==                \* mutant: used_at is not tested again under the lock
    LET l == req[r].link IN
    /\ req[r].at = "record"
    /\ Recorded(l, req[r].action, req[r].seen)
    /\ Go(r, "recorded")
    /\ UNCHANGED <<sending, portal, dropped, reloads, faults>>

RecordNotifiesAnyway(r) ==          \* mutant: the notice is started whatever came of it
    LET l == req[r].link IN
    /\ req[r].at = "record"
    /\ IF Used(l) THEN Go(r, "recorded") /\ UNCHANGED db
       ELSE Recorded(l, req[r].action, req[r].seen) /\ Go(r, "recorded")
    /\ UNCHANGED <<sending, portal, dropped, reloads, faults>>

\* The link is locked and must still be unanswered; whether it was withdrawn or
\* has expired is not looked at again.
Record(r) ==
    LET l == req[r].link IN
    /\ req[r].at = "record"
    /\ IF Used(l) THEN Finish(r) /\ Show(r, l, "error") /\ UNCHANGED db
       ELSE Recorded(l, req[r].action, req[r].seen) /\ Go(r, "recorded") /\ UNCHANGED portal
    /\ UNCHANGED <<sending, dropped, reloads, faults>>

StartedFromPage(r) ==               \* mutant: only answers of the portal are announced
    {[link |-> req[r].link, action |-> req[r].action, at |-> "owner"] : p \in {req[r].page} \ {FALSE}}

\* What processInvitationResponse starts and does not wait for.
Started(r) == {[link |-> req[r].link, action |-> req[r].action, at |-> "owner"]}

\* The notice is started and the answer is confirmed.
Respond(r) ==
    /\ req[r].at = "recorded"
    /\ notices' = notices \union Started(r)
    /\ Thanked(r, req[r].link)
    /\ Finish(r)
    /\ UNCHANGED <<db, outbox, mailbox, told, copied, dropped, reloads, faults>>

-------------------------------------------------------------------------------
(* The notice: owner looked up, mail, and WhatsApp if there is a number *)

\* The next thing to do for a notice, or nothing.
Onward(n, at) == (notices \ {n}) \union IF at = "done" THEN {} ELSE {[n EXCEPT !.at = at]}

AfterMail == IF OwnerPhone THEN "whatsapp" ELSE "done"

NoticeOwner(n) ==
    /\ n.at = "owner"
    /\ notices' = Onward(n, "email")
    /\ UNCHANGED <<db, outbox, mailbox, told, copied, portal, req, dropped, reloads, faults>>

\* A message reaches the owner, and the notice goes on to what comes next.
Sent(n, next) ==
    /\ told' = [told EXCEPT ![<<n.link, n.at>>] = Append(@, n.action)]
    /\ notices' = Onward(n, next)
    /\ UNCHANGED <<db, outbox, mailbox, copied, portal, req, dropped, reloads, faults>>

NoticeMailed(n) == n.at = "email" /\ Sent(n, AfterMail)
NoticeTexted(n) == n.at = "whatsapp" /\ Sent(n, "done")

\* The owner cannot be looked up: nothing is sent.  A provider fails: logged,
\* and the next one is tried.
NoticeFails(n) ==
    /\ faults < MaxFaults
    /\ faults' = faults + 1
    /\ notices' = Onward(n, IF n.at = "email" THEN AfterMail ELSE "done")
    /\ dropped' = dropped \union {n.link}
    /\ UNCHANGED <<db, outbox, mailbox, told, copied, portal, req, reloads>>

-------------------------------------------------------------------------------
(* Failures *)

Answering == {r \in Requests : req[r].at \in {"tap", "check", "record", "recorded"}}

\* A request fails before its COMMIT; or after it, on the way to the browser:
\* the notice and the messages go on.
RequestFails(r) ==
    /\ req[r].at # "idle"
    /\ faults < MaxFaults
    /\ faults' = faults + 1
    /\ dropped' = dropped \union {req[q].link : q \in Answering \intersect {r}}
    /\ notices' = IF req[r].at = "recorded" THEN notices \union Started(r) ELSE notices
    /\ outbox' = IF req[r].at = "issued"
                 THEN outbox \union Invitations(req[r].link, req[r].seen) ELSE outbox
    /\ Show(r, req[r].link, "error")
    /\ Finish(r)
    /\ UNCHANGED <<db, mailbox, told, copied, reloads>>

\* The process stops and another one starts: what was only in its memory is
\* gone, and the browsers that waited see their request fail.
Restart ==
    /\ faults < MaxFaults
    /\ faults' = faults + 1
    /\ req' = [r \in Requests |-> Idle]
    /\ outbox' = {}
    /\ notices' = {}
    /\ portal' = [l \in Links |-> IF portal[l].at \in Waiting
                                  THEN [portal[l] EXCEPT !.at = "error"] ELSE portal[l]]
    /\ dropped' = dropped \union {req[r].link : r \in Answering}
                         \union {n.link : n \in notices}
    /\ UNCHANGED <<db, mailbox, told, copied, reloads>>

-------------------------------------------------------------------------------
Issue(r)   == IssueCommit(r) \/ IssueAnswered(r)
Load(r)    == LoadCheck(r) \/ LoadRead(r)
Process(r) == TapCheck(r) \/ Check(r) \/ Record(r) \/ Respond(r)
Notify(n)  == NoticeOwner(n) \/ NoticeMailed(n) \/ NoticeTexted(n)

Next ==
    \/ \E r \in Requests, l \in Links :
          Invite(r, l) \/ Open(r, l) \/ \E a \in Actions : Submit(r, l, a)
    \/ \E r \in Requests, m \in mailbox, a \in Actions : Tap(r, m, a)
    \/ \E r \in Requests : Issue(r) \/ Load(r) \/ Process(r) \/ ShortNote(r) \/ RequestFails(r)
    \/ \E m \in outbox : DeliverMail(m) \/ DeliverWhatsApp(m) \/ MailFails(m) \/ WhatsAppFails(m)
    \/ \E n \in notices : Notify(n) \/ NoticeFails(n)
    \/ \E l \in Links : Withdraw(l) \/ Expire(l)
    \/ Save \/ Restart

Spec == Init /\ [][Next]_vars

\* The event loop of the server goes on with whatever it has started.
Fairness ==
    /\ \A r \in Requests : WF_vars(Issue(r)) /\ WF_vars(Load(r)) /\ WF_vars(Process(r))
    /\ \A l \in Links : WF_vars(\E n \in notices : n.link = l /\ Notify(n))

FairSpec == Spec /\ Fairness

-------------------------------------------------------------------------------
(* Properties *)

Pages    == {"closed", "loading", "form", "submitting", "success", "error"}
Places   == {"idle", "issue", "issued", "load", "loadRead", "tap", "check", "record", "recorded"}
Contents == 0 .. MaxTerms
Message  == [link : Links, seen : Contents, channel : Channels]

TypeOK ==
    /\ terms \in 1 .. MaxTerms
    /\ status \in {"draft", "proposed", "confirmed"}
    /\ agreements \subseteq 1 .. MaxTerms
    /\ link \in [Links -> [status : {"none", "pending", "viewed", "revoked"} \union Actions,
                           expired : BOOLEAN]]
    /\ answer \in [Contributors -> [action : Actions \union {"none"}, seen : Contents]]
    /\ portal \in [Links -> [at : Pages, seen : Contents, action : Actions \union {"none"}]]
    /\ req \in [Requests -> [at : Places, link : Links \union {"none"}, page : BOOLEAN,
                             action : Actions \union {"none"}, seen : Contents]]
    /\ outbox \subseteq Message /\ mailbox \subseteq Message
    /\ notices \subseteq [link : Links, action : Actions, at : {"owner"} \union Channels]
    /\ told \in [Links \X Channels -> Seq(Actions)]
    /\ copied \subseteq Links /\ dropped \subseteq Links
    /\ reloads \in 0 .. MaxReloads /\ faults \in 0 .. MaxFaults

\* What the owner got about a link on a channel.
Heard(l, c) == told[<<l, c>>]

\* Whoever reads that the answer was registered (ReviewPortalView.tsx:158) has
\* that very answer on file, and nothing later through the same link changes
\* it: a reloaded page, a button of the message, or a second click.
SuccessScreenIsTrue ==
    \A l \in Links : portal[l].at = "success" => link[l].status = portal[l].action

\* The owner hears of an answer at most once on each channel, and only of one
\* that is on file: a refused double submit or a rollback is never announced.
NoticesAreTrue ==
    \A l \in Links, c \in Channels :
        Heard(l, c) # <<>> => Used(l) /\ Heard(l, c) = <<link[l].status>>

\* The page always leaves its spinner, and the button its "Registering".
PortalSettles ==
    \A l \in Links : portal[l].at \in Waiting ~> portal[l].at \notin Waiting

\* routes.ts:1745: an answer can come through either channel.  A tap on a link
\* that stays open is recorded, unless a failure loses it.
TapsAreCounted ==
    \A l \in Links :
        (\E r \in Requests : req[r].at = "tap" /\ req[r].link = l)
            ~> (Used(l) \/ ~Valid(l) \/ l \in dropped)

\* The owner is told by mail of every answer, unless a failure loses it.
OwnerIsTold ==
    \A l \in Links : Used(l) ~> (Heard(l, "email") # <<>> \/ l \in dropped)

\* Why the two invariants hold.  Only a link that was issued is on its way, on a
\* page or in a request, and one request issues it.
LinksAreIssued ==
    /\ \A l \in copied : link[l].status # "none"
    /\ \A m \in outbox \union mailbox : link[m.link].status # "none"
    /\ \A l \in Links : portal[l].at # "closed" => link[l].status # "none"
    /\ \A r \in Requests : req[r].at # "idle" => req[r].link \in Links
    /\ \A r \in Requests : req[r].at \notin {"idle", "issue"} => link[req[r].link].status # "none"
    /\ \A r \in Requests : req[r].at = "issue" =>
          /\ link[req[r].link].status = "none"
          /\ \A q \in Requests \ {r} : req[q].at # "idle" => req[q].link # req[r].link

\* A page waits for one request at most, and for what it asked.
PagesWait ==
    \A r \in Requests : req[r].page =>
        /\ req[r].at \in {"load", "loadRead"} => portal[req[r].link].at = "loading"
        /\ req[r].at \in {"check", "record", "recorded"} =>
              /\ portal[req[r].link].at = "submitting"
              /\ portal[req[r].link].action = req[r].action
        /\ req[r].at \in {"load", "loadRead", "check", "record", "recorded"}
        /\ \A q \in Requests \ {r} : req[q].page => req[q].link # req[r].link

\* An answer that was recorded is on file, and has not been announced yet.
RecordedOnce ==
    /\ \A r \in Requests : req[r].at \in {"tap", "check", "record", "recorded"} =>
          req[r].action \in Actions
    /\ \A r \in Requests : req[r].at = "recorded" =>
          /\ link[req[r].link].status = req[r].action
          /\ \A c \in Channels : Heard(req[r].link, c) = <<>>
          /\ \A n \in notices : n.link # req[r].link
          /\ \A q \in Requests \ {r} : req[q].at = "recorded" => req[q].link # req[r].link

\* There is one notice of an answer, which was not sent where it still has to go.
NoticesOnce ==
    \A n \in notices :
        /\ link[n.link].status = n.action
        /\ Heard(n.link, "whatsapp") = <<>>
        /\ n.at # "whatsapp" => Heard(n.link, "email") = <<>>
        /\ \A m \in notices : m.link = n.link => m = n

IInv ==
    /\ TypeOK
    /\ LinksAreIssued /\ PagesWait /\ RecordedOnce /\ NoticesOnce
    /\ SuccessScreenIsTrue /\ NoticesAreTrue

-------------------------------------------------------------------------------
(* What the documents of the repository say, and the code does not keep *)

\* repo.ts:600: "I confirm that the information above accurately records our
\* agreed understanding".  The splits of an agreement are those that each
\* contributor had in front of them when they confirmed.
AgreementIsAsSeen ==
    [][\A t \in agreements' \ agreements :
          \A c \in Contributors : answer'[c].seen = t]_vars
=============================================================================
