---------------------------- MODULE Answering_proofs ----------------------------
(***************************************************************************)
(* What the contributor reads about an answer, and what the owner is told  *)
(* of it, is true: for any links, any requests that overlap, and any       *)
(* failures and restarts.  Each group of actions that treats a request or  *)
(* a notice alike has a lemma, and each action one that cites it.          *)
(***************************************************************************)
EXTENDS Answering, TLAPS

-------------------------------------------------------------------------------
(* The parts of TypeOK *)

LinksOK == link \in [Links -> [status : {"none", "pending", "viewed", "revoked"} \union Actions,
                               expired : BOOLEAN]]
RequestsOK == req \in [Requests -> [at : Places, link : Links \union {"none"}, page : BOOLEAN,
                                    action : Actions \union {"none"}, seen : Contents]]
PortalsOK == portal \in [Links -> [at : Pages, seen : Contents, action : Actions \union {"none"}]]
MessagesOK == outbox \subseteq Message /\ mailbox \subseteq Message /\ copied \subseteq Links
NoticesOK  == notices \subseteq [link : Links, action : Actions, at : {"owner"} \union Channels]
ToldOK     == told \in [Links \X Channels -> Seq(Actions)]
AnswersOK  == answer \in [Contributors -> [action : Actions \union {"none"}, seen : Contents]]
VersionOK  == /\ terms \in 1 .. MaxTerms
              /\ status \in {"draft", "proposed", "confirmed"}
              /\ agreements \subseteq 1 .. MaxTerms
HistoryOK  == dropped \subseteq Links /\ reloads \in 0 .. MaxReloads /\ faults \in 0 .. MaxFaults

\* Whatever is not touched keeps its type.
LEMMA TypesStay ==
    ASSUME TypeOK
    PROVE  /\ LinksOK /\ RequestsOK /\ PortalsOK /\ MessagesOK /\ NoticesOK
           /\ ToldOK /\ AnswersOK /\ VersionOK /\ HistoryOK
           /\ UNCHANGED link => LinksOK'
           /\ UNCHANGED req => RequestsOK'
           /\ UNCHANGED portal => PortalsOK'
           /\ UNCHANGED <<outbox, mailbox, copied>> => MessagesOK'
           /\ UNCHANGED notices => NoticesOK'
           /\ UNCHANGED told => ToldOK'
           /\ UNCHANGED answer => AnswersOK'
           /\ UNCHANGED <<terms, status, agreements>> => VersionOK'
           /\ UNCHANGED <<dropped, reloads, faults>> => HistoryOK'
           /\ /\ LinksOK' /\ RequestsOK' /\ PortalsOK' /\ MessagesOK' /\ NoticesOK'
              /\ ToldOK' /\ AnswersOK' /\ VersionOK' /\ HistoryOK'
              => TypeOK'
<1>1. /\ LinksOK /\ RequestsOK /\ PortalsOK /\ MessagesOK /\ NoticesOK
      /\ ToldOK /\ AnswersOK /\ VersionOK /\ HistoryOK
  BY DEF TypeOK, LinksOK, RequestsOK, PortalsOK, MessagesOK, NoticesOK, ToldOK, AnswersOK,
         VersionOK, HistoryOK
<1>2. /\ LinksOK' /\ RequestsOK' /\ PortalsOK' /\ MessagesOK' /\ NoticesOK'
      /\ ToldOK' /\ AnswersOK' /\ VersionOK' /\ HistoryOK'
      => TypeOK'
  BY DEF TypeOK, LinksOK, RequestsOK, PortalsOK, MessagesOK, NoticesOK, ToldOK, AnswersOK,
         VersionOK, HistoryOK
<1>3. QED
  BY <1>1, <1>2 DEF LinksOK, RequestsOK, PortalsOK, MessagesOK, NoticesOK, ToldOK, AnswersOK,
              VersionOK, HistoryOK

-------------------------------------------------------------------------------
(* What the small operators do *)

\* A request goes on to another place and keeps the rest.
LEMMA GoMoves ==
    ASSUME RequestsOK, NEW r \in Requests, NEW at \in Places, Go(r, at)
    PROVE  /\ RequestsOK'
           /\ \A q \in Requests \ {r} : req'[q] = req[q]
           /\ req'[r].at = at /\ req'[r].link = req[r].link /\ req'[r].page = req[r].page
           /\ req'[r].action = req[r].action /\ req'[r].seen = req[r].seen
  BY SMT DEF RequestsOK, Go

\* A request that ends leaves nothing of itself.
LEMMA FinishEnds ==
    ASSUME RequestsOK, NEW r \in Requests, Finish(r)
    PROVE  /\ RequestsOK'
           /\ \A q \in Requests \ {r} : req'[q] = req[q]
           /\ req'[r].at = "idle" /\ req'[r].page = FALSE /\ req'[r].link = "none"
<1>1. Idle \in [at : Places, link : Links \union {"none"}, page : BOOLEAN,
                action : Actions \union {"none"}, seen : Contents]
  BY AnsweringBounds, SMT DEF Idle, Places, Contents
<1>2. QED
  BY <1>1, SMT DEF RequestsOK, Finish, Idle

\* A page changes what it shows if the request is its own.
LEMMA ShowShows ==
    ASSUME PortalsOK, NEW r \in Requests, NEW l \in Links, NEW at \in Pages, Show(r, l, at)
    PROVE  /\ PortalsOK'
           /\ \A k \in Links : portal'[k].action = portal[k].action
           /\ \A k \in Links \ {l} : portal'[k] = portal[k]
           /\ req[r].page => portal'[l].at = at
           /\ ~req[r].page => portal' = portal
  BY SMT DEF PortalsOK, Show

\* Answers on file stay.
AnswersStay ==
    \A l \in Links : link[l].status \in Actions => link'[l].status = link[l].status

\* What was said about answers stays true while nothing is said and they stay.
LEMMA SameNotices ==
    ASSUME IInv, told' = told, notices' = notices, AnswersStay
    PROVE  NoticesOnce' /\ NoticesAreTrue'
<1>1. \A l \in Links, c \in Channels : Heard(l, c)' = Heard(l, c)
  BY DEF Heard
<1>2. NoticesOnce'
  BY <1>1, SMT DEF IInv, TypeOK, NoticesOnce, AnswersStay, Channels
<1>3. NoticesAreTrue'
  BY <1>1, SMT DEF IInv, TypeOK, NoticesAreTrue, AnswersStay, Used
<1>4. QED
  BY <1>2, <1>3

\* So does what the requests know that have recorded one.
LEMMA SameAnswers ==
    ASSUME IInv, told' = told, notices' = notices, AnswersStay,
           \A r \in Requests : req'[r].at \in {"tap", "check", "record", "recorded"} =>
               req'[r].action \in Actions,
           \A r \in Requests : req'[r].at = "recorded" => req'[r].link = req[r].link
               /\ req'[r].action = req[r].action /\ req[r].at = "recorded"
    PROVE  RecordedOnce'
<1>1. \A l \in Links, c \in Channels : Heard(l, c)' = Heard(l, c)
  BY DEF Heard
<1>2. \A r \in Requests : req[r].at = "recorded" => req[r].link \in Links
  BY SMT DEF IInv, LinksAreIssued
<1>3. QED
  BY <1>1, <1>2, SMT DEF IInv, RecordedOnce, AnswersStay

\* And what the pages say, unless one says it anew.
LEMMA SameScreens ==
    ASSUME IInv, AnswersStay,
           \A l \in Links : portal'[l].at = "success" => portal'[l] = portal[l]
    PROVE  SuccessScreenIsTrue'
  BY SMT DEF IInv, TypeOK, LinksAreIssued, SuccessScreenIsTrue, AnswersStay

\* A request that is refused ends, and its page, if it has one, shows an error.
LEMMA RefusedKeeps ==
    ASSUME IInv, NEW r \in Requests, req[r].at \notin {"idle", "issue"},
           Finish(r), Show(r, req[r].link, "error"),
           UNCHANGED <<db, sending, dropped, reloads, faults>>
    PROVE  IInv'
<1> DEFINE l == req[r].link
<1>1. l \in Links /\ TypeOK /\ RequestsOK /\ PortalsOK
  BY TypesStay DEF IInv, LinksAreIssued
<1>2. /\ RequestsOK'
      /\ \A q \in Requests \ {r} : req'[q] = req[q]
      /\ req'[r].at = "idle" /\ req'[r].page = FALSE /\ req'[r].link = "none"
  BY <1>1, FinishEnds
<1>3. /\ PortalsOK'
      /\ \A k \in Links : portal'[k].action = portal[k].action
      /\ \A k \in Links \ {l} : portal'[k] = portal[k]
      /\ req[r].page => portal'[l].at = "error"
      /\ ~req[r].page => portal' = portal
  BY <1>1, ShowShows DEF Pages
<1>4. TypeOK'
  BY <1>1, <1>2, <1>3, TypesStay DEF db, sending
<1>5. AnswersStay
  BY DEF AnswersStay, db
<1>6. LinksAreIssued'
  BY <1>1, <1>2, <1>3, SMT DEF IInv, LinksAreIssued, db, sending
<1>7. PagesWait'
  BY <1>1, <1>2, <1>3, SMT DEF IInv, PagesWait, LinksAreIssued
<1>8. RecordedOnce'
  BY <1>2, <1>5, SameAnswers, SMT DEF IInv, RecordedOnce, sending
<1>9. NoticesOnce' /\ NoticesAreTrue'
  BY <1>5, SameNotices DEF sending
<1>10. SuccessScreenIsTrue'
  BY <1>1, <1>3, <1>5, SameScreens, SMT
<1>11. QED
  BY <1>4, <1>6, <1>7, <1>8, <1>9, <1>10 DEF IInv

\* A request that is let through goes on, and nothing else happens.
LEMMA PassedKeeps ==
    ASSUME IInv, NEW r \in Requests, NEW at \in Places, Go(r, at),
           \/ req[r].at = "load" /\ at = "loadRead"
           \/ req[r].at = "tap" /\ at = "check"
           \/ req[r].at = "check" /\ at = "record",
           UNCHANGED <<db, sending, portal, dropped, reloads, faults>>
    PROVE  IInv'
<1>1. TypeOK /\ RequestsOK
  BY TypesStay DEF IInv
<1>2. /\ RequestsOK'
      /\ \A q \in Requests \ {r} : req'[q] = req[q]
      /\ req'[r].at = at /\ req'[r].link = req[r].link /\ req'[r].page = req[r].page
      /\ req'[r].action = req[r].action /\ req'[r].seen = req[r].seen
  BY <1>1, GoMoves
<1>3. TypeOK'
  BY <1>1, <1>2, TypesStay DEF db, sending
<1>4. AnswersStay
  BY DEF AnswersStay, db
<1>5. LinksAreIssued'
  BY <1>2, SMT DEF IInv, LinksAreIssued, db, sending
<1>6. PagesWait'
  BY <1>2, SMT DEF IInv, PagesWait
<1>7. RecordedOnce'
  BY <1>2, <1>4, SameAnswers, SMT DEF IInv, RecordedOnce, sending
<1>8. NoticesOnce' /\ NoticesAreTrue'
  BY <1>4, SameNotices DEF sending
<1>9. SuccessScreenIsTrue'
  BY <1>4, SameScreens
<1>10. QED
  BY <1>3, <1>5, <1>6, <1>7, <1>8, <1>9 DEF IInv

\* An answer on file is announced, and its request ends.
LEMMA AnnouncedOnce ==
    ASSUME IInv, NEW r \in Requests, req[r].at = "recorded",
           \A q \in Requests \ {r} : req'[q] = req[q], req'[r].at = "idle",
           notices' = notices \union Started(r), told' = told, link' = link
    PROVE  NoticesOK' /\ RecordedOnce' /\ NoticesOnce' /\ NoticesAreTrue'
<1> DEFINE new == [link |-> req[r].link, action |-> req[r].action, at |-> "owner"]
<1>1. /\ req[r].link \in Links /\ req[r].action \in Actions
      /\ link[req[r].link].status = req[r].action
      /\ \A c \in Channels : Heard(req[r].link, c) = <<>>
      /\ \A n \in notices : n.link # req[r].link
      /\ \A q \in Requests \ {r} : req[q].at = "recorded" => req[q].link # req[r].link
  BY SMT DEF IInv, RecordedOnce, LinksAreIssued
<1>2. notices' = notices \union {new}
  BY DEF Started
<1>3. /\ new.link = req[r].link /\ new.action = req[r].action /\ new.at = "owner"
      /\ new \in [link : Links, action : Actions, at : {"owner"} \union Channels]
  BY <1>1
<1>4. \A l, c : Heard(l, c)' = Heard(l, c)
  BY DEF Heard
<1> HIDE DEF new
<1>5. NoticesOK'
  BY <1>2, <1>3, TypesStay DEF NoticesOK, IInv
<1>6. RecordedOnce'
  BY <1>1, <1>2, <1>3, <1>4, SMT DEF IInv, RecordedOnce
<1>7. NoticesOnce'
  BY <1>1, <1>2, <1>3, <1>4, SMT DEF IInv, NoticesOnce, Channels
<1>8. NoticesAreTrue'
  BY <1>4, SMT DEF IInv, NoticesAreTrue, Used
<1>9. QED
  BY <1>5, <1>6, <1>7, <1>8

\* A notice goes on to what comes next, with or without being heard.
LEMMA NoticeMoves ==
    ASSUME IInv, NEW n \in notices, NEW next \in {"email", "whatsapp", "done"},
           notices' = Onward(n, next), link' = link, req' = req,
           \A l \in Links, c \in Channels :
               \/ Heard(l, c)' = Heard(l, c)
               \/ l = n.link /\ c = n.at /\ Heard(l, c)' = <<n.action>>,
           next = "email" => n.at = "owner",
           next = "whatsapp" => n.at # "whatsapp"
    PROVE  NoticesOK' /\ RecordedOnce' /\ NoticesOnce' /\ NoticesAreTrue'
<1>1. /\ \A m \in notices : m \in [link : Links, action : Actions, at : {"owner"} \union Channels]
      /\ NoticesOK
  BY TypesStay DEF IInv, NoticesOK
<1>2. \A m \in notices' :
        \/ m \in notices \ {n}
        \/ /\ next # "done" /\ m = [n EXCEPT !.at = next]
           /\ m \in [link : Links, action : Actions, at : {"owner"} \union Channels]
           /\ m.link = n.link /\ m.action = n.action /\ m.at = next
  BY <1>1, SMT DEF Onward, Channels
<1>3. NoticesOK'
  BY <1>1, <1>2 DEF NoticesOK
<1>4. /\ link[n.link].status = n.action
      /\ Heard(n.link, "whatsapp") = <<>>
      /\ n.at # "whatsapp" => Heard(n.link, "email") = <<>>
      /\ \A m \in notices : m.link = n.link => m = n
  BY DEF IInv, NoticesOnce
<1>5. RecordedOnce'
  <2>1. \A r \in Requests : req[r].at = "recorded" => req[r].link \in Links /\ req[r].link # n.link
    BY SMT DEF IInv, RecordedOnce, LinksAreIssued
  <2>2. QED
    BY <1>1, <1>2, <2>1, SMT DEF IInv, RecordedOnce
<1>6. NoticesOnce'
  <2>1. \A m \in notices \ {n} : m.link # n.link /\ m.link \in Links
    BY <1>1, <1>4
  <2>2. \A m \in notices \ {n}, c \in Channels : Heard(m.link, c)' = Heard(m.link, c)
    BY <2>1
  <2>3. \A m \in notices \ {n} :
          /\ link[m.link].status = m.action
          /\ Heard(m.link, "whatsapp")' = <<>>
          /\ m.at # "whatsapp" => Heard(m.link, "email")' = <<>>
    BY <2>2, SMT DEF IInv, NoticesOnce, Channels
  <2>4. next # "whatsapp" => (next = "done" \/ Heard(n.link, "email")' = <<>>)
    BY <1>1, <1>4, SMT DEF Channels
  <2>5. next # "done" => Heard(n.link, "whatsapp")' = <<>>
    BY <1>1, <1>4, SMT DEF Channels
  <2>6. \A m \in notices' : m.link = n.link => m = [n EXCEPT !.at = next]
    BY <1>2, <2>1
  <2>7. \A m, k \in notices' : m.link = k.link => m = k
    BY <1>2, <2>1, <2>6, SMT DEF IInv, NoticesOnce
  <2>8. \A m \in notices' :
          /\ link[m.link].status = m.action
          /\ Heard(m.link, "whatsapp")' = <<>>
          /\ m.at # "whatsapp" => Heard(m.link, "email")' = <<>>
    BY <1>2, <1>4, <2>3, <2>4, <2>5, SMT
  <2>9. QED
    BY <2>7, <2>8 DEF NoticesOnce
<1>7. NoticesAreTrue'
  BY <1>1, <1>4, SMT DEF IInv, NoticesAreTrue, Used
<1>8. QED
  BY <1>3, <1>5, <1>6, <1>7

-------------------------------------------------------------------------------
(* One lemma per action *)

LEMMA InviteKeeps ==
    ASSUME IInv, NEW r \in Requests, NEW l \in Links, Invite(r, l)
    PROVE  IInv'
<1>1. TypeOK /\ RequestsOK /\ VersionOK
  BY TypesStay DEF IInv
<1>2. /\ \A q \in Requests \ {r} : req'[q] = req[q]
      /\ req'[r].at = "issue" /\ req'[r].link = l /\ req'[r].page = FALSE
      /\ req'[r].action = "none"
  BY <1>1, SMT DEF Invite, RequestsOK
<1>3. RequestsOK'
  <2>1. terms \in Contents
    BY <1>1, AnsweringBounds, SMT DEF VersionOK, Contents
  <2>2. QED
    BY <1>1, <2>1, SMT DEF Invite, RequestsOK, Places
<1>4. TypeOK'
  BY <1>1, <1>3, TypesStay DEF Invite, db, sending
<1>5. AnswersStay
  BY DEF AnswersStay, Invite, db
<1>6. LinksAreIssued'
  BY <1>2, SMT DEF IInv, LinksAreIssued, Invite, Unissued, db, sending
<1>7. PagesWait'
  BY <1>2, SMT DEF IInv, PagesWait, Invite
<1>8. RecordedOnce'
  BY <1>2, <1>5, SameAnswers, SMT DEF IInv, RecordedOnce, Invite, sending
<1>9. NoticesOnce' /\ NoticesAreTrue'
  BY <1>5, SameNotices DEF Invite, sending
<1>10. SuccessScreenIsTrue'
  BY <1>5, SameScreens DEF Invite
<1>11. QED
  BY <1>4, <1>6, <1>7, <1>8, <1>9, <1>10 DEF IInv

LEMMA IssueCommitKeeps ==
    ASSUME IInv, NEW r \in Requests, IssueCommit(r)
    PROVE  IInv'
<1>1. TypeOK /\ RequestsOK /\ LinksOK /\ VersionOK /\ MessagesOK
  BY TypesStay DEF IInv
<1>2. /\ RequestsOK'
      /\ \A q \in Requests \ {r} : req'[q] = req[q]
      /\ req'[r].at = "issued" /\ req'[r].link = req[r].link /\ req'[r].page = req[r].page
      /\ req'[r].action = req[r].action /\ req'[r].seen = req[r].seen
  BY <1>1, GoMoves DEF IssueCommit, Places
<1>3. /\ req[r].at = "issue" /\ req[r].link \in Links /\ link[req[r].link].status = "none"
      /\ \A q \in Requests \ {r} : req[q].at # "idle" => req[q].link # req[r].link
  BY SMT DEF IInv, LinksAreIssued, IssueCommit
<1>4. LinksOK'
  BY <1>1, SMT DEF IssueCommit, LinksOK, Actions
<1>5. /\ link'[req[r].link].status = "pending"
      /\ \A k \in Links \ {req[r].link} :
            \/ link'[k].status = link[k].status
            \/ (link[k].status \in {"pending", "viewed"} /\ link'[k].status = "revoked")
  <2>1. link' = [k \in Links |->
          IF k = req[r].link THEN [link[k] EXCEPT !.status = "pending"]
          ELSE IF For[k] = For[req[r].link] /\ Pending(k)
          THEN [link[k] EXCEPT !.status = "revoked"] ELSE link[k]]
    BY DEF IssueCommit
  <2>2. \A k \in Links, s \in {"pending", "revoked"} : [link[k] EXCEPT !.status = s].status = s
    BY <1>1, SMT DEF LinksOK
  <2>3. QED
    <3>1. link'[req[r].link] = [link[req[r].link] EXCEPT !.status = "pending"]
      BY <1>3, <2>1
    <3>2. ASSUME NEW k \in Links \ {req[r].link}
          PROVE  \/ link'[k] = link[k]
                 \/ Pending(k) /\ link'[k] = [link[k] EXCEPT !.status = "revoked"]
      BY <2>1
    <3>3. link'[req[r].link].status = "pending"
      BY <1>3, <2>2, <3>1
    <3>4. ASSUME NEW k \in Links \ {req[r].link}
          PROVE  \/ link'[k].status = link[k].status
                 \/ (link[k].status \in {"pending", "viewed"} /\ link'[k].status = "revoked")
      BY <2>2, <3>2 DEF Pending
    <3>5. QED
      BY <3>3, <3>4
<1>6. VersionOK'
  BY <1>1, SMT DEF IssueCommit, VersionOK
<1>7. TypeOK'
  BY <1>1, <1>2, <1>4, <1>6, TypesStay DEF IssueCommit, sending
<1>8. AnswersStay
  BY <1>3, <1>5, SMT DEF AnswersStay, Actions
<1>9. LinksAreIssued'
  <2>1. UNCHANGED <<copied, outbox, mailbox, portal>>
    BY DEF IssueCommit, sending
  <2>2. \A m \in outbox \union mailbox : m.link \in Links
    BY <1>1, SMT DEF MessagesOK, Message
  <2>3. \A k \in Links : link[k].status # "none" => link'[k].status # "none"
    BY <1>3, <1>5
  <2>4. QED
    BY <1>1, <1>2, <1>3, <1>5, <2>1, <2>2, <2>3, SMT DEF IInv, LinksAreIssued, MessagesOK
<1>10. PagesWait'
  BY <1>2, <1>3, SMT DEF IInv, PagesWait, IssueCommit
<1>11. RecordedOnce'
  BY <1>2, <1>3, <1>8, SameAnswers, SMT DEF IInv, RecordedOnce, IssueCommit, sending
<1>12. NoticesOnce' /\ NoticesAreTrue'
  BY <1>8, SameNotices DEF IssueCommit, sending
<1>13. SuccessScreenIsTrue'
  BY <1>8, SameScreens DEF IssueCommit
<1>14. QED
  BY <1>7, <1>9, <1>10, <1>11, <1>12, <1>13 DEF IInv

LEMMA InvitationMessages ==
    ASSUME NEW l \in Links, NEW seen \in Contents
    PROVE  /\ Invitations(l, seen) \subseteq Message
           /\ \A m \in Invitations(l, seen) : m.link = l
<1>1. 0 \in Contents
  BY AnsweringBounds, SMT DEF Contents
<1>2. QED
  BY <1>1, SMT DEF Invitations, MailTo, WhatsAppTo, Message, Channels

LEMMA IssueAnsweredKeeps ==
    ASSUME IInv, NEW r \in Requests, IssueAnswered(r)
    PROVE  IInv'
<1>1. TypeOK /\ RequestsOK /\ MessagesOK
  BY TypesStay DEF IInv
<1>2. /\ RequestsOK'
      /\ \A q \in Requests \ {r} : req'[q] = req[q]
      /\ req'[r].at = "idle" /\ req'[r].page = FALSE /\ req'[r].link = "none"
  BY <1>1, FinishEnds DEF IssueAnswered
<1>3. req[r].link \in Links /\ req[r].seen \in Contents /\ link[req[r].link].status # "none"
  BY <1>1, SMT DEF IInv, LinksAreIssued, IssueAnswered, RequestsOK
<1>4. /\ Invitations(req[r].link, req[r].seen) \subseteq Message
      /\ \A m \in Invitations(req[r].link, req[r].seen) : m.link = req[r].link
  BY <1>3, InvitationMessages
<1>5. /\ outbox' = outbox \union Invitations(req[r].link, req[r].seen)
      /\ copied' = copied \union {req[r].link} /\ mailbox' = mailbox
  BY DEF IssueAnswered
<1>6. MessagesOK'
  BY <1>1, <1>3, <1>4, <1>5 DEF MessagesOK
<1>7. TypeOK'
  BY <1>1, <1>2, <1>6, TypesStay DEF IssueAnswered, db
<1>8. AnswersStay
  BY DEF AnswersStay, IssueAnswered, db
<1>9. LinksAreIssued'
  BY <1>2, <1>3, <1>4, <1>5, SMT DEF IInv, LinksAreIssued, IssueAnswered, db
<1>10. PagesWait'
  BY <1>2, SMT DEF IInv, PagesWait, IssueAnswered
<1>11. RecordedOnce'
  BY <1>2, <1>8, SameAnswers, SMT DEF IInv, RecordedOnce, IssueAnswered
<1>12. NoticesOnce' /\ NoticesAreTrue'
  BY <1>8, SameNotices DEF IssueAnswered
<1>13. SuccessScreenIsTrue'
  BY <1>8, SameScreens DEF IssueAnswered
<1>14. QED
  BY <1>7, <1>9, <1>10, <1>11, <1>12, <1>13 DEF IInv

\* A message on its way arrives, or fails.
LEMMA MessageKeeps ==
    ASSUME IInv, NEW m \in outbox, Taken(m) \/ Failed(m)
    PROVE  IInv'
<1>1. TypeOK /\ MessagesOK /\ HistoryOK
  BY TypesStay DEF IInv
<1>2. MessagesOK'
  BY <1>1 DEF Taken, Failed, MessagesOK
<1>3. HistoryOK'
  BY <1>1, AnsweringBounds, SMT DEF Taken, Failed, HistoryOK
<1>4. TypeOK'
  BY <1>1, <1>2, <1>3, TypesStay DEF Taken, Failed, db
<1>5. AnswersStay
  BY DEF AnswersStay, Taken, Failed, db
<1>6. LinksAreIssued'
  BY SMT DEF IInv, LinksAreIssued, Taken, Failed, db
<1>7. PagesWait'
  BY SMT DEF IInv, PagesWait, Taken, Failed
<1>8. RecordedOnce'
  BY <1>5, SameAnswers, SMT DEF IInv, RecordedOnce, Taken, Failed
<1>9. NoticesOnce' /\ NoticesAreTrue'
  BY <1>5, SameNotices DEF Taken, Failed
<1>10. SuccessScreenIsTrue'
  BY <1>5, SameScreens DEF Taken, Failed
<1>11. QED
  BY <1>4, <1>6, <1>7, <1>8, <1>9, <1>10 DEF IInv

LEMMA SaveKeeps ==
    ASSUME IInv, Save
    PROVE  IInv'
<1>1. TypeOK /\ VersionOK
  BY TypesStay DEF IInv
<1>2. VersionOK'
  BY <1>1, SMT DEF Save, VersionOK
<1>3. TypeOK'
  BY <1>1, <1>2, TypesStay DEF Save, sending
<1>4. AnswersStay
  BY DEF AnswersStay, Save
<1>5. LinksAreIssued'
  BY SMT DEF IInv, LinksAreIssued, Save, sending
<1>6. PagesWait'
  BY SMT DEF IInv, PagesWait, Save
<1>7. RecordedOnce'
  BY <1>4, SameAnswers, SMT DEF IInv, RecordedOnce, Save, sending
<1>8. NoticesOnce' /\ NoticesAreTrue'
  BY <1>4, SameNotices DEF Save, sending
<1>9. SuccessScreenIsTrue'
  BY <1>4, SameScreens DEF Save
<1>10. QED
  BY <1>3, <1>5, <1>6, <1>7, <1>8, <1>9 DEF IInv

\* A link is withdrawn, or its time is over.
LEMMA WithdrawnOrExpiredKeeps ==
    ASSUME IInv, NEW l \in Links, Withdraw(l) \/ Expire(l)
    PROVE  IInv'
<1>1. TypeOK /\ LinksOK /\ MessagesOK /\ RequestsOK
  BY TypesStay DEF IInv
<1>2. LinksOK'
  <2>1. CASE Withdraw(l)
    BY <1>1, <2>1, SMT DEF Withdraw, LinksOK, Actions
  <2>2. CASE Expire(l)
    <3>1. [link[l] EXCEPT !.expired = TRUE] \in
            [status : {"none", "pending", "viewed", "revoked"} \union Actions, expired : BOOLEAN]
      BY <1>1, Zenon DEF LinksOK
    <3>2. link' = [link EXCEPT ![l] = [link[l] EXCEPT !.expired = TRUE]]
      BY <2>2 DEF Expire
    <3>3. QED
      BY <1>1, <3>1, <3>2, Zenon DEF LinksOK
  <2>3. QED
    BY <2>1, <2>2
<1>3. \A k \in Links :
        \/ link'[k].status = link[k].status
        \/ link[k].status \in {"pending", "viewed"} /\ link'[k].status = "revoked"
  BY <1>1, SMT DEF Withdraw, Expire, LinksOK, Pending
<1>4. TypeOK'
  BY <1>1, <1>2, TypesStay DEF Withdraw, Expire, sending
<1>5. AnswersStay
  BY <1>3, SMT DEF AnswersStay, Actions
<1>6. LinksAreIssued'
  BY <1>1, <1>3, SMT DEF IInv, LinksAreIssued, MessagesOK, Message, Withdraw, Expire, sending
<1>7. PagesWait'
  BY SMT DEF IInv, PagesWait, Withdraw, Expire
<1>8. RecordedOnce'
  BY <1>5, SameAnswers, SMT DEF IInv, RecordedOnce, Withdraw, Expire, sending
<1>9. NoticesOnce' /\ NoticesAreTrue'
  BY <1>5, SameNotices DEF Withdraw, Expire, sending
<1>10. SuccessScreenIsTrue'
  BY <1>5, SameScreens DEF Withdraw, Expire
<1>11. QED
  BY <1>4, <1>6, <1>7, <1>8, <1>9, <1>10 DEF IInv

LEMMA OpenKeeps ==
    ASSUME IInv, NEW r \in Requests, NEW l \in Links, Open(r, l)
    PROVE  IInv'
<1>1. TypeOK /\ RequestsOK /\ PortalsOK /\ HistoryOK /\ MessagesOK
  BY TypesStay DEF IInv
<1>2. link[l].status # "none" /\ req[r].at = "idle"
  BY SMT DEF IInv, LinksAreIssued, Open, Held
<1>3. /\ req'[r].at = "load" /\ req'[r].link = l /\ req'[r].page = TRUE
      /\ req'[r].action = "none"
      /\ \A q \in Requests \ {r} :
            /\ req'[q].at = req[q].at /\ req'[q].link = req[q].link
            /\ req'[q].action = req[q].action
            /\ req'[q].page => req[q].page /\ req[q].link # l
  <2>1. \A q \in Requests : Left(l)[q] =
          IF req[q].link = l THEN [req[q] EXCEPT !.page = FALSE] ELSE req[q]
    BY DEF Left
  <2>2. req'[r] = [at |-> "load", link |-> l, action |-> "none", seen |-> 0, page |-> TRUE]
        /\ \A q \in Requests \ {r} : req'[q] = Left(l)[q]
    BY Zenon DEF Open, Left
  <2>3. \A q \in Requests :
          /\ [req[q] EXCEPT !.page = FALSE].at = req[q].at
          /\ [req[q] EXCEPT !.page = FALSE].link = req[q].link
          /\ [req[q] EXCEPT !.page = FALSE].action = req[q].action
          /\ [req[q] EXCEPT !.page = FALSE].page = FALSE
    BY <1>1, Zenon DEF RequestsOK
  <2>4. ASSUME NEW q \in Requests \ {r}
        PROVE  /\ req'[q].at = req[q].at /\ req'[q].link = req[q].link
               /\ req'[q].action = req[q].action
               /\ req'[q].page => req[q].page /\ req[q].link # l
    <3>1. CASE req[q].link = l
      <4>1. req'[q] = [req[q] EXCEPT !.page = FALSE]
        BY <2>1, <2>2, <3>1
      <4>2. QED
        BY <2>3, <4>1, Zenon
    <3>2. CASE req[q].link # l
      BY <2>1, <2>2, <3>2
    <3>3. QED
      BY <3>1, <3>2
  <2>5. QED
    BY <2>2, <2>4
<1>4. RequestsOK'
  <2>1. 0 \in Contents
    BY AnsweringBounds, SMT DEF Contents
  <2>2. \A q \in Requests : [req[q] EXCEPT !.page = FALSE] \in
          [at : Places, link : Links \union {"none"}, page : BOOLEAN,
           action : Actions \union {"none"}, seen : Contents]
    BY <1>1, Zenon DEF RequestsOK
  <2>3. Left(l) \in [Requests -> [at : Places, link : Links \union {"none"}, page : BOOLEAN,
                                  action : Actions \union {"none"}, seen : Contents]]
    BY <1>1, <2>2, Zenon DEF Left, RequestsOK
  <2>4. QED
    BY <2>1, <2>3, SMT DEF Open, RequestsOK, Places
<1>5. /\ portal'[l].at = "loading"
      /\ \A k \in Links \ {l} : portal'[k] = portal[k]
  BY <1>1, SMT DEF Open, PortalsOK
<1>6. PortalsOK'
  BY <1>1, AnsweringBounds, SMT DEF Open, PortalsOK, Pages, Contents
<1>7. HistoryOK'
  BY <1>1, AnsweringBounds, SMT DEF Open, HistoryOK
<1>8. TypeOK'
  BY <1>1, <1>4, <1>6, <1>7, TypesStay DEF Open, db, sending
<1>9. AnswersStay
  BY DEF AnswersStay, Open, db
<1>10. LinksAreIssued'
  BY <1>2, <1>3, <1>5, SMT DEF IInv, LinksAreIssued, Open, db, sending
<1>11. PagesWait'
  <2>1. \A q \in Requests : req'[q].page =>
          q = r \/ (req[q].page /\ req[q].link # l /\ req[q].link \in Links)
    BY <1>3, SMT DEF IInv, PagesWait, LinksAreIssued
  <2>2. \A q \in Requests \ {r} : req'[q].page => req'[q].link # l
    BY <1>3
  <2>3. QED
    BY <1>3, <1>5, <2>1, <2>2, SMT DEF IInv, PagesWait
<1>12. RecordedOnce'
  BY <1>3, <1>9, SameAnswers, SMT DEF IInv, RecordedOnce, Open, sending
<1>13. NoticesOnce' /\ NoticesAreTrue'
  BY <1>9, SameNotices DEF Open, sending
<1>14. SuccessScreenIsTrue'
  BY <1>5, <1>9, SameScreens, SMT
<1>15. QED
  BY <1>8, <1>10, <1>11, <1>12, <1>13, <1>14 DEF IInv

LEMMA LoadCheckKeeps ==
    ASSUME IInv, NEW r \in Requests, LoadCheck(r)
    PROVE  IInv'
<1>1. CASE Valid(req[r].link)
  BY <1>1, PassedKeeps DEF LoadCheck, Places
<1>2. CASE ~Valid(req[r].link)
  BY <1>2, RefusedKeeps DEF LoadCheck
<1>3. QED
  BY <1>1, <1>2

LEMMA LoadReadKeeps ==
    ASSUME IInv, NEW r \in Requests, LoadRead(r)
    PROVE  IInv'
<1> DEFINE l == req[r].link
<1>1. TypeOK /\ RequestsOK /\ PortalsOK /\ LinksOK /\ MessagesOK /\ VersionOK /\ l \in Links
  BY TypesStay, SMT DEF IInv, LinksAreIssued, LoadRead
<1>2. /\ RequestsOK'
      /\ \A q \in Requests \ {r} : req'[q] = req[q]
      /\ req'[r].at = "idle" /\ req'[r].page = FALSE /\ req'[r].link = "none"
  BY <1>1, FinishEnds DEF LoadRead
<1>3. LinksOK'
  BY <1>1, SMT DEF LoadRead, LinksOK, Actions
<1>4. \A k \in Links :
        \/ link'[k].status = link[k].status
        \/ link[k].status = "pending" /\ link'[k].status = "viewed"
  BY <1>1, SMT DEF LoadRead, LinksOK
<1>5. /\ \A k \in Links \ {l} : portal'[k] = portal[k]
      /\ ~req[r].page => portal' = portal
      /\ req[r].page => portal'[l].at = "form"
  BY <1>1, SMT DEF LoadRead, Displayed, PortalsOK
<1>6. PortalsOK'
  <2>1. terms \in Contents
    BY <1>1, AnsweringBounds, SMT DEF VersionOK, Contents
  <2>2. QED
    <3>1. [portal[l] EXCEPT !.at = "form", !.seen = terms] \in
            [at : Pages, seen : Contents, action : Actions \union {"none"}]
      BY <1>1, <2>1, Zenon DEF PortalsOK, Pages
    <3>2. \/ portal' = portal
          \/ portal' = [portal EXCEPT ![l] = [portal[l] EXCEPT !.at = "form", !.seen = terms]]
      BY DEF LoadRead, Displayed
    <3>3. CASE portal' = portal
      BY <1>1, <3>3 DEF PortalsOK
    <3>4. CASE portal' = [portal EXCEPT ![l] = [portal[l] EXCEPT !.at = "form", !.seen = terms]]
      BY <1>1, <3>1, <3>4, Zenon DEF PortalsOK
    <3>5. QED
      BY <3>2, <3>3, <3>4
<1>7. TypeOK'
  BY <1>1, <1>2, <1>3, <1>6, TypesStay DEF LoadRead, sending
<1>8. AnswersStay
  BY <1>4, SMT DEF AnswersStay, Actions
<1>9. LinksAreIssued'
  BY <1>1, <1>2, <1>4, <1>5, SMT DEF IInv, LinksAreIssued, MessagesOK, Message, LoadRead, sending
<1>10. PagesWait'
  BY <1>1, <1>2, <1>5, SMT DEF IInv, PagesWait, LinksAreIssued
<1>11. RecordedOnce'
  BY <1>2, <1>8, SameAnswers, SMT DEF IInv, RecordedOnce, LoadRead, sending
<1>12. NoticesOnce' /\ NoticesAreTrue'
  BY <1>8, SameNotices DEF LoadRead, sending
<1>13. SuccessScreenIsTrue'
  BY <1>1, <1>5, <1>8, SameScreens, SMT
<1>14. QED
  BY <1>7, <1>9, <1>10, <1>11, <1>12, <1>13 DEF IInv

LEMMA SubmitKeeps ==
    ASSUME IInv, NEW r \in Requests, NEW l \in Links, NEW a \in Actions, Submit(r, l, a)
    PROVE  IInv'
<1>1. TypeOK /\ RequestsOK /\ PortalsOK
  BY TypesStay DEF IInv
<1>2. portal[l].at = "form" /\ link[l].status # "none"
  BY SMT DEF IInv, LinksAreIssued, Submit
<1>3. /\ req'[r].at = "check" /\ req'[r].link = l /\ req'[r].page = TRUE /\ req'[r].action = a
      /\ \A q \in Requests \ {r} : req'[q] = req[q]
  BY <1>1, SMT DEF Submit, RequestsOK
<1>4. RequestsOK'
  BY <1>1, SMT DEF Submit, RequestsOK, PortalsOK, Places
<1>5. /\ portal'[l].at = "submitting" /\ portal'[l].action = a
      /\ \A k \in Links \ {l} : portal'[k] = portal[k]
  BY <1>1, SMT DEF Submit, PortalsOK
<1>6. PortalsOK'
  <2>1. portal' = [portal EXCEPT ![l] = [portal[l] EXCEPT !.at = "submitting", !.action = a]]
    BY DEF Submit
  <2>2. [portal[l] EXCEPT !.at = "submitting", !.action = a] \in
          [at : Pages, seen : Contents, action : Actions \union {"none"}]
    BY <1>1, Zenon DEF PortalsOK, Pages
  <2>3. QED
    BY <1>1, <2>1, <2>2, SMT DEF PortalsOK
<1>7. TypeOK'
  BY <1>1, <1>4, <1>6, TypesStay DEF Submit, db, sending
<1>8. AnswersStay
  BY DEF AnswersStay, Submit, db
<1>9. LinksAreIssued'
  <2>1. /\ UNCHANGED <<copied, outbox, mailbox, link>>
        /\ req[r].at = "idle"
    BY DEF Submit, db, sending
  <2>2. QED
    BY <1>2, <1>3, <1>5, <2>1, SMT DEF IInv, LinksAreIssued
<1>10. PagesWait'
  BY <1>1, <1>2, <1>3, <1>5, SMT DEF IInv, PagesWait, LinksAreIssued
<1>11. RecordedOnce'
  BY <1>3, <1>8, SameAnswers, SMT DEF IInv, RecordedOnce, Submit, sending
<1>12. NoticesOnce' /\ NoticesAreTrue'
  BY <1>8, SameNotices DEF Submit, sending
<1>13. SuccessScreenIsTrue'
  BY <1>5, <1>8, SameScreens, SMT
<1>14. QED
  BY <1>7, <1>9, <1>10, <1>11, <1>12, <1>13 DEF IInv

LEMMA ShortNoteKeeps ==
    ASSUME IInv, NEW r \in Requests, ShortNote(r)
    PROVE  IInv'
  BY RefusedKeeps DEF ShortNote

LEMMA TapKeeps ==
    ASSUME IInv, NEW r \in Requests, NEW m \in mailbox, NEW a \in Actions, Tap(r, m, a)
    PROVE  IInv'
<1>1. TypeOK /\ RequestsOK /\ MessagesOK
  BY TypesStay DEF IInv
<1>2. m.link \in Links /\ m.seen \in Contents /\ link[m.link].status # "none"
  BY <1>1, SMT DEF IInv, LinksAreIssued, MessagesOK, Message
<1>3. /\ req'[r].at = "tap" /\ req'[r].link = m.link /\ req'[r].page = FALSE
      /\ req'[r].action = a
      /\ \A q \in Requests \ {r} : req'[q] = req[q]
  BY <1>1, SMT DEF Tap, RequestsOK
<1>4. RequestsOK'
  BY <1>1, <1>2, SMT DEF Tap, RequestsOK, Places
<1>5. TypeOK'
  BY <1>1, <1>4, TypesStay DEF Tap, db, sending
<1>6. AnswersStay
  BY DEF AnswersStay, Tap, db
<1>7. LinksAreIssued'
  BY <1>2, <1>3, SMT DEF IInv, LinksAreIssued, Tap, db, sending
<1>8. PagesWait'
  BY <1>3, SMT DEF IInv, PagesWait, Tap
<1>9. RecordedOnce'
  BY <1>3, <1>6, SameAnswers, SMT DEF IInv, RecordedOnce, Tap, sending
<1>10. NoticesOnce' /\ NoticesAreTrue'
  BY <1>6, SameNotices DEF Tap, sending
<1>11. SuccessScreenIsTrue'
  BY <1>6, SameScreens DEF Tap
<1>12. QED
  BY <1>5, <1>7, <1>8, <1>9, <1>10, <1>11 DEF IInv

\* A tap has no page to show an error to.
LEMMA TapCheckKeeps ==
    ASSUME IInv, NEW r \in Requests, TapCheck(r)
    PROVE  IInv'
<1>1. CASE Valid(req[r].link)
  BY <1>1, PassedKeeps DEF TapCheck, Places
<1>2. CASE ~Valid(req[r].link)
  <2>1. ~req[r].page
    BY SMT DEF IInv, PagesWait, TapCheck
  <2>2. Show(r, req[r].link, "error")
    BY <2>1 DEF Show, TapCheck
  <2>3. QED
    BY <1>2, <2>2, RefusedKeeps DEF TapCheck
<1>3. QED
  BY <1>1, <1>2

LEMMA CheckKeeps ==
    ASSUME IInv, NEW r \in Requests, Check(r)
    PROVE  IInv'
<1>1. CASE Valid(req[r].link) /\ ~Used(req[r].link)
  BY <1>1, PassedKeeps DEF Check, Places
<1>2. CASE ~(Valid(req[r].link) /\ ~Used(req[r].link))
  BY <1>2, RefusedKeeps DEF Check
<1>3. QED
  BY <1>1, <1>2

\* What a transaction records is on file, and about a link nobody had answered.
LEMMA RecordKeeps ==
    ASSUME IInv, NEW r \in Requests, Record(r)
    PROVE  IInv'
<1> DEFINE l == req[r].link
           a == req[r].action
<1>1. CASE Used(l)
  BY <1>1, RefusedKeeps DEF Record
<1>2. CASE ~Used(l)
  <2>1. Recorded(l, a, req[r].seen) /\ Go(r, "recorded") /\ UNCHANGED portal
        /\ UNCHANGED <<sending, dropped, reloads, faults>> /\ req[r].at = "record"
    BY <1>2 DEF Record
  <2>2. /\ TypeOK /\ RequestsOK /\ LinksOK /\ MessagesOK /\ VersionOK /\ AnswersOK /\ NoticesOK
        /\ l \in Links /\ a \in Actions /\ req[r].seen \in Contents /\ link[l].status # "none"
    BY <2>1, TypesStay, SMT DEF IInv, LinksAreIssued, RecordedOnce, RequestsOK
  <2>3. /\ RequestsOK'
        /\ \A q \in Requests \ {r} : req'[q] = req[q]
        /\ req'[r].at = "recorded" /\ req'[r].link = l /\ req'[r].page = req[r].page
        /\ req'[r].action = a
    BY <2>1, <2>2, GoMoves DEF Places
  <2>4. link' = [link EXCEPT ![l].status = a]
    BY <2>1 DEF Recorded
  <2>5. LinksOK' /\ link'[l].status = a /\ \A k \in Links \ {l} : link'[k] = link[k]
    BY <2>2, <2>4, SMT DEF LinksOK
  <2>6. AnswersOK'
    <3>1. answer' = [answer EXCEPT ![For[l]] = [action |-> a, seen |-> req[r].seen]]
      BY <2>1 DEF Recorded
    <3>2. [action |-> a, seen |-> req[r].seen] \in [action : Actions \union {"none"}, seen : Contents]
      BY <2>2
    <3>3. QED
      BY <2>2, <3>1, <3>2, LinksAssumption, SMT DEF AnswersOK
  <2>7. VersionOK'
    BY <2>1, <2>2, SMT DEF Recorded, VersionOK
  <2>8. TypeOK'
    BY <2>1, <2>2, <2>3, <2>5, <2>6, <2>7, TypesStay DEF sending
  <2>9. AnswersStay
    BY <1>2, <2>5, SMT DEF AnswersStay, Used
  <2>10. LinksAreIssued'
    BY <2>1, <2>2, <2>3, <2>5, SMT DEF IInv, LinksAreIssued, MessagesOK, Message, Actions, sending
  <2>11. PagesWait'
    BY <2>1, <2>3, SMT DEF IInv, PagesWait
  <2>12. \A k \in Links, c \in Channels : Heard(k, c)' = Heard(k, c)
    BY <2>1 DEF Heard, sending
  <2>13. /\ \A c \in Channels : Heard(l, c) = <<>>
         /\ \A n \in notices : n.link # l
         /\ \A q \in Requests : req[q].at = "recorded" => req[q].link # l /\ req[q].link \in Links
    BY <1>2, <2>2, SMT DEF IInv, NoticesAreTrue, NoticesOnce, RecordedOnce, NoticesOK, Used, LinksAreIssued
  <2>14. RecordedOnce'
    BY <2>1, <2>2, <2>3, <2>5, <2>12, <2>13, SMT DEF IInv, RecordedOnce, sending
  <2>15. NoticesOnce' /\ NoticesAreTrue'
    BY <2>1, <2>9, SameNotices DEF sending
  <2>16. SuccessScreenIsTrue'
    BY <2>1, <2>9, SameScreens
  <2>17. QED
    BY <2>8, <2>10, <2>11, <2>14, <2>15, <2>16 DEF IInv
<1>3. QED
  BY <1>1, <1>2

LEMMA RespondKeeps ==
    ASSUME IInv, NEW r \in Requests, Respond(r)
    PROVE  IInv'
<1> DEFINE l == req[r].link
<1>1. TypeOK /\ RequestsOK /\ PortalsOK /\ l \in Links
  BY TypesStay, SMT DEF IInv, LinksAreIssued, Respond
<1>2. /\ RequestsOK'
      /\ \A q \in Requests \ {r} : req'[q] = req[q]
      /\ req'[r].at = "idle" /\ req'[r].page = FALSE /\ req'[r].link = "none"
  BY <1>1, FinishEnds DEF Respond
<1>3. /\ PortalsOK'
      /\ \A k \in Links : portal'[k].action = portal[k].action
      /\ \A k \in Links \ {l} : portal'[k] = portal[k]
      /\ req[r].page => portal'[l].at = "success"
      /\ ~req[r].page => portal' = portal
  BY <1>1, ShowShows DEF Respond, Thanked, Pages
<1>4. NoticesOK' /\ RecordedOnce' /\ NoticesOnce' /\ NoticesAreTrue'
  BY <1>2, AnnouncedOnce DEF Respond, db
<1>5. TypeOK'
  BY <1>1, <1>2, <1>3, <1>4, TypesStay DEF Respond, db
<1>6. LinksAreIssued'
  BY <1>1, <1>2, <1>3, SMT DEF IInv, LinksAreIssued, Respond, db
<1>7. PagesWait'
  BY <1>1, <1>2, <1>3, SMT DEF IInv, PagesWait, LinksAreIssued
<1>8. SuccessScreenIsTrue'
  <2>1. req[r].page => portal[l].action = req[r].action
    BY SMT DEF IInv, PagesWait, Respond
  <2>2. link'[l].status = req[r].action /\ link' = link
    BY SMT DEF IInv, RecordedOnce, Respond, db
  <2>3. QED
    BY <1>1, <1>3, <2>1, <2>2, SMT DEF IInv, SuccessScreenIsTrue
<1>9. QED
  BY <1>4, <1>5, <1>6, <1>7, <1>8 DEF IInv

LEMMA NoticeOwnerKeeps ==
    ASSUME IInv, NEW n \in notices, NoticeOwner(n)
    PROVE  IInv'
<1>1. TypeOK
  BY DEF IInv
<1>2. \A l \in Links, c \in Channels : Heard(l, c)' = Heard(l, c)
  BY DEF NoticeOwner, Heard
<1>3. NoticesOK' /\ RecordedOnce' /\ NoticesOnce' /\ NoticesAreTrue'
  BY <1>2, NoticeMoves DEF NoticeOwner, db
<1>4. TypeOK'
  BY <1>1, <1>3, TypesStay DEF NoticeOwner, db
<1>5. AnswersStay
  BY DEF AnswersStay, NoticeOwner, db
<1>6. LinksAreIssued' /\ PagesWait'
  BY SMT DEF IInv, LinksAreIssued, PagesWait, NoticeOwner, db
<1>7. SuccessScreenIsTrue'
  BY <1>5, SameScreens DEF NoticeOwner
<1>8. QED
  BY <1>3, <1>4, <1>6, <1>7 DEF IInv

\* A message reaches the owner, who had none of that channel about the link.
LEMMA SentKeeps ==
    ASSUME IInv, NEW n \in notices, NEW next \in {"whatsapp", "done"}, Sent(n, next),
           n.at \in Channels, next = "whatsapp" => n.at = "email"
    PROVE  IInv'
<1>1. TypeOK /\ ToldOK /\ NoticesOK
  BY TypesStay DEF IInv
<1>2. n.link \in Links /\ n.action \in Actions
  BY <1>1, SMT DEF NoticesOK
<1>3. Heard(n.link, n.at) = <<>>
  BY SMT DEF IInv, NoticesOnce, Channels
<1>4. told' = [told EXCEPT ![<<n.link, n.at>>] = Append(told[<<n.link, n.at>>], n.action)]
  BY DEF Sent
<1>5. \A l \in Links, c \in Channels :
        Heard(l, c)' = IF l = n.link /\ c = n.at THEN Append(Heard(l, c), n.action)
                                                ELSE Heard(l, c)
  BY <1>1, <1>2, <1>4, Zenon DEF Heard, ToldOK
<1>6. Append(<<>>, n.action) = <<n.action>>
  BY <1>2, SMT
<1>7. \A l \in Links, c \in Channels :
        \/ Heard(l, c)' = Heard(l, c)
        \/ l = n.link /\ c = n.at /\ Heard(l, c)' = <<n.action>>
  BY <1>3, <1>5, <1>6, Zenon
<1>8. ToldOK'
  <2>1. told[<<n.link, n.at>>] \in Seq(Actions)
    BY <1>1, <1>2, Zenon DEF ToldOK
  <2>2. Append(told[<<n.link, n.at>>], n.action) \in Seq(Actions)
    BY <1>2, <2>1, SMT
  <2>3. QED
    BY <1>1, <1>4, <2>2, Zenon DEF ToldOK
<1>9. NoticesOK' /\ RecordedOnce' /\ NoticesOnce' /\ NoticesAreTrue'
  BY <1>7, NoticeMoves, Zenon DEF Sent, db
<1>10. TypeOK'
  BY <1>1, <1>8, <1>9, TypesStay DEF Sent, db
<1>11. AnswersStay
  BY DEF AnswersStay, Sent, db
<1>12. LinksAreIssued' /\ PagesWait'
  BY SMT DEF IInv, LinksAreIssued, PagesWait, Sent, db
<1>13. SuccessScreenIsTrue'
  BY <1>11, SameScreens DEF Sent
<1>14. QED
  BY <1>9, <1>10, <1>12, <1>13 DEF IInv

LEMMA NoticeSentKeeps ==
    ASSUME IInv, NEW n \in notices, NoticeMailed(n) \/ NoticeTexted(n)
    PROVE  IInv'
  BY SentKeeps DEF NoticeMailed, NoticeTexted, AfterMail, Channels

LEMMA NoticeFailsKeeps ==
    ASSUME IInv, NEW n \in notices, NoticeFails(n)
    PROVE  IInv'
<1> DEFINE next == IF n.at = "email" THEN AfterMail ELSE "done"
<1>1. TypeOK /\ HistoryOK /\ NoticesOK
  BY TypesStay DEF IInv
<1>2. n.link \in Links
  BY <1>1, SMT DEF NoticesOK
<1>3. \A l \in Links, c \in Channels : Heard(l, c)' = Heard(l, c)
  BY DEF NoticeFails, Heard
<1>4. /\ next \in {"email", "whatsapp", "done"} /\ next # "email"
      /\ next = "whatsapp" => n.at # "whatsapp"
  BY DEF AfterMail
<1>5. notices' = Onward(n, next) /\ link' = link /\ req' = req
  BY DEF NoticeFails, db
<1> HIDE DEF next
<1>6. NoticesOK' /\ RecordedOnce' /\ NoticesOnce' /\ NoticesAreTrue'
  BY <1>3, <1>4, <1>5, NoticeMoves
<1>7. HistoryOK'
  BY <1>1, <1>2, AnsweringBounds, SMT DEF NoticeFails, HistoryOK
<1>8. TypeOK'
  BY <1>1, <1>6, <1>7, TypesStay DEF NoticeFails, db
<1>9. AnswersStay
  BY DEF AnswersStay, NoticeFails, db
<1>10. LinksAreIssued' /\ PagesWait'
  BY SMT DEF IInv, LinksAreIssued, PagesWait, NoticeFails, db
<1>11. SuccessScreenIsTrue'
  BY <1>9, SameScreens DEF NoticeFails
<1>12. QED
  BY <1>6, <1>8, <1>10, <1>11 DEF IInv

LEMMA RequestFailsKeeps ==
    ASSUME IInv, NEW r \in Requests, RequestFails(r)
    PROVE  IInv'
<1> DEFINE l == req[r].link
<1>1. /\ TypeOK /\ RequestsOK /\ PortalsOK /\ HistoryOK /\ MessagesOK
      /\ l \in Links /\ req[r].seen \in Contents
  BY TypesStay, SMT DEF IInv, LinksAreIssued, RequestFails, RequestsOK
<1>2. /\ RequestsOK'
      /\ \A q \in Requests \ {r} : req'[q] = req[q]
      /\ req'[r].at = "idle" /\ req'[r].page = FALSE /\ req'[r].link = "none"
  BY <1>1, FinishEnds DEF RequestFails
<1>3. /\ PortalsOK'
      /\ \A k \in Links : portal'[k].action = portal[k].action
      /\ \A k \in Links \ {l} : portal'[k] = portal[k]
      /\ req[r].page => portal'[l].at = "error"
      /\ ~req[r].page => portal' = portal
  BY <1>1, ShowShows DEF RequestFails, Pages
<1>4. /\ req[r].at = "issued" => link[l].status # "none"
      /\ req[r].at = "issue" => ~req[r].page
      /\ link[l].status = "none" => ~req[r].page
  BY SMT DEF IInv, LinksAreIssued, PagesWait, RequestFails
<1>5. /\ Invitations(l, req[r].seen) \subseteq Message
      /\ \A m \in Invitations(l, req[r].seen) : m.link = l
  BY <1>1, InvitationMessages
<1>6. /\ outbox' = IF req[r].at = "issued" THEN outbox \union Invitations(l, req[r].seen)
                                           ELSE outbox
      /\ UNCHANGED <<mailbox, copied>>
  BY DEF RequestFails
<1>7. MessagesOK'
  BY <1>1, <1>5, <1>6 DEF MessagesOK
<1>8. HistoryOK'
  <2>1. {req[q].link : q \in Answering \intersect {r}} \subseteq Links
    BY <1>1
  <2>2. QED
    BY <1>1, <2>1, AnsweringBounds, SMT DEF RequestFails, HistoryOK
<1>9. AnswersStay
  BY DEF AnswersStay, RequestFails, db
<1>10. NoticesOK' /\ RecordedOnce' /\ NoticesOnce' /\ NoticesAreTrue'
  <2>1. CASE req[r].at = "recorded"
    BY <1>2, <2>1, AnnouncedOnce DEF RequestFails, db
  <2>2. CASE req[r].at # "recorded"
    <3>1. notices' = notices /\ told' = told
      BY <2>2 DEF RequestFails
    <3>2. RecordedOnce'
      BY <1>2, <1>9, <3>1, SameAnswers, SMT DEF IInv, RecordedOnce
    <3>3. QED
      BY <1>1, <1>9, <3>1, <3>2, SameNotices, TypesStay
  <2>3. QED
    BY <2>1, <2>2
<1>11. TypeOK'
  BY <1>1, <1>2, <1>3, <1>7, <1>8, <1>10, TypesStay DEF RequestFails, db
<1>12. LinksAreIssued'
  BY <1>1, <1>2, <1>3, <1>4, <1>5, <1>6, SMT DEF IInv, LinksAreIssued, RequestFails, db
<1>13. PagesWait'
  BY <1>1, <1>2, <1>3, SMT DEF IInv, PagesWait, LinksAreIssued
<1>14. SuccessScreenIsTrue'
  BY <1>1, <1>3, <1>9, SameScreens, SMT
<1>15. QED
  BY <1>10, <1>11, <1>12, <1>13, <1>14 DEF IInv

LEMMA RestartKeeps ==
    ASSUME IInv, Restart
    PROVE  IInv'
<1>1. TypeOK /\ RequestsOK /\ PortalsOK /\ HistoryOK /\ MessagesOK /\ NoticesOK
  BY TypesStay DEF IInv
<1>2. \A q \in Requests : req'[q].at = "idle" /\ req'[q].page = FALSE
  BY SMT DEF Restart, Idle
<1>3. RequestsOK'
  BY AnsweringBounds, SMT DEF Restart, Idle, RequestsOK, Places, Contents
<1>4. \A l \in Links : portal'[l] = portal[l]
        \/ (portal'[l].at = "error" /\ portal[l].at # "closed")
  <2>1. portal' = [l \in Links |-> IF portal[l].at \in Waiting
                                   THEN [portal[l] EXCEPT !.at = "error"] ELSE portal[l]]
    BY DEF Restart
  <2>2. \A l \in Links : [portal[l] EXCEPT !.at = "error"].at = "error"
    BY <1>1, SMT DEF PortalsOK
  <2>3. ASSUME NEW l \in Links
        PROVE  portal'[l] = portal[l] \/ (portal'[l].at = "error" /\ portal[l].at # "closed")
    <3>1. CASE portal[l].at \in Waiting
      BY <2>1, <2>2, <3>1 DEF Waiting
    <3>2. CASE portal[l].at \notin Waiting
      <4>1. portal'[l] = portal[l]
        BY <2>1, <3>2
      <4>2. QED
        BY <4>1
    <3>3. QED
      BY <3>1, <3>2
  <2>4. QED
    BY <2>3
<1>5. PortalsOK'
  BY <1>1, SMT DEF Restart, PortalsOK, Pages
<1>6. outbox' = {} /\ notices' = {} /\ mailbox' = mailbox /\ copied' = copied /\ told' = told
  BY DEF Restart
<1>7. MessagesOK' /\ NoticesOK'
  BY <1>1, <1>6 DEF MessagesOK, NoticesOK
<1>8. HistoryOK'
  <2>1. \A r \in Answering : req[r].link \in Links
    BY SMT DEF IInv, LinksAreIssued, Answering
  <2>2. \A n \in notices : n.link \in Links
    BY <1>1, SMT DEF NoticesOK
  <2>3. QED
    BY <1>1, <2>1, <2>2, AnsweringBounds, SMT DEF Restart, HistoryOK
<1>9. TypeOK'
  BY <1>1, <1>3, <1>5, <1>6, <1>7, <1>8, TypesStay DEF Restart, db
<1>10. AnswersStay
  BY DEF AnswersStay, Restart, db
<1>11. LinksAreIssued'
  <2>1. link' = link
    BY DEF Restart, db
  <2>2. \A l \in Links : portal'[l].at # "closed" => portal[l].at # "closed"
    BY <1>4
  <2>3. QED
    BY <1>2, <1>6, <2>1, <2>2, SMT DEF IInv, LinksAreIssued
<1>12. PagesWait' /\ RecordedOnce' /\ NoticesOnce'
  BY <1>2, <1>6, SMT DEF PagesWait, RecordedOnce, NoticesOnce
<1>13. NoticesAreTrue'
  <2>1. \A l \in Links, c \in Channels : Heard(l, c)' = Heard(l, c)
    BY <1>6 DEF Heard
  <2>2. link' = link
    BY DEF Restart, db
  <2>3. QED
    BY <2>1, <2>2, SMT DEF IInv, NoticesAreTrue, Used
<1>14. SuccessScreenIsTrue'
  BY <1>4, <1>10, SameScreens, SMT
<1>15. QED
  BY <1>9, <1>11, <1>12, <1>13, <1>14 DEF IInv

-------------------------------------------------------------------------------
(* The theorems *)

LEMMA InitHolds ==
    ASSUME Init
    PROVE  IInv
<1>1. LinksOK /\ RequestsOK /\ PortalsOK /\ AnswersOK /\ VersionOK
  BY AnsweringBounds, SMT DEF Init, LinksOK, RequestsOK, PortalsOK, AnswersOK, VersionOK,
     Idle, NoAnswer, Places, Pages, Contents
<1>2. MessagesOK /\ NoticesOK /\ HistoryOK
  BY AnsweringBounds, SMT DEF Init, MessagesOK, NoticesOK, HistoryOK
<1>3. ToldOK
  <2>1. <<>> \in Seq(Actions)
    BY SMT
  <2>2. QED
    BY <2>1, Zenon DEF Init, ToldOK
<1>4. TypeOK
  BY <1>1, <1>2, <1>3 DEF TypeOK, LinksOK, RequestsOK, PortalsOK, MessagesOK, NoticesOK, ToldOK,
     AnswersOK, VersionOK, HistoryOK
<1>5. \A l \in Links, c \in Channels : Heard(l, c) = <<>>
  BY Zenon DEF Init, Heard
<1>6. LinksAreIssued /\ PagesWait /\ RecordedOnce /\ NoticesOnce
  BY SMT DEF Init, Idle, LinksAreIssued, PagesWait, RecordedOnce, NoticesOnce
<1>7. SuccessScreenIsTrue
  BY SMT DEF Init, SuccessScreenIsTrue
<1>8. NoticesAreTrue
  BY <1>5 DEF NoticesAreTrue
<1>9. QED
  BY <1>4, <1>6, <1>7, <1>8 DEF IInv

LEMMA StepKeeps ==
    ASSUME IInv, [Next]_vars
    PROVE  IInv'
<1>1. ASSUME NEW r \in Requests, NEW l \in Links,
             Invite(r, l) \/ Open(r, l) \/ \E a \in Actions : Submit(r, l, a)
      PROVE  IInv'
  BY <1>1, InviteKeeps, OpenKeeps, SubmitKeeps
<1>2. ASSUME NEW r \in Requests, NEW m \in mailbox, NEW a \in Actions, Tap(r, m, a)
      PROVE  IInv'
  BY <1>2, TapKeeps
<1>3. ASSUME NEW r \in Requests,
             Issue(r) \/ Load(r) \/ Process(r) \/ ShortNote(r) \/ RequestFails(r)
      PROVE  IInv'
  BY <1>3, IssueCommitKeeps, IssueAnsweredKeeps, LoadCheckKeeps, LoadReadKeeps, TapCheckKeeps,
     CheckKeeps, RecordKeeps, RespondKeeps, ShortNoteKeeps, RequestFailsKeeps
     DEF Issue, Load, Process
<1>4. ASSUME NEW m \in outbox,
             DeliverMail(m) \/ DeliverWhatsApp(m) \/ MailFails(m) \/ WhatsAppFails(m)
      PROVE  IInv'
  BY <1>4, MessageKeeps DEF DeliverMail, DeliverWhatsApp, MailFails, WhatsAppFails
<1>5. ASSUME NEW n \in notices, Notify(n) \/ NoticeFails(n)
      PROVE  IInv'
  BY <1>5, NoticeOwnerKeeps, NoticeSentKeeps, NoticeFailsKeeps DEF Notify
<1>6. ASSUME NEW l \in Links, Withdraw(l) \/ Expire(l)
      PROVE  IInv'
  BY <1>6, WithdrawnOrExpiredKeeps
<1>7. CASE Save \/ Restart
  BY <1>7, SaveKeeps, RestartKeeps
<1>8. CASE UNCHANGED vars
  <2>1. UNCHANGED <<terms, status, agreements, link, answer, outbox, mailbox, notices, told,
                    copied, portal, req, dropped, reloads, faults>>
    BY <1>8 DEF vars, db, sending
  <2>2. TypeOK'
    BY <2>1, TypesStay DEF IInv
  <2>3. AnswersStay
    BY <2>1 DEF AnswersStay
  <2>4. LinksAreIssued' /\ PagesWait'
    BY <2>1, SMT DEF IInv, LinksAreIssued, PagesWait
  <2>5. RecordedOnce'
    BY <2>1, <2>3, SameAnswers, SMT DEF IInv, RecordedOnce
  <2>6. NoticesOnce' /\ NoticesAreTrue'
    BY <2>1, <2>3, SameNotices
  <2>7. SuccessScreenIsTrue'
    BY <2>1, <2>3, SameScreens
  <2>8. QED
    BY <2>2, <2>4, <2>5, <2>6, <2>7 DEF IInv
<1>9. QED
  BY <1>1, <1>2, <1>3, <1>4, <1>5, <1>6, <1>7, <1>8 DEF Next

\* However pages, taps, requests, notices and failures overlap, what each of
\* them counts on is so.
THEOREM Inductive == Spec => []IInv
  BY InitHolds, StepKeeps, PTL DEF Spec

\* Whoever reads that the answer was registered has it on file, whatever else
\* came through the link (ReviewPortalView.tsx:158).
THEOREM SuccessIsOnFile == Spec => []SuccessScreenIsTrue
<1>1. IInv => SuccessScreenIsTrue
  BY DEF IInv
<1>2. QED
  BY <1>1, Inductive, PTL

\* The owner hears of each answer at most once on a channel, and of none that
\* was refused or undone (the notice of processInvitationResponse).
THEOREM OwnerHearsTheTruth == Spec => []NoticesAreTrue
<1>1. IInv => NoticesAreTrue
  BY DEF IInv
<1>2. QED
  BY <1>1, Inductive, PTL

=============================================================================
