-------------------------------- MODULE JoinLink --------------------------------
(***************************************************************************)
(* How the link of a team invitation is followed: the mail, the browser of *)
(* the invited person with the routes of App.tsx that it passes, LoginView *)
(* and TeamAcceptView.                                                     *)
(*                                                                         *)
(* Whoever opens a link loads the application afresh.  App renders once    *)
(* before the answer of GET /me is there, and a <Navigate replace> that it *)
(* renders takes effect at once, so a route is redirected in the step that *)
(* leads to it.                                                            *)
(***************************************************************************)

VARIABLES
    invitation,  \* the organisation_invitations row of the address
    mailed,      \* external: whether the mail with the link arrived
    account,     \* whether the address has an account
    cookie,      \* whether the browser has a session of it
    app,         \* the document in the browser: App and the view it shows
    following,   \* history: the link was opened, and not left again on purpose
    asked        \* history: the acceptance was asked for

vars == <<invitation, mailed, account, cookie, app, following, asked>>

\* loads holds who waits for an answer of GET /me.
Closed == [route |-> "closed", auth |-> "checking", loads |-> {}, mode |-> "signin",
           form |-> "idle", view |-> "mounted"]

Init ==
    /\ invitation = "none"
    /\ mailed = FALSE
    /\ account \in BOOLEAN
    /\ cookie \in {b \in BOOLEAN : b => account}
    /\ app = Closed
    /\ following = FALSE
    /\ asked = FALSE

\* What App shows in place of the views, by its state.
Routed(route, auth) ==
    CASE route = "accept" /\ auth # "authenticated" -> "login"
      [] route = "login" /\ auth = "authenticated"  -> "home"
      [] OTHER -> route

-------------------------------------------------------------------------------
(* POST and DELETE /team/invitations, and the mail *)

Invite ==
    /\ invitation = "none"
    /\ invitation' = "pending"
    /\ UNCHANGED <<mailed, account, cookie, app, following, asked>>

\* void sendEmail: nobody waits for it, and it may fail.
Deliver ==
    /\ invitation # "none"
    /\ mailed' = TRUE
    /\ UNCHANGED <<invitation, account, cookie, app, following, asked>>

RevokeOrExpire ==
    /\ invitation = "pending"
    /\ invitation' = "closed"
    /\ UNCHANGED <<mailed, account, cookie, app, following, asked>>

-------------------------------------------------------------------------------
(* The shell *)

\* The button of the mail loads the application at /team/accept/:token.
OpenLink ==
    /\ mailed
    /\ app.route = "closed"
    /\ app' = [Closed EXCEPT !.route = Routed("accept", "checking"),
                              !.loads = {"App"}]
    /\ following' = TRUE
    /\ UNCHANGED <<invitation, mailed, account, cookie, asked>>

\* loadWorkspace, after which onSignedIn navigates and TeamAcceptView goes on.
Loaded(auth) ==
    /\ \E caller \in app.loads :
         app' = [app EXCEPT !.auth = auth, !.loads = @ \ {caller},
                   !.route = IF caller = "LoginView" THEN "home" ELSE Routed(@, auth),
                   !.view  = IF caller = "TeamAcceptView" THEN "success" ELSE @]
    /\ UNCHANGED <<invitation, mailed, account, cookie, following, asked>>

WorkspaceLoaded == Loaded(IF cookie THEN "authenticated" ELSE "anonymous")
WorkspaceFails  == Loaded("anonymous")

Leave ==
    /\ app.route # "closed"
    /\ app' = Closed
    /\ following' = FALSE
    /\ UNCHANGED <<invitation, mailed, account, cookie, asked>>

-------------------------------------------------------------------------------
(* LoginView *)

SwitchMode ==
    /\ app.route = "login"
    /\ \E mode \in {"signin", "register"} \ {app.mode} : app' = [app EXCEPT !.mode = mode]
    /\ UNCHANGED <<invitation, mailed, account, cookie, following, asked>>

SubmitLogin ==
    /\ app.route = "login" /\ app.form = "idle"
    /\ app' = [app EXCEPT !.form = "submitting"]
    /\ UNCHANGED <<invitation, mailed, account, cookie, following, asked>>

\* POST /auth/login or /auth/register sets the cookie, and onSignedIn loads the
\* workspace; finally clears the flag without waiting for it.
LoginAccepted ==
    /\ app.form = "submitting"
    /\ account = (app.mode = "signin")
    /\ account' = TRUE
    /\ cookie' = TRUE
    /\ app' = [app EXCEPT !.form = "idle", !.loads = @ \union {"LoginView"}]
    /\ UNCHANGED <<invitation, mailed, following, asked>>

LoginRefused ==
    /\ app.form = "submitting"
    /\ app' = [app EXCEPT !.form = "idle"]
    /\ UNCHANGED <<invitation, mailed, account, cookie, following, asked>>

-------------------------------------------------------------------------------
(* TeamAcceptView, and POST /team/invitations/token/:rawToken/accept *)

AskAccept ==
    /\ app.route = "accept" /\ app.view = "mounted"
    /\ app' = [app EXCEPT !.view = "posted"]
    /\ asked' = TRUE
    /\ UNCHANGED <<invitation, mailed, account, cookie, following>>

Accepted ==
    /\ app.route = "accept" /\ app.view = "posted"
    /\ invitation = "pending"
    /\ invitation' = "accepted"
    /\ app' = [app EXCEPT !.loads = @ \union {"TeamAcceptView"}]
    /\ UNCHANGED <<mailed, account, cookie, following, asked>>

\* 403, 404 or no answer.
AcceptFails ==
    /\ app.route = "accept" /\ app.view = "posted"
    /\ "TeamAcceptView" \notin app.loads
    /\ app' = [app EXCEPT !.view = "error"]
    /\ UNCHANGED <<invitation, mailed, account, cookie, following, asked>>

TimerFires ==
    /\ app.route = "accept" /\ app.view = "success"
    /\ app' = [app EXCEPT !.route = "home"]
    /\ UNCHANGED <<invitation, mailed, account, cookie, following, asked>>

-------------------------------------------------------------------------------
(* The specification *)

Next == \/ Invite \/ Deliver \/ RevokeOrExpire
        \/ OpenLink \/ WorkspaceLoaded \/ WorkspaceFails \/ Leave
        \/ SwitchMode \/ SubmitLogin \/ LoginAccepted \/ LoginRefused
        \/ AskAccept \/ Accepted \/ AcceptFails \/ TimerFires

Spec == Init /\ [][Next]_vars

\* What the server, the mail and the document in the browser can be.
TypeOK ==
    /\ invitation \in {"none", "pending", "accepted", "closed"}
    /\ {mailed, account, cookie, following, asked} \subseteq BOOLEAN
    /\ app \in [route : {"closed", "accept", "login", "home"},
                auth  : {"checking", "authenticated", "anonymous"},
                loads : SUBSET {"App", "LoginView", "TeamAcceptView"},
                mode  : {"signin", "register"}, form : {"idle", "submitting"},
                view  : {"mounted", "posted", "success", "error"}]

\* email.ts:283 and routes.ts:803: whoever opens the link and has no account is
\* asked to create one first, and then joins.  A person who followed the link
\* and is signed in does not end on the dashboard without the invitation having
\* been asked for.
LinkIsFollowed ==
    following /\ app.route = "home" /\ app.auth = "authenticated" => asked
=============================================================================
