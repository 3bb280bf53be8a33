------------------------------- MODULE Billing -------------------------------
(***************************************************************************)
(* The billing of one workspace: checkout, the page the payment provider   *)
(* sends the owner back to, the verification it asks for, the provider's   *)
(* webhook, and a platform administrator's override.                       *)
(*                                                                         *)
(* The provider (Paystack) is external: a checkout is paid or not, paid    *)
(* ones may become subscriptions, and everything that happens to them is   *)
(* an event it delivers, in any order, until an answer 200 reaches it.     *)
(* A handler is several statements without a transaction, so it can stop   *)
(* after any of them, and several run at once.                             *)
(*                                                                         *)
(* The return page mounts again whenever App renders (see SongPage), and   *)
(* every mount asks for the verification again.  Its reference is whatever *)
(* stands in the address: that of a checkout of this workspace, of a       *)
(* payment made elsewhere (for another workspace, or without our           *)
(* metadata), of no payment, or none at all.                               *)
(***************************************************************************)
EXTENDS Plans, FiniteSets

CONSTANTS
    Checkouts,    \* references of checkouts of this workspace
    Elsewhere,    \* other references that an address can have
    Calls,        \* verifications under way together
    Deliveries,   \* webhook requests under way together
    Offers,       \* <<plan, interval>> that are checked out
    Grants,       \* plans the administrator sets
    MaxExtras,    \* bound: payments elsewhere and subscriptions
    MaxVisits,    \* bound: visits to the return page
    MaxFaults     \* bound: requests and answers that are lost

ASSUME OffersAssumption == Offers \subseteq SelfServe \X Intervals
ASSUME GrantsAssumption == Grants \subseteq PlanIds
ASSUME BillingBounds == MaxExtras \in Nat /\ MaxVisits \in Nat /\ MaxFaults \in Nat
ASSUME ReferencesAssumption ==
  /\ "none" \notin Checkouts \union Elsewhere
  /\ Checkouts \intersect Elsewhere = {}

VARIABLES
    org,          \* the billing columns of the organisation that are read
    payments,     \* rows of the payments table
    checkout,     \* external: what the provider knows of each reference
    events,       \* external: events not yet answered with 200
    tab,          \* the owner's browser tab
    timer,        \* is a navigation to the dashboard scheduled in it?
    call,         \* verifications, in the browser and on the server
    delivery,     \* webhook requests on the server
    granted,      \* history: plans the administrator has set
    applied,      \* history: checkouts whose plan has been set
    visits, faults,
    bundled       \* is the server the bundle that npm start runs?

state == <<org, payments, checkout, events, tab, timer, call, delivery,
           granted, applied, visits, faults>>
vars == <<state, bundled>>

None == "none"     \* no reference

References == Checkouts \union Elsewhere

(* Who a payment is by, as the provider's customer code says.              *)
Payers == {"owner", "other"}

(* Events the handler tells apart: not_renew is handled as disable, and an *)
(* event of another kind is put on file as an invoice is.                  *)
Kinds == {"charge.success", "subscription.create", "invoice.update",
          "subscription.disable"}

IdleCall == [phase |-> "idle", ref |-> None, ok |-> FALSE, client |-> "gone"]
IdleDelivery ==
  [phase |-> "idle", known |-> FALSE,
   event |-> [kind |-> "charge.success", ref |-> None, meta |-> FALSE]]

(* The metadata of a payment that this application did not ask for.        *)
NoMetadata == <<"none", "none">>

Offer(c) == checkout[c].offer

(* What a verification takes a payment to be for.                          *)
Bought(c) == IF Offer(c) = NoMetadata THEN <<"professional", "monthly">> ELSE Offer(c)

Price(o) == IF o = NoMetadata THEN 0 ELSE 100 * priceFor(o[1], o[2])
Transaction(s, o, customer) ==
  [state |-> s, offer |-> o, amount |-> Price(o), customer |-> customer,
   subscription |-> "none"]
NoTransaction == Transaction("none", NoMetadata, "owner")
Paid(c) == checkout[c].state = "paid"

Row(c, type, status) ==
  [ref |-> c, type |-> type, status |-> status,
   amount |-> IF checkout[c].state = "none" THEN 0 ELSE checkout[c].amount]

(* A payment elsewhere is of the owner or somebody else; the amount of one *)
(* without our metadata is left out.                                       *)
OpenElsewhere == {Transaction("open", o, k) : o \in Offers \union {NoMetadata}, k \in Payers}

Init ==
  /\ org = [plan |-> "free", interval |-> "monthly", customer |-> "none"]
  /\ payments = {}
  /\ checkout = [c \in References |-> NoTransaction]
  /\ bundled \in BOOLEAN
  /\ events = {}
  /\ tab = [at |-> "app", ref |-> None, mount |-> "none"]
  /\ timer = FALSE
  /\ call = [v \in Calls |-> IdleCall]
  /\ delivery = [d \in Deliveries |-> IdleDelivery]
  /\ granted = {}
  /\ applied = {}
  /\ visits = 0
  /\ faults = 0

server == <<org, payments, granted, applied>>
external == <<checkout, events>>

-----------------------------------------------------------------------------
(* Checkout *)

(* The owner's click.  The workspace's own plan is refused, then the       *)
(* provider is asked for a transaction with our metadata.                  *)
StartCheckout ==
  /\ tab.at = "app"
  /\ \E c \in Checkouts, o \in Offers :
       /\ checkout[c].state = "none"
       /\ <<org.plan, org.interval>> # o
       /\ checkout' = [checkout EXCEPT ![c] = Transaction("open", o, "owner")]
       /\ tab' = [at |-> "starting", ref |-> c, mount |-> "none"]
  /\ UNCHANGED <<server, events, timer, call, delivery, visits, faults>>

(* mutant: the browser is sent to the provider before the row is written *)
RecordCheckoutSkipped ==
  /\ tab.at = "starting"
  /\ tab' = [tab EXCEPT !.at = "paystack"]
  /\ timer' = FALSE
  /\ call' = [v \in Calls |-> [call[v] EXCEPT !.client = "gone"]]
  /\ UNCHANGED <<server, external, delivery, visits, faults>>

(* The checkout is put on file and the browser leaves for the provider's   *)
(* page; the document that ran is gone.                                    *)
RecordCheckout ==
  /\ tab.at = "starting"
  /\ payments' = payments \union {Row(tab.ref, "checkout_initialized", "pending")}
  /\ tab' = [tab EXCEPT !.at = "paystack"]
  /\ timer' = FALSE
  /\ call' = [v \in Calls |-> [call[v] EXCEPT !.client = "gone"]]
  /\ UNCHANGED <<org, granted, applied, external, delivery, visits, faults>>

(* The request fails after the transaction was opened: an error is logged. *)
CheckoutFails ==
  /\ tab.at = "starting"
  /\ faults < MaxFaults
  /\ faults' = faults + 1
  /\ tab' = [tab EXCEPT !.at = "app", !.ref = None]
  /\ UNCHANGED <<server, external, timer, call, delivery, visits>>

-----------------------------------------------------------------------------
(* External: the provider *)

(* An event with the metadata of another workspace goes there.             *)
Sent(kind, c, meta) ==
  IF meta /\ c \in Elsewhere THEN {} ELSE {[kind |-> kind, ref |-> c, meta |-> meta]}

Extras ==
  Cardinality({c \in Elsewhere : checkout[c].state # "none"})
    + Cardinality({c \in References : checkout[c].subscription # "none"})

(* A payment of transaction t.  With a plan code the charge starts a       *)
(* subscription, whose events repeat the metadata or are silent about it.  *)
Charged(c, t) ==
  \E s \in {"none", "silent", "repeats"} :
    /\ s = "repeats" => t.offer # NoMetadata
    /\ checkout' = [checkout EXCEPT ![c] = [t EXCEPT !.state = "paid", !.subscription = s]]
    /\ events' = events \union Sent("charge.success", c, t.offer # NoMetadata)
         \union (IF s = "none" THEN {} ELSE Sent("subscription.create", c, s = "repeats"))
    /\ Extras' <= MaxExtras

(* The owner pays.                                                         *)
Pay ==
  /\ tab.at = "paystack"
  /\ checkout[tab.ref].state = "open"
  /\ Charged(tab.ref, checkout[tab.ref])
  /\ UNCHANGED <<server, tab, timer, call, delivery, visits, faults>>

(* The owner or somebody else begins a payment for something else, or pays. *)
PayElsewhere ==
  /\ \E c \in Elsewhere, t \in OpenElsewhere :
       /\ checkout[c] \in {NoTransaction, t}
       /\ \/ Charged(c, t)
          \/ /\ checkout' = [checkout EXCEPT ![c] = t]
             /\ events' = events
             /\ Extras' <= MaxExtras
  /\ UNCHANGED <<server, tab, timer, call, delivery, visits, faults>>

(* A period is charged.  The event of that charge has no metadata of ours: *)
(* it can only find a workspace by the customer it would set, so it and    *)
(* the event of the invoice do the same.                                   *)
Renew ==
  /\ \E c \in References :
       /\ checkout[c].subscription \in {"silent", "repeats"}
       /\ events' = events \union Sent("invoice.update", c, FALSE)
  /\ UNCHANGED <<server, checkout, tab, timer, call, delivery, visits, faults>>

(* A subscription is cancelled, or ends after failed charges.              *)
Lapse ==
  /\ \E c \in References :
       /\ checkout[c].subscription \in {"silent", "repeats"}
       /\ checkout' = [checkout EXCEPT ![c].subscription = "ended"]
       /\ events' = events \union Sent("subscription.disable", c, checkout[c].subscription = "repeats")
  /\ UNCHANGED <<server, tab, timer, call, delivery, visits, faults>>

-----------------------------------------------------------------------------
(* The return page *)

(* The browser leaves one document for another: its promises and timers    *)
(* are gone.                                                               *)
Unloaded == [v \in Calls |-> [call[v] EXCEPT !.client = "gone"]]

(* A mount asks for the verification at once, unless the address has no    *)
(* reference.                                                              *)
Mounted(ref) ==
  [at |-> "return", ref |-> ref, mount |-> IF ref = None THEN "failed" ELSE "asked"]

(* The provider sends the owner back, paid or not; or the owner reloads    *)
(* the page, or opens its address with a reference of any kind.            *)
Return ==
  /\ visits < MaxVisits
  /\ visits' = visits + 1
  /\ \/ tab.at \in {"paystack", "return"} /\ tab' = Mounted(tab.ref)
     \/ tab.at = "app" /\ \E c \in References \union {None} :
          /\ c \in Checkouts => checkout[c].state # "none"
          /\ tab' = Mounted(c)
  /\ timer' = FALSE
  /\ call' = Unloaded
  /\ UNCHANGED <<server, external, delivery, faults>>

(* The owner closes the tab, paid or not, and opens the dashboard later;   *)
(* or leaves a page that failed by its button.                             *)
LeaveForDashboard ==
  /\ tab.at \in {"paystack", "return", "login"}
  /\ tab' = [at |-> "app", ref |-> None, mount |-> "none"]
  /\ timer' = FALSE
  /\ call' = Unloaded
  /\ UNCHANGED <<server, external, delivery, visits, faults>>

(* The effect of a mount.                                                  *)
AskVerify(v) ==
  /\ tab.at = "return"
  /\ tab.mount = "asked"
  /\ call[v].phase = "idle"
  /\ tab' = [tab EXCEPT !.mount = "verifying"]
  /\ call' = [call EXCEPT ![v] =
       [phase |-> "asked", ref |-> tab.ref, ok |-> FALSE, client |-> "page"]]
  /\ UNCHANGED <<server, external, timer, delivery, visits, faults>>

(* verifyTransaction asks the provider, which refuses what it does not     *)
(* know.                                                                   *)
VerifyRead(v) ==
  LET c == call[v].ref IN
  /\ call[v].phase = "asked"
  /\ call' = [call EXCEPT ![v].phase = IF checkout[c].state = "none" THEN "refused" ELSE "read",
                          ![v].ok = Paid(c)]
  /\ UNCHANGED <<server, external, tab, timer, delivery, visits, faults>>

(* mutant: a payment that did not succeed is taken for one *)
VerifyRecordAnyStatus(v) ==
  /\ call[v].phase = "read"
  /\ payments' = payments \union {Row(call[v].ref, "transaction.verify", "success")}
  /\ call' = [call EXCEPT ![v].phase = "recorded"]
  /\ UNCHANGED <<org, granted, applied, external, tab, timer, delivery, visits, faults>>

(* The outcome is put on file, and then a charge that did not succeed is   *)
(* answered with 402.                                                      *)
VerifyRecord(v) ==
  /\ call[v].phase = "read"
  /\ payments' = payments \union
       {Row(call[v].ref, "transaction.verify", IF call[v].ok THEN "success" ELSE "abandoned")}
  /\ call' = [call EXCEPT ![v].phase = IF call[v].ok THEN "recorded" ELSE "refused"]
  /\ UNCHANGED <<org, granted, applied, external, tab, timer, delivery, visits, faults>>

(* The plan and interval of the metadata, or else a month of professional, *)
(* and the customer; for the workspace that asks, whichever it paid for.   *)
VerifyApply(v) ==
  LET c == call[v].ref IN
  /\ call[v].phase = "recorded"
  /\ org' = [plan |-> Bought(c)[1], interval |-> Bought(c)[2], customer |-> checkout[c].customer]
  /\ applied' = applied \union {c}
  /\ call' = [call EXCEPT ![v].phase = "applied"]
  /\ UNCHANGED <<payments, granted, external, tab, timer, delivery, visits, faults>>

(* What the mount that asked shows when its promise is rejected.           *)
Rejected(v) ==
  /\ call' = [call EXCEPT ![v] = IdleCall]
  /\ tab' = IF call[v].client = "page" THEN [tab EXCEPT !.mount = "failed"] ELSE tab

VerifyRefused(v) ==
  /\ call[v].phase = "refused"
  /\ Rejected(v)
  /\ UNCHANGED <<server, external, timer, delivery, visits, faults>>

(* The request fails on the server or its answer is lost.                  *)
VerifyLost(v) ==
  /\ call[v].phase # "idle"
  /\ faults < MaxFaults
  /\ faults' = faults + 1
  /\ Rejected(v)
  /\ UNCHANGED <<server, external, timer, delivery, visits>>

(* mutant: the effect clears its timer when its mount goes away *)
WorkspaceAnsweredClears(v) ==
  /\ call[v].phase = "applied"
  /\ IF call[v].client = "gone"
     THEN /\ call' = [call EXCEPT ![v] = IdleCall]
          /\ UNCHANGED <<tab, timer>>
     ELSE /\ timer' = FALSE
          /\ tab' = IF tab.at = "return" THEN Mounted(tab.ref) ELSE tab
          /\ call' = [w \in Calls |->
               IF w = v THEN IdleCall
               ELSE [call[w] EXCEPT !.client = IF @ = "page" THEN "document" ELSE @]]
  /\ UNCHANGED <<server, external, delivery, visits, faults>>

(* The answer arrives and the workspace is loaded.  App renders, so the    *)
(* page mounts again, and the old mount schedules the way home.            *)
WorkspaceAnswered(v) ==
  /\ call[v].phase = "applied"
  /\ IF call[v].client = "gone"
     THEN /\ call' = [call EXCEPT ![v] = IdleCall]
          /\ UNCHANGED <<tab, timer>>
     ELSE /\ timer' = TRUE
          /\ tab' = IF tab.at = "return" THEN Mounted(tab.ref) ELSE tab
          /\ call' = [w \in Calls |->
               IF w = v THEN IdleCall
               ELSE [call[w] EXCEPT !.client = IF @ = "page" THEN "document" ELSE @]]
  /\ UNCHANGED <<server, external, delivery, visits, faults>>

(* Loading the workspace fails: the owner counts as signed out.            *)
WorkspaceFails(v) ==
  /\ call[v].phase = "applied"
  /\ call[v].client # "gone"
  /\ faults < MaxFaults
  /\ faults' = faults + 1
  /\ timer' = TRUE
  /\ tab' = [at |-> "login", ref |-> None, mount |-> "none"]
  /\ call' = [w \in Calls |->
       IF w = v THEN IdleCall
       ELSE [call[w] EXCEPT !.client = IF @ = "page" THEN "document" ELSE @]]
  /\ UNCHANGED <<server, external, delivery, visits>>

(* The scheduled navigation to the dashboard.                              *)
TimerFires ==
  /\ timer
  /\ timer' = FALSE
  /\ tab' = IF tab.at = "starting" THEN tab
            ELSE [at |-> "app", ref |-> None, mount |-> "none"]
  /\ call' = [w \in Calls |->
       [call[w] EXCEPT !.client = IF @ = "page" THEN "document" ELSE @]]
  /\ UNCHANGED <<server, external, delivery, visits, faults>>

-----------------------------------------------------------------------------
(* The webhook *)

(* An event arrives.  In the bundle the test of its signature throws, for  *)
(* it calls require in an ES module, and the answer is 500.                *)
Receive(d) ==
  /\ ~bundled
  /\ delivery[d].phase = "idle"
  /\ \E e \in events :
       delivery' = [delivery EXCEPT ![d] = [phase |-> "received", known |-> FALSE, event |-> e]]
  /\ UNCHANGED <<server, external, tab, timer, call, visits, faults>>

(* The workspace is found by our metadata, or by the customer: of several  *)
(* workspaces with that customer the query returns any.                    *)
Resolve(d) ==
  LET e == delivery[d].event IN
  /\ delivery[d].phase = "received"
  /\ \E found \in BOOLEAN :
       /\ e.meta => found
       /\ found => e.meta \/ org.customer = checkout[e.ref].customer
       /\ delivery' = [delivery EXCEPT ![d].phase = "found", ![d].known = found]
  /\ UNCHANGED <<server, external, tab, timer, call, visits, faults>>

(* mutant: a row that cannot be written is only logged *)
RecordEventUnwritten(d) ==
  /\ delivery[d].phase = "found"
  /\ delivery' = [delivery EXCEPT ![d].phase = "recorded"]
  /\ UNCHANGED <<server, external, tab, timer, call, visits, faults>>

(* The event is put on file, whether a workspace was found or not.         *)
RecordEvent(d) ==
  LET e == delivery[d].event IN
  /\ delivery[d].phase = "found"
  /\ payments' = payments \union {Row(e.ref, e.kind, "received")}
  /\ delivery' = [delivery EXCEPT ![d].phase = "recorded"]
  /\ UNCHANGED <<org, granted, applied, external, tab, timer, call, visits, faults>>

(* The plan and interval of an event that carries our metadata.            *)
Upgraded(e) ==
  IF e.meta THEN [org EXCEPT !.plan = Offer(e.ref)[1], !.interval = Offer(e.ref)[2]]
  ELSE org

(* What an event changes; the dates and codes nobody reads are left out.   *)
Applied(e) ==
  CASE e.kind = "charge.success" -> [Upgraded(e) EXCEPT !.customer = checkout[e.ref].customer]
    [] e.kind = "subscription.create" -> Upgraded(e)
    [] e.kind = "subscription.disable" -> [org EXCEPT !.plan = "free"]
    [] OTHER -> org

Upgrades(e) == e.meta /\ e.kind \in {"charge.success", "subscription.create"}

ApplyEvent(d) ==
  LET e == delivery[d].event IN
  /\ delivery[d].phase = "recorded"
  /\ org' = IF delivery[d].known THEN Applied(e) ELSE org
  /\ applied' = IF Upgrades(e) THEN applied \union {e.ref} ELSE applied
  /\ delivery' = [delivery EXCEPT ![d].phase = "applied"]
  /\ UNCHANGED <<payments, granted, external, tab, timer, call, visits, faults>>

(* mutant: the event is answered as soon as it is on file *)
AcknowledgeEarly(d) ==
  /\ delivery[d].phase \in {"recorded", "applied"}
  /\ events' = events \ {delivery[d].event}
  /\ delivery' = [delivery EXCEPT ![d] = IdleDelivery]
  /\ UNCHANGED <<server, checkout, tab, timer, call, visits, faults>>

(* 200 reaches the provider, which forgets the event.                      *)
Acknowledge(d) ==
  /\ delivery[d].phase = "applied"
  /\ events' = events \ {delivery[d].event}
  /\ delivery' = [delivery EXCEPT ![d] = IdleDelivery]
  /\ UNCHANGED <<server, checkout, tab, timer, call, visits, faults>>

(* The request fails, the server restarts, or the answer is lost: the      *)
(* provider will send the event again.                                     *)
DeliveryLost(d) ==
  /\ delivery[d].phase # "idle"
  /\ faults < MaxFaults
  /\ faults' = faults + 1
  /\ delivery' = [delivery EXCEPT ![d] = IdleDelivery]
  /\ UNCHANGED <<server, external, tab, timer, call, visits>>

-----------------------------------------------------------------------------
(* A platform administrator sets the plan, and only the plan.              *)
AdminSetsPlan ==
  /\ \E p \in Grants :
       /\ org' = [org EXCEPT !.plan = p]
       /\ granted' = granted \union {p}
  /\ UNCHANGED <<payments, applied, external, tab, timer, call, delivery, visits, faults>>

Browser(v) == AskVerify(v) \/ WorkspaceAnswered(v) \/ VerifyRefused(v)
Verify(v) == VerifyRead(v) \/ VerifyRecord(v) \/ VerifyApply(v)
Webhook(d) == Resolve(d) \/ RecordEvent(d) \/ ApplyEvent(d) \/ Acknowledge(d)

Run ==
  \/ StartCheckout \/ RecordCheckout \/ CheckoutFails
  \/ Pay \/ PayElsewhere \/ Renew \/ Lapse
  \/ Return \/ LeaveForDashboard \/ TimerFires \/ AdminSetsPlan
  \/ \E v \in Calls :
       Browser(v) \/ Verify(v) \/ VerifyLost(v) \/ WorkspaceFails(v)
  \/ \E d \in Deliveries : Receive(d) \/ Webhook(d) \/ DeliveryLost(d)

(* No step rebuilds the server.                                            *)
Next == Run /\ UNCHANGED bundled

Spec == Init /\ [][Next]_vars

(* The server and the browser keep going, and the provider keeps sending   *)
(* each event until it is answered.                                        *)
Fairness ==
  /\ WF_state(RecordCheckout) /\ WF_state(TimerFires)
  /\ \A v \in Calls : WF_state(Browser(v)) /\ WF_state(Verify(v))
  /\ \A d \in Deliveries : WF_state(Webhook(d))
  /\ \A c \in Checkouts :
       SF_state(\E d \in Deliveries :
                 Receive(d) /\ delivery'[d].event.ref = c
                            /\ delivery'[d].event.kind = "charge.success"
                            /\ delivery'[d].event.meta)

FairSpec == Spec /\ Fairness

-----------------------------------------------------------------------------
Events == [kind : Kinds, ref : References \union {None}, meta : BOOLEAN]

TypeOK ==
  /\ org \in [plan : PlanIds, interval : Intervals, customer : Payers \union {"none"}]
  /\ checkout \in [References ->
       [state : {"none", "open", "paid"}, offer : Offers \union {NoMetadata}, amount : Nat,
        customer : Payers, subscription : {"none", "silent", "repeats", "ended"}]]
  /\ events \subseteq Events
  /\ tab \in [at : {"app", "starting", "paystack", "return", "login"},
              ref : References \union {None},
              mount : {"none", "asked", "verifying", "failed"}]
  /\ timer \in BOOLEAN
  /\ call \in [Calls ->
       [phase : {"idle", "asked", "read", "recorded", "refused", "applied"},
        ref : References \union {None}, ok : BOOLEAN,
        client : {"page", "document", "gone"}]]
  /\ delivery \in [Deliveries ->
       [phase : {"idle", "received", "found", "recorded", "applied"},
        known : BOOLEAN, event : Events]]
  /\ granted \subseteq Grants
  /\ applied \subseteq References
  /\ visits \in 0 .. MaxVisits
  /\ faults \in 0 .. MaxFaults
  /\ bundled \in BOOLEAN

(***************************************************************************)
(* A workspace is on a plan above free only because an administrator set   *)
(* it, a checkout of its own for that plan was paid, or a payment made     *)
(* elsewhere succeeded whose reference its owner had verified, which is on *)
(* file then; whatever calls of the return page and webhooks overlap       *)
(* (routes.ts:2403, the two ways a charge changes the plan; the route      *)
(* does not ask for whom the payment was).                                 *)
(***************************************************************************)
Backs(c, plan) ==
  /\ c \in applied
  /\ Paid(c)
  /\ Bought(c)[1] = plan
  /\ c \in Elsewhere => Row(c, "transaction.verify", "success") \in payments

PlanIsBacked ==
  org.plan # "free" =>
    org.plan \in granted \/ \E c \in References : Backs(c, org.plan)

(***************************************************************************)
(* Every charge is on file with the amount asked for (schema.sql:307, "I   *)
(* paid but it says Free"): no owner reaches the payment page without it.  *)
(***************************************************************************)
ChargesAreOnFile ==
  \A c \in Checkouts : Paid(c) =>
    [ref |-> c, type |-> "checkout_initialized", status |-> "pending",
     amount |-> 100 * priceFor(Offer(c)[1], Offer(c)[2])] \in payments

(***************************************************************************)
(* A step that changes the plan finds on file the payment event that       *)
(* explains it, even when the request stops right after (the order of      *)
(* recordPayment and setOrganisationPaystackDetails).                      *)
(***************************************************************************)
Explains(row, plan) ==
  \/ /\ row.type \in {"transaction.verify", "charge.success", "subscription.create"}
     /\ row.status # "abandoned"
     /\ row.ref \in References
     /\ Bought(row.ref)[1] = plan
  \/ row.type = "subscription.disable" /\ plan = "free"

PlanChangesAreOnFile ==
  [][org'.plan # org.plan =>
       \/ AdminSetsPlan
       \/ \E row \in payments : Explains(row, org'.plan)]_vars

(***************************************************************************)
(* What the requests under way know: the induction behind the three.       *)
(***************************************************************************)
CheckoutsAsOffered ==
  \A c \in Checkouts : checkout[c].state # "none" =>
    Offer(c) \in Offers /\ checkout[c].amount = Price(Offer(c))

SubscriptionsArePaid ==
  \A c \in References : checkout[c].subscription # "none" => Paid(c)

TabHasCheckout ==
  /\ tab.at = "return" /\ tab.mount # "failed" => tab.ref \in References
  /\ tab.at \in {"starting", "paystack"} =>
    /\ tab.ref \in Checkouts
    /\ checkout[tab.ref].state # "none"
    /\ tab.at = "paystack" => Row(tab.ref, "checkout_initialized", "pending") \in payments

CallsAreTrue ==
  \A v \in Calls :
    /\ call[v].phase # "idle" => call[v].ref \in References
    /\ call[v].phase = "read" /\ call[v].ok => Paid(call[v].ref)
    /\ call[v].phase = "recorded" =>
         /\ Paid(call[v].ref)
         /\ Row(call[v].ref, "transaction.verify", "success") \in payments

EventIsTrue(e) ==
  /\ e.ref \in References
  /\ Paid(e.ref)
  /\ e.meta => e.ref \in Checkouts

EventsAreTrue ==
  /\ \A e \in events : EventIsTrue(e)
  /\ \A d \in Deliveries : delivery[d].phase # "idle" =>
       /\ EventIsTrue(delivery[d].event)
       /\ delivery[d].phase = "recorded" =>
            Row(delivery[d].event.ref, delivery[d].event.kind, "received") \in payments

IInv ==
  /\ TypeOK
  /\ CheckoutsAsOffered /\ SubscriptionsArePaid /\ TabHasCheckout
  /\ CallsAreTrue /\ EventsAreTrue
  /\ PlanIsBacked /\ ChargesAreOnFile

(***************************************************************************)
(* A paid checkout reaches the workspace in the end, with the tab closed,  *)
(* requests failing half way and events out of order: of the server that   *)
(* start:tsx runs (DEPLOYMENT.md:69), in which the signature can be        *)
(* tested.                                                                 *)
(***************************************************************************)
PaidIsApplied == \A c \in Checkouts : Paid(c) /\ ~bundled ~> c \in applied

(***************************************************************************)
(* paystack.ts:13-15: the webhook keeps the plan correct if the tab is     *)
(* closed before the redirect.  It says so of any server, and the one of   *)
(* npm start (DEPLOYMENT.md:66-67) does not keep it.                       *)
(***************************************************************************)
WebhookKeepsPlan == \A c \in Checkouts : Paid(c) ~> c \in applied

(***************************************************************************)
(* Whoever comes back from the payment page does not stay in front of the  *)
(* spinner, although each verification mounts the page again and the new   *)
(* mount verifies again (App.tsx:342).                                     *)
(***************************************************************************)
BillingReturnEnds ==
  tab.at = "return" ~> (tab.at # "return" \/ tab.mount = "failed")
=============================================================================
