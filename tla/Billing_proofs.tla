---------------------------- MODULE Billing_proofs ----------------------------
(***************************************************************************)
(* Proofs about Billing for any checkouts, offers, overlapping calls and   *)
(* deliveries, in either build, with any references in the address: the    *)
(* inductive invariant, that a paid plan is backed, that charges are on    *)
(* file and that plan changes are.                                         *)
(***************************************************************************)
EXTENDS Billing, TLAPS

USE OffersAssumption, GrantsAssumption, BillingBounds, ReferencesAssumption

-------------------------------------------------------------------------------
(* Types *)

CallType ==
  [phase : {"idle", "asked", "read", "recorded", "refused", "applied"},
   ref : References \union {None}, ok : BOOLEAN,
   client : {"page", "document", "gone"}]

DeliveryType ==
  [phase : {"idle", "received", "found", "recorded", "applied"},
   known : BOOLEAN, event : Events]

CheckoutType ==
  [state : {"none", "open", "paid"}, offer : Offers \union {NoMetadata}, amount : Nat,
   customer : Payers, subscription : {"none", "silent", "repeats", "ended"}]

OrgType == [plan : PlanIds, interval : Intervals, customer : Payers \union {"none"}]

TabType ==
  [at : {"app", "starting", "paystack", "return", "login"},
   ref : References \union {None},
   mount : {"none", "asked", "verifying", "failed"}]

LEMMA PlanNames == PlanIds = {"free", "starter", "professional", "label", "enterprise"}
<1>1. 1 .. 5 = {1, 2, 3, 4, 5}
  OBVIOUS
<1>2. PlanIds = {PLAN_ORDER[1], PLAN_ORDER[2], PLAN_ORDER[3], PLAN_ORDER[4], PLAN_ORDER[5]}
  BY <1>1 DEF PlanIds
<1>3. QED
  BY <1>2 DEF PLAN_ORDER

LEMMA OfferType ==
    ASSUME NEW o \in Offers
    PROVE  /\ o \in PlanIds \X Intervals /\ o # NoMetadata
           /\ 100 * priceFor(o[1], o[2]) \in Nat
           /\ Price(o) = 100 * priceFor(o[1], o[2])
<1>1. o[1] \in {"starter", "professional", "label"} /\ o[2] \in Intervals /\ o \in PlanIds \X Intervals
  BY PlanNames DEF SelfServe
<1>2. Monthly[o[1]] \in {89, 249, 699}
  BY <1>1, PlanNames DEF Monthly
<1>3. annualPrice(89) \in Nat /\ annualPrice(249) \in Nat /\ annualPrice(699) \in Nat
  BY DEF annualPrice
<1>4. priceFor(o[1], o[2]) \in Nat
  BY <1>2, <1>3 DEF priceFor, Unpriced
<1>5. o # NoMetadata
  BY <1>1 DEF NoMetadata
<1>6. QED
  BY <1>1, <1>4, <1>5 DEF Price

LEMMA TransactionType ==
    ASSUME NEW o \in Offers \union {NoMetadata}, NEW k \in Payers, NEW s \in {"none", "open"}
    PROVE  Transaction(s, o, k) \in CheckoutType
<1>1. Price(o) \in Nat
  BY OfferType DEF Price
<1>2. QED
  BY <1>1 DEF Transaction, CheckoutType

LEMMA IdleTypes == IdleCall \in CallType /\ IdleDelivery \in DeliveryType
  BY DEF IdleCall, CallType, IdleDelivery, DeliveryType, Events, Kinds

-------------------------------------------------------------------------------
(* What an action that leaves a part alone preserves *)

\* Payments are opened and paid, never changed otherwise.
Grown ==
  \A c \in References : checkout[c].state # "none" =>
    /\ checkout'[c].state # "none"
    /\ checkout'[c].offer = checkout[c].offer
    /\ checkout'[c].amount = checkout[c].amount
    /\ Paid(c) => Paid(c)'

LEMMA SameGrown == ASSUME checkout' = checkout PROVE Grown
  BY DEF Grown, Paid

LEMMA RowKept ==
    ASSUME Grown, NEW c \in References, checkout[c].state # "none", NEW t, NEW s
    PROVE  Row(c, t, s)' = Row(c, t, s)
  BY DEF Grown, Row

LEMMA PlanKept ==
    ASSUME IInv, Grown, org'.plan = org.plan, granted \subseteq granted',
           applied \subseteq applied', payments \subseteq payments'
    PROVE  PlanIsBacked'
<1>1. ASSUME NEW c \in References, Backs(c, org.plan)
      PROVE  Backs(c, org.plan)'
  <2>1. checkout[c].state # "none" /\ Paid(c) /\ Paid(c)' /\ checkout'[c].offer = checkout[c].offer
    BY <1>1 DEF Backs, Grown, Paid
  <2>2. Bought(c)' = Bought(c)
    BY <2>1 DEF Bought, Offer
  <2>3. (Row(c, "transaction.verify", "success"))' = Row(c, "transaction.verify", "success")
    BY <2>1, RowKept
  <2>4. QED
    BY <1>1, <2>1, <2>2, <2>3 DEF Backs
<1>2. QED
  BY <1>1 DEF IInv, PlanIsBacked

LEMMA PlanPaid ==
    ASSUME NEW c \in References, Backs(c, org.plan)'
    PROVE  PlanIsBacked'
  BY DEF PlanIsBacked

LEMMA ChargesKept ==
    ASSUME IInv, checkout' = checkout, payments \subseteq payments'
    PROVE  ChargesAreOnFile' /\ CheckoutsAsOffered' /\ SubscriptionsArePaid'
  BY DEF IInv, ChargesAreOnFile, CheckoutsAsOffered, SubscriptionsArePaid, Paid, Offer

LEMMA TabKept ==
    ASSUME IInv, Grown, payments \subseteq payments', tab'.ref = tab.ref, tab'.at = tab.at,
           tab'.mount # "failed" => tab.mount # "failed" \/ tab'.at # "return"
    PROVE  TabHasCheckout'
<1>1. tab'.at = "return" /\ tab'.mount # "failed" => tab'.ref \in References
  BY DEF IInv, TabHasCheckout
<1>2. ASSUME tab'.at \in {"starting", "paystack"}
      PROVE  /\ tab'.ref \in Checkouts /\ checkout'[tab'.ref].state # "none"
             /\ tab'.at = "paystack" => (Row(tab.ref, "checkout_initialized", "pending") \in payments)'
  <2>1. tab.ref \in Checkouts /\ checkout[tab.ref].state # "none" /\ tab.ref \in References
    BY <1>2 DEF IInv, TabHasCheckout, References
  <2>2. checkout'[tab.ref].state # "none" /\ checkout'[tab.ref].amount = checkout[tab.ref].amount
    BY <2>1 DEF Grown
  <2>3. tab'.at = "paystack" => Row(tab.ref, "checkout_initialized", "pending") \in payments
    BY DEF IInv, TabHasCheckout
  <2>4. (Row(tab.ref, "checkout_initialized", "pending"))' = Row(tab.ref, "checkout_initialized", "pending")
    BY <2>1, <2>2 DEF Row
  <2>5. QED
    BY <2>1, <2>2, <2>3, <2>4
<1>3. QED
  BY <1>1, <1>2 DEF TabHasCheckout

\* A call that did not move, or is over, still tells the truth.
LEMMA CallsKept ==
    ASSUME IInv, Grown, payments \subseteq payments',
           \A v \in Calls : \/ call'[v].phase = "idle"
                            \/ call'[v].phase = "asked" /\ call'[v].ref \in References
                            \/ /\ call'[v].phase = call[v].phase
                               /\ call'[v].ref = call[v].ref
                               /\ call'[v].ok = call[v].ok
    PROVE  CallsAreTrue'
<1>1. ASSUME NEW v \in Calls, call'[v].phase \notin {"idle", "asked"}
      PROVE  /\ call'[v].phase = call[v].phase /\ call'[v].ok = call[v].ok
             /\ call'[v].ref = call[v].ref /\ call[v].ref \in References
  BY <1>1 DEF IInv, CallsAreTrue
<1>2. ASSUME NEW v \in Calls
      PROVE  /\ call'[v].phase # "idle" => call'[v].ref \in References
             /\ (call[v].phase = "read" /\ call[v].ok => Paid(call[v].ref))'
             /\ (call[v].phase = "recorded" =>
                    /\ Paid(call[v].ref)
                    /\ Row(call[v].ref, "transaction.verify", "success") \in payments)'
  <2>1. CASE call'[v].phase \in {"idle", "asked"}
    BY <2>1 DEF IInv, CallsAreTrue
  <2>2. CASE call'[v].phase \notin {"idle", "asked"}
    <3> DEFINE c == call[v].ref
    <3>1. c \in References /\ call'[v].ref = c /\ call'[v].phase = call[v].phase /\ call'[v].ok = call[v].ok
      BY <1>1, <2>2
    <3>2. CASE Paid(c)
      <4>1. Paid(c) /\ checkout'[call'[v].ref].state = "paid"
            /\ checkout'[call'[v].ref].amount = checkout[call[v].ref].amount
            /\ checkout[call[v].ref].state = "paid"
        BY <3>1, <3>2 DEF Grown, Paid
      <4>2. call[v].phase = "recorded" => Row(call[v].ref, "transaction.verify", "success") \in payments
        BY DEF IInv, CallsAreTrue
      <4>3. (Row(call[v].ref, "transaction.verify", "success"))' = Row(call[v].ref, "transaction.verify", "success")
        BY <3>1, <4>1 DEF Row
      <4>4. QED
        BY <3>1, <4>1, <4>2, <4>3 DEF Paid
    <3>3. CASE ~Paid(c)
      BY <3>1, <3>3 DEF IInv, CallsAreTrue
    <3>4. QED
      BY <3>2, <3>3
  <2>3. QED
    BY <2>1, <2>2
<1>3. QED
  BY <1>2 DEF CallsAreTrue

LEMMA EventsKept ==
    ASSUME IInv, Grown, payments \subseteq payments', events' \subseteq events,
           \A d \in Deliveries : \/ delivery'[d].phase = "idle"
                                 \/ /\ delivery'[d].event = delivery[d].event
                                    /\ delivery[d].phase # "idle"
                                    /\ \/ delivery'[d].phase # "recorded"
                                       \/ delivery'[d].phase = delivery[d].phase
    PROVE  EventsAreTrue'
<1>1. ASSUME NEW e, EventIsTrue(e)
      PROVE  EventIsTrue(e)' /\ checkout[e.ref].state # "none"
  BY <1>1 DEF EventIsTrue, Grown, Paid
<1>2. \A e \in events' : EventIsTrue(e)'
  BY <1>1 DEF IInv, EventsAreTrue
<1>3. ASSUME NEW d \in Deliveries, delivery'[d].phase # "idle"
      PROVE  /\ EventIsTrue(delivery[d].event)'
             /\ (delivery[d].phase = "recorded" =>
                    Row(delivery[d].event.ref, delivery[d].event.kind, "received") \in payments)'
  <2>1. delivery'[d].event = delivery[d].event /\ delivery[d].phase # "idle"
        /\ (delivery'[d].phase = "recorded" => delivery[d].phase = "recorded")
    BY <1>3
  <2>2. EventIsTrue(delivery[d].event)
    BY <2>1 DEF IInv, EventsAreTrue
  <2>3. delivery[d].event.ref \in References
        /\ checkout[delivery[d].event.ref].state = "paid"
        /\ checkout'[delivery[d].event.ref].state = "paid"
        /\ checkout'[delivery[d].event.ref].amount = checkout[delivery[d].event.ref].amount
    BY <2>2 DEF EventIsTrue, Grown, Paid
  <2>4. delivery[d].phase = "recorded" =>
          Row(delivery[d].event.ref, delivery[d].event.kind, "received") \in payments
    BY <2>1 DEF IInv, EventsAreTrue
  <2>5. (Row(delivery[d].event.ref, delivery[d].event.kind, "received"))'
          = Row(delivery[d].event.ref, delivery[d].event.kind, "received")
    BY <2>1, <2>3 DEF Row
  <2>6. QED
    BY <2>1, <2>2, <2>3, <2>4, <2>5 DEF EventIsTrue, Paid
<1>4. QED
  BY <1>2, <1>3 DEF EventsAreTrue

-------------------------------------------------------------------------------
(* The steps, by what they change *)

\* Nothing on the server and nothing at the provider changes.
LEMMA BrowserStep ==
    ASSUME IInv, bundled' = bundled, UNCHANGED <<server, external, delivery>>,
           tab' \in TabType,
           TabHasCheckout', timer' \in BOOLEAN,
           visits' \in 0 .. MaxVisits, faults' \in 0 .. MaxFaults,
           call' \in [Calls -> CallType],
           \A v \in Calls : \/ call'[v].phase = "idle"
                            \/ call'[v].phase = "asked" /\ call'[v].ref \in References
                            \/ /\ call'[v].phase = call[v].phase
                               /\ call'[v].ref = call[v].ref
                               /\ call'[v].ok = call[v].ok
    PROVE  IInv'
<1>1. checkout' = checkout /\ events' = events /\ org' = org /\ payments' = payments
      /\ granted' = granted /\ applied' = applied /\ delivery' = delivery
  BY DEF server, external
<1>2. Grown
  BY <1>1, SameGrown
<1>3. TypeOK'
  BY <1>1 DEF IInv, TypeOK, TabType, CallType
<1>4. CallsAreTrue'
  BY <1>1, <1>2, CallsKept
<1>5. EventsAreTrue'
  BY <1>1, <1>2, EventsKept DEF IInv
<1>6. PlanIsBacked' /\ ChargesAreOnFile' /\ CheckoutsAsOffered' /\ SubscriptionsArePaid'
  BY <1>1, <1>2, PlanKept, ChargesKept
<1>7. QED
  BY <1>3, <1>4, <1>5, <1>6 DEF IInv

\* The same page, and calls that stay where they were.
LEMMA Types ==
    ASSUME IInv
    PROVE  /\ tab \in TabType
           /\ call \in [Calls -> CallType]
           /\ delivery \in [Deliveries -> DeliveryType]
           /\ checkout \in [References -> CheckoutType]
           /\ timer \in BOOLEAN /\ visits \in 0 .. MaxVisits /\ faults \in 0 .. MaxFaults
  BY DEF IInv, TypeOK, TabType, CallType, DeliveryType, CheckoutType

\* Only what kind of client a call has changes, or a call is over.
ClientsMoved ==
  /\ call' \in [Calls -> CallType]
  /\ \A v \in Calls : \/ call'[v].phase = "idle"
                      \/ /\ call'[v].phase = call[v].phase
                         /\ call'[v].ref = call[v].ref
                         /\ call'[v].ok = call[v].ok

LEMMA UnloadedMoves == ASSUME IInv, call' = Unloaded PROVE ClientsMoved
  BY Types DEF Unloaded, ClientsMoved, CallType

LEMMA CheckoutFailsStep == ASSUME IInv, bundled' = bundled, CheckoutFails PROVE IInv'
<1>1. tab' = [tab EXCEPT !.at = "app", !.ref = None]
  BY DEF CheckoutFails
<1>2. TabHasCheckout'
  BY <1>1, Types DEF TabHasCheckout, TabType
<1>3. tab' \in TabType
  BY <1>1, Types DEF TabType
<1>4. faults' \in 0 .. MaxFaults
  BY Types DEF CheckoutFails
<1>5. QED
  BY <1>2, <1>3, <1>4, Types, BrowserStep DEF CheckoutFails

LEMMA MountedTypes ==
    ASSUME NEW r \in References \union {None}
    PROVE  /\ Mounted(r) \in TabType /\ Mounted(r).at = "return"
           /\ Mounted(r).mount # "failed" => Mounted(r).ref \in References
  BY DEF Mounted, TabType

LEMMA ReturnStep == ASSUME IInv, bundled' = bundled, Return PROVE IInv'
<1>1. PICK r \in References \union {None} : tab' = Mounted(r)
  BY Types DEF Return, TabType
<1>2. tab' \in TabType /\ TabHasCheckout'
  BY <1>1, MountedTypes DEF TabHasCheckout
<1>3. ClientsMoved /\ visits' \in 0 .. MaxVisits
  BY UnloadedMoves, Types DEF Return
<1>4. QED
  BY <1>2, <1>3, Types, BrowserStep DEF Return, ClientsMoved

LEMMA LeaveStep == ASSUME IInv, bundled' = bundled, LeaveForDashboard PROVE IInv'
<1>1. TabHasCheckout'
  BY DEF LeaveForDashboard, TabHasCheckout
<1>2. ClientsMoved
  BY UnloadedMoves DEF LeaveForDashboard
<1>3. QED
  BY <1>1, <1>2, Types, BrowserStep DEF LeaveForDashboard, ClientsMoved, TabType

LEMMA TimerStep == ASSUME IInv, bundled' = bundled, TimerFires PROVE IInv'
<1>1. ClientsMoved
  BY Types DEF TimerFires, ClientsMoved, CallType
<1>2. TabHasCheckout'
  <2>1. CASE tab.at = "starting"
    BY <2>1 DEF TimerFires, server, external, IInv, TabHasCheckout
  <2>2. CASE tab.at # "starting"
    BY <2>2 DEF TimerFires, TabHasCheckout
  <2>3. QED
    BY <2>1, <2>2
<1>3. tab' \in TabType
  BY Types DEF TimerFires, TabType
<1>4. QED
  BY <1>1, <1>2, <1>3, Types, BrowserStep DEF TimerFires, ClientsMoved

LEMMA AskStep == ASSUME IInv, bundled' = bundled, NEW v \in Calls, AskVerify(v) PROVE IInv'
<1>1. tab.ref \in References /\ tab'.ref = tab.ref /\ tab'.at = tab.at
  BY Types DEF AskVerify, IInv, TabHasCheckout
<1>2. TabHasCheckout'
  BY <1>1 DEF AskVerify, IInv, TabHasCheckout, server, external, Row
<1>3. call' \in [Calls -> CallType]
      /\ \A w \in Calls : (call'[w].phase = "asked" /\ call'[w].ref \in References) \/ call'[w] = call[w]
  BY <1>1, Types DEF AskVerify, CallType
<1>4. tab' \in TabType
  BY Types DEF AskVerify, TabType
<1>5. QED
  BY <1>2, <1>3, <1>4, Types, BrowserStep DEF AskVerify

\* A promise is rejected: the call is over, and at most its mount says so.
LEMMA RejectedStep ==
    ASSUME IInv, bundled' = bundled, NEW v \in Calls, VerifyRefused(v) \/ VerifyLost(v)
    PROVE  IInv'
<1>1. Rejected(v) /\ UNCHANGED <<server, external, delivery, timer, visits>>
      /\ faults' \in 0 .. MaxFaults
  BY Types DEF VerifyRefused, VerifyLost
<1>2. ClientsMoved
  BY <1>1, Types, IdleTypes DEF Rejected, ClientsMoved, IdleCall
<1>3. tab' \in TabType
      /\ tab'.at = tab.at /\ tab'.ref = tab.ref /\ (tab'.mount = "failed" \/ tab'.mount = tab.mount)
  BY <1>1, Types DEF Rejected, TabType
<1>4. TabHasCheckout'
  BY <1>1, <1>3 DEF IInv, TabHasCheckout, server, external, Row
<1>5. QED
  BY <1>1, <1>2, <1>3, <1>4, Types, BrowserStep DEF ClientsMoved

LEMMA WorkspaceStep ==
    ASSUME IInv, bundled' = bundled, NEW v \in Calls, WorkspaceAnswered(v) \/ WorkspaceFails(v)
    PROVE  IInv'
<1>1. UNCHANGED <<server, external, delivery, visits>>
  BY DEF WorkspaceAnswered, WorkspaceFails
<1>2. faults' \in 0 .. MaxFaults
  BY Types DEF WorkspaceAnswered, WorkspaceFails
<1>3. CASE call' = [call EXCEPT ![v] = IdleCall] /\ UNCHANGED <<tab, timer>>
  <2>1. ClientsMoved
    BY <1>3, Types, IdleTypes DEF ClientsMoved, IdleCall
  <2>2. TabHasCheckout'
    BY <1>1, <1>3 DEF IInv, TabHasCheckout, server, external, Row
  <2>3. QED
    BY <1>1, <1>2, <1>3, <2>1, <2>2, Types, BrowserStep DEF ClientsMoved
<1>4. CASE /\ timer' = TRUE
           /\ tab' = [at |-> "login", ref |-> None, mount |-> "none"]
                \/ tab' = (IF tab.at = "return" THEN Mounted(tab.ref) ELSE tab)
           /\ call' = [w \in Calls |->
                IF w = v THEN IdleCall
                ELSE [call[w] EXCEPT !.client = IF @ = "page" THEN "document" ELSE @]]
  <2>1. \A w \in Calls : [call[w] EXCEPT !.client = IF @ = "page" THEN "document" ELSE @] \in CallType
    BY Types DEF CallType
  <2>2. call' \in [Calls -> CallType]
    BY <1>4, <2>1, IdleTypes
  <2>3. ClientsMoved
    <3>1. call'[v].phase = "idle"
      BY <1>4 DEF IdleCall
    <3>2. ASSUME NEW w \in Calls, w # v
          PROVE  call'[w].phase = call[w].phase /\ call'[w].ref = call[w].ref /\ call'[w].ok = call[w].ok
      <4>1. call'[w] = [call[w] EXCEPT !.client = IF @ = "page" THEN "document" ELSE @]
        BY <1>4, <3>2
      <4>2. call[w] \in CallType
        BY Types
      <4>3. QED
        BY <4>1, <4>2 DEF CallType
    <3>3. QED
      BY <2>2, <3>1, <3>2 DEF ClientsMoved
  <2>4. CASE tab' = Mounted(tab.ref)
    <3>1. tab.ref \in References \union {None}
      BY Types DEF TabType
    <3>2. tab' \in TabType /\ TabHasCheckout'
      BY <2>4, <3>1, MountedTypes DEF TabHasCheckout
    <3>3. QED
      BY <1>1, <1>2, <1>4, <2>3, <3>2, Types, BrowserStep DEF ClientsMoved
  <2>5. CASE tab' = tab \/ tab' = [at |-> "login", ref |-> None, mount |-> "none"]
    <3>1. tab' \in TabType
      BY <2>5, Types DEF TabType
    <3>2. TabHasCheckout'
      BY <1>1, <2>5 DEF IInv, TabHasCheckout, server, external, Row
    <3>3. QED
      BY <1>1, <1>2, <1>4, <2>3, <3>1, <3>2, Types, BrowserStep DEF ClientsMoved
  <2>6. QED
    BY <1>4, <2>4, <2>5
<1>5. QED
  BY <1>3, <1>4 DEF WorkspaceAnswered, WorkspaceFails

-------------------------------------------------------------------------------
(* Steps of the server and of the provider *)

LEMMA RowType ==
    ASSUME IInv, NEW c \in Checkouts, checkout[c].state # "none", NEW t, NEW s
    PROVE  /\ Row(c, t, s) = [ref |-> c, type |-> t, status |-> s, amount |-> checkout[c].amount]
           /\ Offer(c) \in Offers
           /\ checkout[c].amount = 100 * priceFor(Offer(c)[1], Offer(c)[2])
  BY OfferType DEF Row, IInv, CheckoutsAsOffered

LEMMA SentType ==
    ASSUME NEW c \in References, NEW kind \in Kinds, NEW meta \in BOOLEAN
    PROVE  \A e \in Sent(kind, c, meta) : e \in Events /\ e.ref = c /\ (e.meta => c \in Checkouts)
<1>1. [kind |-> kind, ref |-> c, meta |-> meta] \in Events
  BY DEF Events
<1>2. QED
  BY <1>1 DEF Sent, References

\* A transaction that is begun: of a checkout with an offer, or elsewhere.
LEMMA OpenedStep ==
    ASSUME IInv, bundled' = bundled, NEW c \in References, checkout[c].state \in {"none", "open"},
           NEW t \in CheckoutType, t.state = "open", t.subscription = "none",
           c \in Checkouts => t.offer \in Offers /\ t.amount = Price(t.offer),
           checkout[c].state = "open" => checkout[c] = t,
           checkout' = [checkout EXCEPT ![c] = t],
           tab' \in TabType, TabHasCheckout',
           UNCHANGED <<org, payments, granted, applied, events, timer, call, delivery, visits, faults>>
    PROVE  IInv'
<1>1. checkout' \in [References -> CheckoutType] /\ checkout'[c] = t
      /\ \A b \in References \ {c} : checkout'[b] = checkout[b]
  BY Types
<1>2. Grown
  BY <1>1 DEF Grown, Paid
<1>3. TypeOK'
  BY <1>1 DEF IInv, TypeOK, CheckoutType, TabType
<1>4. CheckoutsAsOffered' /\ SubscriptionsArePaid'
  BY <1>1 DEF IInv, CheckoutsAsOffered, SubscriptionsArePaid, Paid, Offer, References
<1>5. ChargesAreOnFile'
  BY <1>1 DEF IInv, ChargesAreOnFile, Paid, Offer, References
<1>6. CallsAreTrue' /\ EventsAreTrue' /\ PlanIsBacked'
  BY <1>2, CallsKept, EventsKept, PlanKept DEF IInv
<1>7. QED
  BY <1>3, <1>4, <1>5, <1>6 DEF IInv

LEMMA StartStep == ASSUME IInv, bundled' = bundled, StartCheckout PROVE IInv'
<1>1. PICK c \in Checkouts, o \in Offers :
        /\ checkout[c].state = "none"
        /\ checkout' = [checkout EXCEPT ![c] = Transaction("open", o, "owner")]
        /\ tab' = [at |-> "starting", ref |-> c, mount |-> "none"]
  BY DEF StartCheckout
<1> DEFINE t == Transaction("open", o, "owner")
<1>2. t \in CheckoutType
  BY TransactionType DEF Payers
<1>3. t.state = "open" /\ t.subscription = "none" /\ t.offer = o /\ t.amount = Price(o)
  BY DEF Transaction
<1>4. c \in References /\ tab' \in TabType
  BY <1>1 DEF References, TabType
<1>5. TabHasCheckout'
  BY <1>1, <1>3, <1>4, Types DEF TabHasCheckout
<1>6. UNCHANGED <<org, payments, granted, applied, events, timer, call, delivery, visits, faults>>
  BY DEF StartCheckout, server
<1>7. checkout' = [checkout EXCEPT ![c] = t]
  BY <1>1
<1>8. QED
  <2> HIDE DEF t
  <2>1. QED
    BY <1>1, <1>7, <1>2, <1>3, <1>4, <1>5, <1>6, OpenedStep

LEMMA RecordCheckoutStep == ASSUME IInv, bundled' = bundled, RecordCheckout PROVE IInv'
<1>1. /\ payments' = payments \union {Row(tab.ref, "checkout_initialized", "pending")}
      /\ tab' = [tab EXCEPT !.at = "paystack"] /\ tab.at = "starting"
      /\ timer' = FALSE /\ call' = Unloaded
      /\ UNCHANGED <<org, granted, applied, checkout, events, delivery, visits, faults>>
  BY DEF RecordCheckout, Unloaded, external
<1>2. ClientsMoved
  BY <1>1, UnloadedMoves
<1>3. Grown
  BY <1>1, SameGrown
<1>4. tab' \in TabType
      /\ tab'.at = "paystack" /\ tab'.ref = tab.ref
  BY <1>1, Types DEF TabType
<1>5. TypeOK'
  BY <1>1, <1>2, <1>4 DEF IInv, TypeOK, ClientsMoved, CallType
<1>6. TabHasCheckout'
  <2>1. tab.ref \in Checkouts /\ checkout[tab.ref].state # "none"
    BY <1>1 DEF IInv, TabHasCheckout
  <2>2. (Row(tab.ref, "checkout_initialized", "pending"))' = Row(tab.ref, "checkout_initialized", "pending")
    BY <1>1, <1>4 DEF Row
  <2>3. QED
    BY <1>1, <1>4, <2>1, <2>2 DEF TabHasCheckout
<1>7. CallsAreTrue' /\ EventsAreTrue' /\ PlanIsBacked' /\ ChargesAreOnFile' /\ CheckoutsAsOffered'
      /\ SubscriptionsArePaid'
  BY <1>1, <1>2, <1>3, CallsKept, EventsKept, PlanKept, ChargesKept DEF IInv, ClientsMoved
<1>8. QED
  BY <1>5, <1>6, <1>7 DEF IInv

\* A payment and the start of a subscription: events of what was paid.
LEMMA ChargedStep ==
    ASSUME IInv, bundled' = bundled, NEW c \in References, checkout[c].state \in {"none", "open"},
           NEW t \in CheckoutType, Charged(c, t),
           c \in Checkouts => t = checkout[c] /\ t.state = "open" /\
             Row(c, "checkout_initialized", "pending") \in payments,
           checkout[c].state = "open" => checkout[c] = t,
           UNCHANGED <<org, payments, granted, applied, tab, timer, call, delivery, visits, faults>>
    PROVE  IInv'
<1>1. PICK s \in {"none", "silent", "repeats"} :
        /\ checkout' = [checkout EXCEPT ![c] = [t EXCEPT !.state = "paid", !.subscription = s]]
        /\ events' = events \union Sent("charge.success", c, t.offer # NoMetadata)
             \union (IF s = "none" THEN {} ELSE Sent("subscription.create", c, s = "repeats"))
  BY DEF Charged
<1>2. /\ checkout' \in [References -> CheckoutType]
      /\ checkout'[c].state = "paid" /\ checkout'[c].offer = t.offer
      /\ checkout'[c].amount = t.amount
      /\ \A b \in References \ {c} : checkout'[b] = checkout[b]
  BY <1>1, Types DEF CheckoutType
<1>3. Grown
  BY <1>2 DEF Grown, Paid
<1>4. \A e \in events' : e \in events \/ (e \in Events /\ e.ref = c /\ (e.meta => c \in Checkouts))
  <2>1. "charge.success" \in Kinds /\ "subscription.create" \in Kinds
    BY DEF Kinds
  <2>2. (s = "repeats") \in BOOLEAN /\ (t.offer # NoMetadata) \in BOOLEAN
    OBVIOUS
  <2>3. \A e \in Sent("charge.success", c, t.offer # NoMetadata) :
          e \in Events /\ e.ref = c /\ (e.meta => c \in Checkouts)
    BY <2>1, <2>2, SentType
  <2>4. \A e \in Sent("subscription.create", c, s = "repeats") :
          e \in Events /\ e.ref = c /\ (e.meta => c \in Checkouts)
    BY <2>1, <2>2, SentType
  <2>5. QED
    BY <1>1, <2>3, <2>4
<1>5. TypeOK'
  BY <1>2, <1>4 DEF IInv, TypeOK, CheckoutType
<1>6. CheckoutsAsOffered' /\ SubscriptionsArePaid'
  BY <1>2 DEF IInv, CheckoutsAsOffered, SubscriptionsArePaid, Paid, Offer, References
<1>7. ChargesAreOnFile'
  <2>1. c \in Checkouts =>
          [ref |-> c, type |-> "checkout_initialized", status |-> "pending",
           amount |-> 100 * priceFor(Offer(c)[1], Offer(c)[2])] \in payments
    BY RowType
  <2>2. QED
    BY <1>2, <2>1 DEF IInv, ChargesAreOnFile, Paid, Offer, References
<1>8. TabHasCheckout' /\ CallsAreTrue' /\ PlanIsBacked'
  BY <1>3, TabKept, CallsKept, PlanKept
<1>9. EventsAreTrue'
  <2>1. \A e \in events' : EventIsTrue(e)'
    BY <1>2, <1>3, <1>4 DEF IInv, EventsAreTrue, EventIsTrue, Paid, Grown
  <2>2. (\A d \in Deliveries : delivery[d].phase # "idle" =>
          /\ EventIsTrue(delivery[d].event)
          /\ delivery[d].phase = "recorded" =>
               Row(delivery[d].event.ref, delivery[d].event.kind, "received") \in payments)'
    <3> SUFFICES ASSUME NEW d \in Deliveries, delivery[d].phase # "idle"
                 PROVE  (/\ EventIsTrue(delivery[d].event)
                         /\ delivery[d].phase = "recorded" =>
                              Row(delivery[d].event.ref, delivery[d].event.kind, "received") \in payments)'
      OBVIOUS
    <3>1. EventIsTrue(delivery[d].event)
          /\ (delivery[d].phase = "recorded" =>
               Row(delivery[d].event.ref, delivery[d].event.kind, "received") \in payments)
      BY DEF IInv, EventsAreTrue
    <3>2. delivery[d].event.ref \in References /\ checkout[delivery[d].event.ref].state = "paid"
      BY <3>1 DEF EventIsTrue, Paid
    <3>3. checkout'[delivery[d].event.ref] = checkout[delivery[d].event.ref]
      BY <1>2, <3>2
    <3>4. QED
      BY <3>1, <3>2, <3>3 DEF EventIsTrue, Paid, Row
  <2>3. QED
    BY <2>1, <2>2 DEF EventsAreTrue
<1>10. QED
  BY <1>5, <1>6, <1>7, <1>8, <1>9 DEF IInv

LEMMA PayStep == ASSUME IInv, bundled' = bundled, Pay PROVE IInv'
<1>1. tab.ref \in Checkouts /\ Charged(tab.ref, checkout[tab.ref]) /\ checkout[tab.ref].state = "open"
      /\ Row(tab.ref, "checkout_initialized", "pending") \in payments
  BY DEF Pay, IInv, TabHasCheckout
<1>2. tab.ref \in References /\ checkout[tab.ref] \in CheckoutType
  BY <1>1, Types DEF References
<1>3. QED
  BY <1>1, <1>2, ChargedStep DEF Pay, server

LEMMA PayElsewhereStep == ASSUME IInv, bundled' = bundled, PayElsewhere PROVE IInv'
<1>1. PICK c \in Elsewhere, t \in OpenElsewhere :
        /\ checkout[c] \in {NoTransaction, t}
        /\ \/ Charged(c, t)
           \/ checkout' = [checkout EXCEPT ![c] = t] /\ events' = events
  BY DEF PayElsewhere
<1>2. c \in References /\ c \notin Checkouts
  BY DEF References
<1>3. t \in CheckoutType /\ t.state = "open" /\ t.subscription = "none"
  <2>1. PICK o \in Offers \union {NoMetadata}, k \in Payers : t = Transaction("open", o, k)
    BY DEF OpenElsewhere
  <2>2. QED
    BY <2>1, TransactionType DEF Transaction
<1>4. checkout[c].state \in {"none", "open"} /\ (checkout[c].state = "open" => checkout[c] = t)
  BY <1>1, <1>3 DEF NoTransaction, Transaction
<1>5. UNCHANGED <<org, payments, granted, applied, tab, timer, call, delivery, visits, faults>>
  BY DEF PayElsewhere, server
<1>6. CASE Charged(c, t)
  BY <1>2, <1>3, <1>4, <1>5, <1>6, ChargedStep
<1>7. CASE checkout' = [checkout EXCEPT ![c] = t] /\ events' = events
  <2>1. Grown
    BY <1>2, <1>3, <1>4, <1>7, Types DEF Grown, Paid
  <2>2. TabHasCheckout' /\ tab' \in TabType
    BY <1>5, <2>1, TabKept, Types
  <2>3. QED
    BY <1>2, <1>3, <1>4, <1>5, <1>7, <2>2, OpenedStep
<1>8. QED
  BY <1>1, <1>6, <1>7

\* An event of a checkout that was paid: a subscription's.
LEMMA SubscribedIsPaid ==
    ASSUME IInv, NEW c \in References, checkout[c].subscription # "none"
    PROVE  Paid(c)
  BY DEF IInv, SubscriptionsArePaid

LEMMA RenewStep == ASSUME IInv, bundled' = bundled, Renew PROVE IInv'
<1>1. PICK c \in References : checkout[c].subscription \in {"silent", "repeats"}
        /\ events' = events \union Sent("invoice.update", c, FALSE)
  BY DEF Renew
<1>2. UNCHANGED <<org, payments, granted, applied, checkout, tab, timer, call, delivery, visits, faults>>
  BY DEF Renew, server
<1>3. Grown
  BY <1>2, SameGrown
<1>4. \A e \in events' : e \in events \/ (e \in Events /\ e.ref = c /\ (e.meta => c \in Checkouts))
  <2>1. "invoice.update" \in Kinds /\ FALSE \in BOOLEAN
    BY DEF Kinds
  <2>2. QED
    BY <1>1, <2>1, SentType
<1>5. TypeOK'
  BY <1>2, <1>4 DEF IInv, TypeOK
<1>6. EventsAreTrue'
  BY <1>1, <1>2, <1>4, SubscribedIsPaid DEF IInv, EventsAreTrue, EventIsTrue, Paid, Row
<1>7. TabHasCheckout' /\ CallsAreTrue' /\ PlanIsBacked' /\ ChargesAreOnFile' /\ CheckoutsAsOffered'
      /\ SubscriptionsArePaid'
  BY <1>2, <1>3, TabKept, CallsKept, PlanKept, ChargesKept DEF IInv, SubscriptionsArePaid, Paid
<1>8. QED
  BY <1>5, <1>6, <1>7 DEF IInv

LEMMA LapseStep == ASSUME IInv, bundled' = bundled, Lapse PROVE IInv'
<1>1. PICK c \in References : checkout[c].subscription \in {"silent", "repeats"}
        /\ checkout' = [checkout EXCEPT ![c].subscription = "ended"]
        /\ events' = events \union
             Sent("subscription.disable", c, checkout[c].subscription = "repeats")
  BY DEF Lapse
<1>2. UNCHANGED <<org, payments, granted, applied, tab, timer, call, delivery, visits, faults>>
  BY DEF Lapse, server
<1>3. /\ checkout' \in [References -> CheckoutType]
      /\ \A b \in References : /\ checkout'[b].state = checkout[b].state
                              /\ checkout'[b].offer = checkout[b].offer
                              /\ checkout'[b].amount = checkout[b].amount
                              /\ (checkout'[b].subscription # "none" => checkout[b].subscription # "none")
  BY <1>1, Types DEF CheckoutType
<1>4. Grown
  BY <1>3 DEF Grown, Paid
<1>5. \A e \in events' : e \in events \/ (e \in Events /\ e.ref = c /\ (e.meta => c \in Checkouts))
  <2>1. "subscription.disable" \in Kinds /\ (checkout[c].subscription = "repeats") \in BOOLEAN
    BY DEF Kinds
  <2>2. QED
    BY <1>1, <2>1, SentType
<1>6. TypeOK'
  BY <1>2, <1>3, <1>5 DEF IInv, TypeOK, CheckoutType
<1>7. EventsAreTrue'
  <2>1. \A e \in events' : EventIsTrue(e)'
    BY <1>1, <1>3, <1>5, SubscribedIsPaid DEF IInv, EventsAreTrue, EventIsTrue, Paid
  <2>2. ASSUME NEW d \in Deliveries, delivery[d].phase # "idle"
        PROVE  (/\ EventIsTrue(delivery[d].event)
                /\ delivery[d].phase = "recorded" =>
                     Row(delivery[d].event.ref, delivery[d].event.kind, "received") \in payments)'
    BY <1>2, <1>3, <2>2 DEF IInv, EventsAreTrue, EventIsTrue, Paid, Row
  <2>3. QED
    BY <1>2, <2>1, <2>2 DEF EventsAreTrue
<1>8. CheckoutsAsOffered' /\ SubscriptionsArePaid' /\ ChargesAreOnFile'
  BY <1>2, <1>3 DEF IInv, CheckoutsAsOffered, SubscriptionsArePaid, ChargesAreOnFile, Paid, Offer, References
<1>9. TabHasCheckout' /\ CallsAreTrue' /\ PlanIsBacked'
  BY <1>2, <1>4, TabKept, CallsKept, PlanKept
<1>10. QED
  BY <1>6, <1>7, <1>8, <1>9 DEF IInv

\* A call moves and nothing else does but the rows on file.
LEMMA CallStep ==
    ASSUME IInv, NEW v \in Calls, NEW q \in CallType, call' = [call EXCEPT ![v] = q],
           payments \subseteq payments', q.ref = call[v].ref, call[v].phase # "idle",
           q.phase = "read" /\ q.ok => Paid(q.ref),
           q.phase = "recorded" =>
             Paid(q.ref) /\ Row(q.ref, "transaction.verify", "success") \in payments',
           UNCHANGED <<checkout, events, tab, timer, delivery, visits, faults>>
    PROVE  /\ CallsAreTrue' /\ EventsAreTrue' /\ TabHasCheckout' /\ ChargesAreOnFile'
           /\ CheckoutsAsOffered' /\ SubscriptionsArePaid'
           /\ call' \in [Calls -> CallType]
<1>1. Grown
  BY SameGrown
<1>2. call' \in [Calls -> CallType] /\ call'[v] = q /\ \A w \in Calls \ {v} : call'[w] = call[w]
  BY Types
<1>3. q.ref \in References
  BY DEF IInv, CallsAreTrue
<1>4. CallsAreTrue'
  <2>1. ASSUME NEW w \in Calls
        PROVE  (/\ call[w].phase # "idle" => call[w].ref \in References
                /\ call[w].phase = "read" /\ call[w].ok => Paid(call[w].ref)
                /\ call[w].phase = "recorded" =>
                     /\ Paid(call[w].ref)
                     /\ Row(call[w].ref, "transaction.verify", "success") \in payments)'
    <3>1. CASE w = v
      BY <1>2, <1>3, <3>1 DEF Paid, Row
    <3>2. CASE w # v
      BY <1>2, <3>2 DEF IInv, CallsAreTrue, Paid, Row
    <3>3. QED
      BY <3>1, <3>2
  <2>2. QED
    BY <2>1 DEF CallsAreTrue
<1>5. EventsAreTrue'
  BY <1>1, EventsKept DEF IInv
<1>6. TabHasCheckout' /\ ChargesAreOnFile' /\ CheckoutsAsOffered' /\ SubscriptionsArePaid'
  BY <1>1, TabKept, ChargesKept
<1>7. QED
  BY <1>2, <1>4, <1>5, <1>6

\* Whatever the metadata says, a plan with a price is bought.
LEMMA BoughtType ==
    ASSUME IInv, NEW c \in References
    PROVE  Bought(c)[1] \in PlanIds /\ Bought(c)[2] \in Intervals
<1>1. Offer(c) \in Offers \union {NoMetadata}
  BY Types DEF Offer, CheckoutType
<1>2. QED
  BY <1>1, OfferType, PlanNames DEF Bought, Intervals

LEMMA VerifyStep == ASSUME IInv, bundled' = bundled, NEW v \in Calls, Verify(v) PROVE IInv'
<1> USE DEF server, external
<1>1. call[v] \in CallType
  BY Types
<1>2. CASE VerifyRead(v)
  <2> DEFINE q == [call[v] EXCEPT !.phase = IF checkout[call[v].ref].state = "none" THEN "refused" ELSE "read",
                                  !.ok = Paid(call[v].ref)]
  <2>1. call' = [call EXCEPT ![v] = q] /\ call[v].phase = "asked"
        /\ UNCHANGED <<org, payments, granted, applied, checkout, events, tab, timer, delivery, visits, faults>>
    BY <1>2, Types DEF VerifyRead
  <2>2. q \in CallType /\ q.phase # "recorded" /\ q.ref = call[v].ref /\ (q.ok => Paid(q.ref))
    BY <1>1 DEF CallType, Paid
  <2>3. /\ CallsAreTrue' /\ EventsAreTrue' /\ TabHasCheckout' /\ ChargesAreOnFile'
        /\ CheckoutsAsOffered' /\ SubscriptionsArePaid' /\ call' \in [Calls -> CallType]
    <3> HIDE DEF q
    <3>1. QED
      BY <2>1, <2>2, CallStep
  <2>4. TypeOK'
    BY <2>1, <2>3 DEF IInv, TypeOK, CallType
  <2>5. PlanIsBacked'
    BY <2>1, SameGrown, PlanKept
  <2>6. QED
    BY <2>3, <2>4, <2>5 DEF IInv
<1>3. CASE VerifyRecord(v)
  <2> DEFINE q == [call[v] EXCEPT !.phase = IF call[v].ok THEN "recorded" ELSE "refused"]
  <2>1. call' = [call EXCEPT ![v] = q] /\ call[v].phase = "read"
        /\ UNCHANGED <<org, granted, applied, checkout, events, tab, timer, delivery, visits, faults>>
        /\ payments' = payments \union
             {Row(call[v].ref, "transaction.verify", IF call[v].ok THEN "success" ELSE "abandoned")}
    BY <1>3, Types DEF VerifyRecord
  <2>2. q \in CallType /\ q.phase # "read" /\ q.ref = call[v].ref
        /\ (q.phase = "recorded" => call[v].ok)
    BY <1>1 DEF CallType
  <2>3. q.phase = "recorded" =>
          Paid(q.ref) /\ Row(q.ref, "transaction.verify", "success") \in payments'
    BY <2>1, <2>2 DEF IInv, CallsAreTrue
  <2>4. /\ CallsAreTrue' /\ EventsAreTrue' /\ TabHasCheckout' /\ ChargesAreOnFile'
        /\ CheckoutsAsOffered' /\ SubscriptionsArePaid' /\ call' \in [Calls -> CallType]
    <3> HIDE DEF q
    <3>1. QED
      BY <2>1, <2>2, <2>3, CallStep
  <2>5. TypeOK'
    BY <2>1, <2>4 DEF IInv, TypeOK, CallType
  <2>6. PlanIsBacked'
    BY <2>1, SameGrown, PlanKept
  <2>7. QED
    BY <2>4, <2>5, <2>6 DEF IInv
<1>4. CASE VerifyApply(v)
  <2> DEFINE q == [call[v] EXCEPT !.phase = "applied"]
             c == call[v].ref
  <2>1. /\ call' = [call EXCEPT ![v] = q] /\ call[v].phase = "recorded"
        /\ UNCHANGED <<payments, granted, checkout, events, tab, timer, delivery, visits, faults>>
        /\ org' = [plan |-> Bought(c)[1], interval |-> Bought(c)[2], customer |-> checkout[c].customer]
        /\ applied' = applied \union {c}
    BY <1>4, Types DEF VerifyApply
  <2>2. q \in CallType /\ q.phase = "applied" /\ q.ref = call[v].ref
    BY <1>1 DEF CallType
  <2>3. c \in References /\ Paid(c) /\ Row(c, "transaction.verify", "success") \in payments
    BY <2>1 DEF IInv, CallsAreTrue
  <2>4. /\ CallsAreTrue' /\ EventsAreTrue' /\ TabHasCheckout' /\ ChargesAreOnFile'
        /\ CheckoutsAsOffered' /\ SubscriptionsArePaid' /\ call' \in [Calls -> CallType]
    <3> HIDE DEF q
    <3>1. QED
      BY <2>1, <2>2, CallStep
  <2>5. org' \in OrgType /\ org'.plan = Bought(c)[1]
    BY <2>1, <2>3, BoughtType, Types DEF OrgType, CheckoutType
  <2>6. TypeOK'
    BY <2>1, <2>3, <2>4, <2>5 DEF IInv, TypeOK, CallType, OrgType
  <2>7. PlanIsBacked'
    <3>1. PICK r \in References : r = c
      BY <2>3
    <3>2. Backs(r, org.plan)'
      BY <2>1, <2>3, <2>5, <3>1 DEF Backs, Bought, Offer, Paid, Row
    <3>3. QED
      BY <3>1, <3>2, PlanPaid
  <2>8. QED
    BY <2>4, <2>6, <2>7 DEF IInv
<1>5. QED
  BY <1>2, <1>3, <1>4 DEF Verify

\* A delivery moves, and nothing else does but rows on file and events answered.
LEMMA DeliveryStep ==
    ASSUME IInv, NEW d \in Deliveries, NEW q \in DeliveryType,
           delivery' = [delivery EXCEPT ![d] = q],
           payments \subseteq payments', events' \subseteq events,
           q.phase # "idle" => EventIsTrue(q.event),
           q.phase = "recorded" =>
             Row(q.event.ref, q.event.kind, "received") \in payments',
           UNCHANGED <<checkout, tab, timer, call, visits>>
    PROVE  /\ CallsAreTrue' /\ EventsAreTrue' /\ TabHasCheckout' /\ ChargesAreOnFile'
           /\ CheckoutsAsOffered' /\ SubscriptionsArePaid'
           /\ delivery' \in [Deliveries -> DeliveryType]
<1>1. Grown
  BY SameGrown
<1>2. delivery' \in [Deliveries -> DeliveryType] /\ delivery'[d] = q
      /\ \A b \in Deliveries \ {d} : delivery'[b] = delivery[b]
  BY Types
<1>3. EventsAreTrue'
  <2>1. \A e \in events' : EventIsTrue(e)'
    BY DEF IInv, EventsAreTrue, EventIsTrue, Paid
  <2>2. ASSUME NEW b \in Deliveries, delivery'[b].phase # "idle"
        PROVE  (/\ EventIsTrue(delivery[b].event)
                /\ delivery[b].phase = "recorded" =>
                     Row(delivery[b].event.ref, delivery[b].event.kind, "received") \in payments)'
    <3>1. CASE b = d
      BY <1>2, <2>2, <3>1 DEF EventIsTrue, Paid, Row
    <3>2. CASE b # d
      BY <1>2, <2>2, <3>2 DEF IInv, EventsAreTrue, EventIsTrue, Paid, Row
    <3>3. QED
      BY <3>1, <3>2
  <2>3. QED
    BY <2>1, <2>2 DEF EventsAreTrue
<1>4. CallsAreTrue' /\ TabHasCheckout' /\ ChargesAreOnFile' /\ CheckoutsAsOffered' /\ SubscriptionsArePaid'
  BY <1>1, CallsKept, TabKept, ChargesKept
<1>5. QED
  BY <1>2, <1>3, <1>4

\* Receiving, resolving, answering and losing an event leave the server's rows.
LEMMA QuietDeliveryStep ==
    ASSUME IInv, bundled' = bundled, NEW d \in Deliveries,
           Receive(d) \/ Resolve(d) \/ Acknowledge(d) \/ DeliveryLost(d)
    PROVE  IInv'
<1> DEFINE q == delivery'[d]
<1>1. UNCHANGED <<org, payments, granted, applied, checkout, tab, timer, call, visits>>
      /\ events' \subseteq events
  BY DEF Receive, Resolve, Acknowledge, DeliveryLost, server, external
<1>2. faults' \in 0 .. MaxFaults
  BY Types DEF Receive, Resolve, Acknowledge, DeliveryLost
<1>3. q \in DeliveryType /\ delivery' = [delivery EXCEPT ![d] = q] /\ q.phase # "recorded"
      /\ (q.phase # "idle" => EventIsTrue(q.event))
  <2>1. CASE Receive(d)
    <3>1. PICK e \in events :
            delivery' = [delivery EXCEPT ![d] = [phase |-> "received", known |-> FALSE, event |-> e]]
      BY <2>1 DEF Receive
    <3>2. e \in Events /\ EventIsTrue(e)
      BY DEF IInv, TypeOK, EventsAreTrue
    <3>3. QED
      BY <3>1, <3>2, Types DEF DeliveryType
  <2>2. CASE Resolve(d)
    <3>1. delivery[d] \in DeliveryType /\ EventIsTrue(delivery[d].event)
      BY <2>2, Types DEF Resolve, IInv, EventsAreTrue
    <3>2. PICK found \in BOOLEAN :
            delivery' = [delivery EXCEPT ![d].phase = "found", ![d].known = found]
      BY <2>2 DEF Resolve
    <3>3. q = [delivery[d] EXCEPT !.phase = "found", !.known = found]
          /\ delivery' = [delivery EXCEPT ![d] = q]
      BY <3>2, Types
    <3>4. q \in DeliveryType /\ q.phase = "found" /\ q.event = delivery[d].event
      BY <3>1, <3>3 DEF DeliveryType
    <3> HIDE DEF q
    <3>5. QED
      BY <3>1, <3>3, <3>4
  <2>3. CASE Acknowledge(d) \/ DeliveryLost(d)
    <3>1. delivery' = [delivery EXCEPT ![d] = IdleDelivery]
      BY <2>3 DEF Acknowledge, DeliveryLost
    <3>2. q = IdleDelivery
      BY <3>1, Types
    <3>3. q.phase = "idle"
      BY <3>2 DEF IdleDelivery
    <3> HIDE DEF q
    <3>4. QED
      BY <3>1, <3>2, <3>3, IdleTypes
  <2>4. QED
    BY <2>1, <2>2, <2>3
<1>4. /\ CallsAreTrue' /\ EventsAreTrue' /\ TabHasCheckout' /\ ChargesAreOnFile'
      /\ CheckoutsAsOffered' /\ SubscriptionsArePaid' /\ delivery' \in [Deliveries -> DeliveryType]
  <2> HIDE DEF q
  <2>1. QED
    BY <1>1, <1>3, DeliveryStep
<1>5. TypeOK'
  BY <1>1, <1>2, <1>4 DEF IInv, TypeOK, DeliveryType
<1>6. PlanIsBacked'
  BY <1>1, SameGrown, PlanKept
<1>7. QED
  BY <1>4, <1>5, <1>6 DEF IInv

LEMMA RecordEventStep == ASSUME IInv, bundled' = bundled, NEW d \in Deliveries, RecordEvent(d) PROVE IInv'
<1> DEFINE q == [delivery[d] EXCEPT !.phase = "recorded"]
<1>1. /\ delivery' = [delivery EXCEPT ![d] = q] /\ delivery[d].phase = "found"
      /\ payments' = payments \union {Row(q.event.ref, q.event.kind, "received")}
      /\ UNCHANGED <<org, granted, applied, checkout, events, tab, timer, call, visits, faults>>
  BY Types DEF RecordEvent, external, DeliveryType
<1>2. q \in DeliveryType /\ q.event = delivery[d].event
  BY Types DEF DeliveryType
<1>3. EventIsTrue(q.event)
  BY <1>1, <1>2 DEF IInv, EventsAreTrue
<1>4. /\ CallsAreTrue' /\ EventsAreTrue' /\ TabHasCheckout' /\ ChargesAreOnFile'
      /\ CheckoutsAsOffered' /\ SubscriptionsArePaid' /\ delivery' \in [Deliveries -> DeliveryType]
  <2> HIDE DEF q
  <2>1. QED
    BY <1>1, <1>2, <1>3, DeliveryStep
<1>5. TypeOK'
  BY <1>1, <1>4 DEF IInv, TypeOK, DeliveryType
<1>6. PlanIsBacked'
  BY <1>1, SameGrown, PlanKept
<1>7. QED
  BY <1>4, <1>5, <1>6 DEF IInv

\* What an event makes of the workspace.
LEMMA AppliedType ==
    ASSUME IInv, NEW e \in Events, EventIsTrue(e)
    PROVE  /\ Applied(e) \in OrgType
           /\ \/ Applied(e).plan = org.plan
              \/ Applied(e).plan = "free" /\ e.kind = "subscription.disable"
              \/ Applied(e).plan = Bought(e.ref)[1] /\ Upgrades(e) /\ e.ref \in Checkouts
<1>1. org \in OrgType
  BY DEF IInv, TypeOK, OrgType
<1>2. e.ref \in References /\ checkout[e.ref].customer \in Payers
  BY Types DEF EventIsTrue, CheckoutType
<1>3. CASE e.meta
  <2>1. e.ref \in Checkouts /\ Offer(e.ref) \in Offers
    BY <1>3, RowType DEF EventIsTrue, Paid
  <2>2. Bought(e.ref) = Offer(e.ref) /\ Offer(e.ref)[1] \in PlanIds /\ Offer(e.ref)[2] \in Intervals
    BY <2>1, OfferType DEF Bought
  <2>3. /\ Upgraded(e) = [org EXCEPT !.plan = Offer(e.ref)[1], !.interval = Offer(e.ref)[2]]
        /\ Upgraded(e) \in OrgType /\ Upgraded(e).plan = Offer(e.ref)[1]
    BY <1>1, <1>3, <2>2 DEF Upgraded, OrgType
  <2>4. CASE e.kind = "charge.success"
    BY <1>2, <1>3, <2>1, <2>2, <2>3, <2>4 DEF Applied, Upgrades, OrgType
  <2>5. CASE e.kind = "subscription.create"
    BY <1>3, <2>1, <2>2, <2>3, <2>5 DEF Applied, Upgrades
  <2>6. CASE e.kind = "subscription.disable"
    BY <1>1, <2>6, PlanNames DEF Applied, OrgType
  <2>7. CASE e.kind = "invoice.update"
    BY <1>1, <2>7 DEF Applied
  <2>8. QED
    BY <2>4, <2>5, <2>6, <2>7 DEF Events, Kinds
<1>4. CASE ~e.meta
  <2>1. Upgraded(e) = org
    BY <1>4 DEF Upgraded
  <2>2. CASE e.kind = "charge.success"
    BY <1>1, <1>2, <2>1, <2>2 DEF Applied, OrgType
  <2>3. CASE e.kind = "subscription.create"
    BY <1>1, <2>1, <2>3 DEF Applied
  <2>4. CASE e.kind = "subscription.disable"
    BY <1>1, <2>4, PlanNames DEF Applied, OrgType
  <2>5. CASE e.kind = "invoice.update"
    BY <1>1, <2>5 DEF Applied
  <2>6. QED
    BY <2>2, <2>3, <2>4, <2>5 DEF Events, Kinds
<1>5. QED
  BY <1>3, <1>4

LEMMA ApplyEventStep == ASSUME IInv, bundled' = bundled, NEW d \in Deliveries, ApplyEvent(d) PROVE IInv'
<1> DEFINE q == [delivery[d] EXCEPT !.phase = "applied"]
           e == delivery[d].event
<1>1. /\ delivery' = [delivery EXCEPT ![d] = q] /\ delivery[d].phase = "recorded"
      /\ org' = (IF delivery[d].known THEN Applied(e) ELSE org)
      /\ applied' = (IF Upgrades(e) THEN applied \union {e.ref} ELSE applied)
      /\ UNCHANGED <<payments, granted, checkout, events, tab, timer, call, visits, faults>>
  BY Types DEF ApplyEvent, external
<1>2. q \in DeliveryType /\ q.event = e /\ q.phase = "applied" /\ e \in Events
  BY Types DEF DeliveryType
<1>3. EventIsTrue(e)
  BY <1>1 DEF IInv, EventsAreTrue
<1>4. /\ CallsAreTrue' /\ EventsAreTrue' /\ TabHasCheckout' /\ ChargesAreOnFile'
      /\ CheckoutsAsOffered' /\ SubscriptionsArePaid' /\ delivery' \in [Deliveries -> DeliveryType]
  <2> HIDE DEF q
  <2>1. QED
    BY <1>1, <1>2, <1>3, DeliveryStep
<1>5. org' \in OrgType /\ applied' \subseteq References
  <2> HIDE DEF e
  <2>1. QED
    BY <1>1, <1>2, <1>3, AppliedType DEF IInv, TypeOK, OrgType, EventIsTrue
<1>6. TypeOK'
  BY <1>1, <1>4, <1>5 DEF IInv, TypeOK, OrgType, DeliveryType
<1>7. PlanIsBacked'
  <2> HIDE DEF e
  <2>1. CASE org'.plan = org.plan
    BY <1>1, <2>1, SameGrown, PlanKept
  <2>2. CASE org'.plan = "free"
    BY <2>2 DEF PlanIsBacked
  <2>3. CASE org'.plan = Bought(e.ref)[1] /\ Upgrades(e) /\ e.ref \in Checkouts
    <3>1. PICK r \in References : r = e.ref
      BY <2>3 DEF References
    <3>2. r \notin Elsewhere /\ checkout[r].state = "paid" /\ r \in applied' /\ org'.plan = Bought(r)[1]
      BY <1>1, <1>3, <2>3, <3>1 DEF EventIsTrue, Paid
    <3>3. Backs(r, org.plan)'
      BY <1>1, <3>1, <3>2 DEF Backs, Bought, Offer, Paid
    <3>4. QED
      BY <3>1, <3>3, PlanPaid
  <2>4. QED
    BY <1>1, <1>2, <1>3, <2>1, <2>2, <2>3, AppliedType
<1>8. QED
  BY <1>4, <1>6, <1>7 DEF IInv

LEMMA AdminStep == ASSUME IInv, bundled' = bundled, AdminSetsPlan PROVE IInv'
<1>1. PICK p \in Grants : org' = [org EXCEPT !.plan = p] /\ granted' = granted \union {p}
  BY DEF AdminSetsPlan
<1>2. UNCHANGED <<payments, applied, checkout, events, tab, timer, call, delivery, visits, faults>>
  BY DEF AdminSetsPlan, external
<1>3. org' \in OrgType /\ org'.plan = p
      /\ granted' \subseteq Grants
  BY <1>1 DEF IInv, TypeOK, OrgType
<1>4. TypeOK'
  BY <1>2, <1>3 DEF IInv, TypeOK, OrgType
<1>5. PlanIsBacked'
  BY <1>1, <1>3 DEF PlanIsBacked
<1>6. Grown
  BY <1>2, SameGrown
<1>7. CallsAreTrue' /\ EventsAreTrue' /\ TabHasCheckout' /\ ChargesAreOnFile'
      /\ CheckoutsAsOffered' /\ SubscriptionsArePaid'
  BY <1>2, <1>6, CallsKept, EventsKept, TabKept, ChargesKept DEF IInv
<1>8. QED
  BY <1>4, <1>5, <1>7 DEF IInv

-------------------------------------------------------------------------------
(* The theorems *)

LEMMA InitIInv == Init => IInv
<1> SUFFICES ASSUME Init PROVE IInv
  OBVIOUS
<1>1. org \in OrgType /\ org.plan = "free"
  BY PlanNames DEF Init, Intervals, OrgType
<1>2. /\ checkout \in [References -> CheckoutType]
      /\ \A c \in References : checkout[c].state = "none" /\ checkout[c].subscription = "none"
  <2>1. NoTransaction \in CheckoutType
    BY TransactionType DEF NoTransaction, Payers
  <2>2. NoTransaction.state = "none" /\ NoTransaction.subscription = "none"
    BY DEF NoTransaction, Transaction
  <2>3. QED
    BY <2>1, <2>2 DEF Init
<1>3. call \in [Calls -> CallType] /\ delivery \in [Deliveries -> DeliveryType]
  BY IdleTypes DEF Init
<1>4. TypeOK
  <2>1. events \subseteq Events /\ granted \subseteq Grants /\ applied \subseteq References /\ bundled \in BOOLEAN
        /\ timer \in BOOLEAN
    BY DEF Init
  <2>2. tab \in TabType
    BY DEF Init, TabType
  <2>3. visits \in 0 .. MaxVisits /\ faults \in 0 .. MaxFaults
    BY BillingBounds DEF Init
  <2>4. QED
    BY <1>1, <1>2, <1>3, <2>1, <2>2, <2>3 DEF TypeOK, OrgType, TabType, CheckoutType, CallType, DeliveryType
<1>5. CallsAreTrue /\ EventsAreTrue
  BY DEF Init, CallsAreTrue, EventsAreTrue, IdleCall, IdleDelivery
<1>6. CheckoutsAsOffered /\ SubscriptionsArePaid /\ ChargesAreOnFile
  BY <1>2 DEF CheckoutsAsOffered, SubscriptionsArePaid, ChargesAreOnFile, Paid, References
<1>7. TabHasCheckout /\ PlanIsBacked
  BY <1>1 DEF Init, TabHasCheckout, PlanIsBacked
<1>8. QED
  BY <1>4, <1>5, <1>6, <1>7 DEF IInv

LEMMA NextIInv == IInv /\ [Next]_vars => IInv'
<1> SUFFICES ASSUME IInv, [Next]_vars PROVE IInv'
  OBVIOUS
<1>1. CASE UNCHANGED vars
  <2>1. UNCHANGED <<org, payments, granted, applied, checkout, events, tab, timer, call,
                    delivery, visits, faults, bundled>>
    BY <1>1 DEF vars, state
  <2>2. TypeOK' /\ Grown
    BY <2>1, SameGrown DEF IInv, TypeOK
  <2>3. CallsAreTrue' /\ EventsAreTrue' /\ TabHasCheckout' /\ ChargesAreOnFile'
        /\ CheckoutsAsOffered' /\ SubscriptionsArePaid' /\ PlanIsBacked'
    BY <2>1, <2>2, CallsKept, EventsKept, TabKept, ChargesKept, PlanKept DEF IInv
  <2>4. QED
    BY <2>2, <2>3 DEF IInv
<1>2. CASE (StartCheckout \/ RecordCheckout \/ CheckoutFails) /\ bundled' = bundled
  BY <1>2, StartStep, RecordCheckoutStep, CheckoutFailsStep
<1>3. CASE (Pay \/ PayElsewhere \/ Renew \/ Lapse) /\ bundled' = bundled
  BY <1>3, PayStep, PayElsewhereStep, RenewStep, LapseStep
<1>4. CASE (Return \/ LeaveForDashboard \/ TimerFires \/ AdminSetsPlan) /\ bundled' = bundled
  BY <1>4, ReturnStep, LeaveStep, TimerStep, AdminStep
<1>5. ASSUME bundled' = bundled, NEW v \in Calls, Browser(v) \/ Verify(v) \/ VerifyLost(v) \/ WorkspaceFails(v)
      PROVE  IInv'
  BY <1>5, AskStep, RejectedStep, WorkspaceStep, VerifyStep DEF Browser
<1>6. ASSUME bundled' = bundled, NEW d \in Deliveries, Receive(d) \/ Webhook(d) \/ DeliveryLost(d)
      PROVE  IInv'
  BY <1>6, QuietDeliveryStep, RecordEventStep, ApplyEventStep DEF Webhook
<1>7. QED
  BY <1>1, <1>2, <1>3, <1>4, <1>5, <1>6 DEF Next, Run

(***************************************************************************)
(* What the requests under way know stays true, however they overlap.      *)
(***************************************************************************)
THEOREM Inductive == Spec => []IInv
  BY InitIInv, NextIInv, PTL DEF Spec

(***************************************************************************)
(* A workspace is on a paid plan only if an administrator set it, or its   *)
(* own checkout of that plan was paid, or a payment made elsewhere         *)
(* succeeded, was verified for the workspace and is on its file.           *)
(***************************************************************************)
THEOREM PaidPlansAreBacked == Spec => []PlanIsBacked
<1>1. IInv => PlanIsBacked
  BY DEF IInv
<1>2. QED
  BY <1>1, Inductive, PTL

(***************************************************************************)
(* Every charge was put on file, with its amount, before it was made.      *)
(***************************************************************************)
THEOREM EveryChargeIsOnFile == Spec => []ChargesAreOnFile
<1>1. IInv => ChargesAreOnFile
  BY DEF IInv
<1>2. QED
  BY <1>1, Inductive, PTL

LEMMA NextOnFile ==
    ASSUME IInv, Next, org'.plan # org.plan
    PROVE  AdminSetsPlan \/ \E row \in payments : Explains(row, org'.plan)
<1>1. CASE AdminSetsPlan
  BY <1>1
<1>2. ASSUME NEW v \in Calls, VerifyApply(v)
      PROVE  \E row \in payments : Explains(row, org'.plan)
  <2> DEFINE c == call[v].ref
             row == Row(c, "transaction.verify", "success")
  <2>1. c \in References /\ row \in payments /\ org'.plan = Bought(c)[1]
    BY <1>2 DEF VerifyApply, IInv, CallsAreTrue
  <2>2. row.ref = c /\ row.type = "transaction.verify" /\ row.status = "success"
    BY DEF Row
  <2>3. Explains(row, org'.plan)
    <3> HIDE DEF row, c
    <3>1. QED
      BY <2>1, <2>2 DEF Explains
  <2>4. QED
    BY <2>1, <2>3
<1>3. ASSUME NEW d \in Deliveries, ApplyEvent(d)
      PROVE  \E row \in payments : Explains(row, org'.plan)
  <2> DEFINE e == delivery[d].event
             row == Row(e.ref, e.kind, "received")
  <2>1. e \in Events /\ EventIsTrue(e) /\ row \in payments
    BY <1>3, Types DEF ApplyEvent, IInv, EventsAreTrue, DeliveryType
  <2>2. row.ref = e.ref /\ row.type = e.kind /\ row.status = "received"
    BY DEF Row
  <2>3. org' = Applied(e) /\ e.ref \in References
    BY <1>3, <2>1 DEF ApplyEvent, EventIsTrue
  <2>4. Explains(row, org'.plan)
    <3> HIDE DEF row, e
    <3>1. \/ org'.plan = "free" /\ row.type = "subscription.disable"
          \/ org'.plan = Bought(row.ref)[1] /\ row.type \in {"charge.success", "subscription.create"}
      BY <2>1, <2>2, <2>3, AppliedType DEF Upgrades
    <3>2. QED
      BY <2>2, <2>3, <3>1 DEF Explains
  <2>5. QED
    BY <2>1, <2>4
<1>4. QED
  <2>1. CASE StartCheckout \/ RecordCheckout \/ CheckoutFails \/ Pay \/ PayElsewhere \/ Renew \/ Lapse
             \/ Return \/ LeaveForDashboard \/ TimerFires
    BY <2>1 DEF StartCheckout, RecordCheckout, CheckoutFails, Pay, PayElsewhere, Renew, Lapse, Return,
       LeaveForDashboard, TimerFires, server
  <2>2. ASSUME NEW v \in Calls,
               Browser(v) \/ VerifyRead(v) \/ VerifyRecord(v) \/ VerifyLost(v) \/ WorkspaceFails(v)
        PROVE  FALSE
    BY <2>2 DEF Browser, AskVerify, WorkspaceAnswered, VerifyRefused, VerifyRead, VerifyRecord,
       VerifyLost, WorkspaceFails, server
  <2>3. ASSUME NEW d \in Deliveries,
               Receive(d) \/ Resolve(d) \/ RecordEvent(d) \/ Acknowledge(d) \/ DeliveryLost(d)
        PROVE  FALSE
    BY <2>3 DEF Receive, Resolve, RecordEvent, Acknowledge, DeliveryLost, server
  <2>4. QED
    BY <1>1, <1>2, <1>3, <2>1, <2>2, <2>3 DEF Next, Run, Verify, Webhook

(***************************************************************************)
(* A step that changes the plan finds its reason on file, so a request     *)
(* that stops half way leaves no plan unexplained.                         *)
(***************************************************************************)
THEOREM ChangesAreExplained == Spec => PlanChangesAreOnFile
<1>1. IInv /\ [Next]_vars =>
        [org'.plan # org.plan =>
           \/ AdminSetsPlan
           \/ \E row \in payments : Explains(row, org'.plan)]_vars
  BY NextOnFile DEF vars, state
<1>2. QED
  BY <1>1, Inductive, PTL DEF Spec, PlanChangesAreOnFile

-------------------------------------------------------------------------------
(* The table of plans *)

\* The limit b allows whatever the limit a does.
Allows(b, a) == b = Unlimited \/ (a # Unlimited /\ a <= b)

(***************************************************************************)
(* A workspace that moves to the plan offered next (plans.ts:210) loses    *)
(* neither room for its songs nor seats for its members, which nothing     *)
(* else in the server would notice.                                        *)
(***************************************************************************)
THEOREM NextPlanIsRoomier ==
    \A p \in PlanIds : \A q \in nextPlan(p) :
        /\ q \in PlanIds
        /\ Allows(MaxSongs[q], MaxSongs[p])
        /\ Allows(MaxTeamMembers[q], MaxTeamMembers[p])
<1> SUFFICES ASSUME NEW p \in PlanIds, NEW q \in nextPlan(p)
             PROVE  /\ q \in PlanIds
                    /\ Allows(MaxSongs[q], MaxSongs[p])
                    /\ Allows(MaxTeamMembers[q], MaxTeamMembers[p])
  OBVIOUS
<1>1. PICK i \in 1 .. 4 : PLAN_ORDER[i] = p /\ q = PLAN_ORDER[i + 1]
  BY DEF nextPlan
<1>2. \/ p = "free" /\ q = "starter"
      \/ p = "starter" /\ q = "professional"
      \/ p = "professional" /\ q = "label"
      \/ p = "label" /\ q = "enterprise"
  <2>1. i = 1 \/ i = 2 \/ i = 3 \/ i = 4
    OBVIOUS
  <2>2. QED
    BY <1>1, <2>1 DEF PLAN_ORDER
<1>3. QED
  BY <1>2, PlanNames DEF Allows, Unlimited, MaxSongs, MaxTeamMembers

(***************************************************************************)
(* For every monthly price in whole rand, a year bought at once costs at   *)
(* most twelve months: rounding to ten rand (plans.ts:41) never eats up    *)
(* the discount.                                                           *)
(***************************************************************************)
THEOREM AnnualIsCheaper == \A m \in Nat : annualPrice(m) <= 12 * m
<1> SUFFICES ASSUME NEW m \in Nat PROVE annualPrice(m) <= 12 * m
  OBVIOUS
<1>1. PICK q \in Int : q = (((m * 12 * 83) + 500) \div 1000)
  OBVIOUS
<1>2. 1000 * q <= 996 * m + 500
  BY <1>1
<1>3. CASE m <= 2
  <2>1. m = 0 \/ m = 1 \/ m = 2
    BY <1>3
  <2>2. QED
    BY <1>1, <1>2, <2>1 DEF annualPrice
<1>4. CASE m >= 3
  BY <1>1, <1>2, <1>4 DEF annualPrice
<1>5. QED
  BY <1>3, <1>4
===============================================================================
