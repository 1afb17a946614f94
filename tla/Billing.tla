------------------------------ MODULE Billing -------------------------------
(***************************************************************************)
(* The platform subscription of one unit: what Stripe knows, the webhook   *)
(* events it sends, and the copy the unit's row keeps of it                *)
(* (src/src/lib/billing/stripe.ts, stripe-idempotency.ts).                 *)
(*                                                                         *)
(* Stripe is external: each change of a subscription sends its events in   *)
(* one batch, stamped with the second they were made in.  They arrive in   *)
(* any order, are retried until answered, and one delivery is one          *)
(* database transaction with the event's receipt.                          *)
(***************************************************************************)
EXTENDS Naturals, FiniteSets

CONSTANTS
    Subs,        \* subscriptions the unit may start
    None,        \* no subscription, or no customer
    MaxChanges,  \* bound: changes of subscriptions at Stripe
    Handlers     \* bound: webhook requests under way at once

ASSUME BillingAssumption == None \notin Subs /\ MaxChanges \in Nat /\ Handlers \in Nat

VARIABLES
    stripe,     \* Stripe's record of each subscription
    sent,       \* events Stripe has made
    now,        \* the current second
    changes,    \* changes made so far
    receipts,   \* StripeWebhookReceipt: events answered 200
    open,       \* transactions under way: an event, and whether it found the unit
    org,        \* the unit's subscription fields
    payments,   \* BillingPayment: events of paid invoices on record
    owner,      \* the owner console, between reading the unit and writing it;
                \* "extended" while the trial it wrote stands
    tagged      \* the endpoint's API version puts the unit's id on invoices

vars == <<stripe, sent, now, changes, receipts, open, org, payments, owner, tagged>>
stripeVars == <<stripe, sent, now, changes>>
orgVars == <<receipts, open, org, payments, owner, tagged>>

Statuses == {"open", "incomplete", "incomplete_expired", "trialing",
             "active", "past_due", "canceled"}

\* A customer is named after the subscription whose checkout created it.
Customers == Subs \cup {None}

Types == {"checkout", "created", "updated", "deleted", "failed", "succeeded"}

Events == [type : Types, sub : Subs, at : Nat, change : Nat, status : Statuses,
           ending : BOOLEAN, paid : BOOLEAN]

TypeOK ==
    /\ stripe \in [Subs -> [status : Statuses \cup {"none"}, ending : BOOLEAN,
                            customer : Customers]]
    /\ sent \subseteq Events
    /\ now \in Nat /\ changes \in Nat
    /\ receipts \subseteq sent /\ payments \subseteq sent
    /\ open \subseteq [event : sent, found : BOOLEAN]
    /\ org \in [status : {"trialing", "active", "past_due", "canceled"},
                ending : BOOLEAN, sub : Customers, customer : Customers,
                eventAt : Nat]                  \* 0: no event applied yet
    /\ owner \in {"idle", "extending", "extended"}
    /\ tagged \in BOOLEAN

Init ==
    /\ stripe = [s \in Subs |-> [status |-> "none", ending |-> FALSE, customer |-> None]]
    /\ sent = {} /\ now = 1 /\ changes = 0
    /\ receipts = {} /\ open = {} /\ payments = {}
    /\ org = [status |-> "trialing", ending |-> FALSE, sub |-> None,
              customer |-> None, eventAt |-> 0]
    /\ owner = "idle"
    /\ tagged \in BOOLEAN

-----------------------------------------------------------------------------
(* Stripe.  A change happens in the second of the one before it, or later.  *)

Event(type, s, status, ending, at, paid) ==
    [type |-> type, sub |-> s, at |-> at, change |-> changes + 1, status |-> status,
     ending |-> ending, paid |-> paid /\ type = "succeeded"]

Change(s, status, ending, types, paid) ==
    /\ changes < MaxChanges
    /\ changes' = changes + 1
    /\ stripe' = [stripe EXCEPT ![s].status = status, ![s].ending = ending]
    /\ \E at \in {now, now + 1} :
          /\ now' = at
          /\ sent' = sent \cup
                {Event(type, s, status, ending, at, paid) : type \in types}
    /\ UNCHANGED orgVars

Is(s, states) == stripe[s].status \in states

\* Checkout within the free trial: nothing is charged yet.
TrialStarts(s) ==
    Is(s, {"open"}) /\ Change(s, "trialing", FALSE, {"created", "checkout", "succeeded"}, FALSE)

\* Checkout with an immediate charge: the subscription is made, then paid.
SubscriptionMade(s) ==
    Is(s, {"open"}) /\ Change(s, "incomplete", FALSE, {"created"}, FALSE)

FirstPayment(s) ==
    Is(s, {"incomplete"}) /\ Change(s, "active", FALSE, {"updated", "checkout", "succeeded"}, TRUE)

NeverPaid(s) ==
    Is(s, {"incomplete"}) /\ Change(s, "incomplete_expired", FALSE, {"updated"}, FALSE)

PaymentFails(s) ==
    /\ Is(s, {"trialing", "active"})
    /\ Change(s, "past_due", stripe[s].ending, {"updated", "failed"}, FALSE)

PaymentSucceeds(s) ==
    /\ Is(s, {"trialing", "active", "past_due"})
    /\ Change(s, "active", stripe[s].ending, {"updated", "succeeded"}, TRUE)

\* The customer portal: cancel at the end of the period, or think again.
PortalCancels(s) ==
    /\ Is(s, {"trialing", "active", "past_due"})
    /\ Change(s, stripe[s].status, ~stripe[s].ending, {"updated"}, FALSE)

\* The period ends, Stripe gives up on the card, or support cancels at once.
SubscriptionEnds(s) ==
    /\ Is(s, {"trialing", "active", "past_due"})
    /\ Change(s, "canceled", FALSE, {"deleted"}, FALSE)

StripeActs(s) ==
    \/ TrialStarts(s) \/ SubscriptionMade(s) \/ FirstPayment(s) \/ NeverPaid(s)
    \/ PaymentFails(s) \/ PaymentSucceeds(s) \/ PortalCancels(s) \/ SubscriptionEnds(s)

-----------------------------------------------------------------------------
(* The unit's pages and the owner console. *)

\* startSubscriptionAction: a checkout session, for the unit's customer if it
\* has one.  The session stays open at Stripe until it is paid.
StartSubscription(s) ==
    /\ Is(s, {"none"})
    /\ org.sub = None \/ org.status = "canceled"
    /\ stripe' = [stripe EXCEPT ![s].status = "open",
                      ![s].customer = IF org.customer = None THEN s ELSE org.customer]
    /\ UNCHANGED <<sent, now, changes>> /\ UNCHANGED orgVars

\* extendTrialAction reads the unit and refuses one with a subscription ...
ExtendTrial ==
    /\ owner # "extending" /\ org.sub = None
    /\ owner' = "extending"
    /\ UNCHANGED <<receipts, open, org, payments, tagged>> /\ UNCHANGED stripeVars

\* ... and then writes a trial, whatever the unit has become.
TrialExtended ==
    /\ owner = "extending"
    /\ owner' = "extended"
    /\ org' = [org EXCEPT !.status = "trialing"]
    /\ UNCHANGED <<receipts, open, payments, tagged>> /\ UNCHANGED stripeVars

-----------------------------------------------------------------------------
(* The webhook. *)

\* Fault: Stripe's word is written as it is.
RawStatus(status) == status

mapStripeStatus(status) ==
    CASE status \in {"active", "trialing"} -> "active"
      [] status \in {"canceled", "incomplete_expired"} -> "canceled"
      [] OTHER -> "past_due"

CustomerOf(e) == stripe[e.sub].customer

\* resolveOrgIdFromEvent: by the id Stripe was given, else by the customer.
Tagged(e) == tagged \/ e.type \notin {"failed", "succeeded"}

Found(e) == Tagged(e) \/ (org.customer # None /\ org.customer = CustomerOf(e))

\* Fault: the guard is missing.
AlwaysFresh(e) == TRUE
Fresh(e) == org.eventAt <= e.at

\* A delivery begins: its receipt goes in first, so a repeat of an answered
\* event stops here, and one under way makes a second wait.
Receive(e) ==
    /\ e \in sent \ receipts
    /\ \A w \in open : w.event # e
    /\ Cardinality(open) < Handlers
    /\ open' = open \cup {[event |-> e, found |-> Found(e)]}
    /\ UNCHANGED <<receipts, org, payments, owner, tagged>> /\ UNCHANGED stripeVars

\* Fault: the event's time is not kept.
Unstamped(e, o) == o
Stamped(e, o) == [o EXCEPT !.eventAt = e.at]

Ids(o, e) == [o EXCEPT !.customer = CustomerOf(e), !.sub = e.sub]

\* Fault: a stale event changes nothing at all.
LateIgnored(o, e) == o

\* A stale checkout still brings the ids; the portal needs the customer.
Late(o, e) == IF e.type = "checkout" THEN Ids(o, e) ELSE o

\* syncFromStripeEvent: the unit's fields after the event.
Sync(o, e) ==
    IF ~Fresh(e) THEN Late(o, e)
    ELSE CASE e.type = "checkout" ->
                Stamped(e, [Ids(o, e) EXCEPT !.status = "active", !.ending = FALSE])
           [] e.type \in {"created", "updated"} ->
                Stamped(e, [o EXCEPT !.status = mapStripeStatus(e.status),
                                     !.ending = e.ending, !.sub = e.sub])
           [] e.type = "deleted" ->
                Stamped(e, [o EXCEPT !.status = "canceled", !.ending = FALSE])
           [] e.type = "failed" ->
                Stamped(e, [o EXCEPT !.status = "past_due"])
           [] e.type = "succeeded" ->
                IF o.status = "past_due"
                THEN Stamped(e, [o EXCEPT !.status = "active"]) ELSE o

\* recordPayment: one row for each invoice that took money.
Recorded(e) == IF e.paid THEN {e} ELSE {}

\* The transaction commits: receipt, payment and unit together.  The
\* conditional update holds the unit's row, so nothing comes between.
Apply(e) ==
    \E w \in open :
        /\ w.event = e
        /\ open' = open \ {w}
        /\ receipts' = receipts \cup {e}
        /\ org' = IF w.found THEN Sync(org, e) ELSE org
        /\ payments' = IF w.found THEN payments \cup Recorded(e) ELSE payments
        /\ owner' = IF owner = "extended" /\ org'.status # "trialing" THEN "idle" ELSE owner
        /\ UNCHANGED tagged /\ UNCHANGED stripeVars

\* Fault: the receipt outlives the transaction that failed.
FailKeepsReceipt(e) ==
    /\ \E w \in open : w.event = e /\ open' = open \ {w}
    /\ receipts' = receipts \cup {e}
    /\ UNCHANGED <<org, payments, owner, tagged>> /\ UNCHANGED stripeVars

\* The writes throw or the process dies: all of it rolls back, and Stripe
\* delivers the event again.
Fail(e) ==
    /\ \E w \in open : w.event = e /\ open' = open \ {w}
    /\ UNCHANGED <<receipts, org, payments, owner, tagged>> /\ UNCHANGED stripeVars

-----------------------------------------------------------------------------
Next ==
    \/ \E s \in Subs : StripeActs(s) \/ StartSubscription(s)
    \/ ExtendTrial \/ TrialExtended
    \/ \E e \in sent : Receive(e) \/ Apply(e) \/ Fail(e)

Spec == Init /\ [][Next]_vars

-----------------------------------------------------------------------------
(* Properties. *)

Settled == sent \subseteq receipts

Latest(e) == e.change = changes

\* Once every event is answered, the unit has the status and the cancellation
\* Stripe has for the subscription that changed last, whatever order its events
\* came in, failed, and came again.  Two cases the code does not cover are left
\* out: two changes within one second, and a trial the owner has extended.
Mirrors ==
    /\ Settled
    /\ org.status = "trialing" => owner = "idle"
    /\ \A e \in sent : e.at = now => Latest(e)
    => \A e \in sent : Latest(e) =>
          /\ org.status = mapStripeStatus(stripe[e.sub].status)
          /\ org.ending = stripe[e.sub].ending

\* The comment at stripe.ts:241: a late event cannot undo a newer cancel or
\* payment failure (newer by the second, and reported under the unit's id).
NewerStands ==
    [][\A e \in receipts' \ receipts, f \in receipts :
          f.type \in {"deleted", "failed"} /\ Tagged(f) /\ e.at < f.at
          => org'.status = org.status /\ org'.ending = org.ending]_vars

\* A receipt is never kept without its effect: every answered payment that
\* named the unit is on record for the owner's report.
PaymentsKept ==
    \A e \in receipts : e.paid /\ tagged => e \in payments

\* The portal can be opened once a checkout was answered, also when a newer
\* event had set the status before the checkout came.
PortalReachable ==
    \A e \in receipts : e.type = "checkout" => org.customer # None /\ org.sub # None

\* docs/billing.md:65: Stripe's webhooks are the only thing that changes a
\* unit's subscription fields.
WebhooksOnly == [][receipts' = receipts => org' = org]_vars
=============================================================================
