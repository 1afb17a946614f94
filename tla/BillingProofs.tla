--------------------------- MODULE BillingProofs ----------------------------
(***************************************************************************)
(* Billing, for any number of subscriptions, changes and handlers: the     *)
(* fields keep their types, a late event never undoes a newer cancel or    *)
(* payment failure, an answered payment is on record, an answered checkout *)
(* leaves the unit with a customer, and when every event is answered the   *)
(* unit mirrors what Stripe has.                                           *)
(***************************************************************************)
EXTENDS Billing, TLAPS

Final(f) == f.type \in {"deleted", "failed"} /\ Tagged(f)

\* What an open delivery, and an answered event, leave behind.
Matched == \A w \in open : Tagged(w.event) => w.found
Applied == \A f \in receipts : Final(f) => f.at <= org.eventAt
Known   == /\ \A s \in Subs : stripe[s].status # "none" => stripe[s].customer # None
           /\ \A e \in sent : stripe[e.sub].customer # None

Books == TypeOK /\ Matched /\ Applied /\ Known /\ PaymentsKept /\ PortalReachable

LEMMA BooksInit == Init => Books
  BY BillingAssumption
  DEF Init, Books, TypeOK, Matched, Applied, Known, PaymentsKept, PortalReachable,
      Statuses, Customers

\* A change at Stripe adds events of a subscription whose customer is known.
LEMMA ChangeBooks ==
  ASSUME Books, NEW s \in Subs, NEW status \in Statuses, NEW ending \in BOOLEAN,
         NEW types \in SUBSET Types, NEW paid \in BOOLEAN,
         stripe[s].status # "none", Change(s, status, ending, types, paid)
  PROVE  Books'
  <1>1. PICK at \in {now, now + 1} :
          /\ now' = at
          /\ sent' = sent \cup {Event(type, s, status, ending, at, paid) : type \in types}
    BY DEF Change
  <1>2. \A type \in types : Event(type, s, status, ending, at, paid) \in Events
    BY DEF Event, Events, Books, TypeOK
  <1>3. /\ stripe' \in [Subs -> [status : Statuses \cup {"none"}, ending : BOOLEAN,
                                 customer : Customers]]
        /\ \A r \in Subs : stripe'[r].customer = stripe[r].customer
        /\ stripe'[s].status # "none"
        /\ \A r \in Subs \ {s} : stripe'[r].status = stripe[r].status
    BY DEF Change, Books, TypeOK, Statuses
  <1>4. UNCHANGED orgVars /\ changes' = changes + 1
    BY DEF Change
  <1>5. TypeOK'
    BY <1>1, <1>2, <1>3, <1>4 DEF Books, TypeOK, orgVars
  <1>6. Matched' /\ Applied' /\ PaymentsKept' /\ PortalReachable'
    BY <1>4 DEF Books, Matched, Applied, PaymentsKept, PortalReachable, Final, Tagged, orgVars
  <1>7. Known'
    BY <1>1, <1>3 DEF Books, TypeOK, Known, Event, Events
  <1> QED
    BY <1>5, <1>6, <1>7 DEF Books

LEMMA StripeBooks ==
  ASSUME Books, NEW s \in Subs, StripeActs(s)
  PROVE  Books'
  <1> stripe[s].ending \in BOOLEAN /\ stripe[s].status \in Statuses \cup {"none"}
    BY DEF Books, TypeOK
  <1>1. CASE TrialStarts(s)
    BY <1>1, ChangeBooks DEF TrialStarts, Is, Statuses, Types
  <1>2. CASE SubscriptionMade(s)
    BY <1>2, ChangeBooks DEF SubscriptionMade, Is, Statuses, Types
  <1>3. CASE FirstPayment(s)
    BY <1>3, ChangeBooks DEF FirstPayment, Is, Statuses, Types
  <1>4. CASE NeverPaid(s)
    BY <1>4, ChangeBooks DEF NeverPaid, Is, Statuses, Types
  <1>5. CASE PaymentFails(s)
    BY <1>5, ChangeBooks DEF PaymentFails, Is, Statuses, Types
  <1>6. CASE PaymentSucceeds(s)
    BY <1>6, ChangeBooks DEF PaymentSucceeds, Is, Statuses, Types
  <1>7. CASE PortalCancels(s)
    BY <1>7, ChangeBooks DEF PortalCancels, Is, Statuses, Types
  <1>8. CASE SubscriptionEnds(s)
    BY <1>8, ChangeBooks DEF SubscriptionEnds, Is, Statuses, Types
  <1> QED
    BY <1>1, <1>2, <1>3, <1>4, <1>5, <1>6, <1>7, <1>8 DEF StripeActs

LEMMA StartBooks ==
  ASSUME Books, NEW s \in Subs, StartSubscription(s)
  PROVE  Books'
  <1>1. /\ stripe' \in [Subs -> [status : Statuses \cup {"none"}, ending : BOOLEAN,
                                 customer : Customers]]
        /\ stripe'[s].customer # None
        /\ \A r \in Subs \ {s} : stripe'[r] = stripe[r]
    BY BillingAssumption DEF StartSubscription, Books, TypeOK, Statuses, Customers
  <1>2. UNCHANGED <<sent, now, changes>> /\ UNCHANGED orgVars
    BY DEF StartSubscription
  <1>3. Known'
    BY <1>1, <1>2 DEF Books, Known, TypeOK, Events
  <1> QED
    BY <1>1, <1>2, <1>3
    DEF Books, TypeOK, Matched, Applied, PaymentsKept, PortalReachable, Final, Tagged, orgVars

LEMMA OwnerBooks ==
  ASSUME Books, ExtendTrial \/ TrialExtended
  PROVE  Books'
  BY DEF ExtendTrial, TrialExtended, Books, TypeOK, Matched, Applied, Known, PaymentsKept,
         PortalReachable, Final, Tagged, stripeVars

LEMMA ReceiveBooks ==
  ASSUME Books, NEW e \in sent, Receive(e) \/ Fail(e)
  PROVE  Books'
  <1>1. UNCHANGED <<receipts, org, payments, owner, tagged>> /\ UNCHANGED stripeVars
    BY DEF Receive, Fail
  <1>2. \A w \in open' \ open : w \in [event : sent, found : BOOLEAN]
                               /\ (Tagged(w.event) => w.found)
    <2>1. CASE Receive(e)
      <3>1. open' = open \cup {[event |-> e, found |-> Found(e)]}
        BY <2>1 DEF Receive
      <3>2. Found(e) \in BOOLEAN /\ (Tagged(e) => Found(e))
        BY DEF Found
      <3> QED
        BY <3>1, <3>2
    <2>2. CASE Fail(e)
      BY <2>2 DEF Fail
    <2> QED
      BY <2>1, <2>2
  <1>3. Matched'
    BY <1>1, <1>2 DEF Books, Matched, Tagged
  <1>4. TypeOK'
    BY <1>1, <1>2 DEF Books, TypeOK, stripeVars
  <1> QED
    BY <1>1, <1>3, <1>4
    DEF Books, Applied, Known, PaymentsKept, PortalReachable, Final, Tagged, stripeVars

\* What the unit's row may hold, and the three writes the webhook makes of it.
Unit == [status : {"trialing", "active", "past_due", "canceled"}, ending : BOOLEAN,
         sub : Customers, customer : Customers, eventAt : Nat]

LEMMA StampType ==
  ASSUME NEW o \in Unit, NEW e \in Events
  PROVE  /\ Stamped(e, o) \in Unit
         /\ Stamped(e, o).eventAt = e.at
         /\ Stamped(e, o).status = o.status /\ Stamped(e, o).ending = o.ending
         /\ Stamped(e, o).sub = o.sub /\ Stamped(e, o).customer = o.customer
  <1>1. Stamped(e, o) = [status |-> o.status, ending |-> o.ending, sub |-> o.sub,
                         customer |-> o.customer, eventAt |-> e.at]
    BY DEF Stamped, Unit
  <1> QED
    BY <1>1 DEF Unit, Events

LEMMA IdsType ==
  ASSUME NEW o \in Unit, NEW e \in Events, CustomerOf(e) \in Customers, e.sub \in Customers
  PROVE  /\ Ids(o, e) \in Unit
         /\ Ids(o, e).sub = e.sub /\ Ids(o, e).customer = CustomerOf(e)
         /\ Ids(o, e).status = o.status /\ Ids(o, e).ending = o.ending
         /\ Ids(o, e).eventAt = o.eventAt
  <1>1. PICK c \in Customers : c = CustomerOf(e)
    OBVIOUS
  <1>2. PICK u \in Customers : u = e.sub
    OBVIOUS
  <1>3. Ids(o, e) = [o EXCEPT !.customer = c, !.sub = u]
    BY <1>1, <1>2 DEF Ids
  <1>4. [o EXCEPT !.customer = c, !.sub = u] =
          [status |-> o.status, ending |-> o.ending, sub |-> u,
           customer |-> c, eventAt |-> o.eventAt]
    <2> DEFINE p == [o EXCEPT !.customer = c]
    <2>1. p = [status |-> o.status, ending |-> o.ending, sub |-> o.sub,
               customer |-> c, eventAt |-> o.eventAt]
      BY DEF Unit
    <2> DEFINE q == [status |-> o.status, ending |-> o.ending, sub |-> o.sub,
                     customer |-> c, eventAt |-> o.eventAt]
    <2>2. [q EXCEPT !.sub = u] = [status |-> o.status, ending |-> o.ending, sub |-> u,
                                  customer |-> c, eventAt |-> o.eventAt]
      OBVIOUS
    <2>3. [o EXCEPT !.customer = c, !.sub = u] = [p EXCEPT !.sub = u]
      OBVIOUS
    <2> HIDE DEF p
    <2> QED
      BY <2>1, <2>2, <2>3
  <1> QED
    BY <1>1, <1>2, <1>3, <1>4 DEF Unit

\* The webhook's write: well formed, never back in time, and unless it is as
\* new as the last one it leaves the status and the cancellation alone.
LEMMA SyncEffect ==
  ASSUME Books, NEW e \in sent
  PROVE  /\ Sync(org, e) \in Unit
         /\ Sync(org, e).eventAt >= org.eventAt
         /\ e.type \in {"deleted", "failed"} => Sync(org, e).eventAt >= e.at
         /\ org.customer # None => Sync(org, e).customer # None
         /\ org.sub # None => Sync(org, e).sub # None
         /\ e.type = "checkout" =>
               Sync(org, e).customer # None /\ Sync(org, e).sub # None
         /\ ~Fresh(e) => Sync(org, e).status = org.status /\ Sync(org, e).ending = org.ending
  <1>1. /\ e \in Events /\ CustomerOf(e) \in Customers \ {None} /\ e.sub \in Customers \ {None}
        /\ org \in Unit /\ org.eventAt \in Nat /\ e.at \in Nat
    <2>1. e \in Events /\ e.sub \in Subs /\ e.at \in Nat
      BY DEF Books, TypeOK, Events
    <2>2. CustomerOf(e) \in Customers \ {None}
      BY <2>1 DEF Books, TypeOK, Known, CustomerOf
    <2>3. org \in Unit /\ org.eventAt \in Nat
      BY DEF Books, TypeOK, Unit
    <2> QED
      BY <2>1, <2>2, <2>3, BillingAssumption DEF Customers
  <1>2. mapStripeStatus(e.status) \in {"active", "canceled", "past_due"}
    BY DEF mapStripeStatus
  <1>3. CASE ~Fresh(e)
    <2>1. org.eventAt >= e.at /\ org.eventAt >= org.eventAt
      BY <1>1, <1>3 DEF Fresh
    <2>2. CASE e.type = "checkout"
      <3>1. Sync(org, e) = Ids(org, e)
        BY <1>3, <2>2 DEF Sync, Late
      <3> QED
        BY <1>1, <1>3, <2>1, <2>2, <3>1, IdsType
    <2>3. CASE e.type # "checkout"
      <3>1. Sync(org, e) = org
        BY <1>3, <2>3 DEF Sync, Late
      <3> QED
        BY <1>1, <2>1, <2>3, <3>1
    <2> QED
      BY <2>2, <2>3
  <1>4. CASE Fresh(e)
    <2>1. e.at >= org.eventAt /\ e.at >= e.at /\ org.eventAt >= org.eventAt
      BY <1>1, <1>4 DEF Fresh
    <2> SUFFICES \/ /\ e.type = "succeeded"
                    /\ Sync(org, e) = org
                 \/ \E o \in Unit :
                      /\ Sync(org, e) = Stamped(e, o)
                      /\ \/ o.customer = org.customer /\ o.sub = org.sub /\ e.type # "checkout"
                         \/ o.customer = org.customer /\ o.sub = e.sub /\ e.type # "checkout"
                         \/ o.customer = CustomerOf(e) /\ o.sub = e.sub
      BY <1>1, <1>4, <2>1, StampType
    <2>2. CASE e.type = "checkout"
      <3>1. Sync(org, e) = Stamped(e, [Ids(org, e) EXCEPT !.status = "active", !.ending = FALSE])
        BY <1>4, <2>2 DEF Sync
      <3> DEFINE o == [Ids(org, e) EXCEPT !.status = "active", !.ending = FALSE]
      <3>2. o \in Unit /\ o.customer = CustomerOf(e) /\ o.sub = e.sub
        BY <1>1, IdsType DEF Unit
      <3> QED
        BY <3>1, <3>2
    <2>3. CASE e.type \in {"created", "updated"}
      <3> DEFINE o == [org EXCEPT !.status = mapStripeStatus(e.status),
                                  !.ending = e.ending, !.sub = e.sub]
      <3>1. Sync(org, e) = Stamped(e, o)
        BY <1>4, <2>3 DEF Sync
      <3>2. e.ending \in BOOLEAN
        BY <1>1 DEF Events
      <3>3. o \in Unit /\ o.customer = org.customer /\ o.sub = e.sub
        BY <1>1, <1>2, <3>2 DEF Unit
      <3> QED
        BY <2>3, <3>1, <3>3
    <2>4. CASE e.type = "deleted"
      <3> DEFINE o == [org EXCEPT !.status = "canceled", !.ending = FALSE]
      <3>1. Sync(org, e) = Stamped(e, o)
        BY <1>4, <2>4 DEF Sync
      <3>2. o \in Unit /\ o.customer = org.customer /\ o.sub = org.sub
        BY <1>1 DEF Unit
      <3> QED
        BY <2>4, <3>1, <3>2
    <2>5. CASE e.type = "failed"
      <3> DEFINE o == [org EXCEPT !.status = "past_due"]
      <3>1. Sync(org, e) = Stamped(e, o)
        BY <1>4, <2>5 DEF Sync
      <3>2. o \in Unit /\ o.customer = org.customer /\ o.sub = org.sub
        BY <1>1 DEF Unit
      <3> QED
        BY <2>5, <3>1, <3>2
    <2>6. CASE e.type = "succeeded"
      <3> DEFINE o == [org EXCEPT !.status = "active"]
      <3>1. Sync(org, e) = IF org.status = "past_due" THEN Stamped(e, o) ELSE org
        BY <1>4, <2>6 DEF Sync
      <3>2. o \in Unit /\ o.customer = org.customer /\ o.sub = org.sub
        BY <1>1 DEF Unit
      <3> QED
        BY <2>6, <3>1, <3>2
    <2> QED
      BY <1>1, <2>2, <2>3, <2>4, <2>5, <2>6 DEF Events, Types
  <1> QED
    BY <1>3, <1>4

LEMMA ApplyBooks ==
  ASSUME Books, NEW e \in sent, Apply(e)
  PROVE  Books'
  <1>1. PICK w \in open :
          /\ w.event = e
          /\ open' = open \ {w}
          /\ receipts' = receipts \cup {e}
          /\ org' = IF w.found THEN Sync(org, e) ELSE org
          /\ payments' = IF w.found THEN payments \cup Recorded(e) ELSE payments
          /\ owner' \in {owner, "idle"}
          /\ UNCHANGED tagged /\ UNCHANGED stripeVars
    BY DEF Apply
  <1>2. Tagged(e) => w.found
    BY <1>1 DEF Books, Matched
  <1>3. TypeOK'
    BY <1>1, SyncEffect DEF Books, TypeOK, stripeVars, Recorded, Unit
  <1>4. Matched' /\ Known'
    BY <1>1 DEF Books, Matched, Known, Tagged, stripeVars
  <1>5. Applied'
    <2>1. e.at \in Nat /\ org.eventAt \in Nat /\ org'.eventAt \in Nat /\ receipts \subseteq Events
      BY <1>1, <1>3 DEF Books, TypeOK, Events
    <2>2. org'.eventAt >= org.eventAt
      BY <1>1, <2>1, SyncEffect
    <2>3. \A f \in receipts : Final(f) => f.at <= org'.eventAt
      BY <2>1, <2>2 DEF Books, Applied, Events
    <2>4. Final(e) => e.at <= org'.eventAt
      BY <1>1, <1>2, <2>1, SyncEffect DEF Final
    <2> QED
      BY <1>1, <2>3, <2>4 DEF Applied, Final, Tagged
  <1>6. PaymentsKept'
    BY <1>1, <1>2 DEF Books, PaymentsKept, Recorded, Tagged
  <1>7. PortalReachable'
    BY <1>1, <1>2, SyncEffect DEF Books, PortalReachable, Tagged
  <1> QED
    BY <1>3, <1>4, <1>5, <1>6, <1>7 DEF Books

LEMMA BooksNext == Books /\ [Next]_vars => Books'
  <1> SUFFICES ASSUME Books, [Next]_vars PROVE Books'
    OBVIOUS
  <1>1. CASE \E s \in Subs : StripeActs(s) \/ StartSubscription(s)
    BY <1>1, StripeBooks, StartBooks
  <1>2. CASE ExtendTrial \/ TrialExtended
    BY <1>2, OwnerBooks
  <1>3. CASE \E e \in sent : Receive(e) \/ Apply(e) \/ Fail(e)
    BY <1>3, ReceiveBooks, ApplyBooks
  <1>4. CASE UNCHANGED vars
    BY <1>4 DEF vars, Books, TypeOK, Matched, Applied, Known, PaymentsKept,
                PortalReachable, Final, Tagged
  <1> QED
    BY <1>1, <1>2, <1>3, <1>4 DEF Next

\* The unit's fields, the receipts and the payments keep their types, however
\* many subscriptions it starts and however their events arrive.
THEOREM TypeCorrect == Spec => []TypeOK
  <1>1. Books => TypeOK
    BY DEF Books
  <1> QED
    BY BooksInit, BooksNext, <1>1, PTL DEF Spec

\* The receipt and the payment's row commit together (applyStripeOnce).
THEOREM PaymentsOnRecord == Spec => []PaymentsKept
  <1>1. Books => PaymentsKept
    BY DEF Books
  <1> QED
    BY BooksInit, BooksNext, <1>1, PTL DEF Spec

\* An answered checkout, stale or not, leaves the customer the portal needs.
THEOREM PortalStaysReachable == Spec => []PortalReachable
  <1>1. Books => PortalReachable
    BY DEF Books
  <1> QED
    BY BooksInit, BooksNext, <1>1, PTL DEF Spec

\* The stripeEventAt guard: once a cancel or a payment failure that named the
\* unit was answered, no event of an earlier second changes the status.
LEMMA NewerStandsStep ==
  ASSUME Books, [Next]_vars,
         NEW e \in receipts' \ receipts, NEW f \in receipts,
         f.type \in {"deleted", "failed"} /\ Tagged(f) /\ e.at < f.at
  PROVE  org'.status = org.status /\ org'.ending = org.ending
  <1>1. e \in sent /\ Apply(e)
    BY DEF Next, vars, StripeActs, TrialStarts, SubscriptionMade, FirstPayment, NeverPaid,
           PaymentFails, PaymentSucceeds, PortalCancels, SubscriptionEnds, Change,
           StartSubscription, ExtendTrial, TrialExtended, Receive, Fail, Apply, orgVars
  <1>2. f.at <= org.eventAt
    BY DEF Books, Applied, Final
  <1>3. ~Fresh(e)
    BY <1>1, <1>2 DEF Fresh, Books, TypeOK, Events
  <1> QED
    BY <1>1, <1>3, SyncEffect DEF Apply

THEOREM NewerEventStands == Spec => NewerStands
  <1>1. Books /\ [Next]_vars =>
          [\A e \in receipts' \ receipts, f \in receipts :
              f.type \in {"deleted", "failed"} /\ Tagged(f) /\ e.at < f.at
              => org'.status = org.status /\ org'.ending = org.ending]_vars
    BY NewerStandsStep
  <1> QED
    BY BooksInit, BooksNext, <1>1, PTL DEF Spec, NewerStands

-----------------------------------------------------------------------------
(* The mirror.  All events of a change carry its status, one of them at     *)
(* least decides both fields, and the rest agree with it.  Once a deciding  *)
(* event of the last change is applied, events of earlier seconds are late  *)
(* and the other events of the change bring the same fields.                *)

Decides(e) == e.type \in {"checkout", "created", "updated", "deleted"}

\* What the webhook writes for an event is what Stripe says in it.
Agrees(e) ==
    /\ e.type = "checkout"  => mapStripeStatus(e.status) = "active" /\ ~e.ending
    /\ e.type = "deleted"   => mapStripeStatus(e.status) = "canceled" /\ ~e.ending
    /\ e.type = "failed"    => mapStripeStatus(e.status) = "past_due"
    /\ e.type = "succeeded" => mapStripeStatus(e.status) = "active"

Dated == /\ org.eventAt <= now
         /\ \A e \in sent : e.change <= changes /\ e.at <= now /\ Agrees(e)

Current ==
    \A e \in sent : Latest(e) =>
        /\ e.at = now
        /\ stripe[e.sub].status = e.status /\ stripe[e.sub].ending = e.ending
        /\ \E d \in sent : Latest(d) /\ Decides(d)
        /\ \A f \in sent : Latest(f) => f.status = e.status /\ f.ending = e.ending

Alone == \A e \in sent : e.at = now => Latest(e)

Copies(e) ==
    /\ org.eventAt = now /\ org.ending = e.ending
    /\ org.status = mapStripeStatus(e.status) \/ (org.status = "trialing" /\ owner # "idle")

Copied == Alone => \A e \in receipts : Latest(e) /\ Decides(e) => Copies(e)

Mirror == Books /\ Dated /\ Current /\ Copied

LEMMA MirrorInit == Init => Mirror
  BY BooksInit DEF Init, Mirror, Dated, Current, Copied

LEMMA ChangeMirror ==
  ASSUME Mirror, Books', NEW s \in Subs, NEW status \in Statuses, NEW ending \in BOOLEAN,
         NEW types \in SUBSET Types, NEW paid \in BOOLEAN,
         \E type \in types : type \in {"checkout", "created", "updated", "deleted"},
         "checkout" \in types => mapStripeStatus(status) = "active" /\ ~ending,
         "deleted" \in types => mapStripeStatus(status) = "canceled" /\ ~ending,
         "failed" \in types => mapStripeStatus(status) = "past_due",
         "succeeded" \in types => mapStripeStatus(status) = "active",
         Change(s, status, ending, types, paid)
  PROVE  Mirror'
  <1>1. PICK at \in {now, now + 1} :
          /\ now' = at
          /\ sent' = sent \cup {Event(type, s, status, ending, at, paid) : type \in types}
    BY DEF Change
  <1> DEFINE batch == {Event(type, s, status, ending, at, paid) : type \in types}
  <1>2. /\ UNCHANGED orgVars /\ changes' = changes + 1
        /\ stripe' = [stripe EXCEPT ![s].status = status, ![s].ending = ending]
    BY DEF Change
  <1>3. /\ now \in Nat /\ changes \in Nat /\ org.eventAt \in Nat /\ sent \subseteq Events
        /\ stripe \in [Subs -> [status : Statuses \cup {"none"}, ending : BOOLEAN,
                                customer : Customers]]
        /\ receipts \subseteq sent
    BY DEF Mirror, Books, TypeOK
  <1>4. stripe'[s].status = status /\ stripe'[s].ending = ending
    BY <1>2, <1>3
  <1>5. \A e \in sent : e.change \in Nat /\ e.change <= changes /\ e.at \in Nat /\ e.at <= now /\ Agrees(e)
    BY <1>3 DEF Mirror, Dated, Events
  <1>6. \A e \in batch : /\ e.change = changes' /\ e.at = at /\ e.sub = s /\ e.type \in types
                         /\ e.status = status /\ e.ending = ending
    BY <1>2 DEF Event
  <1>7. \E d \in batch : Decides(d)
    <2>1. PICK type \in types : type \in {"checkout", "created", "updated", "deleted"}
      OBVIOUS
    <2>2. Event(type, s, status, ending, at, paid).type = type
      BY DEF Event
    <2> QED
      BY <2>1, <2>2 DEF Decides
  <1>8. \A e \in batch : Agrees(e)
    BY <1>6 DEF Agrees
  <1> HIDE DEF batch
  <1>9. sent' = sent \cup batch
    BY <1>1 DEF batch
  <1>10. \A e \in sent : e.change # changes'
    BY <1>2, <1>3, <1>5
  <1>11. \A e \in sent' : e.change = changes' <=> e \in batch
    BY <1>6, <1>9, <1>10
  <1>12. Dated'
    <2>1. now' \in Nat /\ now <= now' /\ changes' \in Nat /\ changes <= changes'
      BY <1>1, <1>2, <1>3
    <2>2. org'.eventAt <= now'
      BY <1>2, <1>3, <2>1 DEF Mirror, Dated, orgVars
    <2>3. ASSUME NEW e \in sent' PROVE e.change <= changes' /\ e.at <= now' /\ Agrees(e)
      <3>1. CASE e \in sent
        BY <1>3, <1>5, <2>1, <3>1
      <3>2. CASE e \in batch
        BY <1>1, <1>6, <1>8, <2>1, <3>2
      <3> QED
        BY <1>9, <3>1, <3>2
    <2> QED
      BY <2>2, <2>3 DEF Dated, Agrees
  <1>13. Current'
    <2>1. \A e \in sent' : Latest(e)' <=> e \in batch
      BY <1>11 DEF Latest
    <2>2. ASSUME NEW e \in sent', Latest(e)'
          PROVE  /\ e.at = now'
                 /\ stripe'[e.sub].status = e.status /\ stripe'[e.sub].ending = e.ending
                 /\ \E d \in sent' : Latest(d)' /\ Decides(d)
                 /\ \A f \in sent' : Latest(f)' => f.status = e.status /\ f.ending = e.ending
      BY <1>1, <1>4, <1>6, <1>7, <1>9, <2>1, <2>2
    <2> QED
      BY <2>2 DEF Current, Latest, Decides
  <1>14. Copied'
    <2>1. \A e \in receipts' : ~(e.change = changes')
      BY <1>2, <1>3, <1>10 DEF orgVars
    <2> QED
      BY <2>1 DEF Copied, Latest
  <1> QED
    BY <1>12, <1>13, <1>14 DEF Mirror

LEMMA StripeMirror ==
  ASSUME Mirror, Books', NEW s \in Subs, StripeActs(s)
  PROVE  Mirror'
  <1>0. /\ stripe[s].ending \in BOOLEAN
        /\ mapStripeStatus("trialing") = "active" /\ mapStripeStatus("active") = "active"
        /\ mapStripeStatus("past_due") = "past_due" /\ mapStripeStatus("canceled") = "canceled"
    BY DEF Mirror, Books, TypeOK, mapStripeStatus
  <1>1. CASE TrialStarts(s)
    <2> DEFINE types == {"created", "checkout", "succeeded"}
    <2>1. Change(s, "trialing", FALSE, types, FALSE)
      BY <1>1 DEF TrialStarts
    <2>2. types \in SUBSET Types /\ "trialing" \in Statuses
      BY DEF Types, Statuses
    <2>3. /\ \E type \in types : type \in {"checkout", "created", "updated", "deleted"}
          /\ "deleted" \notin types /\ "failed" \notin types
      OBVIOUS
    <2> HIDE DEF types
    <2> QED
      BY <1>0, <2>1, <2>2, <2>3, ChangeMirror
  <1>2. CASE SubscriptionMade(s)
    BY <1>2, ChangeMirror DEF SubscriptionMade, Statuses, Types
  <1>3. CASE FirstPayment(s)
    <2> DEFINE types == {"updated", "checkout", "succeeded"}
    <2>1. Change(s, "active", FALSE, types, TRUE)
      BY <1>3 DEF FirstPayment
    <2>2. types \in SUBSET Types /\ "active" \in Statuses
      BY DEF Types, Statuses
    <2>3. /\ \E type \in types : type \in {"checkout", "created", "updated", "deleted"}
          /\ "deleted" \notin types /\ "failed" \notin types
      OBVIOUS
    <2> HIDE DEF types
    <2> QED
      BY <1>0, <2>1, <2>2, <2>3, ChangeMirror
  <1>4. CASE NeverPaid(s)
    BY <1>4, ChangeMirror DEF NeverPaid, Statuses, Types
  <1>5. CASE PaymentFails(s)
    <2> DEFINE types == {"updated", "failed"}
    <2>1. Change(s, "past_due", stripe[s].ending, types, FALSE)
      BY <1>5 DEF PaymentFails
    <2>2. types \in SUBSET Types /\ "past_due" \in Statuses
      BY DEF Types, Statuses
    <2>3. /\ \E type \in types : type \in {"checkout", "created", "updated", "deleted"}
          /\ "checkout" \notin types /\ "deleted" \notin types /\ "succeeded" \notin types
      OBVIOUS
    <2> HIDE DEF types
    <2> QED
      BY <1>0, <2>1, <2>2, <2>3, ChangeMirror
  <1>6. CASE PaymentSucceeds(s)
    <2> DEFINE types == {"updated", "succeeded"}
    <2>1. Change(s, "active", stripe[s].ending, types, TRUE)
      BY <1>6 DEF PaymentSucceeds
    <2>2. types \in SUBSET Types /\ "active" \in Statuses
      BY DEF Types, Statuses
    <2>3. /\ \E type \in types : type \in {"checkout", "created", "updated", "deleted"}
          /\ "checkout" \notin types /\ "deleted" \notin types /\ "failed" \notin types
      OBVIOUS
    <2> HIDE DEF types
    <2> QED
      BY <1>0, <2>1, <2>2, <2>3, ChangeMirror
  <1>7. CASE PortalCancels(s)
    BY <1>0, <1>7, ChangeMirror DEF PortalCancels, Is, Statuses, Types
  <1>8. CASE SubscriptionEnds(s)
    BY <1>0, <1>8, ChangeMirror DEF SubscriptionEnds, Statuses, Types
  <1> QED
    BY <1>1, <1>2, <1>3, <1>4, <1>5, <1>6, <1>7, <1>8 DEF StripeActs

LEMMA StartMirror ==
  ASSUME Mirror, Books', NEW s \in Subs, StartSubscription(s)
  PROVE  Mirror'
  <1>1. /\ UNCHANGED <<sent, now, changes>> /\ UNCHANGED orgVars
        /\ stripe[s].status = "none" /\ \A r \in Subs \ {s} : stripe'[r] = stripe[r]
    BY DEF StartSubscription, Is, Mirror, Books, TypeOK
  <1>2. ASSUME NEW e \in sent, Latest(e) PROVE stripe'[e.sub] = stripe[e.sub]
    <2>1. e.sub \in Subs /\ e.status # "none"
      BY DEF Mirror, Books, TypeOK, Events, Statuses
    <2>2. stripe[e.sub].status = e.status
      BY <1>2 DEF Mirror, Current
    <2> QED
      BY <1>1, <2>1, <2>2
  <1>3. Current'
    BY <1>1, <1>2 DEF Mirror, Current, Latest, Decides
  <1>4. Dated' /\ Copied'
    BY <1>1 DEF Mirror, Dated, Copied, Alone, Copies, Latest, Decides, Agrees, orgVars
  <1> QED
    BY <1>3, <1>4 DEF Mirror

\* What an applied event leaves of the two fields.
LEMMA SyncFields ==
  ASSUME Books, NEW e \in sent
  PROVE  /\ Sync(org, e).eventAt \in {org.eventAt, e.at}
         /\ ~Fresh(e) => Sync(org, e).eventAt = org.eventAt
         /\ Fresh(e) /\ e.type = "checkout" =>
               /\ Sync(org, e).status = "active" /\ Sync(org, e).ending = FALSE
               /\ Sync(org, e).eventAt = e.at
         /\ Fresh(e) /\ e.type \in {"created", "updated"} =>
               /\ Sync(org, e).status = mapStripeStatus(e.status)
               /\ Sync(org, e).ending = e.ending /\ Sync(org, e).eventAt = e.at
         /\ Fresh(e) /\ e.type = "deleted" =>
               /\ Sync(org, e).status = "canceled" /\ Sync(org, e).ending = FALSE
               /\ Sync(org, e).eventAt = e.at
         /\ Fresh(e) /\ e.type = "failed" =>
               /\ Sync(org, e).status = "past_due" /\ Sync(org, e).ending = org.ending
               /\ Sync(org, e).eventAt = e.at
         /\ Fresh(e) /\ e.type = "succeeded" =>
               \/ Sync(org, e) = org
               \/ /\ Sync(org, e).status = "active" /\ Sync(org, e).ending = org.ending
                  /\ Sync(org, e).eventAt = e.at
  <1>1. /\ e \in Events /\ CustomerOf(e) \in Customers /\ e.sub \in Customers /\ org \in Unit
        /\ e.ending \in BOOLEAN
    <2>1. e \in Events /\ e.sub \in Subs /\ e.ending \in BOOLEAN
      BY DEF Books, TypeOK, Events
    <2> QED
      BY <2>1 DEF Books, TypeOK, CustomerOf, Customers, Unit
  <1>2. mapStripeStatus(e.status) \in {"active", "canceled", "past_due"}
    BY DEF mapStripeStatus
  <1>3. CASE ~Fresh(e)
    <2>1. Sync(org, e) \in {org, Ids(org, e)}
      BY <1>3 DEF Sync, Late
    <2> QED
      BY <1>1, <1>3, <2>1, IdsType
  <1>4. CASE Fresh(e)
    <2>1. CASE e.type = "checkout"
      <3> DEFINE o == [Ids(org, e) EXCEPT !.status = "active", !.ending = FALSE]
      <3>1. Sync(org, e) = Stamped(e, o)
        BY <1>4, <2>1 DEF Sync
      <3>2. o \in Unit /\ o.status = "active" /\ o.ending = FALSE
        BY <1>1, IdsType DEF Unit
      <3> HIDE DEF o
      <3> QED
        BY <1>1, <1>4, <2>1, <3>1, <3>2, StampType
    <2>2. CASE e.type \in {"created", "updated"}
      <3> DEFINE o == [org EXCEPT !.status = mapStripeStatus(e.status),
                                  !.ending = e.ending, !.sub = e.sub]
      <3>1. Sync(org, e) = Stamped(e, o)
        BY <1>4, <2>2 DEF Sync
      <3>2. o \in Unit /\ o.status = mapStripeStatus(e.status) /\ o.ending = e.ending
        BY <1>1, <1>2 DEF Unit
      <3> HIDE DEF o
      <3> QED
        BY <1>1, <1>4, <2>2, <3>1, <3>2, StampType
    <2>3. CASE e.type = "deleted"
      <3> DEFINE o == [org EXCEPT !.status = "canceled", !.ending = FALSE]
      <3>1. Sync(org, e) = Stamped(e, o)
        BY <1>4, <2>3 DEF Sync
      <3>2. o \in Unit /\ o.status = "canceled" /\ o.ending = FALSE
        BY <1>1 DEF Unit
      <3> HIDE DEF o
      <3> QED
        BY <1>1, <1>4, <2>3, <3>1, <3>2, StampType
    <2>4. CASE e.type = "failed"
      <3> DEFINE o == [org EXCEPT !.status = "past_due"]
      <3>1. Sync(org, e) = Stamped(e, o)
        BY <1>4, <2>4 DEF Sync
      <3>2. o \in Unit /\ o.status = "past_due" /\ o.ending = org.ending
        BY <1>1 DEF Unit
      <3> HIDE DEF o
      <3> QED
        BY <1>1, <1>4, <2>4, <3>1, <3>2, StampType
    <2>5. CASE e.type = "succeeded"
      <3> DEFINE o == [org EXCEPT !.status = "active"]
      <3>1. Sync(org, e) = IF org.status = "past_due" THEN Stamped(e, o) ELSE org
        BY <1>4, <2>5 DEF Sync
      <3>2. o \in Unit /\ o.status = "active" /\ o.ending = org.ending
        BY <1>1 DEF Unit
      <3> HIDE DEF o
      <3> QED
        BY <1>1, <1>4, <2>5, <3>1, <3>2, StampType
    <2> QED
      BY <1>1, <2>1, <2>2, <2>3, <2>4, <2>5 DEF Events, Types
  <1> QED
    BY <1>3, <1>4

LEMMA ApplyMirror ==
  ASSUME Mirror, Books', NEW e \in sent, Apply(e)
  PROVE  Mirror'
  <1>1. PICK w \in open :
          /\ w.event = e
          /\ receipts' = receipts \cup {e}
          /\ org' = IF w.found THEN Sync(org, e) ELSE org
          /\ owner' = IF owner = "extended" /\ org'.status # "trialing" THEN "idle" ELSE owner
          /\ UNCHANGED tagged /\ UNCHANGED stripeVars
    BY DEF Apply
  <1>2. Books /\ (Tagged(e) => w.found)
    BY <1>1 DEF Mirror, Books, Matched
  <1>3. /\ e.at \in Nat /\ now \in Nat /\ org.eventAt \in Nat /\ org.eventAt <= now
        /\ e.at <= now /\ Agrees(e) /\ e.type \in Types
    BY DEF Mirror, Books, TypeOK, Dated, Events
  <1>4. org'.eventAt \in {org.eventAt, e.at}
    BY <1>1, <1>2, SyncFields
  <1>5. Dated'
    BY <1>1, <1>3, <1>4 DEF Mirror, Dated, Agrees, stripeVars
  <1>6. Current'
    BY <1>1 DEF Mirror, Current, Latest, Decides, stripeVars
  <1>7. ASSUME Alone, NEW d \in receipts', Latest(d), Decides(d) PROVE Copies(d)'
    <2>1. d \in sent /\ (d \in receipts \/ d = e)
      BY <1>1 DEF Mirror, Books, TypeOK
    <2>2. d \in receipts => Copies(d)
      BY <1>7 DEF Mirror, Copied
    <2>3. now' = now
      BY <1>1 DEF stripeVars
    <2>4. ASSUME d \in receipts, org'.status = org.status, org'.ending = org.ending,
                 org'.eventAt = org.eventAt
          PROVE  Copies(d)'
      BY <1>1, <2>2, <2>3, <2>4 DEF Copies
    <2>5. ASSUME org'.status = mapStripeStatus(d.status), org'.ending = d.ending,
                 org'.eventAt = now
          PROVE  Copies(d)'
      BY <2>3, <2>5 DEF Copies
    <2>6. CASE ~Latest(e)
      <3>1. e.at < now /\ d \in receipts
        BY <1>3, <1>7, <2>1, <2>6 DEF Alone
      <3>2. ~Fresh(e)
        BY <1>3, <2>2, <3>1 DEF Copies, Fresh
      <3> QED
        BY <1>1, <1>2, <2>4, <3>1, <3>2, SyncEffect, SyncFields
    <2>7. CASE Latest(e)
      <3>1. e.at = now /\ d.status = e.status /\ d.ending = e.ending
        BY <1>7, <2>1, <2>7 DEF Mirror, Current
      <3>2. Fresh(e)
        BY <1>3, <3>1 DEF Fresh
      <3>3. CASE ~w.found
        <4>1. d \in receipts
          BY <1>2, <1>7, <2>1, <3>3 DEF Tagged, Decides
        <4> QED
          BY <1>1, <2>4, <3>3, <4>1
      <3>4. CASE w.found /\ Decides(e)
        <4>1. /\ org'.status = mapStripeStatus(e.status) /\ org'.ending = e.ending
              /\ org'.eventAt = e.at
          BY <1>1, <1>2, <1>3, <3>2, <3>4, SyncFields DEF Decides, Agrees, Mirror, Books, TypeOK, Events
        <4> QED
          BY <2>5, <3>1, <4>1
      <3>5. CASE w.found /\ ~Decides(e)
        <4>1. d \in receipts /\ Copies(d) /\ e.type \in {"failed", "succeeded"}
          BY <1>3, <1>7, <2>1, <2>2, <3>5 DEF Decides, Types
        <4>2. CASE Sync(org, e) = org
          BY <1>1, <2>4, <3>5, <4>1, <4>2
        <4>3. CASE Sync(org, e) # org
          <5>1. /\ org'.status = mapStripeStatus(e.status) /\ org'.ending = org.ending
                /\ org'.eventAt = e.at
            BY <1>1, <1>2, <1>3, <3>2, <3>5, <4>1, <4>3, SyncFields DEF Agrees
          <5> QED
            BY <2>5, <3>1, <4>1, <5>1 DEF Copies
        <4> QED
          BY <4>2, <4>3
      <3> QED
        BY <3>3, <3>4, <3>5
    <2> QED
      BY <2>6, <2>7
  <1>8. Copied'
    BY <1>1, <1>7 DEF Copied, Copies, Alone, Latest, Decides, stripeVars
  <1> QED
    BY <1>5, <1>6, <1>8 DEF Mirror

LEMMA MirrorStep ==
  ASSUME Mirror, Books', [Next]_vars
  PROVE  Mirror'
  <1>1. CASE \E s \in Subs : StripeActs(s) \/ StartSubscription(s)
    BY <1>1, StripeMirror, StartMirror
  <1>2. CASE ExtendTrial
    BY <1>2 DEF ExtendTrial, Mirror, Dated, Current, Copied, Alone, Copies, Latest, Decides,
                Agrees, stripeVars
  <1>3. CASE TrialExtended
    <2>1. /\ org'.status = "trialing" /\ org'.ending = org.ending /\ org'.eventAt = org.eventAt
          /\ owner' = "extended" /\ receipts' = receipts /\ UNCHANGED stripeVars
      BY <1>3 DEF TrialExtended, Mirror, Books, TypeOK
    <2>2. Dated' /\ Current'
      BY <2>1 DEF Mirror, Dated, Current, Latest, Decides, Agrees, stripeVars
    <2>3. Copied'
      BY <2>1 DEF Mirror, Copied, Alone, Copies, Latest, Decides, stripeVars
    <2> QED
      BY <2>2, <2>3 DEF Mirror
  <1>4. ASSUME NEW e \in sent, Receive(e) \/ Fail(e) PROVE Mirror'
    <2>1. UNCHANGED <<receipts, org, owner, tagged>> /\ UNCHANGED stripeVars
      BY <1>4 DEF Receive, Fail
    <2> QED
      BY <2>1 DEF Mirror, Dated, Current, Copied, Alone, Copies, Latest, Decides,
                  Agrees, stripeVars
  <1>5. CASE UNCHANGED vars
    BY <1>5 DEF vars, Mirror, Dated, Current, Copied, Alone, Copies, Latest, Decides, Agrees
  <1> QED
    BY <1>1, <1>2, <1>3, <1>4, <1>5, ApplyMirror DEF Next

LEMMA MirrorHolds == Mirror => Mirrors
  <1> SUFFICES ASSUME Mirror, Settled, org.status = "trialing" => owner = "idle",
                      \A e \in sent : e.at = now => Latest(e),
                      NEW e \in sent, Latest(e)
               PROVE  /\ org.status = mapStripeStatus(stripe[e.sub].status)
                      /\ org.ending = stripe[e.sub].ending
    BY DEF Mirrors
  <1>1. PICK d \in sent : Latest(d) /\ Decides(d)
    BY DEF Mirror, Current
  <1>2. /\ stripe[e.sub].status = e.status /\ stripe[e.sub].ending = e.ending
        /\ d.status = e.status /\ d.ending = e.ending
    BY <1>1 DEF Mirror, Current
  <1>3. Copies(d)
    BY <1>1 DEF Mirror, Copied, Alone, Settled
  <1> QED
    BY <1>2, <1>3 DEF Copies

\* For any number of subscriptions, changes and handlers: once every event is
\* answered, in whatever order it came, failed and came again, the unit's row
\* has the status and the cancellation of the subscription that changed last.
THEOREM MirrorsStripe == Spec => []Mirrors
  <1>1. Mirror /\ [Next]_vars => Mirror'
    BY BooksNext, MirrorStep DEF Mirror
  <1> QED
    BY MirrorInit, <1>1, MirrorHolds, PTL DEF Spec
=============================================================================
