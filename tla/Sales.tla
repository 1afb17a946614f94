------------------------------- MODULE Sales -------------------------------
(***************************************************************************)
(* Fundraising orders and the treasury rows they post                      *)
(* (src/src/lib/sales, src/src/server-actions/sales.ts), with the cached   *)
(* balances of src/src/lib/treasury: settling an order, taking it back off *)
(* the books, the leader's pages, Stripe's webhook, the treasurer's        *)
(* reversal, a booth's lump sum and the balance recompute.                 *)
(*                                                                         *)
(* Money is posted by settle and unsettle in one transaction each, under   *)
(* the order's row lock.  Around them the pages read the order without a   *)
(* lock, decide, and act on what they read.                                *)
(***************************************************************************)
EXTENDS Integers, FiniteSets

CONSTANTS
    Orders,       \* orders of one campaign
    Booths,       \* the orders a booth's lump sum is entered as
    Online,       \* the orders of the public page, paid through Stripe
    Split,        \* the orders whose proceeds are split with a scout
    Handlers,     \* requests that can be under way together
    Gross,        \* an order's total
    Share,        \* the scout's part of it
    MaxRequests   \* bound: requests of leaders and the treasurer

ASSUME SalesAssumption ==
    /\ Orders # {} /\ Booths \subseteq Orders /\ Online \subseteq Orders \ Booths
    /\ Split \subseteq Orders
    /\ Gross \in Nat \ {0} /\ Share \in 1 .. Gross
    /\ MaxRequests \in Nat

VARIABLES
    status,    \* an order's status
    deposit,   \* depositTransactionId is set
    handed,    \* quantityDelivered = quantity, on the order's items
    rows,      \* Transaction rows, the reversals apart
    backs,     \* reversal rows: the row each points back at
    bal,       \* balanceCents of the two funds and the scout's subaccount
    unpaid,    \* online orders whose checkout is still open
    events,    \* Stripe's events of a payment, not yet answered
    pc,        \* where a request is
    job,       \* what it does, and what it has read
    audit,     \* recomputeOrgBalances on one balance
    overtaken, \* a recompute's fix was overtaken by a posting
    entries,   \* postings made; numbers the rows of one transaction
    asked      \* requests made

vars == <<status, deposit, handed, rows, backs, bal, unpaid, events, pc, job,
          audit, overtaken, entries, asked>>
orderVars == <<status, deposit, handed>>
bookVars == <<rows, backs, bal, audit, overtaken, entries>>
stripeVars == <<unpaid, events>>

Statuses == {"placed", "paid", "delivered", "cancelled"}
Kinds    == {"deposit", "out", "in", "credit"}
Books    == {"campaign", "scouts", "member"}

Row  == [order : Orders, kind : Kinds, batch : Nat]
Back == [row : Row, batch : Nat, hand : BOOLEAN]   \* hand: by the treasurer

Stages == {"idle", "settle", "settling", "unsettle", "unsettling", "update",
           "item", "check", "reverse", "legs", "credit"}

\* by: who asked; want: the status asked for; seen, posted, plan: the order's
\* status, its depositTransactionId and its standing rows, as they were read.
Job == [order : Orders, by : {"leader", "checkout", "intent", "booth"}, want : Statuses,
        seen : Statuses \cup {"none"}, posted : BOOLEAN, plan : SUBSET Row]

TypeOK ==
    /\ status \in [Orders -> Statuses \cup {"none"}]
    /\ deposit \in [Orders -> BOOLEAN] /\ handed \in [Orders -> BOOLEAN]
    /\ rows \subseteq Row /\ backs \subseteq Back
    /\ bal \in [Books -> Int]
    /\ unpaid \subseteq Online
    /\ events \in [Orders -> SUBSET {"checkout", "intent"}]
    /\ pc \in [Handlers -> Stages]
    /\ job \in [Handlers -> Job]
    /\ audit \in [at : {"idle", "read", "summed"}, book : Books, cached : Int,
                  sum : Int, moved : BOOLEAN]
    /\ overtaken \in BOOLEAN
    /\ entries \in Nat /\ asked \in Nat

NoJob == [order |-> CHOOSE o \in Orders : TRUE, by |-> "leader", want |-> "placed",
          seen |-> "none", posted |-> FALSE, plan |-> {}]
NoAudit == [at |-> "idle", book |-> "campaign", cached |-> 0, sum |-> 0, moved |-> FALSE]

Init ==
    /\ status = [o \in Orders |-> "none"]
    /\ deposit = [o \in Orders |-> FALSE] /\ handed = [o \in Orders |-> FALSE]
    /\ rows = {} /\ backs = {}
    /\ bal = [x \in Books |-> 0]
    /\ unpaid = {} /\ events = [o \in Orders |-> {}]
    /\ pc = [h \in Handlers |-> "idle"] /\ job = [h \in Handlers |-> NoJob]
    /\ audit = NoAudit /\ overtaken = FALSE
    /\ entries = 0 /\ asked = 0

-----------------------------------------------------------------------------
(* The ledger. *)

\* What n[k] rows of each kind k come to in a balance.
Value(n, x) ==
    CASE x = "campaign" -> Gross * n["deposit"] - Share * n["out"]
      [] x = "scouts"   -> Share * (n["in"] + n["credit"])
      [] x = "member"   -> Share * n["credit"]

Count(S) == [k \in Kinds |-> Cardinality({r \in S : r.kind = k})]

\* SUM(amountCents) of a balance, the reversals included.
Actual(x) ==
    Value(Count(rows), x)
        - Value([k \in Kinds |-> Cardinality({b \in backs : b.row.kind = k})], x)

\* Fault: the member's subaccount is not touched.
MovesFunds(S, x) == IF x = "member" THEN 0 ELSE Value(Count(S), x)

\* postWithin: the increments that go with the insert of some rows.
Moves(S, x) == Value(Count(S), x)

Reversed == {b.row : b \in backs}
Standing == rows \ Reversed

NewRows(o, kinds) == [order : {o}, kind : kinds, batch : {entries + 1}]

\* One transaction: rows S, reversals of the rows T, and the balances.
Post(S, T, hand) ==
    /\ entries' = entries + 1
    /\ rows' = rows \cup S
    /\ backs' = backs \cup [row : T, batch : {entries + 1}, hand : {hand}]
    /\ bal' = [x \in Books |-> bal[x] + Moves(S, x) - Moves(T, x)]
    /\ audit' = [audit EXCEPT !.moved = audit.at = "summed"]
    /\ UNCHANGED overtaken

\* Fault: reversesId is not unique.
Twice(r) == TRUE

\* The unique index on reversesId lets a reversal of the row in.
Reversible(r) == r \notin Reversed

\* Fault: the legs of every split transfer go without salesOrderId.
TiedByKind(r) == r.kind \in {"deposit", "credit"}

\* The row carries its order's id: all but the legs of a booth's transfer.
Tied(r) == r.kind \in {"deposit", "credit"} \/ r.order \notin Booths

-----------------------------------------------------------------------------
(* An order comes in. *)

\* The public page, or a leader's form.
PlaceOrder(o) ==
    /\ status[o] = "none" /\ o \notin Booths
    /\ status' = [status EXCEPT ![o] = "placed"]
    /\ unpaid' = IF o \in Online THEN unpaid \cup {o} ELSE unpaid
    /\ UNCHANGED <<deposit, handed, events, pc, job, asked>> /\ UNCHANGED bookVars

\* Stripe: the buyer pays, and two events tell of it.
BuyerPays(o) ==
    /\ o \in unpaid
    /\ unpaid' = unpaid \ {o}
    /\ events' = [events EXCEPT ![o] = {"checkout", "intent"}]
    /\ UNCHANGED <<pc, job, asked>> /\ UNCHANGED orderVars /\ UNCHANGED bookVars

Begin(h, stage, j) ==
    /\ pc[h] = "idle"
    /\ pc' = [pc EXCEPT ![h] = stage]
    /\ job' = [job EXCEPT ![h] = j]

Request(h, stage, j) ==
    /\ asked < MaxRequests
    /\ asked' = asked + 1
    /\ Begin(h, stage, j)
    /\ UNCHANGED stripeVars /\ UNCHANGED bookVars

\* A new order that is settled at once: a leader's cash order, a booth's sum.
\* The order is a transaction of its own.
CreateOrder(h, o) ==
    /\ status[o] = "none" /\ o \notin Online
    /\ status' = [status EXCEPT ![o] = "placed"]
    /\ Request(h, "settle", [NoJob EXCEPT !.order = o, !.want = "paid",
                                !.by = IF o \in Booths THEN "booth" ELSE "leader"])
    /\ UNCHANGED <<deposit, handed>>

-----------------------------------------------------------------------------
(* The leader's pages read an order, and choose by what they read. *)

Paid(s) == s \in {"paid", "delivered"}

\* Fault: the form's status is taken unparsed.
AnyStatus == Statuses \cup {"refunded"}

\* StatusSchema: what the form may ask for.
Wanted == {"placed", "paid", "delivered", "cancelled"}

UpdateOrderStatus(h, o, want) ==
    LET seen == status[o]
        j == [NoJob EXCEPT !.order = o, !.want = want, !.seen = seen]
    IN /\ seen # "none"
       /\ \/ want = "paid" /\ seen # "paid" /\ Request(h, "settle", j)
          \/ want \in {"cancelled", "placed"} /\ Paid(seen) /\ Request(h, "unsettle", j)
          \/ /\ want = "paid" => seen = "paid"
             /\ want = "delivered" => Paid(seen)      \* "Mark paid before delivered."
             /\ want \in {"cancelled", "placed"} => ~Paid(seen)
             /\ Request(h, "update", j)
       /\ UNCHANGED orderVars

\* setItemDelivered reads the item with its order ...
SetItemDelivered(h, o, all) ==
    /\ status[o] # "none" /\ o \notin Booths
    /\ Request(h, "item", [NoJob EXCEPT !.order = o, !.seen = status[o],
                              !.want = IF all THEN "delivered" ELSE "placed"])
    /\ UNCHANGED orderVars

\* reverseTransactionAction finds a row with no reversal yet.
ReverseRow(h, r) ==
    /\ Request(h, "reverse", [NoJob EXCEPT !.order = r.order, !.plan = {r}])
    /\ UNCHANGED orderVars

\* The webhook: an order already paid is answered at once.
Webhook(h, o, e) ==
    /\ pc[h] = "idle" /\ e \in events[o]
    /\ IF Paid(status[o])
       THEN events' = [events EXCEPT ![o] = @ \ {e}] /\ UNCHANGED <<pc, job>>
       ELSE /\ Begin(h, "settle", [NoJob EXCEPT !.order = o, !.want = "paid", !.by = e,
                                     !.seen = status[o]])
            /\ UNCHANGED events
    /\ UNCHANGED <<unpaid, asked>> /\ UNCHANGED orderVars /\ UNCHANGED bookVars

-----------------------------------------------------------------------------
(* And then they act. *)

Ends(h) ==
    /\ pc' = [pc EXCEPT ![h] = "idle"]
    /\ job' = [job EXCEPT ![h] = NoJob]

Goes(h, stage) == pc' = [pc EXCEPT ![h] = stage] /\ UNCHANGED job

Holds(g, o) == pc[g] \in {"settling", "unsettling"} /\ job[g].order = o

\* Fault: the order is read without FOR UPDATE.
Unlocked(h, o) == TRUE

\* No other transaction holds the order's row.
Free(h, o) == \A g \in Handlers \ {h} : ~Holds(g, o)

\* settle and unsettle lock the order, and read it again.
LockOrder(h) ==
    LET o == job[h].order IN
    /\ pc[h] \in {"settle", "unsettle"}
    /\ Free(h, o)
    /\ pc' = [pc EXCEPT ![h] = IF @ = "settle" THEN "settling" ELSE "unsettling"]
    /\ job' = [job EXCEPT ![h].seen = status[o], ![h].posted = deposit[o],
                  ![h].plan = IF pc[h] = "settle" THEN {}
                              ELSE {r \in Standing : r.order = o /\ Tied(r)}]
    /\ UNCHANGED asked /\ UNCHANGED orderVars /\ UNCHANGED bookVars
    /\ UNCHANGED stripeVars

ByStripe(j) == j.by \in {"checkout", "intent"}

\* Fault: Stripe's word settles a cancelled order too.
NotSettledTwice(j) == ~Paid(j.seen) /\ ~j.posted

\* Fault: depositTransactionId is not looked at.
UnpaidStatus(j) == ~Paid(j.seen) /\ ~(j.seen = "cancelled" /\ ByStripe(j))

MaySettle(j) ==
    ~Paid(j.seen) /\ ~j.posted /\ ~(j.seen = "cancelled" /\ ByStripe(j))

\* The whole split is posted with the deposit, but for a booth's.
SettledKinds(o) == IF o \in Split \ Booths THEN Kinds ELSE {"deposit"}

\* The event is answered, or the answer is lost and Stripe sends it again.
Answers(j) ==
    /\ events' \in {events} \cup
          IF ByStripe(j) THEN {[events EXCEPT ![j.order] = @ \ {j.by}]} ELSE {}
    /\ UNCHANGED unpaid

Settle(h) ==
    LET j == job[h]
        o == j.order
    IN /\ pc[h] = "settling"
       /\ IF MaySettle(j)
          THEN /\ Post(NewRows(o, SettledKinds(o)), {}, FALSE)
               /\ status' = [status EXCEPT ![o] = "paid"]
               /\ deposit' = [deposit EXCEPT ![o] = TRUE]
          ELSE UNCHANGED <<status, deposit>> /\ UNCHANGED bookVars
       /\ IF o \in Booths \cap Split /\ j.by = "booth" THEN Goes(h, "legs") ELSE Ends(h)
       /\ Answers(j)
       /\ UNCHANGED <<handed, asked>>

\* Every standing row of the order is reversed.  If the treasurer reversed one
\* first, or wins the deadlock over it, nothing of this happens.
Unsettle(h) ==
    LET j == job[h]
        o == j.order
    IN /\ pc[h] = "unsettling"
       /\ IF \A r \in j.plan : Reversible(r)
          THEN /\ Post({}, j.plan, FALSE)
               /\ status' = [status EXCEPT ![o] = j.want]
               /\ deposit' = [deposit EXCEPT ![o] = FALSE]
          ELSE UNCHANGED <<status, deposit>> /\ UNCHANGED bookVars
       /\ Ends(h)
       /\ UNCHANGED <<handed, asked>> /\ UNCHANGED stripeVars

\* A plain update of the status, whatever the order has become.
PlainUpdate(h) ==
    LET o == job[h].order IN
    /\ pc[h] = "update" /\ Free(h, o)
    /\ status' = [status EXCEPT ![o] = job[h].want]
    /\ Ends(h)
    /\ UNCHANGED <<deposit, handed, asked>> /\ UNCHANGED bookVars
    /\ UNCHANGED stripeVars

\* ... writes the quantity ...
WriteItem(h) ==
    /\ pc[h] = "item"
    /\ handed' = [handed EXCEPT ![job[h].order] = job[h].want = "delivered"]
    /\ Goes(h, "check")
    /\ UNCHANGED <<status, deposit, asked>> /\ UNCHANGED bookVars
    /\ UNCHANGED stripeVars

\* ... reads the items again, and goes by the status it had read first.
CheckItems(h) ==
    LET j == job[h] IN
    /\ pc[h] = "check"
    /\ IF handed[j.order] /\ j.seen = "paid"
       THEN /\ pc' = [pc EXCEPT ![h] = "update"]
            /\ job' = [job EXCEPT ![h].want = "delivered"]
       ELSE Ends(h)
    /\ UNCHANGED asked /\ UNCHANGED orderVars /\ UNCHANGED bookVars
    /\ UNCHANGED stripeVars

\* The treasurer's reversal, by itself.
Reverse(h) ==
    /\ pc[h] = "reverse"
    /\ IF \A r \in job[h].plan : Reversible(r)
       THEN Post({}, job[h].plan, TRUE)
       ELSE UNCHANGED bookVars
    /\ Ends(h)
    /\ UNCHANGED asked /\ UNCHANGED orderVars /\ UNCHANGED stripeVars

\* recordBoothSale's own split, after the settlement: the transfer, with no
\* order on its legs, and then the credit.
BoothTransfer(h) ==
    /\ pc[h] = "legs"
    /\ Post(NewRows(job[h].order, {"out", "in"}), {}, FALSE)
    /\ Goes(h, "credit")
    /\ UNCHANGED asked /\ UNCHANGED orderVars /\ UNCHANGED stripeVars

\* The row refers to the order, and waits for a lock on it.
BoothCredit(h) ==
    /\ pc[h] = "credit" /\ Free(h, job[h].order)
    /\ Post(NewRows(job[h].order, {"credit"}), {}, FALSE)
    /\ Ends(h)
    /\ UNCHANGED asked /\ UNCHANGED orderVars /\ UNCHANGED stripeVars

\* The process dies: an open transaction rolls back.
Crash(h) ==
    /\ pc[h] # "idle"
    /\ Ends(h)
    /\ UNCHANGED asked /\ UNCHANGED orderVars /\ UNCHANGED bookVars
    /\ UNCHANGED stripeVars

-----------------------------------------------------------------------------
(* recomputeOrgBalances: the cached balances are read, the rows of one are   *)
(* added up, and a balance that differs is overwritten, with no transaction. *)

Audit(a) ==
    /\ audit' = a
    /\ UNCHANGED <<rows, backs, pc, job, entries>> /\ UNCHANGED orderVars
    /\ UNCHANGED stripeVars

ReadBalance(x) ==
    /\ audit.at = "idle" /\ asked < MaxRequests
    /\ asked' = asked + 1
    /\ Audit([NoAudit EXCEPT !.at = "read", !.book = x, !.cached = bal[x]])
    /\ UNCHANGED <<bal, overtaken>>

SumRows ==
    /\ audit.at = "read"
    /\ Audit(IF Actual(audit.book) = audit.cached THEN NoAudit
             ELSE [audit EXCEPT !.at = "summed", !.sum = Actual(audit.book)])
    /\ UNCHANGED <<bal, overtaken, asked>>

FixBalance ==
    /\ audit.at = "summed"
    /\ bal' = [bal EXCEPT ![audit.book] = audit.sum]
    /\ overtaken' = (overtaken \/ audit.moved)
    /\ Audit(NoAudit)
    /\ UNCHANGED asked

-----------------------------------------------------------------------------
Next ==
    \/ \E o \in Orders : PlaceOrder(o) \/ BuyerPays(o)
    \/ \E h \in Handlers :
          \/ \E o \in Orders :
                \/ CreateOrder(h, o)
                \/ \E want \in Wanted : UpdateOrderStatus(h, o, want)
                \/ \E all \in BOOLEAN : SetItemDelivered(h, o, all)
                \/ \E e \in events[o] : Webhook(h, o, e)
          \/ \E r \in Standing : ReverseRow(h, r)
          \/ LockOrder(h) \/ Settle(h) \/ Unsettle(h) \/ PlainUpdate(h)
          \/ WriteItem(h) \/ CheckItems(h) \/ Reverse(h)
          \/ BoothTransfer(h) \/ BoothCredit(h) \/ Crash(h)
    \/ (\E x \in Books : ReadBalance(x)) \/ SumRows \/ FixBalance

Spec == Init /\ [][Next]_vars

-----------------------------------------------------------------------------
(* Properties. *)

\* An order is never on the books twice, however its settlements, cancellations
\* and plain status writes overlap: money-races.db.test.ts, for every schedule.
OneDeposit ==
    \A r, s \in Standing :
        r.kind = "deposit" /\ s.kind = "deposit" /\ r.order = s.order => r = s

\* A row is taken back at most once, by a cancelled order or by the treasurer.
ReversedOnce == \A b, c \in backs : b.row = c.row => b = c

\* What an order's cancellation takes back, it takes back whole: no deposit,
\* transfer leg or scout's credit of the same settlement stays behind, unless
\* the treasurer had taken one of them back by hand.
WholeOrNone ==
    \A b \in backs : \A r \in Standing :
        ~b.hand /\ r.order = b.row.order /\ r.batch = b.row.batch => r.order \in Booths

\* The comment at sales/index.ts:130: Stripe never revives a cancelled order,
\* also when it was cancelled after the webhook had read it.
NotRevived ==
    [][\A o \in Orders, h \in Handlers :
          status[o] = "cancelled" /\ status'[o] # "cancelled"
              /\ pc[h] = "settling" /\ pc'[h] # "settling" /\ job[h].order = o
          => ~ByStripe(job[h])]_vars

\* A cached balance is the sum of its rows, through posting, reversal and
\* repair, as long as no posting came between a recompute's sum and its write.
CachesMatch == ~overtaken => \A x \in Books : bal[x] = Actual(x)

\* The comment at sales/index.ts:193: when an order is cancelled, the ledger no
\* longer counts its money; settlement and cancellation cannot interleave.
CancelledOffBooks ==
    \A r \in Standing : r.kind = "deposit" => status[r.order] # "cancelled"

\* sales-fundraising-design.md:210: cancelling posts the reversals.  Once
\* nothing is under way, a cancelled booth leaves no leg of its transfer.
BoothOffBooks ==
    (\A h \in Handlers : pc[h] = "idle") =>
        \A b \in backs : \A r \in Standing :
            r.order \in Booths /\ b.row.order = r.order => b.hand

-----------------------------------------------------------------------------
(* The books as a treasurer reads them. *)

\* The parts of an order's proceeds that stand.
OnBooks(o) == {r.kind : r \in {s \in Standing : s.order = o}}

Abstract == INSTANCE Treasury WITH
    money   <- [o \in Orders |-> OnBooks(o)],
    balance <- bal,
    lapsed  <- overtaken

\* Rows, reversals and cached balances look like one ledger: each transaction
\* brings all the parts of one order's proceeds or takes away all that stand,
\* never a part twice, and moves every balance by what it brings or takes,
\* although the pages and the webhook act on what they read without a lock.
ImplementsTreasury == Abstract!Spec
=============================================================================
