# Scouthosting: a TLA+ verification project

Scouthosting is a multi-tenant web application (Next.js server actions and API
routes over one PostgreSQL database, through Prisma) that runs the life of a
scout unit: events with sign-ups, chat, mail, fundraising, a treasury, and the
unit's own subscription. The server keeps almost all its state in the database;
many requests, webhooks and cron ticks act on it at once, each in transactions
at READ COMMITTED with hand-placed row locks. What can go wrong is therefore
mostly what lies **between** statements: a status read before a lock, a webhook
delivered twice or late, a step that fails after another has committed. That is
what these modules model.

Paths below are relative to `src/` (the repository), so `src/lib/slots` is the
directory `src/src/lib/slots` of `PROJECT.json`.

## 1. Inventory

| Part | State | Operations | Hard behaviour | What makes it correct |
|---|---|---|---|---|
| **Sign-up slots** `src/lib/slots`, `server-actions/slots.ts`, API take/release | `SignupSlot` (capacity, allowWaitlist), `SlotAssignment` rows (active or waitlisted) | claim, release, promote, notify | lock then count; two requests; mail after commit | no overbooking, nobody promoted past an older row, no idle seat, one announcement |
| **Public sign-up** `lib/events/public-signup.ts` | the same rows | several slots in one transaction, in id order | deadlock, all-or-nothing, retries | no lock cycles, indivisible |
| **Event files** `server-actions/events.ts`, `lib/events` | slots, event fields | import resizes slots and fills from the waitlist | locks in file order | a resize never adds a seat over the capacity |
| **Retention purge** `lib/retention` | every row of an expired scout | delete | no slot lock | (finding: idle seats) |
| **Platform billing** `lib/billing`, `api/webhooks/stripe` | subscription fields of `Org`, `StripeWebhookReceipt`, `BillingPayment` | checkout, webhook, owner's trial extension | events out of order, repeated, failing midway | the row mirrors Stripe, receipts only with their effect |
| **Fundraising orders** `lib/sales`, `server-actions/sales.ts`, `public-sales.ts` | `SalesOrder`, `SalesOrderItem` | place, settle, unsettle, deliver, booth sum | two events per payment, stale reads on the leader's pages | one deposit per order, whole reversals |
| **Treasury ledger** `lib/treasury`, `server-actions/treasury.ts`, `api/webhooks/treasury-stripe` | `Transaction` rows, cached balances of `Fund` and `MemberSubaccount` | post, reverse, transfer, recompute, dues, member payments | cached value against rows, unique index as the last guard | balances equal their rows, a row is reversed once |
| **RSVPs and event charges** `lib/rsvp`, `lib/treasury/event-charge.ts` | `Rsvp`, `Event.capacity`, charge rows | answer (three writers), settle the charge | read before lock, charge after commit | headcount within capacity, the charge follows the final answer |
| **Chat** `lib/chat`, `lib/youth-protection` | channels, members, suspension | reconcile, post, reopen, suspend, sweep, DM | stale desired sets, check-then-write, swallowed errors | a check passes or suspends for cause; a channel that lost its two adults ends up suspended |
| **Jobs and broadcast mail** `lib/jobs`, `lib/mail` | pg-boss queue, mail-log counters | enqueue, send one, finalise | at-least-once work, inline fallback, two handlers at the last count | few duplicates, the log is closed, once, on all answers |
| **Newsletter, rules, reminders** `lib/newsletter`, `lib/billing/trial-reminders.ts`, `api/cron` | drafts, lastFiredAt, marks in the audit log | tick, draft, fire, remind | overlapping ticks, crash after the mail and before its mark | repeats only for an overlap or a mishap, nobody forgotten |
| **Journey** `lib/journey` | entries, photo files, paired devices | batch, photo upload, import, pair | late clients, limit without lock, files outside the transaction | an entry's photo is there, nothing is left behind |
| **Accounts, invites** `lib/account`, `lib/invite`, `lib/members` | users, memberships, codes | delete, consume, import | two administrators leave at once | a unit keeps an administrator |
| **Others** authentication, MCP, encryption, publishing, forms, photos, calendar, permission slips, equipment, push, SMS, realtime, owner console, demo, mobile app, infrastructure | | | little shared state, or a library's | see section 13 |

How they interact: event imports and the purge write the slots' rows; orders and
RSVPs post to the treasury through `postWithin`/`reverseWithin`; Stripe talks to
two independent webhooks (platform billing, unit treasury); slot changes and
RSVPs end in a reconciliation of the event's chat channels; broadcast and
newsletter mail go through the job queue. The components meet only in database
rows, so each module carries the rows it shares and every writer of them.

The hazards, one per line of code where it bites, are in `PROJECT.json`
("hazards"), with the property that covers each or the reason none does yet.

## 2. Plan

Built, in this order: `Slots` (the largest piece of concurrent logic, four
writers, locks and waitlists) with its abstract specification `SlotBook`;
`Billing` (unordered, repeated delivery); `Sales` (orders composed with the
ledger they post to), with its own abstract specification `Treasury`; `Rsvp`
(answers, the headcount, and the charge that follows an answer); `Mailing` (a
broadcast, its queue and its workers); `Chat` (channels and their youth
protection rule); `Journey` (entries and their photo files); `Ticks` (the cron
tick). Each has an MC module, which names the small instance, and a module of
proofs.

| Run | Instance | Question |
|---|---|---|
| `slots`, `slots_served` | `MCSlots` | seats, queues and locks; the refinement and what must happen in the end |
| `billing` | `MCBilling` | what Stripe's deliveries do to the unit's row |
| `sales`, `sales_cancel` | `MCSales` | orders and their money, and the refinement; a finding |
| `rsvp`, `rsvp_stale` | `MCRsvp` | headcount and charges; a finding |
| `mailing` | `MCMailing` | a broadcast through crashes and retries |
| `chat` | `MCChat` | the two-adult rule while everything moves |
| `journey`, `journey_first` | `MCJourney` | photos, limit, files; a finding |
| `ticks` | `MCTicks` | repeats and reminders |

Nine more configurations lie beside them, each of which ends in the
counterexample of one finding of section 12: `slots_conflict`, `slots_deadlock`,
`slots_purge`, `billing_console`, `sales_booth`, `rsvp_negative`, `mailing_early`,
`chat_guardian` and `ticks_extended` (`tlc -config <name>.cfg MC<Module>`).

What would come next: direct messages and custom channels in `Chat` (their members
are not derived from facts); pairing codes and device tokens in `Journey`; dues and
member payments, which post to the ledger as `Sales` does; the two administrators
who delete their accounts at once (section 12), which needs the memberships as
rows with locks.

## 3. Slots

`Slots.tla` has one request handler per element of `Requests`. A request is a
transaction: `Begin` (the handler's entry, with the items it will work on),
`LockSlot` (SELECT ... FOR UPDATE; the slot is read once its lock is held),
`Work` (one item: a claim, a release with promotion, a resize with promotion),
`Commit`, and `NotifyPromoted` (the mail, after the commit). `Rollback` is a
refused claim; `Abandon` a process that dies or a transaction that times out;
`DeadlockVictim` what Postgres does to a cycle. Row locks are held to the end,
so a request works on a private `draft` of the slots it holds.

A row's `createdAt` is when its transaction **began** (`began`), not when it got the
slot's lock. A sign-up over several slots may begin early, wait for a lock, and then
enter a waitlist ahead of people who are already on it, so a waitlist does not grow
at its end only. What the code does promise is what `SlotBook` says: a request draws
a ticket when it begins (`Draws`), its people wait under that ticket, the lowest
tickets sit down when seats open, and everything a request does happens in one
indivisible step (`Ends`). The mapping (`Abstract`) shows each slot's room, its
seated people, and the waiting people with the `createdAt` of their rows as tickets.

| Code | Model |
|---|---|
| `SignupSlot.capacity`, `allowWaitlist` | `book[s].cap`, `Waitlisted` |
| a row for (slot, email, scoutName), waitlisted or not | `book[s].seat[k]` in none, active, waiting |
| `userId` on the row | `book[s].owned[k]` |
| `createdAt`, `@default(now())` | `since`: the time its transaction began; `began[t]` of a request under way |
| `now()` when a transaction begins | `clock`: the number of transactions begun so far |
| `claimSlot` | `ClaimAgain`, `ClaimSeat`, `ClaimFull`, `ClaimClash` |
| `releaseSlot`, `promote` | `Release`, `NextUp`, `Promote` |
| `importEventSlots` | `ImportEventSlots`, `Resize` |
| `submitPublicSignup` | `PublicSignup`: items sorted by slot id |
| `notifyPromoted` | `NotifyPromoted`: mails the rows still seated |
| `purgeOne` | `PurgeScout`: waits for locks on the rows it deletes, and for nothing else |

Assumptions. An identity is a pair (email, scout name), and one login has one
email, so the two unique indexes are one. The locked part of a handler is one
step, because its lock keeps out everything but the purge, which is modelled as
acting on drafts as well. Two transactions never begin in the same millisecond; if
they do, their rows are equally old and `promote` may take either. The guest branch of `releaseSlot` has no caller and is
not modelled. Deleting a slot or an event is not modelled. The chat
reconciliation after a commit is in `Chat`, where it follows any answer.

**Runs** (two slots, a waitlisted station and a volunteer role without
waitlist, one place each at first; two adults, one of them with a login, and one
scout; two requests at a time; at most four requests in a behaviour, three for
liveness; 3,026,021 and 432,986 states). Two requests are what a race over one slot, a
crossed pair of slots, or a late lock of an early sign-up needs; four requests fill a
seat, queue two people in either order, release and promote. One login is enough to
release, and another person without one to be promoted.

- `slots`: `NoOverbooking`, `OldestFirst`, `AnnouncedOnce`,
  `SignupsNeverDeadlock` hold with imports, aborts and the purge of a scout.
- `slots_served`: without the purge, the slots implement `SlotBook`
  (`ImplementsSlotBook`): every transaction over any number of slots looks like
  one indivisible step under one ticket; `NoIdleSeat`; and `EveryRequestEnds`.
  The mapping and the refinement are proved as well (section 11).
- `slots_conflict.cfg`, `slots_deadlock.cfg`, `slots_purge.cfg` reproduce three
  disagreements with comments of the code; see section 12.

**Fairness** (`FairSpec`): weak fairness for each request's own next step, since
the event loop and the database run what can run; strong fairness for a lock,
since Postgres queues waiters; weak fairness for the deadlock detector. Arrivals,
crashes and the purge have none.

## 4. Billing

`Billing.tla` has Stripe as an environment (external): each change of a
subscription sends its batch of events with the second they were made in, and
seconds may be shared. Delivery is any order, repeated until answered; a
delivery is `Receive` (receipt inserted, unit looked up) and then `Apply` (commit)
or `Fail` (everything rolls back). `tagged` says whether the API version puts the
unit's id on invoices; both are checked. `ExtendTrial` and `TrialExtended` are
the owner console's read and write; `owner` is "extended" as long as the status
the console wrote stands.

| Code | Model |
|---|---|
| `applyStripeOnce` | `Receive`, `Apply`, `Fail` |
| `resolveOrgIdFromEvent` | `Tagged`, `Found` |
| `syncFromStripeEvent` | `Sync`, with `Fresh`, `Stamped`, `Late`, `Ids` |
| `recordPayment` | `Recorded` |
| `mapStripeStatus` | `mapStripeStatus` |
| `startSubscriptionAction` | `StartSubscription` |
| `extendTrialAction` | `ExtendTrial`, `TrialExtended` |

**Runs.** `billing`: two subscriptions, three changes at Stripe, two requests
under way. Three changes give an old event, a new one and one between, each with
up to three events. `Mirrors`: once all events are answered, the row has Stripe's
status, unless two changes fell in one second (`stripeEventAt` cannot tell them
apart) or the owner's trial extension stands. `NewerStands`, `PaymentsKept`,
`PortalReachable` are described at their definitions. `billing_console.cfg`
reproduces the finding about the owner console. Safety only: whether Stripe gives up repeating
is Stripe's business, so no fairness is assumed.

## 5. Sales

`Sales.tla` composes orders with the part of the ledger they post to. Settling
and unsettling are one transaction under the order's row lock (`LockOrder`, then
`Settle` or `Unsettle`); the leader's pages and the webhook read the order
first without a lock and choose by what they read (`UpdateOrderStatus`,
`SetItemDelivered`, `Webhook`), and act later (`PlainUpdate`, `CheckItems`). A
handler's `job` is what it has read. `rows` and `backs` are the `Transaction`
rows and their reversals; `bal` is the cached balance of the campaign fund,
the scout-accounts fund and the scout's subaccount. `recomputeOrgBalances` reads
a cached balance, sums the rows, and overwrites it, in three steps.

| Code | Model |
|---|---|
| `settleSalesOrderAsPaid`, `unsettleSalesOrder` | `LockOrder`, `Settle`, `Unsettle` |
| `postWithin`, `reverseWithin`, `postTransferWithin` | `Post`, `Moves`, `Reversible` |
| unique index on `reversesId` | `Reversible` |
| `updateOrderStatus` | `UpdateOrderStatus`, then settle, unsettle or `PlainUpdate` |
| `setItemDelivered` | `SetItemDelivered`, `WriteItem`, `CheckItems`, `PlainUpdate` |
| `recordBoothSale` | `CreateOrder`, `LockOrder`, `Settle`, `BoothTransfer`, `BoothCredit` |
| `reverseTransactionAction` | `ReverseRow`, `Reverse` |
| treasury webhook, sales branch | `Webhook`, then `LockOrder`, `Settle` |
| `recomputeOrgBalances` | `ReadBalance`, `SumRows`, `FixBalance` |

Abstractions: one item per order and one staff member per booth; amounts are two
constants, the total and the share; the recompute does one balance at a time
(its loop takes them one by one and they do not depend on each other). A reversal
of a reversal is left out: the ledger page offers no button for it. A treasurer's
reversal that meets a cancellation over the same row ends in the unique index or
in a deadlock, and exactly one of the two wins; in the model the cancellation
then does nothing. A booth's credit refers to its order, so the foreign key waits
for the order's lock.

**Runs.** `sales`: a public order paid through Stripe and a booth's, both split,
two handlers, three requests by people beside the two Stripe events. That is
enough for a settlement, a cancellation and a second settlement, with the
repeated events between. `sales_cancel` and `sales_booth.cfg` are findings.
`CachesMatch` leaves out exactly one case, named by the variable `overtaken`: a
posting that commits between a recompute's sum and its write. `OneDeposit` has
two mutants, since two independent guards carry it: the lock, and the look at
`depositTransactionId` (an order that a stale page wrote back to "placed").
`ImplementsTreasury`: the rows, reversals and balances behave as `Treasury` says, which
knows no rows, locks or pages, only which parts of an order's proceeds are on the books:
a settlement enters all its parts in one step and none of them twice, a cancellation
takes off all that stand, only a booth's share is entered apart from its deposit, only the
treasurer takes one part off alone, and the three balances are what the parts add up to.
`OnBooks` maps an order's standing rows to those parts; `Treasury`'s `lapsed` is
`overtaken`, after which nothing is said of the balances. That no row is reversed twice
(`ReversedOnce`) follows from a unique index, so no run spends a property on it; it is
proved, for the proofs of the others need it.

## 6. Rsvp

`Rsvp.tla` is one event with a price and a headcount, and the answers to it. An
answer is one transaction, in steps: `Find` (and for the API `Adopt`) reads the
person's row; `Claim` locks the event if the answer is yes, counts, and refuses
what does not fit; `Write` writes and commits, and releases the lock with that,
or runs into a unique index. A roster member's answer is then followed by a
second transaction under an advisory lock: `Look` takes the lock and reads the
row and the newest standing charge, `Post` posts or reverses and commits. `Fail`
is a request that dies, or a settlement that throws and is logged; `Waive` is
the treasurer's reversal of a charge.

| Code | Model |
|---|---|
| a `Rsvp` row of the event, one per e-mail address | `rows[p]`; `owned`: `userId` is set; `linked`: `memberId` is set |
| `Transaction` rows of type event-charge with no reversal | `standing[p]`, numbers in the order posted |
| `submitRsvp` signed in, `recordLinkRsvp`, `submitOwnRsvp`, `submitRsvp` of a visitor | `Answer` via "web", "link", "api", "guest" |
| `parseInt(d.guests ?? "0", 10) \|\| 0` of the page's form, signed in or not | `Brings` of "web", "guest": `Typed`, any numbers, below zero too |
| `parseLinkGuests`, the API's `min(0).max(20)` | `Brings` of "link", "api": `0 .. MaxGuests` |
| the sum of 1 + guests over the yes rows | `Taken`: `Spots`, one for each head, less `Owed`, what a sum below zero gives others |
| `findFirst` by user or by address, `findUnique` then `findFirst` | `Find`, `Adopt` |
| `assertRsvpFits` | `Claim`, `Fits`, `EventFree` |
| update, create, P2002 and its retry | `Write`, `Written` |
| `settleEventChargeForRsvp` | `Look`, `Post`, `ChargeFree` |
| `reverseTransactionAction` on a charge | `Waive` |
| `upsertEvent`, its capacity | `EditEvent` |

Assumptions. A person is an address, with at most one account, whose address is
confirmed (an unconfirmed one is a visitor as far as charges go). A leader may
edit the headcount at any time (`EditEvent`); the price, the roster and the
treasury are fixed, since an edited price does not touch charges already posted.
Rows are not deleted (only the retention purge does). "no" stands for "maybe" too:
they differ in the chat channels only. Notes, names and wording are left out. The
numbers of guests that the page's form is sent lie within `MaxTyped` of zero, which
may be any bound.

**Runs.** `rsvp`: two people, one of them on the roster, a headcount edited between
one and two, one guest or none by link and API, one guest or minus two by the page's
form, two requests under way, three answers, edits or waivers (896,326 states). Minus
two is the least number below zero that gives a spot away. Two requests
are what a race for the last spot, a crossed pair of settlements, or a double-tap
needs; with three answers a row is made, adopted and overtaken, and a spot given
away, filled and taken back. The theorems hold for longer histories.
`SpotsKept` is stated against `ceiling`: the headcount, or what was taken already
when a leader lowered it, for `assertRsvpFits` lets an answer through that does not
grow. It leaves out one case, named by the variable `swollen`: a yes written
with other guests than were counted, which is the finding `rsvp_stale`. And it allows
for what the form does not check: a yes with fewer than -1 guests gives a spot to
others, and a later no takes it back unchecked. The variable `slack` adds up what was
taken back so since the last edit, and the count passes the `ceiling` by no more: that
it can pass at all, with no two requests overlapping, is the finding `rsvp_negative`.
That there is no third way is the theorem `OnlyTwoWaysPast`.
`ChargeFollows` leaves out a settlement that failed and a charge reversed by hand,
until the next answer (`astray`): the code logs the first and means the second.

## 7. Mailing

`Mailing.tla` is one broadcast: the request that composes it, the job queue, the
workers, and the `MailLog` row with its two counters. A handler (`run[s]`) is the
same code wherever it runs: at a worker, for a job, or inside the request (`Web`),
when there is no queue or the queue refuses the job. Its statements are steps of
their own: `SendMail`, `Count`, `Look`, `Close`, `Finish`.

| Code | Model |
|---|---|
| `sendLoggedBroadcast` | `Compose`, `Enqueue` for each recipient, `Answered` |
| `enqueueJob`: no runtime, accepted, refused | the three disjuncts of `Enqueue`; `runtime` does not change |
| the worker's loop, pg-boss's retries (external) | `Fetch`, `WorkerFails`, `Again` |
| `email.broadcast.send-one` | `SendMail`, `Count`, then `Look`, `Close` |
| `maybeFinaliseMailLogStatus` | `Look` reads the row, `Close` is the update where the status is still "queued" |
| `deliveredCount`, `failedCount`, `status` | `log` |
| what each recipient's mailbox got | `inbox`; `counted`: who has at least one answer |

`SendMail` has three outcomes: the provider takes the mail and says so, takes it
and the answer is lost, or refuses it; the code cannot tell the last two apart and
counts both as failed. A death or a failed statement may follow any statement
(`WorkerFails`, `RequestFails`); both are bounded by `MaxMishaps`, and the queue
gives a job out `RetryLimit` more times.

**Run** `mailing`: two recipients (and every smaller list), two workers, one retry,
two mishaps, with and without a running queue. Two recipients make the race for the
last count; two mishaps with one retry make a job that is given up.
- `FewDuplicates`: what falling back to the request may cost.
- `NeverStuck` and, under fairness, `Concludes`: the log is closed in the end.
  `Look` uses "at least as many answers as recipients"; with "exactly" (a mutant) a
  retried job steps over the mark and the log stays open for ever.
- `ClosedWhole`: with no mishap, one verdict, on all the answers, though two handlers
  may both see the last count. With a mishap it does not hold: that is the finding
  `mailing_early`.

**Fairness**: the request's loop, each handler's next statement, and the queue's
handing out of waiting jobs. Deaths have none. A broadcast to nobody is left
out of `NeverStuck` and `Concludes` (a finding).

## 8. Chat

`Chat.tla` has the channels of a unit, the facts their members follow from (roles,
roster, guardians, answers), training, and the calls that post, reopen, reconcile
or sweep. Nothing here runs in a transaction, so each read and each write of a call
is a step; a call's record says what it has read.

| Code | Model |
|---|---|
| `classifyMember` | `IsLeader`, `IsYouth` (an admin counts as a leader) |
| `checkChannelTwoDeep`: members with their roles and training, then their roster rows | `CheckMembers`, `CheckRoster`, `Passes` |
| `assertChannelTwoDeep` in `sendMessage` and the mobile route | `StartPost`, `Who`, the check, `Store` or `Close` |
| `unsuspendChannel` | `StartReopen`, the check, `Open` |
| `reconcileChannelMembers` | `ReadWanted`, `Compare`, `Add`, `Drop`, the check, `Look`, `Open` or `Close` |
| `eventChannelUserIds` and the standing channels' members | `Wanted`, `Families`, `Accompanied` |
| `sweepChannelTwoDeep` | `Sweep`, then the check of each live channel |
| `setMemberAccess`, joining, an RSVP | `SetAccess`, `Join`, `Rsvp`, each going on to reconcile |
| account deletion | `DeleteAccount` (reconciles nothing) |
| training dates, roster edits | `Training`, `EditRoster` (reconcile nothing) |
| `suspendChannelAction`, `archiveChannelAction` | `SuspendByHand`, `Archive` |
| a process that dies, or a swallowed error | `Dies` |

Abstractions. `TwoDeep(c)` is the rule as of one moment. The reads inside one
computation of the wanted members are one step (`ReadWanted`), and so are the
members read with their training; the check's two queries, between which the race
lies, are two. A call's `watch` is history: whether the channel was two-deep, or
lacked it, at some moment since the check began (`was`, `lacked`), how many changes
came under it (`moves`, up to two), and whether the reconciliation ran undisturbed
(`still`). Direct messages, custom channels and members added by hand are left out.

**Run** `chat`: a scout, the scout's mother, two leaders; one channel that is an
event's families, its staff, or a patrol; one request and the cron tick; two changes
or deaths. Two calls with two changes make every pair of a check with another call's
write, and a change on each side of a check's second query. One channel suffices
because calls share nothing across channels but the list they go over.
- `PassedForCause`, `SuspendedForCause`: a check that reads at two times is not fooled
  unless two things change under it. (With two changes it can be: a leader goes, a
  roster entry comes.)
- `ReconcileSettles`: what an undisturbed reconciliation leaves.
- `DriftIsCaught` (liveness): once facts stop changing, a channel that is not two-deep
  ends up suspended and stays so, in spite of reopenings that started earlier.

**Fairness**: `WF(Sweep)` (the scheduler calls every hour) and each call's next step.
Posts, reopenings, changes, deaths have none: without the sweep, drift would go
unnoticed in a silent channel.

## 9. Journey

`Journey.tla` is one scout's trail: the entries, the photo files they point at, a
batch of edits under the trail's advisory lock (`Lock` to `Commit`, then `Purge` of
the removed entries' files), and the two calls that take no lock: a photo upload
(`Look`, `Room`, `Store`, `Write`) and the import of a trail file (`LookImport`,
`Store`, `Write`). An import takes a whole file: it looks once which entries are
there, compares the number of those and of its new ones with the limit, stores a
photo after the other, and writes all the rows in one statement that skips those that
are there by then.

| Code | Model |
|---|---|
| `JourneyEntry` rows: id, `fileKey`, author's role | `entries`, `file`, `by` |
| object storage | `stored`, `used` (a key is drawn afresh) |
| `pg_advisory_xact_lock` | `lock`; released by commit, refusal, death |
| `applyEntries` | `Batch`, `Lock`, `Check`, `Find`, `Delete`, `Put`, `Count`, `Commit`, `Purge` |
| `addPhotoEntry` | `Upload`, `Look`, `Room`, `Store`, `WriteRow` |
| `importTrail`: `have`, `fresh`, the count; `put` of each photo; `createMany` | `ImportTrail`, `LookImport`; `Store` for each; `WriteRows` |
| its `catch`, which deletes what it stored | `Breaks`, then `Purge` |
| the deletion of the scout | `DeleteScout`: rows go, files stay |

Each statement of a batch reads the tables as they stand then (READ COMMITTED), so
what `Find` notes as files and what `Delete` removes may differ; rows that a
transaction has touched are locked (`Touched`), and an upload's write waits for
them. Entries' text is left out. A call a device sends again is a call of its own.
`createMany` is one step that waits until no row of its file is touched; that it takes
its row locks one by one, and may be the victim of a deadlock with a batch, is a call
that breaks off (`Breaks`). A file whose entries are all there stops at `LookImport`,
since nothing it does after that changes anything here. The steps and the list of a
trail that an import merges before the entries (`trail-file.ts:395-425`) are left out.

**Run** `journey`: three entries, a limit of two, files of up to two entries, batches
that put one and remove one, two keys, two requests, three calls, one mishap (755,650
states); entries, keys and requests are interchangeable, which the properties do not
tell apart. Two calls at once are what the race for the limit, for a photo, or between
an upload and a removal needs; a third leaves room for what went before. A file of two
beside one upload passes the limit.
- `PhotoReadable`: no entry points at a file that is not there.
- `NearCap`: the limit is not kept: two imports that overlap, or one beside a batch,
  pass it by as many entries as a file holds. What is kept is the limit without the
  entries that uploads and imports made beside another call (`late`; `met` says which
  calls have been under way beside another). So a batch, which counts under its lock and
  after its own changes, never adds to the excess, and calls one after the other keep
  the limit exactly. How large the excess can get is proved only, since it takes more
  entries than the run has: one full trail for each request but the first (`Overrun`).
- `NoStrays`: one call at a time and no mishap leave no file behind. With overlapping
  calls it fails, as does keeping an entry's first upload: the finding `journey_first`.

## 10. Ticks

`Ticks.tla` is the hourly tick: the newsletter's draft (`Compose`, `Create`,
`MarkDraft`), a rule (`Rules`, `MarkRule`), and the reminders of a trial's end
(`List`, `Remind`, `MarkMail`), for ticks that overlap (`Begin`), fail a statement
(`StatementFails`) or die (`Dies`). Around them: the clock (`Passes`), an owner who
subscribes (`Settles`), a leader who sends or deletes a draft (`Leader`), and the
owner console (`ExtendTrial`).

| Code | Model |
|---|---|
| `runCronTick`, its `now` | `Begin`, `tick[t].now` |
| `lastDraftedAt`, `lastFiredAt` | `drafted`, `fired`, of one schedule and one rule |
| drafts not sent or deleted | `open` |
| the audit rows "trial:reminded:7", "trial:reminded:1" | `marks` |
| `dueTrialReminder` | `Window` |
| `runTrialReminderSweep` | `List`, `Remind`, `MarkMail` |
| `extendTrialAction` | `ExtendTrial`, which leaves the marks |

Time is coarse: one step of the clock begins a week, passes the rule's floor, and
brings a trial's end one window nearer. What a mail says, and the choice of stories,
are left out.

**Run** `ticks`: one unit, two ticks, a clock of two steps, one overlap, one mishap,
one extension. An overlap of two ticks, or a death between a mail and its mark, is
what a repeat needs; the units do not share anything.
- `FewRepeats`: each thing is sent before it is marked, so it may be sent again, but only
  once for each overlap and each mishap.
- `Reminded` (liveness): a unit in a window is reminded, or leaves it.

**Fairness**: some tick begins again and again (the scheduler), and a tick that began
goes on. The clock has none, so a window may last; that is the case the property
speaks of.

## 11. Theorems

Proved with TLAPS for every value of the constants under the modules' named assumptions
(`SlotsAssumption`, `BillingAssumption`, `SalesAssumption`, `RsvpAssumption`,
`MailingAssumption`, `ChatAssumption`, `JourneyAssumption`, `TicksAssumption`, all evaluated
by TLC in the runs).

- `SlotsProofs`: `TypeCorrect`; `SeatsWithinCapacity` (`NoOverbooking`). The property speaks
  of `book` at a commit, but a seat is given in a draft, earlier. The invariant `Booking`
  says: types; a slot has at most one holder of its lock (`Locks`); a request works on a
  slot it holds (`WorksOnHeld`); and a held slot's draft fits, which is that it has at most
  as many active seats as the committed slot, or at most its own capacity (`DraftsFit`). The
  purge only removes seats, from the book and from drafts alike. Four more theorems rest on
  the same reading of `Work`, by `WorkChanges`: a draft adopts a row, adds one under its
  request's ticket, or moves up. `OpenSeatsAreFilled` (`NoIdleSeat`, assuming that the purge deletes nobody, which is
  how `slots_served` checks it): every draft, like every committed slot, is `Served`.
  `WaitlistInOrder` (`OldestFirst`): a draft is in order against the committed slot it came
  from (`DraftsInOrder`), so the order needs no comparison of two transactions.
  `IdOrderPreventsDeadlock` (`SignupsNeverDeadlock`): a request comes back to no slot it
  holds, and unless it is an import what it still wants lies after what it has (`Planned`);
  among waiting requests, the one that waits for the last slot then waits for none of them
  (`LastSlot`, `NoCircle`). `PromotionsAnnouncedOnce` (`AnnouncedOnce`): a promoted row is
  off the promoter's draft until the commit and off every waitlist after it (`Announcing`:
  `Due`, `Past`), for no two open transactions have the same `now()`, and a row that others
  see carries that of one that has ended (`Ages`, `Spent`). `RequestsAreAtomic`
  (`ImplementsSlotBook`, assuming that the purge deletes nobody): `Spec` implements
  `SlotBook`. A request under way has a ticket of its own, which every row it has put into
  a draft carries; lemmas say that a claim puts its row under that ticket, wherever in the
  order that is, and that a promotion seats the lowest tickets. The invariant
  `Faithful` says that a request has done to each slot it holds nothing, or one step of its
  kind (`Does`), seen from the committed slot, which its lock kept still; so a commit of
  several slots is one step of `SlotBook` on all of them. `RequestsAdvance` and
  `NoRequestIsWedged` are what safety can say of `EveryRequestEnds`: a step of a request
  brings it nearer to its end by a measure (`Left`) and one of another leaves it alone; and
  while a request is under way, one can go on or an import is in a circle that Postgres
  breaks. For the second, `promote` must find its rows: a largest set of eldest rows exists
  by the well-foundedness of inclusion among finite sets (`SomeoneNextUp`).
  `OnlyLoginsRefuseSignups`: a public sign-up that the unique index refuses met a row that a
  login owns, from `Owners`: only logins own rows, in the book, in drafts and in what
  requests still have to do.
- `BillingProofs`: `TypeCorrect`, `PaymentsOnRecord`, `PortalStaysReachable`,
  `NewerEventStands`, from the invariant `Books`: an open delivery of a tagged event has
  found the unit (`Matched`); an answered deletion or payment failure has left its time, or
  a later one, in `eventAt` (`Applied`); and a subscription that has started has a customer
  (`Known`). `MirrorsStripe` (`Mirrors`), from the invariant `Mirror`: the events of the
  last change all say what Stripe has, and one of them decides the status and the
  cancellation (`Current`); and when no other change shares their second, such an event once
  answered is what the row shows (`Copied`), unless the owner has extended a trial
  meanwhile.
- `SalesProofs`: `TypeCorrect`; `NeverTwiceOnTheBooks` (`OneDeposit`), `NeverReversedTwice`
  (`ReversedOnce`), `CancelledWhole` (`WholeOrNone`), `BalancesMatchRows` (`CachesMatch`)
  and `StripeRevivesNothing` (`NotRevived`). The invariant `Money` says what the properties
  leave unsaid. Locks: an order has one holder (`OneHolder`), and what the holder read of
  the order's status and deposit is still so (`Current`): without it a settlement could act
  on a deposit posted since. Cancelling: the rows a cancellation is about to take back are
  all the standing rows it could (`Covers`). Deposits: a standing deposit is the one its
  order points to (`Posted`), so that the look at `depositTransactionId` suffices even when
  a stale page wrote the status back. Ledger: rows carry the number of their transaction
  (`Numbered`), and a repair that no posting has overtaken holds the right sum (`Summed`).
  That a balance equals the sum of its rows is carried over a posting by three lemmas on
  cardinalities (`CountUnion`, `BackCountUnion`, `ValueSum`). `BooksAreOneLedger`
  (`ImplementsTreasury`): `Spec` implements `Treasury`. The invariant `Booked` adds that an
  order has one standing row of each kind (`Single`), that the rows of an order which is no
  booth's stand only while it points to a deposit (`Backed`), that only orders that exist
  have rows (`Known`), that one request enters a booth's sum (`Apart`), and what a request
  in the middle of a booth, a cancellation or a reversal has in hand (`Loyal`). The balances
  agree because the standing rows of a kind are as many as the orders that have it on the
  books, a bijection. `OnlyAnUnreadCancelEscapes`: of all steps, only the plain status write
  of a page that read the order before it was paid leaves a cancelled order with its deposit
  standing (`ReadUnpaid`: a page that read it as paid goes through `Unsettle`).
- `RsvpProofs`: `TypeCorrect`, `ChargedOnce` (`OneCharge`), `HeadcountKept` (`SpotsKept`),
  `ChargeFollowsAnswer` (`ChargeFollows`), from three invariants. `Books`: one settlement
  per person has looked and not posted, and if it saw no charge there still is none.
  `Headcount`: the event's lock has one holder, and what it counted still fits under the
  `ceiling` and the `slack` beside what all others take (`Fitted`): an answer without the
  lock gives spots back, or takes back what it owed, and then `slack` grows by as much.
  The count is a cardinality, so its laws are lemmas (`TakenSplit`, `TakenOne`,
  `TakenShrinks`, `OthersKeep`). `Charges`: with no settlement of a member still to look,
  the one that has looked saw the row and the charge as they are, and without one they agree
  (`Follows`); a visitor's answer writes new rows only, which no charge depends on
  (`Visitors`). `OnlyTwoWaysPast` assumes of a behaviour that no API answer which leaves
  its guests out overlaps another answer of the same person (`KeptApart`), and that no yes
  stands with fewer than -1 guests (`NobodyOwes`), and concludes `FirmCapacity`, the very
  promise that `rsvp_stale` and `rsvp_negative` refute, each by the one assumption it
  breaks. Each other answer writes what it was counted with (`AsCounted`), and there is
  nothing to take back (`Tight`). Edits, deaths, settlements and all other overlaps remain.
- `MailingProofs`: `TypeCorrect`, `DuplicatesAreFew` (`FewDuplicates`), `NothingStuck`
  (`NeverStuck`), `ClosedOnAllAnswers` (`ClosedWhole`). `Tidy`: a job a worker has is active
  and no other worker's, and the request hands out what is still on its list. `Paid`: what a
  recipient has been mailed and may still be mailed, from the list, by the job or in the
  request, is at most one and the mishaps. `Reckoned`: everybody is on the list, in the
  queue, with the request, or counted (`Accounted`), and a log that could be closed is
  waited for by somebody who will look at it (`Watched`). `Proper`: with no mishap, one
  handler per recipient, and a handler about to close the log carries the verdict on all the
  answers (`Clean`).
- `ChatProofs`: `TypeCorrect`; `PassesForCause` (`PassedForCause`), `SuspendsForCause`
  (`SuspendedForCause`), `ReconciliationSettles` (`ReconcileSettles`). Every step is first
  shown to treat each call in one of six ways (`Orderly`, `Treats`). `Cause` then says of a
  check: what the channel is now has been noted (`Noted`); what the check saw of the members
  is so, or one thing changed and the answer the roster would give was right once
  (`SeenRight`). A change of the roster leaves what was seen of the members right, any other
  leaves the roster's part right, and this is why one change cannot fool it. `Settled` says
  what an undisturbed reconciliation has in hand at each stage.
- `JourneyProofs`: `TypeCorrect`, `PhotosReadable` (`PhotoReadable`), `LimitNearlyKept`
  (`NearCap`), `NothingLeftBehind` (`NoStrays`). `Files`: a file in use has one owner: an
  entry (`OwnFiles`), one entry of a call about to write its rows (`OwnKey`), or a list of
  files to delete, which may name a row's file only until the commit that removes the row
  (`OwnDead`). `Near`: two calls under way at once have both met (`Beside`); a batch that
  has counted, and an upload or import that counted and has met nobody since, will keep the
  limit (`Counts`), for which a batch's rows must be what it thinks they are (`Rowing`).
  `OverrunBounded` (`Overrun`): at most a full trail of entries for each request. Entries,
  with the room that calls under way have found, can be shared out among the requests, a
  trail to each (`Housed`): a call that finds room takes all there is as its share.
  `Tidy`: while one call at a time is
  under way and nothing has failed, storage holds the entries' photos and what that call has
  in hand, and the call's list is exactly the photos of the rows it removes (`Sound`).
  `FirstUploadKeptIfAlone`: as long as calls come one at a time, deaths included, an upload
  never replaces a photo (`Fresh`: what a call saw of the entry still holds when it writes).
- `TicksProofs`: `TypeCorrect`, `RepeatsAreFew` (`FewRepeats`). `AllPaid`: for each week,
  floor and window, what went out and the ticks that may still send it, or take its mark
  back, are at most one and the overlaps and mishaps; and without a mark, or a tick about to
  make it, one less. The counts are cardinalities of sets of ticks.

Only model-checked: the four liveness properties `EveryRequestEnds`, `Concludes`,
`DriftIsCaught` and `Reminded`. Liveness under fairness, ENABLED, induction over data and
RECURSIVE operators are out of the prover's reach; no module here declares a RECURSIVE
operator. Every other property of a passing run is the statement of a theorem.

## 12. Findings

Each is a run or a configuration that TLC ends with a counterexample, or, where it
says so, read in the source. All are in `PROJECT.json` with the lines they quote.

- the purge frees a seat and promotes nobody (`slots_purge`);
- an import and a sign-up can deadlock (`slots_deadlock`); Postgres aborts one;
- a sign-up that collides with a row a login owns is told to retry, in vain
  (`slots_conflict`; only for rows of logins: `OnlyLoginsRefuseSignups`);
- the owner console writes a status a webhook has moved on from
  (`billing_console`);
- an order can be cancelled with its money left on the books (`sales_cancel`, a run; only
  by the plain status write of a page with an old read: `OnlyAnUnreadCancelEscapes`);
- a cancelled booth leaves its transfer (`sales_booth`);
- an API answer that leaves its guests out can pass the headcount, counted with
  guests read before the event's lock (`rsvp_stale`, a run; only beside another answer
  of the same person);
- the event page's form sends any number of guests: a yes with fewer than -1, once taken
  back, leaves the counted answers above the headcount, with no overlap at all
  (`rsvp_negative`; there is no third way past it: `OnlyTwoWaysPast`);
- the split posts the share to the scout-accounts fund twice and to the scout
  once, so subaccounts do not roll up under it (the documents disagree; no run);
- two uploads of one entry's photo both find none, and the second replaces the first
  and leaves its file behind (`journey_first`, a run; calls that do not overlap never
  do: `FirstUploadKeptIfAlone`);
- a job that is run again counts twice, so a broadcast may be closed before everybody
  has an answer (`mailing_early`);
- a broadcast to nobody stays "queued" (read in the source);
- a pod with JOBS_DISABLED does not enqueue, it runs every job in the request (read);
- a trial that is extended is not reminded again (`ticks_extended`);
- a guardian who goes while a reconciliation runs, or whose account is deleted, leaves
  the scout in a families channel alone (`chat_guardian`);
- a reconciliation lifts a leader's own suspension (read; the actions are in `Chat`);
- a channel suspended while a post is being checked still gets the message (read; the
  field `may` of a call);
- two administrators may delete their accounts at once (read; not modelled).

## 13. Not modelled

Listed with reasons in `PROJECT.json` ("components"). In short: authentication,
encryption and rendering are libraries or pure data; content tables (posts,
photos, pages, forms, calendar, slips) are independent rows with plain writes;
push, SMS and realtime are best effort and keep no state to be wrong about; the
mobile app is a client; infrastructure is configuration. These, with design files and
screens, are most of the repository's lines, and hold no shared state that a model would say
more about than a reading. Of the parts that are modelled, `PROJECT.json` names what
is left out: direct messages and custom channels, pairing codes and device tokens, dues
and member payments, the newsletter's composition, retention beyond slots, and the
check for a unit's last administrator.
