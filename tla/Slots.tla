------------------------------- MODULE Slots -------------------------------
(***************************************************************************)
(* Sign-up slots: seats, waitlists and the row lock that guards them       *)
(* (src/src/lib/slots), with every caller that opens a transaction over    *)
(* them: taking and releasing a slot, the public multi-slot sign-up, the   *)
(* event-file import that resizes slots, and the retention purge.          *)
(*                                                                         *)
(* A request is a Postgres transaction at READ COMMITTED.  It locks one    *)
(* slot row at a time (SELECT ... FOR UPDATE), works on a private copy of  *)
(* the slots it has locked, and publishes all of them at COMMIT, when its  *)
(* locks are released.  The mail to promoted people is sent after that.    *)
(***************************************************************************)
EXTENDS Naturals, FiniteSets, Sequences

CONSTANTS
    Slots,        \* slot ids; naturals, because sign-ups lock them in id order
    Stations,     \* the slots keyed "station:..."; the others are volunteer roles
    Waitlisted,   \* the slots with allowWaitlist, fixed when a slot is made
    Adults,       \* identities (email, scoutName = ""): a signer taking a seat
    Scouts,       \* identities (guardian email, scout name) of public sign-ups
    GuardianOf,   \* Scouts -> Adults: the two identities of a family's email
    Logins,       \* the adults who also have a login with that email
    Expiring,     \* identities the retention purge may delete
    Mailable,     \* identities a promotion mail goes to (not a scout's login)
    Requests,     \* request handlers that can be in flight together
    Sizes,        \* capacities an event file can give a slot
    FirstSize,    \* a slot's capacity when it is made
    MaxRequests   \* bound: requests made in a behaviour

Keys == Adults \cup Scouts

ASSUME SlotsAssumption ==
    /\ Slots \subseteq Nat /\ IsFiniteSet(Slots)
    /\ Stations \subseteq Slots /\ Waitlisted \subseteq Slots
    /\ IsFiniteSet(Adults) /\ IsFiniteSet(Scouts)
    /\ GuardianOf \in [Scouts -> Adults]
    /\ Logins \subseteq Adults /\ Expiring \subseteq Keys /\ Mailable \subseteq Keys
    /\ Sizes \subseteq Nat \ {0} /\ FirstSize \in [Slots -> Sizes]
    /\ MaxRequests \in Nat

VARIABLES
    book,      \* committed slots: capacity and assignment rows
    clock,     \* now(): the number of transactions begun so far
    began,     \* now() in a request's open transaction: when it began; 0 without one
    pc,        \* where a request is
    kind,      \* which operation it runs
    todo,      \* what it still does, one item per slot, in locking order
    held,      \* slot rows it holds the lock of
    draft,     \* its uncommitted view of the slots it holds
    promoted,  \* rows it promoted: <<slot, identity, createdAt>>
    told       \* rows whose holder has been sent the promotion mail

vars == <<book, clock, began, pc, kind, todo, held, draft, promoted, told>>

\* One slot with its assignment rows: at most one row per identity, the
\* unique index on (slotId, email, scoutName).
Slot == [cap   : Nat,
         seat  : [Keys -> {"none", "active", "waiting"}],
         owned : [Keys -> BOOLEAN],    \* userId is set on the row
         since : [Keys -> Nat]]        \* createdAt

Claims   == [act : {"claim"}, slot : Slots, key : Keys, user : BOOLEAN, idem : BOOLEAN]
Releases == [act : {"release"}, slot : Slots, key : Keys]
Resizes  == [act : {"resize"}, slot : Slots, cap : Sizes]
Items    == Claims \cup Releases \cup Resizes

Kinds  == {"take", "signup", "release", "import"}
Stages == {"idle", "lock", "work", "full", "clash", "commit", "notify"}
Rows   == Slots \X Keys \X Nat

TypeOK ==
    /\ book \in [Slots -> Slot]
    /\ clock \in Nat
    /\ began \in [Requests -> Nat]
    /\ pc \in [Requests -> Stages]
    /\ kind \in [Requests -> Kinds]
    /\ todo \in [Requests -> Seq(Items)]
    /\ held \in [Requests -> SUBSET Slots]
    /\ draft \in [Requests -> [Slots -> Slot]]
    /\ promoted \in [Requests -> SUBSET Rows]
    /\ told \in SUBSET Rows

Active(b)  == {k \in Keys : b.seat[k] = "active"}
Waiting(b) == {k \in Keys : b.seat[k] = "waiting"}
Taken(b)   == Cardinality(Active(b))
FullLate(b) == Taken(b) > b.cap             \* fault: > for >=
Full(b)    == Taken(b) >= b.cap

EmptySlot(s) == [cap   |-> FirstSize[s],
                 seat  |-> [k \in Keys |-> "none"],
                 owned |-> [k \in Keys |-> FALSE],
                 since |-> [k \in Keys |-> 0]]

Init ==
    /\ book = [s \in Slots |-> EmptySlot(s)]
    /\ clock = 0
    /\ began = [t \in Requests |-> 0]
    /\ pc = [t \in Requests |-> "idle"]
    /\ kind = [t \in Requests |-> "take"]
    /\ todo = [t \in Requests |-> <<>>]
    /\ held = [t \in Requests |-> {}]
    /\ draft = [t \in Requests |-> [s \in Slots |-> EmptySlot(s)]]
    /\ promoted = [t \in Requests |-> {}]
    /\ told = {}

-----------------------------------------------------------------------------
(* The rows of one slot. *)

\* Fault: waitlisted is left out of the insert, and defaults to false.
PutRowSeated(b, k, how, user, now) ==
    [b EXCEPT !.seat[k] = "active", !.owned[k] = user, !.since[k] = now]

\* createdAt defaults to now(), which a transaction reads as its own beginning:
\* one that began early and got the lock late goes ahead of rows already there.
PutRow(b, k, how, user, now) ==
    [b EXCEPT !.seat[k] = how, !.owned[k] = user, !.since[k] = now]

\* Fault: a row is marked, not deleted.
DropRowSoftly(b, k) ==
    [b EXCEPT !.seat[k] = "deleted"]

DropRow(b, k) ==
    [b EXCEPT !.seat[k] = "none", !.owned[k] = FALSE, !.since[k] = 0]

SameRow(b, c, k) ==
    b.seat[k] = c.seat[k] /\ b.owned[k] = c.owned[k] /\ b.since[k] = c.since[k]

Older(b, j, k) == b.since[j] < b.since[k]

Open(b) == IF Full(b) THEN 0 ELSE b.cap - Taken(b)

\* Fault: no orderBy on createdAt.
NextUpUnordered(b) ==
    {P \in SUBSET Waiting(b) :
        Cardinality(P) = IF Cardinality(Waiting(b)) <= Open(b)
                         THEN Cardinality(Waiting(b)) ELSE Open(b)}

\* Fault: nobody is promoted.
NextUpNobody(b) == {{}}

\* promote(): the oldest waitlisted rows, as many as there are open seats.
NextUp(b) ==
    {P \in SUBSET Waiting(b) :
        /\ Cardinality(P) = IF Cardinality(Waiting(b)) <= Open(b)
                            THEN Cardinality(Waiting(b)) ELSE Open(b)
        /\ \A k \in P, j \in Waiting(b) \ P : ~Older(b, j, k)}

Promote(b, P) ==
    [b EXCEPT !.seat = [k \in Keys |-> IF k \in P THEN "active" ELSE @[k]]]

\* The lookup of an idempotent claim: the signed-in user's own row, or a
\* guest row under the same email and scout name.
IsMine(b, i) == b.seat[i.key] # "none" /\ (i.user \/ ~b.owned[i.key])

-----------------------------------------------------------------------------
(* A request arrives. *)

Begin(t, what, items) ==
    /\ pc[t] = "idle"
    /\ clock < MaxRequests
    /\ clock' = clock + 1
    /\ began' = [began EXCEPT ![t] = clock + 1]
    /\ pc' = [pc EXCEPT ![t] = "lock"]
    /\ kind' = [kind EXCEPT ![t] = what]
    /\ todo' = [todo EXCEPT ![t] = items]
    /\ UNCHANGED <<book, held, draft, promoted, told>>

\* takeSlot and its API twin: signed in (idempotent) or as a guest.
TakeSlot(t) ==
    \E s \in Slots, k \in Adults, u \in BOOLEAN :
        /\ u => k \in Logins
        /\ Begin(t, "take", <<[act |-> "claim", slot |-> s, key |-> k, user |-> u, idem |-> u]>>)

\* submitPublicSignup: stations seat the scout, a volunteer role the guardian;
\* the slots are claimed in id order, whatever order the body lists them in.
Orders(S) ==
    {q \in [1 .. Cardinality(S) -> S] : \A i, j \in DOMAIN q : q[i] = q[j] => i = j}

\* Fault: the body's own order, not sorted by slot id.
BodyOrder(S) == Orders(S)

IdOrder(S) == {q \in Orders(S) : \A i, j \in DOMAIN q : i < j => q[i] < q[j]}

SignupItem(s, scout) ==
    [act |-> "claim", slot |-> s, user |-> FALSE, idem |-> TRUE,
     key |-> IF s \in Stations THEN scout ELSE GuardianOf[scout]]

PublicSignup(t) ==
    \E S \in (SUBSET Slots) \ {{}}, scout \in Scouts : \E q \in IdOrder(S) :
        Begin(t, "signup", [i \in DOMAIN q |-> SignupItem(q[i], scout)])

\* releaseSlotAssignment and its API twin: signed in only.
ReleaseSlot(t) ==
    \E s \in Slots, k \in Logins :
        Begin(t, "release", <<[act |-> "release", slot |-> s, key |-> k]>>)

\* importEventSlots: the file's slots in the file's own order.
ImportEventSlots(t) ==
    \E S \in (SUBSET Slots) \ {{}} : \E q \in Orders(S), size \in [S -> Sizes] :
        Begin(t, "import",
              [i \in DOMAIN q |-> [act |-> "resize", slot |-> q[i], cap |-> size[q[i]]]])

-----------------------------------------------------------------------------
(* The transaction: lock a slot, work on it, and so on to the last. *)

Item(t) == Head(todo[t])
Here(t) == Item(t).slot

Waits(t, u) == t # u /\ pc[t] = "lock" /\ Here(t) \in held[u]

\* Fault: SELECT without FOR UPDATE.
ReadSlot(t) ==
    /\ pc[t] = "lock"
    /\ held' = [held EXCEPT ![t] = @ \cup {Here(t)}]
    /\ draft' = [draft EXCEPT ![t][Here(t)] = book[Here(t)]]
    /\ pc' = [pc EXCEPT ![t] = "work"]
    /\ UNCHANGED <<book, clock, began, kind, todo, promoted, told>>

\* lockSlot, or the row lock of the import's upsert: the slot is read again
\* once its lock is held.
LockSlot(t) ==
    /\ pc[t] = "lock"
    /\ \A u \in Requests : ~Waits(t, u)
    /\ held' = [held EXCEPT ![t] = @ \cup {Here(t)}]
    /\ draft' = [draft EXCEPT ![t][Here(t)] = book[Here(t)]]
    /\ pc' = [pc EXCEPT ![t] = "work"]
    /\ UNCHANGED <<book, clock, began, kind, todo, promoted, told>>

\* The item is done: its slot now reads b, and the rows of P were promoted.
Done(t, b, P) ==
    /\ draft' = [draft EXCEPT ![t][Here(t)] = b]
    /\ promoted' = [promoted EXCEPT ![t] = @ \cup {<<Here(t), k, b.since[k]>> : k \in P}]
    /\ todo' = [todo EXCEPT ![t] = Tail(@)]
    /\ pc' = [pc EXCEPT ![t] = IF Len(todo[t]) = 1 THEN "commit" ELSE "lock"]
    /\ UNCHANGED <<book, clock, began, kind, held, told>>

Fails(t, how) ==
    /\ pc' = [pc EXCEPT ![t] = how]
    /\ UNCHANGED <<book, clock, began, kind, todo, held, draft, promoted, told>>

\* claimSlot: a repeat returns the row it finds; a signed-in user adopts it.
ClaimAgain(t, b, i) ==
    /\ i.idem /\ IsMine(b, i)
    /\ Done(t, [b EXCEPT !.owned[i.key] = @ \/ i.user], {})

\* claimSlot: a new row, waitlisted when the slot is full.
ClaimSeat(t, b, i) ==
    /\ ~(i.idem /\ IsMine(b, i))
    /\ b.seat[i.key] = "none"
    /\ Full(b) => Here(t) \in Waitlisted
    /\ Done(t, PutRow(b, i.key, IF Full(b) THEN "waiting" ELSE "active", i.user, began[t]), {})

\* claimSlot: SlotFullError.
ClaimFull(t, b, i) ==
    /\ ~(i.idem /\ IsMine(b, i))
    /\ Full(b) /\ Here(t) \notin Waitlisted
    /\ Fails(t, "full")

\* claimSlot: the unique index refuses the row (P2002).
ClaimClash(t, b, i) ==
    /\ ~(i.idem /\ IsMine(b, i))
    /\ b.seat[i.key] # "none"
    /\ Full(b) => Here(t) \in Waitlisted
    /\ Fails(t, "clash")

ClaimSlot(t, b, i) ==
    /\ i.act = "claim"
    /\ ClaimAgain(t, b, i) \/ ClaimSeat(t, b, i) \/ ClaimFull(t, b, i) \/ ClaimClash(t, b, i)

\* releaseSlot: the caller's own row goes, and the waitlist moves up.
Release(t, b, i) ==
    /\ i.act = "release"
    /\ IF b.owned[i.key]
       THEN LET c == DropRow(b, i.key)
            IN \E P \in NextUp(c) : Done(t, Promote(c, P), P)
       ELSE Done(t, b, {})

\* importEventSlots: the upsert, then fillFromWaitlist.
Resize(t, b, i) ==
    /\ i.act = "resize"
    /\ LET c == [b EXCEPT !.cap = i.cap]
       IN \E P \in NextUp(c) : Done(t, Promote(c, P), P)

Work(t) ==
    /\ pc[t] = "work"
    /\ LET b == draft[t][Here(t)]
       IN ClaimSlot(t, b, Item(t)) \/ Release(t, b, Item(t)) \/ Resize(t, b, Item(t))

\* Fault: the locks outlive the transaction.
LeaveLocked(t) ==
    /\ pc' = [pc EXCEPT ![t] = "idle"]
    /\ todo' = [todo EXCEPT ![t] = <<>>]
    /\ draft' = [draft EXCEPT ![t] = [s \in Slots |-> EmptySlot(s)]]
    /\ promoted' = [promoted EXCEPT ![t] = {}]
    /\ began' = [began EXCEPT ![t] = 0]
    /\ UNCHANGED <<clock, kind, held>>

\* Back to idle, with every lock released.
Leave(t) ==
    /\ pc' = [pc EXCEPT ![t] = "idle"]
    /\ todo' = [todo EXCEPT ![t] = <<>>]
    /\ held' = [held EXCEPT ![t] = {}]
    /\ draft' = [draft EXCEPT ![t] = [s \in Slots |-> EmptySlot(s)]]
    /\ promoted' = [promoted EXCEPT ![t] = {}]
    /\ began' = [began EXCEPT ![t] = 0]
    /\ UNCHANGED <<clock, kind>>

Commit(t) ==
    /\ pc[t] = "commit"
    /\ book' = [s \in Slots |-> IF s \in held[t] THEN draft[t][s] ELSE book[s]]
    /\ pc' = [pc EXCEPT ![t] = "notify"]
    /\ held' = [held EXCEPT ![t] = {}]
    /\ draft' = [draft EXCEPT ![t] = [s \in Slots |-> EmptySlot(s)]]
    /\ began' = [began EXCEPT ![t] = 0]
    /\ UNCHANGED <<clock, kind, todo, promoted, told>>

Rollback(t) == pc[t] \in {"full", "clash"} /\ Leave(t) /\ UNCHANGED <<book, told>>

\* The process dies, or the interactive transaction times out: the database
\* rolls back; after the commit, the mail is simply not sent.
Abandon(t) ==
    /\ pc[t] \in {"lock", "work", "commit", "notify"}
    /\ Leave(t)
    /\ UNCHANGED <<book, told>>

\* Postgres aborts one transaction of a cycle of waiters.
Stuck(t) ==
    \E S \in SUBSET Requests : t \in S /\ \A u \in S : \E w \in S : Waits(u, w)

DeadlockVictim(t) == Stuck(t) /\ Leave(t) /\ UNCHANGED <<book, told>>

\* notifyPromoted: mail the promoted rows that are still seated.
StillSeated(r) ==
    book[r[1]].seat[r[2]] = "active" /\ book[r[1]].since[r[2]] = r[3]

NotifyPromoted(t) ==
    /\ pc[t] = "notify"
    /\ told' = told \cup {r \in promoted[t] : StillSeated(r) /\ r[2] \in Mailable}
    /\ Leave(t)
    /\ UNCHANGED book

-----------------------------------------------------------------------------
(* The retention purge (lib/retention/scouts.ts) deletes a scout's rows in  *)
(* every slot without locking the slots.  It waits for a transaction that   *)
(* has changed one of those rows, and cannot see a row not yet committed.   *)

Untouched(k) ==
    \A t \in Requests : \A s \in held[t] :
        book[s].seat[k] = "none" \/ SameRow(book[s], draft[t][s], k)

PurgeScout(k) ==
    /\ \E s \in Slots : book[s].seat[k] # "none"
    /\ Untouched(k)
    /\ book' = [s \in Slots |->
                    IF book[s].seat[k] # "none" THEN DropRow(book[s], k) ELSE book[s]]
    /\ draft' = [t \in Requests |-> [s \in Slots |->
                    IF s \in held[t] /\ book[s].seat[k] # "none"
                    THEN DropRow(draft[t][s], k) ELSE draft[t][s]]]
    /\ UNCHANGED <<clock, began, pc, kind, todo, held, promoted, told>>

-----------------------------------------------------------------------------
Arrive(t) == TakeSlot(t) \/ PublicSignup(t) \/ ReleaseSlot(t) \/ ImportEventSlots(t)

Next ==
    \/ \E t \in Requests :
          \/ Arrive(t) \/ LockSlot(t) \/ Work(t) \/ Commit(t) \/ Rollback(t)
          \/ NotifyPromoted(t) \/ Abandon(t) \/ DeadlockVictim(t)
    \/ \E k \in Expiring : PurgeScout(k)

\* A request that can take its next step does; Postgres breaks a deadlock.
\* Row locks queue, so a lock that keeps coming free is granted: strong fairness.
Fairness ==
    /\ \A t \in Requests :
          /\ WF_vars(Work(t)) /\ WF_vars(Commit(t)) /\ WF_vars(Rollback(t))
          /\ WF_vars(NotifyPromoted(t)) /\ SF_vars(LockSlot(t))
    /\ WF_vars(\E t \in Requests : DeadlockVictim(t))

Spec == Init /\ [][Next]_vars
FairSpec == Spec /\ Fairness

-----------------------------------------------------------------------------
(* Properties. *)

\* The seated count of a slot only ever grows up to its capacity, whatever
\* claims, releases, imports and purges overlap.  (An import may shrink a slot
\* below the seats already given; nobody is turned out, and no seat is added.)
NoOverbooking ==
    [][\A s \in Slots :
          Taken(book'[s]) > Taken(book[s]) => Taken(book'[s]) <= book'[s].cap]_vars

\* Nobody is promoted past someone who joined the same waitlist earlier and is
\* left waiting: promote() takes the oldest, under the lock that claims take.
OldestFirst ==
    [][\A s \in Slots : \A k \in Waiting(book[s]), j \in Waiting(book'[s]) :
          k \in Active(book'[s]) => ~Older(book'[s], j, k)]_vars

\* A promotion is announced by one request and at most once: no two requests
\* hold the same promoted row, and none holds a row already mailed.
AnnouncedOnce ==
    \A t, u \in Requests :
        promoted[t] \cap (told \cup IF t = u THEN {} ELSE promoted[u]) = {}

\* Sign-ups lock slots in one fixed order (public-signup.ts:191), so sign-ups,
\* takes and releases alone never wait on each other in a circle.
SignupsNeverDeadlock ==
    \A S \in SUBSET {t \in Requests : kind[t] # "import"} :
        S = {} \/ \E t \in S : \A u \in S : ~Waits(t, u)

\* Committed slots never leave a seat open while somebody waits for it: the
\* release, or the import, that opens a seat also fills it.
NoIdleSeat == \A s \in Slots : Waiting(book[s]) # {} => Full(book[s])

\* Every request ends, with an answer or an abort: no lock is kept for ever.
EveryRequestEnds == \A t \in Requests : pc[t] # "idle" ~> pc[t] = "idle"

\* The comment at public-signup.ts:225: a sign-up is refused by the unique index
\* only when it lost a race with the same details, so that a retry finds the
\* row it collided with.  A retry finds it only when no login owns the row.
ClashIsRetryable ==
    \A t \in Requests :
        pc[t] = "clash" /\ kind[t] = "signup" => ~book[Here(t)].owned[Item(t).key]

\* The comment at public-signup.ts:191: two requests over the same slots cannot
\* deadlock each other.
RequestsNeverDeadlock == \A t \in Requests : ~Stuck(t)

-----------------------------------------------------------------------------
(* What all this implements: SlotBook, where a request is one step and a    *)
(* waitlist is kept by the tickets its people drew when they asked.         *)

Abstract == INSTANCE SlotBook WITH
    room   <- [s \in Slots |-> book[s].cap],
    seated <- [s \in Slots |-> Active(book[s])],
    queue  <- [s \in Slots |-> [k \in Waiting(book[s]) |-> book[s].since[k]]],
    issued <- clock,
    open   <- {began[t] : t \in Requests} \ {0}

\* Without the retention purge, every transaction over any number of slots
\* looks like one indivisible step of SlotBook, although each slot is locked,
\* read and written in its own step: a seat while there is room, otherwise a
\* place on the waitlist under the request's own ticket, and the lowest tickets
\* into every seat that opens.  A place is by when the request began, not by
\* when it got the lock: whoever waited for a lock may enter ahead of others.
ImplementsSlotBook == Abstract!Spec
=============================================================================
