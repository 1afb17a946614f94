-------------------------------- MODULE Rsvp --------------------------------
(***************************************************************************)
(* Answers to one event with a price and a headcount                       *)
(* (src/src/lib/rsvp, src/src/server-actions/rsvp.ts) and the charge that  *)
(* follows an answer (src/src/lib/treasury/event-charge.ts).               *)
(*                                                                         *)
(* An answer is one transaction: it reads the person's row, locks the      *)
(* event if the answer is yes, counts, and writes.  The charge is settled  *)
(* by a second transaction, under an advisory lock, to what the row says   *)
(* by then.                                                                *)
(***************************************************************************)
EXTENDS Integers, FiniteSets

CONSTANTS
    People,      \* e-mail addresses; each has at most one account
    Members,     \* those on the roster, whose family account is charged
    Capacities,  \* headcounts a leader may set; 0: no limit
    MaxGuests,   \* the most guests that a link or the API accepts
    Typed,       \* numbers of guests that the page's form is sent
    MaxTyped,    \* bound: the largest of them, either way of zero
    Handlers,    \* requests that can be under way together
    MaxAnswers   \* bound: answers, edits, and charges reversed by hand

ASSUME RsvpAssumption ==
    /\ IsFiniteSet(People) /\ Members \subseteq People /\ People # {}
    /\ Capacities \subseteq Nat /\ MaxGuests \in Nat /\ MaxAnswers \in Nat
    /\ MaxTyped \in Nat /\ Typed \subseteq -MaxTyped .. MaxTyped

VARIABLES
    capacity,  \* the event's headcount
    ceiling,   \* it, or what was taken already when it was last set
    rows,      \* each person's Rsvp row
    standing,  \* each person's event charges with no reversal
    pc,        \* where a request is
    job,       \* what it answers, and what it has read
    astray,    \* people whose last settlement failed, or was undone by hand
    swollen,   \* a yes was written with other guests than were counted
    slack,     \* spots below zero given back, uncounted, since the last edit
    entries,   \* charges posted
    asked      \* answers given

eventVars == <<capacity, ceiling>>
countVars == <<swollen, slack>>

vars == <<capacity, ceiling, rows, standing, pc, job, astray, swollen, slack, entries, asked>>

\* "no" stands for maybe too: neither takes a spot or a charge.
Responses == {"yes", "no"}
Ways      == {"web", "link", "api", "guest"}
Guests    == Typed \cup 0 .. MaxGuests
Stages    == {"idle", "find", "adopt", "claim", "write", "settle", "post"}

\* owned: userId is set; linked: memberId is set.
Row == [resp : Responses \cup {"none"}, guests : Guests, owned : BOOLEAN, linked : BOOLEAN]

\* kept: the request leaves the guests as they are; found: the row it updates
\* was there; again: the second try; going, charge: what the settlement read.
Job == [who : People, via : Ways, resp : Responses, guests : Guests, kept : BOOLEAN,
        found : BOOLEAN, again : BOOLEAN, going : BOOLEAN, charge : Nat]

NoRow == [resp |-> "none", guests |-> 0, owned |-> FALSE, linked |-> FALSE]
NoJob == [who |-> CHOOSE p \in People : TRUE, via |-> "web", resp |-> "no", guests |-> 0,
          kept |-> FALSE, found |-> FALSE, again |-> FALSE, going |-> FALSE, charge |-> 0]

TypeOK ==
    /\ capacity \in Nat /\ ceiling \in Nat
    /\ rows \in [People -> Row]
    /\ standing \in [People -> SUBSET Nat]
    /\ pc \in [Handlers -> Stages] /\ job \in [Handlers -> Job]
    /\ astray \subseteq People /\ swollen \in BOOLEAN /\ slack \in Nat
    /\ entries \in Nat /\ asked \in Nat

Init ==
    /\ capacity \in Capacities /\ ceiling = capacity
    /\ rows = [p \in People |-> NoRow] /\ standing = [p \in People |-> {}]
    /\ pc = [h \in Handlers |-> "idle"] /\ job = [h \in Handlers |-> NoJob]
    /\ astray = {} /\ swollen = FALSE /\ slack = 0 /\ entries = 0 /\ asked = 0

-----------------------------------------------------------------------------
Goes(h, stage) == pc' = [pc EXCEPT ![h] = stage]
Ends(h) == Goes(h, "idle") /\ job' = [job EXCEPT ![h] = NoJob]
Reads(h, stage, j) == Goes(h, stage) /\ job' = [job EXCEPT ![h] = j]

\* Fault: the link's guests are not clamped from above.
Unclamped(via) == IF via \in {"web", "guest"} THEN Typed ELSE 0 .. MaxGuests + MaxTyped + 1

\* parseLinkGuests and the API's schema clamp; the page's form is only parsed.
Brings(via) == IF via \in {"web", "guest"} THEN Typed ELSE 0 .. MaxGuests

\* An answer comes in: from the event's page, the mailed link, the API, or a
\* visitor who types an address.  Only the API may leave the guests out.
Answer(h, p, via, resp, g, kept) ==
    /\ pc[h] = "idle" /\ asked < MaxAnswers
    /\ kept => via = "api" /\ g = 0
    /\ asked' = asked + 1
    /\ Reads(h, IF via = "guest" THEN "claim" ELSE "find",
             [NoJob EXCEPT !.who = p, !.via = via, !.resp = resp, !.guests = g, !.kept = kept])
    /\ UNCHANGED <<rows, standing, astray, entries>> /\ UNCHANGED <<eventVars, countVars>>

\* What is read of the row, if it is found: the guests a kept answer counts.
Found(j, hit) ==
    [j EXCEPT !.found = hit,
              !.guests = IF ~j.kept THEN j.guests ELSE IF hit THEN rows[j.who].guests ELSE 0]

\* The link finds the row by its address, the others by the account ...
Find(h) ==
    LET j == job[h]
        hit == IF j.via = "link" THEN rows[j.who].resp # "none" ELSE rows[j.who].owned
    IN /\ pc[h] = "find"
       /\ Reads(h, IF j.via = "api" /\ ~hit THEN "adopt" ELSE "claim", Found(j, hit))
       /\ UNCHANGED <<rows, standing, astray, entries, asked>> /\ UNCHANGED <<eventVars, countVars>>

\* ... and the API then by the address, if no account has the row yet.
Adopt(h) ==
    LET j == job[h] IN
    /\ pc[h] = "adopt"
    /\ Reads(h, "claim", Found(j, rows[j.who].resp # "none" /\ ~rows[j.who].owned))
    /\ UNCHANGED <<rows, standing, astray, entries, asked>> /\ UNCHANGED <<eventVars, countVars>>

-----------------------------------------------------------------------------
(* assertRsvpFits. *)

Span == MaxGuests + MaxTyped

\* One spot for each yes and one for each of its guests, less what a yes with
\* fewer than no guests lets others have: the sum of 1 + guests.
Spots(P) == {s \in P \X (0 .. Span) : rows[s[1]].resp = "yes" /\ s[2] <= rows[s[1]].guests}
Owed(P)  == {s \in P \X (1 .. Span) : rows[s[1]].resp = "yes" /\ s[2] <= -(1 + rows[s[1]].guests)}
Taken(P) == Cardinality(Spots(P)) - Cardinality(Owed(P))

Own(j) == IF j.found THEN {j.who} ELSE {}

Fits(j) ==
    \/ capacity = 0
    \/ 1 + j.guests <= Taken(Own(j))
    \/ Taken(People \ Own(j)) + 1 + j.guests <= capacity

Holding(h) == pc[h] = "write" /\ job[h].resp = "yes"

\* Fault: the event's row is not locked.
Unlocked(h) == TRUE

\* SELECT ... FOR NO KEY UPDATE of the event: no other yes is between its count
\* and its commit.
EventFree(h) == \A g \in Handlers \ {h} : ~Holding(g)

\* A yes is counted, and refused if it does not fit; nothing else is.
Claim(h) ==
    /\ pc[h] = "claim"
    /\ job[h].resp = "yes" => EventFree(h)
    /\ IF job[h].resp = "yes" /\ ~Fits(job[h])
       THEN Ends(h)
       ELSE Goes(h, "write") /\ UNCHANGED job
    /\ UNCHANGED <<rows, standing, astray, entries, asked>> /\ UNCHANGED <<eventVars, countVars>>

-----------------------------------------------------------------------------
(* The write, and its commit. *)

Written(j) ==
    LET row == rows[j.who] IN
    [resp   |-> j.resp,
     guests |-> IF j.kept /\ j.found THEN row.guests ELSE j.guests,
     owned  |-> row.owned \/ j.via \in {"web", "api"},
     linked |-> row.linked \/ (j.via # "guest" /\ j.who \in Members)]

\* What the settlement is called with.
Charging(j) == [NoJob EXCEPT !.who = j.who, !.resp = j.resp]

\* A charge is settled for the answers of a roster member, a visitor's apart.
Settles(j) == j.via # "guest" /\ j.who \in Members

Write(h) ==
    LET j == job[h] IN
    /\ pc[h] = "write"
    /\ IF j.found \/ rows[j.who].resp = "none"
       THEN /\ rows' = [rows EXCEPT ![j.who] = Written(j)]
            /\ swollen' = (swollen \/ (j.resp = "yes" /\ Written(j).guests # j.guests))
            /\ slack' = slack + IF j.resp = "yes" THEN 0 ELSE Cardinality(Owed({j.who}))
            /\ IF Settles(j) THEN Reads(h, "settle", Charging(j)) ELSE Ends(h)
       ELSE \* The row exists: the API tries once more, the others give up.
            /\ IF j.via = "api" /\ ~j.again
               THEN Reads(h, "find", [j EXCEPT !.again = TRUE])
               ELSE Ends(h)
            /\ UNCHANGED rows /\ UNCHANGED countVars
    /\ UNCHANGED <<standing, astray, entries, asked>> /\ UNCHANGED eventVars

-----------------------------------------------------------------------------
(* settleEventChargeForRsvp. *)

\* Fault: the settlement goes by its own request's answer.
OwnAnswer(j) == j.resp = "yes"

\* Someone of the family is going, as the rows say under the lock.
Going(j) == rows[j.who].resp = "yes" /\ rows[j.who].linked

\* Fault: no advisory lock.
Unhindered(h) == TRUE
ChargeFree(h) == \A g \in Handlers \ {h} : ~(pc[g] = "post" /\ job[g].who = job[h].who)

\* The newest standing charge, or 0.
Newest(S) == IF S = {} THEN 0 ELSE CHOOSE c \in S : \A d \in S : d <= c

Look(h) ==
    LET j == job[h] IN
    /\ pc[h] = "settle" /\ ChargeFree(h)
    /\ Reads(h, "post", [j EXCEPT !.going = Going(j), !.charge = Newest(standing[j.who])])
    /\ astray' = astray \ {j.who}
    /\ UNCHANGED <<rows, standing, entries, asked>> /\ UNCHANGED <<eventVars, countVars>>

Post(h) ==
    LET j == job[h] IN
    /\ pc[h] = "post"
    /\ IF j.going /\ j.charge = 0
       THEN /\ entries' = entries + 1
            /\ standing' = [standing EXCEPT ![j.who] = @ \cup {entries + 1}]
       ELSE /\ standing' = IF j.going THEN standing
                           ELSE [standing EXCEPT ![j.who] = @ \ {j.charge}]
            /\ UNCHANGED entries
    /\ Ends(h)
    /\ UNCHANGED <<rows, astray, asked>> /\ UNCHANGED <<eventVars, countVars>>

\* The process dies, or a settlement throws and is only logged.
Fail(h) ==
    /\ pc[h] # "idle"
    /\ astray' = IF pc[h] \in {"settle", "post"} THEN astray \cup {job[h].who} ELSE astray
    /\ Ends(h)
    /\ UNCHANGED <<rows, standing, entries, asked>> /\ UNCHANGED <<eventVars, countVars>>

\* The treasurer reverses a charge by hand.
Waive(p) ==
    /\ asked < MaxAnswers /\ asked' = asked + 1
    /\ \E c \in standing[p] : standing' = [standing EXCEPT ![p] = @ \ {c}]
    /\ astray' = astray \cup {p}
    /\ UNCHANGED <<rows, pc, job, entries>> /\ UNCHANGED <<eventVars, countVars>>

\* A leader edits the event: the update waits for the row's lock, and may set
\* the headcount below what is taken.
EditEvent(c) ==
    /\ asked < MaxAnswers /\ asked' = asked + 1
    /\ \A h \in Handlers : ~Holding(h)
    /\ capacity' = c
    /\ ceiling' = IF c < Taken(People) THEN Taken(People) ELSE c
    /\ slack' = 0
    /\ UNCHANGED <<rows, standing, pc, job, astray, swollen, entries>>

-----------------------------------------------------------------------------
Next ==
    \/ \E h \in Handlers :
          \/ \E p \in People, via \in Ways, resp \in Responses, kept \in BOOLEAN :
                \E g \in Brings(via) : Answer(h, p, via, resp, g, kept)
          \/ Find(h) \/ Adopt(h) \/ Claim(h) \/ Write(h) \/ Look(h) \/ Post(h) \/ Fail(h)
    \/ \E p \in People : Waive(p)
    \/ \E c \in Capacities : EditEvent(c)

Spec == Init /\ [][Next]_vars

-----------------------------------------------------------------------------
(* Properties. *)

\* However answers, changed minds and a leader's edits overlap, no yes takes the
\* event past its headcount, or past what was taken already when that was
\* lowered, as long as each yes is written with the guests that were counted.
\* The one other way past it: a yes that the page's form sent with less than -1
\* guests makes room for others, and is taken back unchecked; never by more.
SpotsKept == capacity > 0 /\ ~swollen => Taken(People) <= ceiling + slack

\* Once no settlement is under way, a member has a charge exactly if the
\* answer is yes, in whatever order answers and settlements came; a settlement
\* that failed, or a charge reversed by hand, is left out until the next answer.
ChargeFollows ==
    \A p \in Members :
        /\ p \notin astray
        /\ \A h \in Handlers : ~(pc[h] \in {"settle", "post"} /\ job[h].who = p)
        => (standing[p] # {} <=> rows[p].resp = "yes" /\ rows[p].linked)

\* A double-tap is charged once: no two charges stand for one member.
OneCharge == \A p \in People : \A c, d \in standing[p] : c = d

\* The comment at capacity.ts:1: every answer is checked in its own
\* transaction, after locking the event, so no answer passes the headcount, or
\* what was taken already when a leader lowered it.
FirmCapacity == capacity > 0 => Taken(People) <= ceiling
=============================================================================
