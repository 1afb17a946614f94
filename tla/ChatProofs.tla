----------------------------- MODULE ChatProofs -----------------------------
(***************************************************************************)
(* Chat, for any people, channels, requests and bounds: the fields keep    *)
(* their types; a message is written, a channel opened or suspended for    *)
(* cause; and an undisturbed reconciliation leaves exactly who belongs.    *)
(***************************************************************************)
EXTENDS Chat, TLAPS

\* Of the calls only j's changes.
Only(j) ==
    /\ call' \in [Calls -> Call]
    /\ \A h \in Calls \ {j} : call'[h] = call[h]

\* It is done with this channel, or with everything.
Leaves(j) ==
    /\ Only(j) /\ call'[j].stage \in {"idle", "next"}
    /\ call'[j].stage = "next" => call'[j].kind \in {"sweep", "reconcile"}

\* It goes from one stage to another, for the same channel.
Proceeds(j, from, to) ==
    /\ Only(j) /\ call[j].stage = from /\ call'[j].stage = to
    /\ call'[j].ch = call[j].ch /\ call'[j].kind = call[j].kind

\* Roles, training, roster, answers and members stay.
SameFacts == UNCHANGED <<role, ypt, roster, rsvp, members>>

LEMMA IdleType == Idle \in Call /\ Idle.stage = "idle" /\ Blank \in Seen
  BY DEF Idle, Call, Kinds, Stages, Blank, Seen

LEMMA CallFields ==
  ASSUME TypeOK, NEW j \in Calls
  PROVE  /\ call[j].kind \in Kinds /\ call[j].stage \in Stages /\ call[j].ch \in Channels \cup {NoChannel}
         /\ call[j].left \subseteq Channels /\ call[j].may \in BOOLEAN /\ call[j].seen \in Seen
         /\ call[j].add \subseteq Users /\ call[j].drop \subseteq Users
  BY DEF TypeOK, Call

LEMMA EndsOnly ==
  ASSUME TypeOK, NEW j \in Calls, Ends(j)
  PROVE  Leaves(j)
  BY IdleType DEF TypeOK, Ends, Leaves, Only

LEMMA NextOnly ==
  ASSUME TypeOK, NEW j \in Calls, NextOne(j)
  PROVE  Leaves(j)
  <1> DEFINE work == [Idle EXCEPT !.kind = call[j].kind, !.stage = "next", !.left = call[j].left]
  <1>1. work \in Call /\ work.stage = "next" /\ work.kind = call[j].kind
    BY CallFields DEF Idle, Call, Kinds, Stages, Blank, Seen
  <1>2. CASE call[j].kind \in {"sweep", "reconcile"}
    <2>1. call' = [call EXCEPT ![j] = work]
      BY <1>2 DEF NextOne
    <2> HIDE DEF work
    <2> QED
      BY <1>1, <1>2, <2>1 DEF TypeOK, Leaves, Only
  <1>3. CASE call[j].kind \notin {"sweep", "reconcile"}
    <2>1. Ends(j)
      BY <1>3 DEF NextOne, Ends
    <2> QED
      BY <2>1, EndsOnly
  <1> QED
    BY <1>2, <1>3

LEMMA GoesOverOnly ==
  ASSUME TypeOK, NEW j \in Calls, NEW work \in {"sweep", "reconcile"}, NEW channels \in SUBSET Channels,
         GoesOver(j, work, channels)
  PROVE  Leaves(j) /\ call[j].stage = "idle"
  <1> DEFINE new == [Idle EXCEPT !.kind = work, !.stage = "next", !.left = channels]
  <1>1. new \in Call /\ new.stage = "next" /\ new.kind = work
    BY DEF Idle, Call, Kinds, Stages, Blank, Seen
  <1>2. call' = [call EXCEPT ![j] = new] /\ call[j] = Idle
    BY DEF GoesOver
  <1> HIDE DEF new
  <1> QED
    BY <1>1, <1>2, IdleType DEF TypeOK, Leaves, Only

LEMMA StartPostOnly ==
  ASSUME TypeOK, NEW j \in Calls, NEW c \in Channels, StartPost(j, c)
  PROVE  /\ Only(j) /\ call[j].stage = "idle"
         /\ call'[j].stage = "who" /\ call'[j].ch = c /\ call'[j].kind = "post"
  <1> DEFINE new == [Idle EXCEPT !.kind = "post", !.stage = "who", !.ch = c,
                                 !.may = c \notin suspended \cup archived]
  <1>1. new \in Call /\ new.stage = "who" /\ new.ch = c /\ new.kind = "post"
    BY DEF Idle, Call, Kinds, Stages, Blank, Seen
  <1>2. call' = [call EXCEPT ![j] = new] /\ call[j].stage = "idle"
    BY IdleType DEF StartPost
  <1> HIDE DEF new
  <1> QED
    BY <1>1, <1>2 DEF TypeOK, Only

LEMMA StartReopenOnly ==
  ASSUME TypeOK, NEW j \in Calls, NEW c \in Channels, StartReopen(j, c)
  PROVE  /\ Only(j) /\ call[j].stage = "idle"
         /\ call'[j].stage = "check" /\ call'[j].ch = c /\ call'[j].kind = "reopen"
  <1> DEFINE new == [Idle EXCEPT !.kind = "reopen", !.stage = ReopensBy, !.ch = c]
  <1>1. new \in Call /\ new.stage = "check" /\ new.ch = c /\ new.kind = "reopen"
    BY DEF Idle, Call, Kinds, Stages, Blank, Seen, ReopensBy
  <1>2. call' = [call EXCEPT ![j] = new] /\ call[j].stage = "idle"
    BY IdleType DEF StartReopen
  <1> HIDE DEF new
  <1> QED
    BY <1>1, <1>2 DEF TypeOK, Only

LEMMA WhoOnly ==
  ASSUME TypeOK, NEW j \in Calls, NEW u \in Users, Who(j, u)
  PROVE  Leaves(j) \/ Proceeds(j, "who", "check")
  <1>1. CASE Ends(j)
    BY <1>1, EndsOnly
  <1>2. CASE ~Ends(j)
    <2>1. PICK may \in BOOLEAN :
            call' = [call EXCEPT ![j].stage = "check", ![j].may = may] /\ call[j].stage = "who"
      <3> DEFINE may == call[j].may /\ Allowed(call[j].ch, u)
      <3>1. call' = [call EXCEPT ![j].stage = "check", ![j].may = may] /\ call[j].stage = "who"
        BY <1>2 DEF Who
      <3>2. may \in BOOLEAN
        BY CallFields
      <3> HIDE DEF may
      <3> QED
        BY <3>1, <3>2
    <2>3. call' \in [Calls -> Call]
      <3> DEFINE new == [call[j] EXCEPT !.stage = "check", !.may = may]
      <3>1. new \in Call
        BY "check" \in Stages DEF TypeOK, Call, Stages
      <3>2. call' = [call EXCEPT ![j] = new]
        BY <2>1 DEF TypeOK
      <3> HIDE DEF new
      <3> QED
        BY <3>1, <3>2 DEF TypeOK
    <2>4. call'[j].stage = "check" /\ call'[j].ch = call[j].ch /\ call'[j].kind = call[j].kind
      BY <2>1 DEF TypeOK, Call
    <2>5. \A h \in Calls \ {j} : call'[h] = call[h]
      BY <2>1 DEF TypeOK
    <2> QED
      BY <2>1, <2>3, <2>4, <2>5 DEF Proceeds, Only
  <1> QED
    BY <1>1, <1>2

LEMMA TakeNextOnly ==
  ASSUME TypeOK, NEW j \in Calls, TakeNext(j)
  PROVE  /\ Only(j) /\ call[j].stage = "next"
         /\ \/ Leaves(j)
            \/ /\ call'[j].ch \in Channels /\ call'[j].stage \in {"check", "wanted"}
               /\ call'[j].kind = call[j].kind /\ (call'[j].stage = "check" => call[j].kind = "sweep")
  <1>1. call[j].stage = "next"
    BY DEF TakeNext
  <1>2. CASE Ends(j)
    BY <1>1, <1>2, EndsOnly DEF Leaves
  <1>3. CASE ~Ends(j)
    <2>1. PICK c \in call[j].left :
            call' = [call EXCEPT ![j].ch = c, ![j].left = @ \ {c},
                ![j].stage = IF call[j].kind = "sweep" THEN "check" ELSE "wanted"]
      BY <1>3 DEF TakeNext
    <2>2. c \in Channels
      BY CallFields
    <2>3. CASE call[j].kind = "sweep"
      <3>1. call' = [call EXCEPT ![j].ch = c, ![j].left = @ \ {c}, ![j].stage = "check"]
        BY <2>1, <2>3
      <3> QED
        BY <1>1, <2>2, <2>3, <3>1 DEF TypeOK, Only, Call, Stages
    <2>4. CASE call[j].kind # "sweep"
      <3>1. call' = [call EXCEPT ![j].ch = c, ![j].left = @ \ {c}, ![j].stage = "wanted"]
        BY <2>1, <2>4
      <3> QED
        BY <1>1, <2>2, <3>1 DEF TypeOK, Only, Call, Stages
    <2> QED
      BY <2>3, <2>4
  <1> QED
    BY <1>2, <1>3

-----------------------------------------------------------------------------
\* The steps of a reconciliation and of a check.
LEMMA WantedType ==
  ASSUME kind \in [Channels -> Event \cup Standing], rsvp \subseteq Users, NEW c \in Channels
  PROVE  Wanted(c) \subseteq Users /\ Leaders \subseteq Users
  <1>1. Leaders \subseteq Users /\ Staff \subseteq Users /\ Patrol \subseteq Users
    BY ChatAssumption DEF Leaders
  <1>2. \A u \in Users : Guardians(u) \subseteq Users
    BY ChatAssumption DEF Guardians
  <1>3. Accompanied \subseteq Users /\ \A people \in SUBSET Users : Grown(people) \subseteq Users
    BY DEF Accompanied, Grown
  <1>4. UNION {Guardians(u) : u \in Accompanied} \subseteq Users
    BY <1>2, <1>3
  <1>5. Families \subseteq Users
    BY <1>1, <1>3, <1>4 DEF Families
  <1>6. kind[c] \in Event \cup Standing
    OBVIOUS
  <1>7. Wanted(c) \subseteq Users
    BY <1>1, <1>3, <1>5, <1>6 DEF Wanted, Event, Standing
  <1> QED
    BY <1>1, <1>7

LEMMA PeopleType ==
  ASSUME TypeOK, NEW c \in Channels
  PROVE  Wanted(c) \subseteq Users /\ members[c] \subseteq Users /\ Leaders \subseteq Users
  BY WantedType DEF TypeOK

LEMMA ReadWantedOnly ==
  ASSUME TypeOK, NEW j \in Calls, ReadWanted(j)
  PROVE  Proceeds(j, "wanted", "compare") /\ call'[j].add = Wanted(call[j].ch)
  <1>1. call[j].stage = "wanted" /\ call[j].ch \in Channels
    BY DEF ReadWanted, TypeOK
  <1>2. Wanted(call[j].ch) \in SUBSET Users
    BY <1>1, PeopleType
  <1>3. call' = [call EXCEPT ![j].stage = "compare", ![j].add = Wanted(call[j].ch)]
    BY DEF ReadWanted
  <1> QED
    BY <1>1, <1>2, <1>3 DEF TypeOK, Call, Stages, Proceeds, Only

LEMMA CompareOnly ==
  ASSUME TypeOK, NEW j \in Calls, Compare(j)
  PROVE  /\ Proceeds(j, "compare", "add")
         /\ call'[j].add = call[j].add \ members[call[j].ch]
         /\ call'[j].drop = members[call[j].ch] \ call[j].add
  <1>1. call[j].stage = "compare" /\ call[j].ch \in Channels
    BY DEF Compare, TypeOK
  <1>2. /\ call[j].add \ members[call[j].ch] \in SUBSET Users
        /\ members[call[j].ch] \ call[j].add \in SUBSET Users
    BY <1>1, PeopleType, CallFields
  <1> DEFINE more == call[j].add \ members[call[j].ch]
             less == members[call[j].ch] \ call[j].add
             new  == [call[j] EXCEPT !.stage = "add", !.add = more, !.drop = less]
  <1>3. call' = [call EXCEPT ![j].stage = "add", ![j].add = @ \ members[call[j].ch], ![j].drop = less]
    BY DEF Compare
  <1>4. call' = [call EXCEPT ![j] = new]
    BY <1>3 DEF TypeOK
  <1>5. more \in SUBSET Users /\ less \in SUBSET Users
    BY <1>2
  <1> HIDE DEF more, less
  <1>6. new \in Call
    BY <1>5, "add" \in Stages DEF TypeOK, Call, Stages
  <1>7. /\ new.stage = "add" /\ new.ch = call[j].ch /\ new.kind = call[j].kind
        /\ new.add = more /\ new.drop = less
    BY DEF TypeOK, Call
  <1> HIDE DEF new
  <1>8. Proceeds(j, "compare", "add") /\ call'[j].add = more /\ call'[j].drop = less
    BY <1>1, <1>4, <1>6, <1>7 DEF TypeOK, Proceeds, Only
  <1> QED
    BY <1>8 DEF more, less

LEMMA AddOnly ==
  ASSUME TypeOK, NEW j \in Calls, Add(j)
  PROVE  /\ Proceeds(j, "add", "drop") /\ call'[j].drop = call[j].drop /\ call[j].ch \in Channels
         /\ members' = [members EXCEPT ![call[j].ch] = @ \cup call[j].add]
         /\ members' \in [Channels -> SUBSET Users]
         /\ UNCHANGED <<role, ypt, roster, rsvp, suspended, archived, changes>>
  <1>1. call[j].stage = "add" /\ call[j].ch \in Channels /\ call[j].add \subseteq Users
    BY CallFields DEF Add, TypeOK
  <1>2. call' = [call EXCEPT ![j].stage = "drop", ![j].add = {}]
        /\ members' = [members EXCEPT ![call[j].ch] = @ \cup call[j].add]
        /\ UNCHANGED <<role, ypt, roster, rsvp, suspended, archived, changes>>
    BY DEF Add, facts, flags
  <1>3. members' \in [Channels -> SUBSET Users]
    BY <1>1, <1>2 DEF TypeOK
  <1>4. Proceeds(j, "add", "drop") /\ call'[j].drop = call[j].drop
    <2> DEFINE new == [call[j] EXCEPT !.stage = "drop", !.add = {}]
    <2>1. new \in Call
      BY {} \in SUBSET Users, "drop" \in Stages DEF TypeOK, Call, Stages
    <2>2. /\ new.stage = "drop" /\ new.ch = call[j].ch /\ new.kind = call[j].kind
          /\ new.drop = call[j].drop
      BY DEF TypeOK, Call
    <2>3. call' = [call EXCEPT ![j] = new]
      BY <1>2 DEF TypeOK
    <2> HIDE DEF new
    <2> QED
      BY <1>1, <2>1, <2>2, <2>3 DEF TypeOK, Proceeds, Only
  <1> QED
    BY <1>1, <1>2, <1>3, <1>4

LEMMA DropOnly ==
  ASSUME TypeOK, NEW j \in Calls, Drop(j)
  PROVE  /\ Proceeds(j, "drop", "check") /\ call[j].ch \in Channels
         /\ members' = [members EXCEPT ![call[j].ch] = @ \ call[j].drop]
         /\ members' \in [Channels -> SUBSET Users]
         /\ UNCHANGED <<role, ypt, roster, rsvp, suspended, archived, changes>>
  <1>1. call[j].stage = "drop" /\ call[j].ch \in Channels
    BY DEF Drop, TypeOK
  <1>2. call' = [call EXCEPT ![j].stage = "check", ![j].drop = {}]
        /\ members' = [members EXCEPT ![call[j].ch] = @ \ call[j].drop]
        /\ UNCHANGED <<role, ypt, roster, rsvp, suspended, archived, changes>>
    BY DEF Drop, facts, flags
  <1>3. members' \in [Channels -> SUBSET Users]
    BY <1>1, <1>2 DEF TypeOK
  <1>4. Proceeds(j, "drop", "check")
    <2> DEFINE new == [call[j] EXCEPT !.stage = "check", !.drop = {}]
    <2>1. new \in Call
      BY {} \in SUBSET Users, "check" \in Stages DEF TypeOK, Call, Stages
    <2>2. /\ new.stage = "check" /\ new.ch = call[j].ch /\ new.kind = call[j].kind
      BY DEF TypeOK, Call
    <2>3. call' = [call EXCEPT ![j] = new]
      BY <1>2 DEF TypeOK
    <2> HIDE DEF new
    <2> QED
      BY <1>1, <2>1, <2>2, <2>3 DEF TypeOK, Proceeds, Only
  <1> QED
    BY <1>1, <1>2, <1>3, <1>4

\* What a check saw is what the channel is.
Reflects(seen, c) ==
    /\ seen.enough <=> TwoCurrent(members[c])
    /\ seen.scouts <=> \E u \in members[c] : role[u] = "scout"
    /\ seen.parents = {u \in members[c] : role[u] = "parent"}

LEMMA CheckMembersOnly ==
  ASSUME TypeOK, NEW j \in Calls, CheckMembers(j)
  PROVE  /\ Proceeds(j, "check", "roster") /\ SameFacts
         /\ Reflects(call'[j].seen, call[j].ch)
  <1>1. call[j].stage = "check" /\ call[j].ch \in Channels
    BY DEF CheckMembers, TypeOK
  <1> DEFINE here == members[call[j].ch]
             seen == [enough  |-> TwoCurrent(here),
                      scouts  |-> \E u \in here : role[u] = "scout",
                      parents |-> {u \in here : role[u] = "parent"}]
             new  == [call[j] EXCEPT !.stage = "roster", !.seen = seen]
  <1>2. {u \in here : role[u] = "parent"} \in SUBSET Users
    BY <1>1, PeopleType
  <1>3. TwoCurrent(here) \in BOOLEAN /\ (\E u \in here : role[u] = "scout") \in BOOLEAN
    BY DEF TwoCurrent
  <1>4. seen \in Seen
    BY <1>2, <1>3, Zenon DEF Seen
  <1>5. Reflects(seen, call[j].ch)
    BY DEF Reflects
  <1>6. call' = [call EXCEPT ![j].stage = "roster", ![j].seen = seen] /\ SameFacts
    BY DEF CheckMembers, quiet, SameFacts
  <1> HIDE DEF seen
  <1>7. new \in Call
    BY <1>4, "roster" \in Stages DEF TypeOK, Call, Stages
  <1>8. new.stage = "roster" /\ new.seen = seen /\ new.ch = call[j].ch /\ new.kind = call[j].kind
    BY DEF TypeOK, Call
  <1>9. call' = [call EXCEPT ![j] = new]
    BY <1>6 DEF TypeOK
  <1> HIDE DEF new
  <1> QED
    BY <1>1, <1>5, <1>6, <1>7, <1>8, <1>9 DEF TypeOK, Proceeds, Only

LEMMA CheckRosterOnly ==
  ASSUME TypeOK, NEW j \in Calls, CheckRoster(j), call[j].kind # "idle"
  PROVE  /\ call[j].stage = "roster"
         /\ \/ Leaves(j)
            \/ Passes(call[j].seen) /\ Proceeds(j, "roster", "store") /\ call[j].kind = "post"
            \/ Passes(call[j].seen) /\ Proceeds(j, "roster", "open") /\ call[j].kind = "reopen"
            \/ Passes(call[j].seen) /\ Proceeds(j, "roster", "look") /\ call[j].kind = "reconcile"
            \/ ~Passes(call[j].seen) /\ Proceeds(j, "roster", "close")
  <1> DEFINE stage == IF Passes(call[j].seen)
                      THEN CASE call[j].kind = "post"      -> IF call[j].may THEN "store" ELSE "idle"
                             [] call[j].kind = "reopen"    -> "open"
                             [] call[j].kind = "sweep"     -> "next"
                             [] call[j].kind = "reconcile" -> "look"
                      ELSE IF call[j].kind = "reopen" THEN "idle" ELSE "close"
             blank == [call[j] EXCEPT !.stage = stage, !.seen = Blank, !.may = FALSE]
  <1>1. /\ call[j].stage = "roster"
        /\ CASE stage = "idle" -> Ends(j)
             [] stage = "next" -> NextOne(j)
             [] OTHER -> call' = [call EXCEPT ![j].stage = stage, ![j].seen = Blank, ![j].may = FALSE]
    BY DEF CheckRoster
  <1>2. call[j].kind \in {"post", "reopen", "sweep", "reconcile"}
    BY CallFields DEF Kinds
  <1>3. \/ stage \in {"idle", "next"}
        \/ Passes(call[j].seen) /\ stage = "store" /\ call[j].kind = "post"
        \/ Passes(call[j].seen) /\ stage = "open" /\ call[j].kind = "reopen"
        \/ Passes(call[j].seen) /\ stage = "look" /\ call[j].kind = "reconcile"
        \/ ~Passes(call[j].seen) /\ stage = "close"
    BY <1>2
  <1> HIDE DEF stage
  <1>4. CASE stage = "idle"
    BY <1>1, <1>4, EndsOnly
  <1>5. CASE stage = "next"
    BY <1>1, <1>5, NextOnly
  <1>6. CASE stage \in {"store", "open", "look", "close"}
    <2>1. call' = [call EXCEPT ![j].stage = stage, ![j].seen = Blank, ![j].may = FALSE]
      BY <1>1, <1>6
    <2>2. stage \in Stages
      BY <1>6 DEF Stages
    <2>3. blank \in Call
      BY <2>2, IdleType DEF TypeOK, Call
    <2>4. blank.stage = stage /\ blank.ch = call[j].ch /\ blank.kind = call[j].kind
      BY DEF TypeOK, Call
    <2>5. call' = [call EXCEPT ![j] = blank]
      BY <2>1 DEF TypeOK
    <2> HIDE DEF blank
    <2>6. Proceeds(j, "roster", stage)
      BY <1>1, <2>3, <2>4, <2>5 DEF TypeOK, Proceeds, Only
    <2> QED
      BY <1>1, <1>3, <1>6, <2>6
  <1> QED
    BY <1>1, <1>3, <1>4, <1>5, <1>6

LEMMA LookOnly ==
  ASSUME TypeOK, NEW j \in Calls, Look(j)
  PROVE  call[j].stage = "look" /\ (Leaves(j) \/ Proceeds(j, "look", "open"))
  <1>1. call[j].stage = "look"
    BY DEF Look
  <1>2. CASE Goes(j, "open")
    <2> DEFINE new == [call[j] EXCEPT !.stage = "open"]
    <2>1. new \in Call
      BY "open" \in Stages DEF TypeOK, Call, Stages
    <2>2. new.stage = "open" /\ new.ch = call[j].ch /\ new.kind = call[j].kind
      BY DEF TypeOK, Call
    <2>3. call' = [call EXCEPT ![j] = new]
      BY <1>2 DEF Goes, TypeOK
    <2> HIDE DEF new
    <2> QED
      BY <1>1, <2>1, <2>2, <2>3 DEF TypeOK, Proceeds, Only
  <1>3. CASE NextOne(j)
    BY <1>1, <1>3, NextOnly
  <1> QED
    BY <1>2, <1>3 DEF Look

LEMMA CloseOpenOnly ==
  ASSUME TypeOK, NEW j \in Calls, Close(j) \/ Open(j)
  PROVE  /\ call[j].stage \in {"close", "open"} /\ Leaves(j) /\ SameFacts
         /\ suspended' \subseteq Channels /\ UNCHANGED <<archived, changes>>
  <1>1. call[j].stage \in {"close", "open"} /\ NextOne(j) /\ SameFacts /\ UNCHANGED <<archived, changes>>
    BY DEF Close, Open, SameFacts, facts
  <1>2. call[j].ch \in Channels
    BY <1>1 DEF TypeOK
  <1>3. suspended' = suspended \cup {call[j].ch} \/ suspended' = suspended \ {call[j].ch}
    BY DEF Close, Open
  <1>4. suspended' \subseteq Channels
    BY <1>2, <1>3 DEF TypeOK
  <1> QED
    BY <1>1, <1>4, NextOnly

-----------------------------------------------------------------------------
\* Types.  A call that is not idle is of some kind, and only a post asks who
\* its author is.
Kinded == \A j \in Calls :
    /\ call[j].stage # "idle" => call[j].kind # "idle"
    /\ call[j].stage = "who" => call[j].kind = "post"

Typed == TypeOK /\ Kinded

\* The types of everything but the calls and what is watched of them.
FactsOK ==
    /\ role \in [Users -> Roles]
    /\ ypt \subseteq Users /\ roster \subseteq Users /\ rsvp \subseteq Users
    /\ members \in [Channels -> SUBSET Users]
    /\ suspended \subseteq Channels /\ archived \subseteq Channels
    /\ changes \in Nat

\* How a step treats one call.  Another step leaves it, and changes the roster
\* or what the check has read of the members, not both; before the check the
\* call moves on in any way.
Stays(h) == call'[h] = call[h] /\ (UNCHANGED roster \/ UNCHANGED <<role, ypt, members>>)

Outer(h) == call[h].stage \notin Checking /\ call'[h].stage \notin Checking

Enters(h) == SameFacts /\ Proceeds(h, "check", "roster") /\ Reflects(call'[h].seen, call[h].ch)

Judges(h) ==
    /\ SameFacts
    /\ \/ Passes(call[h].seen) /\ \E to \in {"store", "open", "look"} : Proceeds(h, "roster", to)
       \/ ~Passes(call[h].seen) /\ Proceeds(h, "roster", "close")

GoesOn(h) == SameFacts /\ Proceeds(h, "look", "open")

Treats(h) ==
    \/ Stays(h)
    \/ call'[h].stage \in {"idle", "next"}
    \/ Outer(h) \/ Enters(h) \/ Judges(h) \/ GoesOn(h)

\* The call is of some kind and, once it has come to one, at some channel.
Placed(h) ==
    /\ call'[h].stage \notin {"idle", "next"} => call'[h].ch \in Channels
    /\ call'[h].stage # "idle" => call'[h].kind # "idle"
    /\ call'[h].stage = "who" => call'[h].kind = "post"

\* Every call is treated so, and everything keeps its type.
Orderly ==
    /\ call' \in [Calls -> Call] /\ FactsOK'
    /\ \A h \in Calls : Treats(h) /\ Placed(h)

LEMMA OneOrderly ==
  ASSUME Typed, NEW j \in Calls, Only(j), FactsOK', Treats(j), Placed(j),
         UNCHANGED roster \/ UNCHANGED <<role, ypt, members>>
  PROVE  Orderly
  <1>1. ASSUME NEW h \in Calls, h # j
        PROVE  Treats(h) /\ Placed(h)
    <2>1. call'[h] = call[h]
      BY <1>1 DEF Only
    <2> QED
      BY <2>1 DEF Treats, Stays, Placed, Typed, TypeOK, Kinded
  <1> QED
    BY <1>1 DEF Orderly, Only

LEMMA LeavesOrderly ==
  ASSUME Typed, NEW j \in Calls, Leaves(j), FactsOK',
         UNCHANGED roster \/ UNCHANGED <<role, ypt, members>>
  PROVE  Orderly
  <1>1. Treats(j) /\ Placed(j) /\ Only(j)
    BY DEF Leaves, Treats, Placed
  <1> QED
    BY <1>1, OneOrderly

LEMMA ProceedsOrderly ==
  ASSUME Typed, NEW j \in Calls, NEW from, NEW to, Proceeds(j, from, to), from \notin {"idle", "next"},
         to # "who", Treats(j), FactsOK', UNCHANGED roster
  PROVE  Orderly
  <1>1. call[j].ch \in Channels /\ call[j].kind # "idle"
    BY DEF Proceeds, Typed, TypeOK, Kinded
  <1>2. Placed(j) /\ Only(j)
    BY <1>1 DEF Proceeds, Placed
  <1> QED
    BY <1>2, OneOrderly

\* Steps that leave the facts, the members and the flags.
LEMMA QuietFacts ==
  ASSUME TypeOK, SameFacts, suspended' \subseteq Channels, UNCHANGED <<archived, changes>>
  PROVE  FactsOK'
  BY DEF TypeOK, FactsOK, SameFacts

LEMMA StartsOrderly ==
  ASSUME Typed, NEW j \in Requests, Starts(j)
  PROVE  Orderly
  <1> USE DEF Typed
  <1>0. j \in Calls
    BY DEF Calls
  <1>1. ASSUME NEW u \in Users, Rsvp(j, u)
        PROVE  Orderly
    <2>1. GoesOver(j, "reconcile", EventChannels) /\ UNCHANGED <<role, ypt, roster, members>>
      BY <1>1 DEF Rsvp, facts
    <2>2. FactsOK'
      BY <1>1 DEF Rsvp, facts, flags, Changes, TypeOK, FactsOK
    <2> QED
      BY <1>0, <2>1, <2>2, GoesOverOnly, LeavesOrderly DEF EventChannels
  <1>2. ASSUME NEW u \in Users, NEW r \in Roles, SetAccess(j, u, r)
        PROVE  Orderly
    <2>1. GoesOver(j, "reconcile", StandingChannels) /\ UNCHANGED roster
      BY <1>2 DEF SetAccess
    <2>2. FactsOK'
      BY <1>2 DEF SetAccess, flags, Changes, TypeOK, FactsOK
    <2> QED
      BY <1>0, <2>1, <2>2, GoesOverOnly, LeavesOrderly DEF StandingChannels
  <1>3. ASSUME NEW u \in Users, Join(j, u)
        PROVE  Orderly
    <2>1. GoesOver(j, "reconcile", StandingChannels) /\ UNCHANGED roster
      BY <1>3 DEF Join
    <2>2. FactsOK'
      BY <1>3 DEF Join, flags, Changes, TypeOK, FactsOK, Roles
    <2> QED
      BY <1>0, <2>1, <2>2, GoesOverOnly, LeavesOrderly DEF StandingChannels
  <1>4. ASSUME NEW c \in Channels, StartPost(j, c)
        PROVE  Orderly
    <2>1. Only(j) /\ call[j].stage = "idle" /\ call'[j].stage = "who" /\ call'[j].ch = c /\ call'[j].kind = "post"
      BY <1>0, <1>4, StartPostOnly
    <2>2. SameFacts /\ FactsOK' /\ UNCHANGED roster
      BY <1>4 DEF StartPost, quiet, SameFacts, TypeOK, FactsOK
    <2>3. Treats(j) /\ Placed(j)
      BY <2>1 DEF Treats, Outer, Placed, Checking
    <2> QED
      BY <1>0, <2>1, <2>2, <2>3, OneOrderly
  <1>5. ASSUME NEW c \in Channels, StartReopen(j, c)
        PROVE  Orderly
    <2>1. Only(j) /\ call[j].stage = "idle" /\ call'[j].stage = "check" /\ call'[j].ch = c /\ call'[j].kind = "reopen"
      BY <1>0, <1>5, StartReopenOnly
    <2>2. SameFacts /\ FactsOK' /\ UNCHANGED roster
      BY <1>5 DEF StartReopen, quiet, SameFacts, TypeOK, FactsOK
    <2>3. Treats(j) /\ Placed(j)
      BY <2>1 DEF Treats, Outer, Placed, Checking
    <2> QED
      BY <1>0, <2>1, <2>2, <2>3, OneOrderly
  <1>6. ASSUME StartReconcile(j)
        PROVE  Orderly
    <2>1. GoesOver(j, "reconcile", EventChannels) /\ UNCHANGED roster /\ FactsOK'
      BY <1>6 DEF StartReconcile, quiet, TypeOK, FactsOK
    <2> QED
      BY <1>0, <2>1, GoesOverOnly, LeavesOrderly DEF EventChannels
  <1> QED
    BY <1>1, <1>2, <1>3, <1>4, <1>5, <1>6 DEF Starts

LEMMA StepsOrderly ==
  ASSUME Typed, NEW j \in Calls, Steps(j)
  PROVE  Orderly
  <1> USE DEF Typed
  <1>1. CASE TakeNext(j)
    <2>1. FactsOK' /\ UNCHANGED roster
      BY <1>1 DEF TakeNext, quiet, TypeOK, FactsOK
    <2>2. CASE Leaves(j)
      BY <2>1, <2>2, LeavesOrderly
    <2>3. CASE ~Leaves(j)
      <3>1. /\ Only(j) /\ call[j].stage = "next" /\ call'[j].ch \in Channels
            /\ call'[j].stage \in {"check", "wanted"} /\ call'[j].kind = call[j].kind
        BY <1>1, <2>3, TakeNextOnly
      <3>2. Treats(j) /\ Placed(j)
        BY <3>1 DEF Treats, Outer, Placed, Checking, Kinded
      <3> QED
        BY <2>1, <3>1, <3>2, OneOrderly
    <2> QED
      BY <2>2, <2>3
  <1>2. CASE ReadWanted(j)
    <2>1. FactsOK' /\ UNCHANGED roster
      BY <1>2 DEF ReadWanted, quiet, TypeOK, FactsOK
    <2>2. Proceeds(j, "wanted", "compare")
      BY <1>2, ReadWantedOnly
    <2>3. Treats(j)
      BY <2>2 DEF Treats, Outer, Proceeds, Checking
    <2> QED
      BY <2>1, <2>2, <2>3, ProceedsOrderly
  <1>3. CASE Compare(j)
    <2>1. FactsOK' /\ UNCHANGED roster
      BY <1>3 DEF Compare, quiet, TypeOK, FactsOK
    <2>2. Proceeds(j, "compare", "add")
      BY <1>3, CompareOnly
    <2>3. Treats(j)
      BY <2>2 DEF Treats, Outer, Proceeds, Checking
    <2> QED
      BY <2>1, <2>2, <2>3, ProceedsOrderly
  <1>4. CASE Add(j)
    <2>1. FactsOK' /\ UNCHANGED roster
      BY <1>4, AddOnly DEF TypeOK, FactsOK
    <2>2. Proceeds(j, "add", "drop")
      BY <1>4, AddOnly
    <2>3. Treats(j)
      BY <2>2 DEF Treats, Outer, Proceeds, Checking
    <2> QED
      BY <2>1, <2>2, <2>3, ProceedsOrderly
  <1>5. CASE Drop(j)
    <2>1. FactsOK' /\ UNCHANGED roster
      BY <1>5, DropOnly DEF TypeOK, FactsOK
    <2>2. Proceeds(j, "drop", "check")
      BY <1>5, DropOnly
    <2>3. Treats(j)
      BY <2>2 DEF Treats, Outer, Proceeds, Checking
    <2> QED
      BY <2>1, <2>2, <2>3, ProceedsOrderly
  <1>6. CASE CheckMembers(j)
    <2>1. FactsOK' /\ UNCHANGED roster
      BY <1>6 DEF CheckMembers, quiet, TypeOK, FactsOK
    <2>2. Proceeds(j, "check", "roster") /\ Treats(j)
      BY <1>6, CheckMembersOnly DEF Treats, Enters
    <2> QED
      BY <2>1, <2>2, ProceedsOrderly
  <1>7. CASE CheckRoster(j)
    <2>1. FactsOK' /\ UNCHANGED roster /\ SameFacts
      BY <1>7 DEF CheckRoster, quiet, TypeOK, FactsOK, SameFacts
    <2>2. call[j].stage = "roster"
      BY <1>7 DEF CheckRoster
    <2>3. call[j].kind # "idle"
      BY <2>2 DEF Kinded
    <2>4. CASE Leaves(j)
      BY <2>1, <2>4, LeavesOrderly
    <2>5. CASE ~Leaves(j)
      <3>1. PICK to \in {"store", "open", "look", "close"} :
              /\ Proceeds(j, "roster", to)
              /\ to = "close" <=> ~Passes(call[j].seen)
        BY <1>7, <2>3, <2>5, CheckRosterOnly
      <3>2. Treats(j)
        BY <2>1, <3>1 DEF Treats, Judges
      <3> QED
        BY <2>1, <3>1, <3>2, ProceedsOrderly
    <2> QED
      BY <2>4, <2>5
  <1>8. CASE Store(j)
    <2>1. FactsOK' /\ UNCHANGED roster /\ Ends(j)
      BY <1>8 DEF Store, quiet, TypeOK, FactsOK
    <2> QED
      BY <2>1, EndsOnly, LeavesOrderly
  <1>9. CASE Close(j) \/ Open(j)
    <2>1. Leaves(j) /\ SameFacts /\ suspended' \subseteq Channels /\ UNCHANGED <<archived, changes>>
      BY <1>9, CloseOpenOnly
    <2>2. FactsOK' /\ UNCHANGED roster
      BY <2>1, QuietFacts DEF SameFacts
    <2> QED
      BY <2>1, <2>2, LeavesOrderly
  <1>10. CASE Look(j)
    <2>1. FactsOK' /\ UNCHANGED roster /\ SameFacts
      BY <1>10 DEF Look, quiet, TypeOK, FactsOK, SameFacts
    <2>2. CASE Leaves(j)
      BY <2>1, <2>2, LeavesOrderly
    <2>3. CASE ~Leaves(j)
      <3>1. Proceeds(j, "look", "open")
        BY <1>10, <2>3, LookOnly
      <3>2. Treats(j)
        BY <2>1, <3>1 DEF Treats, GoesOn
      <3> QED
        BY <2>1, <3>1, <3>2, ProceedsOrderly
    <2> QED
      BY <2>2, <2>3
  <1>11. ASSUME NEW u \in Users, Who(j, u)
         PROVE  Orderly
    <2>1. FactsOK' /\ UNCHANGED roster
      BY <1>11 DEF Who, quiet, TypeOK, FactsOK
    <2>2. CASE Leaves(j)
      BY <2>1, <2>2, LeavesOrderly
    <2>3. CASE ~Leaves(j)
      <3>1. Proceeds(j, "who", "check")
        BY <1>11, <2>3, WhoOnly
      <3>2. Treats(j)
        BY <3>1 DEF Treats, Outer, Proceeds, Checking
      <3> QED
        BY <2>1, <3>1, <3>2, ProceedsOrderly
    <2> QED
      BY <2>2, <2>3
  <1> QED
    BY <1>1, <1>2, <1>3, <1>4, <1>5, <1>6, <1>7, <1>8, <1>9, <1>10, <1>11 DEF Steps

\* Steps that leave the calls alone.
LEMMA OutsideOrderly ==
  ASSUME Typed, Outside
  PROVE  Orderly
  <1> USE DEF Typed
  <1>1. UNCHANGED call /\ FactsOK' /\ (UNCHANGED roster \/ UNCHANGED <<role, ypt, members>>)
    <2>1. ASSUME NEW u \in Users, DeleteAccount(u)
          PROVE  UNCHANGED call /\ FactsOK' /\ UNCHANGED roster
      BY <2>1 DEF DeleteAccount, Changes, flags, TypeOK, FactsOK, Roles
    <2>2. ASSUME NEW u \in Users, Training(u)
          PROVE  UNCHANGED call /\ FactsOK' /\ UNCHANGED roster
      BY <2>2 DEF Training, Changes, flags, TypeOK, FactsOK
    <2>3. ASSUME NEW u \in Users, EditRoster(u)
          PROVE  UNCHANGED call /\ FactsOK' /\ UNCHANGED <<role, ypt, members>>
      BY <2>3 DEF EditRoster, Changes, flags, TypeOK, FactsOK
    <2>4. ASSUME NEW c \in Channels, SuspendByHand(c) \/ Archive(c)
          PROVE  UNCHANGED call /\ FactsOK' /\ UNCHANGED roster
      BY <2>4 DEF SuspendByHand, Archive, facts, TypeOK, FactsOK
    <2> QED
      BY <2>1, <2>2, <2>3, <2>4 DEF Outside
  <1>2. ASSUME NEW h \in Calls
        PROVE  Treats(h) /\ Placed(h)
    BY <1>1 DEF Treats, Stays, Placed, TypeOK, Kinded
  <1> QED
    BY <1>1, <1>2 DEF Orderly, TypeOK

LEMMA MovesOrderly ==
  ASSUME Typed, Moves
  PROVE  Orderly
  <1>1. ASSUME NEW j \in Calls, Dies(j)
        PROVE  Orderly
    <2>1. Ends(j) /\ FactsOK' /\ UNCHANGED roster
      BY <1>1 DEF Dies, facts, flags, Changes, Typed, TypeOK, FactsOK
    <2> QED
      BY <2>1, EndsOnly, LeavesOrderly DEF Typed
  <1>2. ASSUME Sweep
        PROVE  Orderly
    <2>1. GoesOver(Cron, "sweep", Live) /\ FactsOK' /\ UNCHANGED roster
      BY <1>2 DEF Sweep, quiet, Typed, TypeOK, FactsOK
    <2>2. Cron \in Calls /\ Live \subseteq Channels
      BY DEF Calls, Live
    <2> QED
      BY <2>1, <2>2, GoesOverOnly, LeavesOrderly DEF Typed
  <1> QED
    BY <1>1, <1>2, StartsOrderly, StepsOrderly, OutsideOrderly DEF Moves

-----------------------------------------------------------------------------
\* What is watched of a call.
LEMMA WatchFields ==
  ASSUME TypeOK, Watch, NEW j \in Calls
  PROVE  /\ watch'[j] \in Watches
         /\ call'[j].stage \notin Watching => watch'[j] = NotWatching
         /\ call'[j].stage \in Watching =>
              /\ watch'[j].moves = IF Moved /\ call[j].stage \in Checking /\ watch[j].moves < 2
                                   THEN watch[j].moves + 1 ELSE watch[j].moves
              /\ watch'[j].was <=> watch[j].was \/ (call'[j].stage \in Checking /\ TwoDeep(call[j].ch)')
              /\ watch'[j].lacked <=> watch[j].lacked \/ (call'[j].stage \in Checking /\ ~TwoDeep(call[j].ch)')
              /\ watch'[j].still <=> watch[j].still /\ (Shifts => call'[j] # call[j])
  <1>1. watch'[j] = Observed(j)
    BY DEF Watch
  <1>2. CASE call'[j].stage \notin Watching
    <2>1. watch'[j] = NotWatching
      BY <1>1, <1>2 DEF Observed
    <2>2. NotWatching \in Watches
      BY DEF NotWatching, Watches
    <2> QED
      BY <1>2, <2>1, <2>2
  <1>3. CASE call'[j].stage \in Watching
    <2> DEFINE old == watch[j]
               moves == IF Moved /\ call[j].stage \in Checking /\ old.moves < 2
                        THEN old.moves + 1 ELSE old.moves
               was == old.was \/ (call'[j].stage \in Checking /\ TwoDeep(call[j].ch)')
               lacked == old.lacked \/ (call'[j].stage \in Checking /\ ~TwoDeep(call[j].ch)')
               still == old.still /\ (Shifts => call'[j] # call[j])
    <2>1. watch'[j] = [moves |-> moves, was |-> was, lacked |-> lacked, still |-> still]
      BY <1>1, <1>3 DEF Observed
    <2>2. old.moves \in 0..2
      BY DEF TypeOK, Watches
    <2>3. moves \in 0..2
      BY <2>2
    <2>4. was \in BOOLEAN /\ lacked \in BOOLEAN /\ still \in BOOLEAN
      BY Zenon
    <2> HIDE DEF moves, was, lacked, still
    <2>5. watch'[j] \in Watches
      <3>1. [moves |-> moves, was |-> was, lacked |-> lacked, still |-> still] \in Watches
        BY <2>3, <2>4, Zenon DEF Watches
      <3> QED
        BY <2>1, <3>1
    <2>6. /\ watch'[j].moves = moves /\ watch'[j].was = was
          /\ watch'[j].lacked = lacked /\ watch'[j].still = still
      BY <2>1
    <2> QED
      BY <1>3, <2>5, <2>6 DEF moves, was, lacked, still
  <1> QED
    BY <1>2, <1>3

LEMMA InitTyped ==
  ASSUME Init
  PROVE  Typed
  <1>1. kind \in [Channels -> Event \cup Standing]
    BY ChatAssumption DEF Init
  <1>2. role \in [Users -> Roles] /\ ypt \subseteq Users /\ roster \subseteq Users /\ rsvp \subseteq Users
    BY ChatAssumption DEF Init, Leaders
  <1>3. \A c \in Channels : Wanted(c) \subseteq Users
    BY <1>1, <1>2, WantedType
  <1>4. members \in [Channels -> SUBSET Users]
    BY <1>3 DEF Init
  <1>5. suspended \subseteq Channels /\ archived \subseteq Channels /\ changes \in Nat
    BY DEF Init
  <1>6. call \in [Calls -> Call] /\ \A j \in Calls : call[j].stage = "idle"
    BY IdleType DEF Init
  <1>7. watch \in [Calls -> Watches]
    BY DEF Init, NotWatching, Watches
  <1> QED
    BY <1>1, <1>2, <1>4, <1>5, <1>6, <1>7 DEF Typed, TypeOK, Kinded

LEMMA StepTyped ==
  ASSUME Typed, [Next]_vars
  PROVE  Typed'
  <1>1. CASE Next
    <2>1. Orderly /\ UNCHANGED kind
      BY <1>1, MovesOrderly DEF Next, Watch
    <2>2. watch' \in [Calls -> Watches]
      <3>1. \A j \in Calls : watch'[j] \in Watches
        BY <1>1, WatchFields DEF Next, Typed
      <3>2. watch' = [j \in Calls |-> Observed(j)]
        BY <1>1 DEF Next, Watch
      <3> QED
        BY <3>1, <3>2
    <2>3. TypeOK'
      BY <2>1, <2>2 DEF Orderly, FactsOK, Placed, Typed, TypeOK
    <2>4. Kinded'
      BY <2>1 DEF Orderly, Placed, Kinded
    <2> QED
      BY <2>3, <2>4 DEF Typed
  <1>2. CASE UNCHANGED vars
    BY <1>2 DEF vars, Typed, TypeOK, Kinded
  <1> QED
    BY <1>1, <1>2

\* The fields keep their types: a call that has come to a channel has one.
THEOREM TypeCorrect == Spec => []TypeOK
  <1>1. Init => Typed
    BY InitTyped
  <1>2. Typed /\ [Next]_vars => Typed'
    BY StepTyped
  <1>3. Typed => TypeOK
    BY DEF Typed
  <1> QED
    BY <1>1, <1>2, <1>3, PTL DEF Spec

-----------------------------------------------------------------------------
\* What is known of a channel under its check.  Before the check nothing has
\* been watched.
Unwatched(j) == call[j].stage \notin Checking =>
    watch[j].moves = 0 /\ ~watch[j].was /\ ~watch[j].lacked

\* What the channel is now has been noted.
Noted(j) == call[j].stage \in Checking =>
    /\ TwoDeep(call[j].ch) => watch[j].was
    /\ ~TwoDeep(call[j].ch) => watch[j].lacked

\* What the check saw of the members is what the channel is, or one thing has
\* changed and the answer the roster would give now was right once.
SeenRight(j) == call[j].stage = "roster" =>
    /\ watch[j].moves = 0 => Reflects(call[j].seen, call[j].ch)
    /\ watch[j].moves = 1 => /\ Passes(call[j].seen) => watch[j].was
                             /\ ~Passes(call[j].seen) => watch[j].lacked

\* The verdict was right once.
JudgedRight(j) ==
    /\ call[j].stage \in {"store", "look", "open"} /\ watch[j].moves < 2 => watch[j].was
    /\ call[j].stage = "close" /\ watch[j].moves < 2 => watch[j].lacked

Cause(j) == Unwatched(j) /\ Noted(j) /\ SeenRight(j) /\ JudgedRight(j)

Caused == Typed /\ \A j \in Calls : Cause(j)

\* A check that saw the members as they are gives the right answer.
LEMMA ReflectsRight ==
  ASSUME NEW seen, NEW c, Reflects(seen, c)
  PROVE  Passes(seen) <=> TwoDeep(c)
  <1>1. (\E u \in members[c] : IsYouth(u)) <=> seen.scouts \/ seen.parents \cap roster # {}
    BY DEF Reflects, IsYouth
  <1> QED
    BY <1>1 DEF Reflects, Passes, TwoDeep

\* A change of the roster leaves what the check saw of the members right; any
\* other change leaves the answer.
LEMMA RosterReflects ==
  ASSUME NEW seen, NEW c, Reflects(seen, c), UNCHANGED <<role, ypt, members>>
  PROVE  (Passes(seen) <=> TwoDeep(c))'
  <1>1. /\ seen.enough <=> TwoCurrent(members[c])'
        /\ seen.scouts <=> \E u \in members'[c] : role'[u] = "scout"
        /\ seen.parents = {u \in members'[c] : role'[u] = "parent"}
    BY DEF Reflects, TwoCurrent, IsLeader
  <1>2. (\E u \in members[c] : IsYouth(u))' <=> seen.scouts \/ seen.parents \cap roster' # {}
    BY <1>1 DEF IsYouth
  <1>3. Passes(seen)' <=> (seen.scouts \/ seen.parents \cap roster' # {} => seen.enough)
    BY DEF Passes
  <1>4. TwoDeep(c)' <=> ((\E u \in members[c] : IsYouth(u))' => TwoCurrent(members[c])')
    BY DEF TwoDeep
  <1> QED
    BY <1>1, <1>2, <1>3, <1>4

LEMMA CauseStays ==
  ASSUME Typed, Watch, NEW h \in Calls, Cause(h), Stays(h), call[h].stage \in Checking
  PROVE  Cause(h)'
  <1> PICK c, seen : c = call[h].ch /\ seen = call[h].seen
    OBVIOUS
  <1>1. call'[h].ch = c /\ call'[h].seen = seen /\ call'[h].stage = call[h].stage
    BY DEF Stays
  <1>2. call'[h].stage \in Watching /\ call'[h].stage \in Checking
    BY <1>1 DEF Watching
  <1>3. TwoDeep(call[h].ch)' <=> TwoDeep(c)'
    BY <1>1 DEF TwoDeep
  <1>4. /\ watch'[h].moves = IF Moved /\ watch[h].moves < 2 THEN watch[h].moves + 1 ELSE watch[h].moves
        /\ watch'[h].was <=> watch[h].was \/ TwoDeep(c)'
        /\ watch'[h].lacked <=> watch[h].lacked \/ ~TwoDeep(c)'
    BY <1>2, <1>3, WatchFields DEF Typed
  <1>5. watch[h].moves \in 0..2
    BY DEF Typed, TypeOK, Watches
  <1>6. Unwatched(h)' /\ Noted(h)'
    BY <1>1, <1>2, <1>3, <1>4 DEF Unwatched, Noted
  <1>7. JudgedRight(h)'
    BY <1>1, <1>4, <1>5 DEF JudgedRight, Cause
  <1>8. ASSUME call[h].stage = "roster"
        PROVE  /\ watch'[h].moves = 0 => Reflects(seen, c)'
               /\ watch'[h].moves = 1 => /\ Passes(seen)' => watch'[h].was
                                         /\ ~Passes(seen)' => watch'[h].lacked
    <2>1. /\ watch[h].moves = 0 => Reflects(seen, c)
          /\ watch[h].moves = 1 => /\ Passes(seen) => watch[h].was
                                   /\ ~Passes(seen) => watch[h].lacked
          /\ TwoDeep(c) => watch[h].was
          /\ ~TwoDeep(c) => watch[h].lacked
      BY <1>8 DEF Cause, SeenRight, Noted
    <2>2. CASE ~Moved
      <3>1. UNCHANGED <<role, ypt, roster, members>>
        BY <2>2 DEF Moved, facts
      <3>2. (Reflects(seen, c) => Reflects(seen, c)') /\ (Passes(seen)' <=> Passes(seen))
        BY <3>1 DEF Reflects, Passes, TwoCurrent, IsLeader
      <3> QED
        BY <1>4, <2>1, <2>2, <3>2
    <2>3. CASE Moved /\ watch[h].moves = 0
      <3>1. watch'[h].moves = 1 /\ Reflects(seen, c)
        BY <1>4, <2>1, <2>3
      <3>2. CASE UNCHANGED roster
        <4>1. Passes(seen)' <=> Passes(seen)
          BY <3>2 DEF Passes
        <4>2. Passes(seen) <=> TwoDeep(c)
          BY <3>1, ReflectsRight
        <4> QED
          BY <1>4, <2>1, <3>1, <4>1, <4>2
      <3>3. CASE UNCHANGED <<role, ypt, members>>
        <4>1. Passes(seen)' <=> TwoDeep(c)'
          BY <3>1, <3>3, RosterReflects
        <4> QED
          BY <1>4, <3>1, <4>1
      <3> QED
        BY <3>2, <3>3 DEF Stays
    <2>4. CASE Moved /\ watch[h].moves # 0
      BY <1>4, <1>5, <2>4
    <2> QED
      BY <2>2, <2>3, <2>4
  <1>9. SeenRight(h)'
    <2>1. (Passes(call[h].seen)' <=> Passes(seen)') /\ (Reflects(call[h].seen, call[h].ch)' <=> Reflects(seen, c)')
      BY <1>1 DEF Passes, Reflects
    <2> QED
      BY <1>1, <1>8, <2>1 DEF SeenRight
  <1> QED
    BY <1>6, <1>7, <1>9 DEF Cause

LEMMA CauseEnters ==
  ASSUME Typed, Watch, NEW h \in Calls, Cause(h), Enters(h)
  PROVE  Cause(h)'
  <1> PICK c, seen : c = call'[h].ch /\ seen = call'[h].seen
    OBVIOUS
  <1>1. call[h].stage = "check" /\ call'[h].stage = "roster" /\ Reflects(seen, c) /\ SameFacts
    BY DEF Enters, Proceeds
  <1>2. TwoDeep(call[h].ch)' <=> TwoDeep(c)'
    BY DEF TwoDeep
  <1>3. watch'[h].moves = 0 /\ (watch'[h].was <=> TwoDeep(c)') /\ (watch'[h].lacked <=> ~TwoDeep(c)')
    BY <1>1, <1>2, WatchFields DEF Typed, Cause, Unwatched, Checking, Watching
  <1>4. Reflects(seen, c)'
    BY <1>1 DEF Reflects, SameFacts, TwoCurrent, IsLeader
  <1>5. Reflects(call[h].seen, call[h].ch)'
    BY <1>4 DEF Reflects
  <1>6. Unwatched(h)' /\ Noted(h)' /\ JudgedRight(h)'
    BY <1>1, <1>2, <1>3 DEF Unwatched, Noted, JudgedRight, Checking
  <1>7. SeenRight(h)'
    BY <1>3, <1>5 DEF SeenRight
  <1> QED
    BY <1>6, <1>7 DEF Cause

\* The verdict, and the look at the flag after it.
LEMMA CauseGoesOn ==
  ASSUME Typed, Watch, NEW h \in Calls, Cause(h), Judges(h) \/ GoesOn(h)
  PROVE  Cause(h)'
  <1> PICK c, seen : c = call[h].ch /\ seen = call[h].seen
    OBVIOUS
  <1>1. /\ SameFacts /\ call'[h].ch = c /\ call[h].stage \in {"roster", "look"}
        /\ call'[h].stage \in {"store", "open", "look", "close"}
    BY DEF Judges, GoesOn, Proceeds
  <1>2. ~Moved
    BY <1>1 DEF SameFacts, Moved, facts
  <1>3. TwoDeep(call[h].ch)' <=> TwoDeep(c)
    BY <1>1 DEF SameFacts, TwoDeep, TwoCurrent, IsLeader, IsYouth
  <1>4. /\ watch'[h].moves = watch[h].moves
        /\ watch'[h].was <=> watch[h].was \/ TwoDeep(c)
        /\ watch'[h].lacked <=> watch[h].lacked \/ ~TwoDeep(c)
    BY <1>1, <1>2, <1>3, WatchFields DEF Typed, Checking, Watching
  <1>5. Unwatched(h)' /\ Noted(h)' /\ SeenRight(h)'
    BY <1>1, <1>3, <1>4 DEF Unwatched, Noted, SeenRight, Checking
  <1>6. watch[h].moves \in 0..2
    BY DEF Typed, TypeOK, Watches
  <1>7. ASSUME watch[h].moves < 2
        PROVE  /\ call'[h].stage = "close" => watch'[h].lacked
               /\ call'[h].stage # "close" => watch'[h].was
    <2>1. CASE GoesOn(h)
      BY <1>4, <1>7, <2>1 DEF GoesOn, Proceeds, Cause, JudgedRight
    <2>2. CASE Judges(h)
      <3>1. call[h].stage = "roster" /\ (call'[h].stage = "close" <=> ~Passes(seen))
        BY <2>2 DEF Judges, Proceeds
      <3>2. (Passes(seen) => watch[h].was) /\ (~Passes(seen) => watch[h].lacked)
        <4>1. CASE watch[h].moves = 1
          BY <3>1, <4>1 DEF Cause, SeenRight
        <4>2. CASE watch[h].moves = 0
          <5>1. Passes(seen) <=> TwoDeep(c)
            BY <3>1, <4>2, ReflectsRight DEF Cause, SeenRight
          <5> QED
            BY <3>1, <5>1 DEF Cause, Noted, Checking
        <4> QED
          BY <1>6, <1>7, <4>1, <4>2
      <3> QED
        BY <1>4, <3>1, <3>2
    <2> QED
      BY <2>1, <2>2
  <1>8. JudgedRight(h)'
    BY <1>4, <1>7 DEF JudgedRight
  <1> QED
    BY <1>5, <1>8 DEF Cause

LEMMA StepCaused ==
  ASSUME Caused, [Next]_vars
  PROVE  Caused'
  <1>1. Typed'
    BY StepTyped DEF Caused
  <1>2. ASSUME NEW h \in Calls, Next
        PROVE  Cause(h)'
    <2>1. Typed /\ Cause(h) /\ Watch /\ Treats(h)
      BY <1>2, MovesOrderly DEF Caused, Next, Orderly
    <2>2. CASE call'[h].stage \in {"idle", "next"}
      <3>1. watch'[h] = NotWatching /\ call'[h].stage \notin Checking
        BY <2>1, <2>2, WatchFields DEF Typed, Watching, Checking
      <3> QED
        BY <3>1 DEF NotWatching, Cause, Unwatched, Noted, SeenRight, JudgedRight, Checking
    <2>3. CASE call[h].stage \notin Checking /\ call'[h].stage \notin Checking
      <3>1. watch'[h].moves = 0 /\ ~watch'[h].was /\ ~watch'[h].lacked
        BY <2>1, <2>3, WatchFields DEF Typed, NotWatching, Cause, Unwatched
      <3> QED
        BY <2>3, <3>1 DEF Cause, Unwatched, Noted, SeenRight, JudgedRight, Checking
    <2>4. CASE Stays(h) /\ call[h].stage \in Checking
      BY <2>1, <2>4, CauseStays
    <2> QED
      BY <2>1, <2>2, <2>3, <2>4, CauseEnters, CauseGoesOn DEF Treats, Outer, Stays
  <1>3. ASSUME NEW h \in Calls, UNCHANGED vars
        PROVE  Cause(h)'
    BY <1>3 DEF Caused, Cause, Unwatched, Noted, SeenRight, JudgedRight, Reflects, Passes, TwoDeep,
                TwoCurrent, IsLeader, IsYouth, vars
  <1>4. \A h \in Calls : Cause(h)'
    BY <1>2, <1>3
  <1>5. UNCHANGED Calls
    BY DEF Calls
  <1> QED
    BY <1>1, <1>4, <1>5 DEF Caused

LEMMA InitCaused ==
  ASSUME Init
  PROVE  Caused
  <1>1. \A j \in Calls : call[j].stage = "idle" /\ watch[j] = NotWatching
    BY IdleType DEF Init
  <1> QED
    BY <1>1, InitTyped DEF Caused, Cause, Unwatched, Noted, SeenRight, JudgedRight, Checking, NotWatching

\* No message is written and no channel opened on a check the channel never
\* deserved to pass, unless two things changed under the check.
THEOREM PassesForCause == Spec => []PassedForCause
  <1>1. Init => Caused
    BY InitCaused
  <1>2. Caused /\ [Next]_vars => Caused'
    BY StepCaused
  <1>3. Caused => PassedForCause
    BY DEF Caused, Cause, JudgedRight, PassedForCause
  <1> QED
    BY <1>1, <1>2, <1>3, PTL DEF Spec

\* No check suspends a channel that had its leaders all along, unless two
\* things changed under the check.
THEOREM SuspendsForCause == Spec => []SuspendedForCause
  <1>1. Init => Caused
    BY InitCaused
  <1>2. Caused /\ [Next]_vars => Caused'
    BY StepCaused
  <1>3. Caused => SuspendedForCause
    BY DEF Caused, Cause, JudgedRight, SuspendedForCause
  <1> QED
    BY <1>1, <1>2, <1>3, PTL DEF Spec

-----------------------------------------------------------------------------
\* Reconciliations.  How a step treats one that has begun with a channel.
MembersOnly(h, now) ==
    /\ members' = [members EXCEPT ![call[h].ch] = now]
    /\ UNCHANGED <<role, ypt, roster, rsvp>>

Builds(h) == call'[h].kind = "reconcile" /\ call'[h].stage \notin {"idle", "next", "wanted"} =>
    \/ call'[h] = call[h]
    \/ /\ SameFacts /\ Proceeds(h, "wanted", "compare") /\ call'[h].add = Wanted(call[h].ch)
    \/ /\ SameFacts /\ Proceeds(h, "compare", "add")
       /\ call'[h].add = call[h].add \ members[call[h].ch]
       /\ call'[h].drop = members[call[h].ch] \ call[h].add
    \/ /\ Proceeds(h, "add", "drop") /\ call'[h].drop = call[h].drop
       /\ MembersOnly(h, members[call[h].ch] \cup call[h].add)
    \/ /\ Proceeds(h, "drop", "check")
       /\ MembersOnly(h, members[call[h].ch] \ call[h].drop)
    \/ Enters(h) \/ Judges(h) \/ GoesOn(h)

LEMMA OneBuilds ==
  ASSUME NEW j \in Calls, Only(j), Builds(j), NEW h \in Calls
  PROVE  Builds(h)
  <1>1. CASE h = j
    BY <1>1
  <1>2. CASE h # j
    BY <1>2 DEF Only, Builds
  <1> QED
    BY <1>1, <1>2

LEMMA LeavesBuilds ==
  ASSUME NEW j \in Calls, Leaves(j), NEW h \in Calls
  PROVE  Builds(h)
  <1>1. Only(j) /\ Builds(j)
    BY DEF Leaves, Builds
  <1> QED
    BY <1>1, OneBuilds

LEMMA StepsBuild ==
  ASSUME Typed, NEW j \in Calls, Steps(j), NEW h \in Calls
  PROVE  Builds(h)
  <1> USE DEF Typed
  <1>1. CASE Leaves(j)
    BY <1>1, LeavesBuilds
  <1>2. CASE ~Leaves(j)
    <2>1. CASE TakeNext(j)
      <3>1. Only(j) /\ Builds(j)
        BY <1>2, <2>1, TakeNextOnly DEF Builds
      <3> QED
        BY <3>1, OneBuilds
    <2>2. CASE ReadWanted(j)
      <3>1. SameFacts
        BY <2>2 DEF ReadWanted, quiet, SameFacts
      <3>2. Only(j) /\ Builds(j)
        BY <2>2, <3>1, ReadWantedOnly DEF Builds, Proceeds
      <3> QED
        BY <3>2, OneBuilds
    <2>3. CASE Compare(j)
      <3>1. SameFacts
        BY <2>3 DEF Compare, quiet, SameFacts
      <3>2. Only(j) /\ Builds(j)
        BY <2>3, <3>1, CompareOnly DEF Builds, Proceeds
      <3> QED
        BY <3>2, OneBuilds
    <2>4. CASE Add(j)
      <3>1. Proceeds(j, "add", "drop") /\ call'[j].drop = call[j].drop
            /\ MembersOnly(j, members[call[j].ch] \cup call[j].add)
        BY <2>4, AddOnly DEF MembersOnly
      <3>2. Only(j) /\ Builds(j)
        BY <3>1 DEF Builds, Proceeds
      <3> QED
        BY <3>2, OneBuilds
    <2>5. CASE Drop(j)
      <3>1. Proceeds(j, "drop", "check") /\ MembersOnly(j, members[call[j].ch] \ call[j].drop)
        BY <2>5, DropOnly DEF MembersOnly
      <3>2. Only(j) /\ Builds(j)
        BY <3>1 DEF Builds, Proceeds
      <3> QED
        BY <3>2, OneBuilds
    <2>6. CASE CheckMembers(j)
      <3>1. Only(j) /\ Enters(j)
        BY <2>6, CheckMembersOnly DEF Enters, Proceeds
      <3>2. Builds(j)
        BY <3>1 DEF Builds
      <3> QED
        BY <3>1, <3>2, OneBuilds
    <2>7. CASE CheckRoster(j)
      <3>1. call[j].kind # "idle" /\ SameFacts
        BY <2>7 DEF CheckRoster, Kinded, quiet, SameFacts
      <3>2. Only(j) /\ Judges(j)
        BY <1>2, <2>7, <3>1, CheckRosterOnly DEF Judges, Proceeds
      <3>3. Builds(j)
        BY <3>2 DEF Builds
      <3> QED
        BY <3>2, <3>3, OneBuilds
    <2>8. CASE Store(j) \/ Close(j) \/ Open(j)
      BY <1>2, <2>8, EndsOnly, CloseOpenOnly DEF Store
    <2>9. CASE Look(j)
      <3>1. SameFacts
        BY <2>9 DEF Look, quiet, SameFacts
      <3>2. Only(j) /\ GoesOn(j)
        BY <1>2, <2>9, <3>1, LookOnly DEF GoesOn, Proceeds
      <3>3. Builds(j)
        BY <3>2 DEF Builds
      <3> QED
        BY <3>2, <3>3, OneBuilds
    <2>10. ASSUME NEW u \in Users, Who(j, u)
           PROVE  Builds(h)
      <3>1. Proceeds(j, "who", "check")
        BY <1>2, <2>10, WhoOnly
      <3>2. call'[j].kind = "post" /\ Only(j)
        BY <3>1 DEF Proceeds, Kinded
      <3>3. Builds(j)
        BY <3>2 DEF Builds
      <3> QED
        BY <3>2, <3>3, OneBuilds
    <2> QED
      BY <2>1, <2>2, <2>3, <2>4, <2>5, <2>6, <2>7, <2>8, <2>9, <2>10 DEF Steps
  <1> QED
    BY <1>1, <1>2

LEMMA MovesBuild ==
  ASSUME Typed, Moves, NEW h \in Calls
  PROVE  Builds(h)
  <1> USE DEF Typed
  <1>1. ASSUME NEW j \in Requests, Starts(j)
        PROVE  Builds(h)
    <2>0. j \in Calls
      BY DEF Calls
    <2>1. ASSUME NEW channels \in SUBSET Channels, GoesOver(j, "reconcile", channels)
          PROVE  Builds(h)
      BY <2>0, <2>1, GoesOverOnly, LeavesBuilds
    <2>2. ASSUME NEW c \in Channels, StartPost(j, c)
          PROVE  Builds(h)
      <3>1. Only(j) /\ Builds(j)
        BY <2>0, <2>2, StartPostOnly DEF Builds
      <3> QED
        BY <2>0, <3>1, OneBuilds
    <2>3. ASSUME NEW c \in Channels, StartReopen(j, c)
          PROVE  Builds(h)
      <3>1. Only(j) /\ Builds(j)
        BY <2>0, <2>3, StartReopenOnly DEF Builds
      <3> QED
        BY <2>0, <3>1, OneBuilds
    <2>4. EventChannels \subseteq Channels /\ StandingChannels \subseteq Channels
      BY DEF EventChannels, StandingChannels
    <2> QED
      BY <1>1, <2>1, <2>2, <2>3, <2>4 DEF Starts, Rsvp, Join, SetAccess, StartReconcile
  <1>2. ASSUME Sweep
        PROVE  Builds(h)
    <2>1. GoesOver(Cron, "sweep", Live) /\ Cron \in Calls /\ Live \subseteq Channels
      BY <1>2 DEF Sweep, Calls, Live
    <2> QED
      BY <2>1, GoesOverOnly, LeavesBuilds
  <1>3. ASSUME NEW j \in Calls, Dies(j)
        PROVE  Builds(h)
    BY <1>3, EndsOnly, LeavesBuilds DEF Dies
  <1>4. ASSUME Outside
        PROVE  Builds(h)
    <2>1. UNCHANGED call
      BY <1>4 DEF Outside, DeleteAccount, Training, EditRoster, SuspendByHand, Archive
    <2> QED
      BY <2>1 DEF Builds
  <1> QED
    BY <1>1, <1>2, <1>3, <1>4, StepsBuild DEF Moves

\* The members a reconciliation makes out, what it is about to write and what
\* its check finds are right as long as nothing moves under it.
Settled(j) == call[j].kind = "reconcile" /\ watch[j].still =>
    LET c == call[j].ch IN
    /\ call[j].stage = "compare" => call[j].add = Wanted(c)
    /\ call[j].stage = "add" =>
          call[j].add = Wanted(c) \ members[c] /\ call[j].drop = members[c] \ Wanted(c)
    /\ call[j].stage = "drop" => call[j].drop = members[c] \ Wanted(c) /\ Wanted(c) \subseteq members[c]
    /\ call[j].stage \in Checking \cup {"check"} => members[c] = Wanted(c)
    /\ call[j].stage = "roster" => Reflects(call[j].seen, c)
    /\ call[j].stage \in {"look", "open"} => TwoDeep(c)
    /\ call[j].stage = "close" => ~TwoDeep(c)

AllSettled == Typed /\ \A j \in Calls : Settled(j)

LEMMA WantedStays ==
  ASSUME UNCHANGED <<kind, role, roster, rsvp>>, NEW c
  PROVE  Wanted(c)' = Wanted(c)
  <1>1. Leaders' = Leaders
    BY DEF Leaders, IsLeader
  <1>2. \A u : Guardians(u)' = Guardians(u) /\ (IsYouth(u)' <=> IsYouth(u))
    BY DEF Guardians, IsYouth
  <1>3. Accompanied' = Accompanied
    BY <1>2 DEF Accompanied
  <1>4. Grown(rsvp)' = Grown(rsvp) /\ Grown(Staff)' = Grown(Staff)
    BY <1>2 DEF Grown
  <1>5. (UNION {Guardians(u) : u \in Accompanied})' = UNION {Guardians(u) : u \in Accompanied}
    BY <1>2, <1>3
  <1>6. Families' = Families
    BY <1>1, <1>3, <1>4, <1>5 DEF Families
  <1> QED
    BY <1>1, <1>4, <1>6 DEF Wanted

\* Nothing that matters changes.
LEMMA SameStays ==
  ASSUME SameFacts, UNCHANGED kind, NEW c
  PROVE  /\ members'[c] = members[c] /\ Wanted(c)' = Wanted(c)
         /\ TwoDeep(c)' <=> TwoDeep(c)
         /\ \A seen : (Reflects(seen, c)' <=> Reflects(seen, c)) /\ (Passes(seen)' <=> Passes(seen))
  <1>1. Wanted(c)' = Wanted(c)
    BY WantedStays DEF SameFacts
  <1>2. members'[c] = members[c]
    BY DEF SameFacts
  <1>3. (TwoDeep(c)' <=> TwoDeep(c)) /\ \A seen : Reflects(seen, c)' <=> Reflects(seen, c)
    BY DEF SameFacts, TwoDeep, TwoCurrent, IsLeader, IsYouth, Reflects
  <1>4. \A seen : Passes(seen)' <=> Passes(seen)
    BY DEF SameFacts, Passes
  <1> QED
    BY <1>1, <1>2, <1>3, <1>4

LEMMA SettledStep ==
  ASSUME Typed, Watch, NEW h \in Calls, Builds(h), Settled(h)
  PROVE  Settled(h)'
  <1> SUFFICES ASSUME (call[h].kind = "reconcile" /\ watch[h].still)', call'[h].stage \in Watching
               PROVE  Settled(h)'
    BY DEF Settled, Watching, Checking
  <1> PICK c, seen : c = call[h].ch /\ seen = call[h].seen
    OBVIOUS
  <1>1. watch[h].still /\ (Shifts => call'[h] # call[h]) /\ UNCHANGED kind
    BY WatchFields DEF Typed, Watch
  <1>2. CASE call'[h] = call[h]
    <2>1. SameFacts
      BY <1>1, <1>2 DEF Shifts, Moved, facts, SameFacts
    <2>2. (TwoDeep(call[h].ch)' <=> TwoDeep(c)') /\ (Reflects(call[h].seen, call[h].ch)' <=> Reflects(seen, c)')
          /\ Wanted(call[h].ch)' = Wanted(c)'
      BY <1>2 DEF TwoDeep, Reflects, Wanted
    <2> QED
      BY <1>1, <1>2, <2>1, <2>2, SameStays DEF Settled
  <1>3. CASE SameFacts /\ Proceeds(h, "wanted", "compare") /\ call'[h].add = Wanted(call[h].ch)
    <2>1. Wanted(call[h].ch)' = Wanted(c)
      BY <1>1, <1>3, SameStays DEF Proceeds, Wanted
    <2> QED
      BY <1>3, <2>1 DEF Settled, Proceeds, Checking
  <1>4. CASE /\ SameFacts /\ Proceeds(h, "compare", "add")
             /\ call'[h].add = call[h].add \ members[call[h].ch]
             /\ call'[h].drop = members[call[h].ch] \ call[h].add
    <2>1. call[h].add = Wanted(c)
      BY <1>1, <1>4 DEF Settled, Proceeds
    <2>2. Wanted(call[h].ch)' = Wanted(c) /\ members'[c] = members[c] /\ call'[h].ch = c
      BY <1>1, <1>4, SameStays DEF Proceeds, Wanted
    <2> QED
      BY <1>4, <2>1, <2>2 DEF Settled, Proceeds, Checking
  <1>5. CASE /\ Proceeds(h, "add", "drop") /\ call'[h].drop = call[h].drop
             /\ MembersOnly(h, members[call[h].ch] \cup call[h].add)
    <2>1. call[h].add = Wanted(c) \ members[c] /\ call[h].drop = members[c] \ Wanted(c) /\ c \in Channels
      BY <1>1, <1>5 DEF Settled, Proceeds, Typed, TypeOK
    <2>2. Wanted(c)' = Wanted(c)
      BY <1>1, <1>5, WantedStays DEF MembersOnly
    <2>3. members'[c] = members[c] \cup call[h].add
      BY <1>5, <2>1 DEF MembersOnly, Typed, TypeOK
    <2>4. call'[h].ch = c /\ Wanted(call[h].ch)' = Wanted(c)' /\ call'[h].stage = "drop"
      BY <1>5 DEF Proceeds, Wanted
    <2>5. call'[h].drop = members'[c] \ Wanted(c) /\ Wanted(c) \subseteq members'[c]
      BY <1>5, <2>1, <2>3
    <2> QED
      BY <2>2, <2>4, <2>5 DEF Settled, Checking
  <1>6. CASE /\ Proceeds(h, "drop", "check")
             /\ MembersOnly(h, members[call[h].ch] \ call[h].drop)
    <2>1. call[h].drop = members[c] \ Wanted(c) /\ Wanted(c) \subseteq members[c] /\ c \in Channels
      BY <1>1, <1>6 DEF Settled, Proceeds, Typed, TypeOK
    <2>2. Wanted(c)' = Wanted(c)
      BY <1>1, <1>6, WantedStays DEF MembersOnly
    <2>3. members'[c] = members[c] \ call[h].drop
      BY <1>6, <2>1 DEF MembersOnly, Typed, TypeOK
    <2>4. call'[h].ch = c /\ Wanted(call[h].ch)' = Wanted(c)' /\ call'[h].stage = "check"
      BY <1>6 DEF Proceeds, Wanted
    <2>5. members'[c] = Wanted(c)
      BY <2>1, <2>3
    <2> QED
      BY <2>2, <2>4, <2>5 DEF Settled, Checking
  <1>7. CASE Enters(h)
    <2>1. members[c] = Wanted(c) /\ SameFacts /\ call'[h].ch = c /\ call'[h].stage = "roster"
          /\ Reflects(call'[h].seen, c)
      BY <1>1, <1>7 DEF Enters, Settled, Proceeds
    <2> PICK new : new = call'[h].seen
      OBVIOUS
    <2>2. Wanted(call[h].ch)' = Wanted(c)' /\ (Reflects(call[h].seen, call[h].ch)' <=> Reflects(new, c)')
      BY <2>1 DEF Wanted, Reflects
    <2>3. members'[c] = Wanted(c)' /\ Reflects(new, c)'
      BY <1>1, <2>1, SameStays
    <2> QED
      BY <2>1, <2>2, <2>3 DEF Settled, Checking
  <1>8. CASE Judges(h) \/ GoesOn(h)
    <2>1. /\ SameFacts /\ call'[h].ch = c /\ call[h].stage \in Checking /\ call[h].kind = "reconcile"
          /\ call'[h].stage \in {"store", "open", "look", "close"}
      BY <1>8 DEF Judges, GoesOn, Proceeds, Checking
    <2>2. members[c] = Wanted(c)
      BY <1>1, <2>1 DEF Settled
    <2>3. (call'[h].stage \in {"open", "look"} => TwoDeep(c)) /\ (call'[h].stage = "close" => ~TwoDeep(c))
      <3>1. CASE GoesOn(h)
        BY <1>1, <2>1, <3>1 DEF GoesOn, Proceeds, Settled
      <3>2. CASE Judges(h)
        <4>1. Reflects(seen, c)
          BY <1>1, <2>1, <3>2 DEF Judges, Proceeds, Settled
        <4> QED
          BY <3>2, <4>1, ReflectsRight DEF Judges, Proceeds
      <3> QED
        BY <1>8, <3>1, <3>2
    <2>4. (TwoDeep(call[h].ch)' <=> TwoDeep(c)') /\ Wanted(call[h].ch)' = Wanted(c)'
      BY <2>1 DEF TwoDeep, Wanted
    <2>5. members'[c] = Wanted(c)' /\ (TwoDeep(c)' <=> TwoDeep(c))
      BY <1>1, <2>1, <2>2, SameStays
    <2> QED
      BY <2>1, <2>3, <2>4, <2>5 DEF Settled, Checking
  <1> QED
    BY <1>2, <1>3, <1>4, <1>5, <1>6, <1>7, <1>8 DEF Builds, Watching, Checking

LEMMA StepSettled ==
  ASSUME AllSettled, [Next]_vars
  PROVE  AllSettled'
  <1>1. Typed'
    BY StepTyped DEF AllSettled
  <1>2. ASSUME NEW h \in Calls, Next
        PROVE  Settled(h)'
    BY <1>2, MovesBuild, SettledStep DEF AllSettled, Next
  <1>3. ASSUME NEW h \in Calls, UNCHANGED vars
        PROVE  Settled(h)'
    <2>1. SameFacts /\ UNCHANGED <<kind, call, watch>>
      BY <1>3 DEF vars, SameFacts
    <2> PICK c, seen : c = call[h].ch /\ seen = call[h].seen
      OBVIOUS
    <2>2. (TwoDeep(call[h].ch)' <=> TwoDeep(c)') /\ (Reflects(call[h].seen, call[h].ch)' <=> Reflects(seen, c)')
          /\ Wanted(call[h].ch)' = Wanted(c)'
      BY <2>1 DEF TwoDeep, Reflects, Wanted
    <2> QED
      BY <2>1, <2>2, SameStays DEF Settled, AllSettled
  <1>4. \A h \in Calls : Settled(h)'
    BY <1>2, <1>3
  <1>5. UNCHANGED Calls
    BY DEF Calls
  <1> QED
    BY <1>1, <1>4, <1>5 DEF AllSettled

LEMMA InitSettled ==
  ASSUME Init
  PROVE  AllSettled
  <1>1. \A j \in Calls : call[j].stage = "idle"
    BY IdleType DEF Init
  <1> QED
    BY <1>1, InitTyped DEF AllSettled, Settled, Checking

\* Exactly the people wanted in it: the channel is as it should be.
LEMMA WantedSettles ==
  ASSUME Typed, NEW c \in Channels, members[c] = Wanted(c)
  PROVE  Settles(c)
  <1>1. kind[c] \in Event \cup Standing
    BY DEF Typed, TypeOK
  <1>2. Leaders \subseteq Wanted(c)
    BY <1>1 DEF Wanted, Families, Leaders, IsLeader, Event, Standing
  <1>3. ASSUME kind[c] = "families", NEW u \in members[c]
        PROVE  HasPlace(c, u)
    <2>1. members[c] = Families
      BY <1>3 DEF Wanted
    <2>2. CASE u \in Leaders
      BY <2>2 DEF Leaders, HasPlace
    <2>3. CASE u \in Grown(rsvp)
      BY <2>3 DEF Grown, HasPlace
    <2>4. CASE u \in Accompanied
      <3>1. Guardians(u) \subseteq members[c]
        BY <2>1, <2>4 DEF Families
      <3> QED
        BY <2>4, <3>1 DEF Accompanied, HasPlace
    <2>5. ASSUME NEW s \in Accompanied, u \in Guardians(s)
          PROVE  HasPlace(c, u)
      <3>1. s \in members[c]
        BY <2>1 DEF Families
      <3> QED
        BY <2>5, <3>1 DEF Accompanied, HasPlace
    <2> QED
      BY <2>1, <2>2, <2>3, <2>4, <2>5 DEF Families
  <1>4. ASSUME kind[c] = "staff", NEW u \in members[c]
        PROVE  ~IsYouth(u)
    <2>1. u \in Leaders \cup Grown(Staff)
      BY <1>4 DEF Wanted
    <2> QED
      BY <2>1 DEF Leaders, IsLeader, Grown, IsYouth
  <1> QED
    BY <1>2, <1>3, <1>4 DEF Settles

\* A reconciliation nothing moved under leaves exactly who belongs, and opens
\* or suspends the channel by what it then is.
THEOREM ReconciliationSettles == Spec => []ReconcileSettles
  <1>1. Init => AllSettled
    BY InitSettled
  <1>2. AllSettled /\ [Next]_vars => AllSettled'
    BY StepSettled
  <1>3. AllSettled => ReconcileSettles
    <2> SUFFICES ASSUME AllSettled, NEW j \in Calls, call[j].kind = "reconcile", watch[j].still
                 PROVE  /\ call[j].stage \in Checking => Settles(call[j].ch)
                        /\ call[j].stage \in {"look", "open"} => TwoDeep(call[j].ch)
                        /\ call[j].stage = "close" => ~TwoDeep(call[j].ch)
      BY DEF ReconcileSettles
    <2>1. ASSUME call[j].stage \in Checking
          PROVE  Settles(call[j].ch)
      <3>1. call[j].ch \in Channels /\ members[call[j].ch] = Wanted(call[j].ch)
        BY <2>1 DEF AllSettled, Settled, Typed, TypeOK, Checking
      <3> QED
        BY <3>1, WantedSettles DEF AllSettled
    <2> QED
      BY <2>1 DEF AllSettled, Settled
  <1> QED
    BY <1>1, <1>2, <1>3, PTL DEF Spec
=============================================================================
