-------------------------------- MODULE Chat --------------------------------
(***************************************************************************)
(* The chat channels of one unit and their youth protection rule           *)
(* (src/src/lib/chat/index.ts): a channel with youth in it has two current *)
(* adult leaders, or is suspended.  The members follow the unit's roles,   *)
(* roster and answers; a check runs on every post, on every reopening,     *)
(* after every reconciliation and in the cron sweep.                       *)
(*                                                                         *)
(* No call holds a transaction: the reads and writes below are statements  *)
(* of their own and interleave with those of the other calls.  The people  *)
(* wanted in a channel are read as of one moment, and the clock a check    *)
(* compares the training dates with is read together with the members.     *)
(***************************************************************************)
EXTENDS Integers, FiniteSets

CONSTANTS
    Users,       \* people with an account
    GuardianOf,  \* the guardians the roster links to each person
    Adults,      \* people the roster lists as adults
    Staff,       \* people on the event's staff who said yes or maybe
    Patrol,      \* people whose address the roster lists in the patrol
    Role0,       \* everybody's role at the start
    Rsvp0,       \* who has answered the event at the start
    Channels,    \* the channels
    Layouts,     \* what the channels may be: kinds, by channel
    PostPolicy,  \* who may post in it
    NoChannel,   \* stands for no channel
    Requests,    \* requests handled at the same time
    Cron,        \* the cron tick
    MaxChanges   \* bound: changes of roles, roster, training and answers,
                 \* and calls that die

Roles    == {"none", "scout", "parent", "leader"}
Event    == {"families", "staff"}
Standing == {"troop", "parents", "leaders", "patrol"}

ASSUME ChatAssumption ==
    /\ GuardianOf \in [Users -> SUBSET Users] /\ Role0 \in [Users -> Roles]
    /\ Adults \subseteq Users /\ Staff \subseteq Users /\ Patrol \subseteq Users
    /\ Rsvp0 \subseteq Users
    /\ Layouts \subseteq [Channels -> Event \cup Standing]
    /\ PostPolicy \in [Channels -> {"everyone", "members", "leaders"}]
    /\ NoChannel \notin Channels /\ Cron \notin Requests /\ MaxChanges \in Nat

VARIABLES
    kind,       \* what each channel is
    role,       \* OrgMembership.role; admins count as leaders
    ypt,        \* people whose youth protection training is current
    roster,     \* people whose address is a youth's on the roster
    rsvp,       \* people who said yes or maybe to the event
    members,    \* each channel's member rows
    suspended,  \* channels with isSuspended
    archived,   \* channels with archivedAt
    call,       \* what each request and the cron tick is doing
    watch,      \* history: what happened since a call's check began
    changes     \* changes so far

facts == <<role, ypt, roster>>
flags == <<suspended, archived>>
vars  == <<kind, role, ypt, roster, rsvp, members, suspended, archived, call, watch, changes>>

Calls  == Requests \cup {Cron}
Kinds  == {"idle", "post", "reopen", "sweep", "reconcile"}
Stages == {"idle", "who", "next", "wanted", "compare", "add", "drop", "check",
           "roster", "store", "close", "look", "open"}

\* What a check saw of the members, before it reads the roster.
Seen == [enough : BOOLEAN, scouts : BOOLEAN, parents : SUBSET Users]
Blank == [enough |-> FALSE, scouts |-> FALSE, parents |-> {}]

\* left: channels the call has not come to; may: the post is allowed.
Call == [kind : Kinds, stage : Stages, ch : Channels \cup {NoChannel},
         left : SUBSET Channels, may : BOOLEAN, seen : Seen,
         add : SUBSET Users, drop : SUBSET Users]
Idle == [kind |-> "idle", stage |-> "idle", ch |-> NoChannel, left |-> {},
         may |-> FALSE, seen |-> Blank, add |-> {}, drop |-> {}]

-----------------------------------------------------------------------------
\* Who is what (classifyMember).  Someone without a role is an outsider and
\* counts for nothing.
IsLeader(u) == role[u] = "leader"

IsYouth(u) == role[u] = "scout" \/ (role[u] = "parent" /\ u \in roster)

TwoCurrent(people) == \E a \in people, b \in people :
    a # b /\ IsLeader(a) /\ IsLeader(b) /\ a \in ypt /\ b \in ypt

TwoDeep(c) == (\E u \in members[c] : IsYouth(u)) => TwoCurrent(members[c])

Leaders == {u \in Users : IsLeader(u)}

\* The guardians of u who hold an adult role in the unit.
Guardians(u) == {g \in GuardianOf[u] : u \in roster /\ role[g] \in {"parent", "leader"}}

\* Fault: a scout is taken without a guardian.
Anybody == {u \in rsvp : IsYouth(u)}

Accompanied == {u \in rsvp : IsYouth(u) /\ Guardians(u) # {}}

Grown(people) == {u \in people : role[u] # "none" /\ ~IsYouth(u)}

Families == Leaders \cup Grown(rsvp) \cup Accompanied \cup UNION {Guardians(u) : u \in Accompanied}

Wanted(c) == CASE kind[c] = "families" -> Families
               [] kind[c] = "staff"    -> Leaders \cup Grown(Staff)
               [] kind[c] = "leaders"  -> Leaders
               [] kind[c] = "parents"  -> {u \in Users : role[u] \in {"parent", "leader"}}
               [] kind[c] = "troop"    -> {u \in Users : role[u] # "none"}
               [] kind[c] = "patrol"   -> Leaders \cup Patrol

-----------------------------------------------------------------------------
\* was, lacked: the channel was, was not two-deep since the check began;
\* moves: changes under the check; still: none under the whole reconciliation.
Watches == [moves : 0..2, was : BOOLEAN, lacked : BOOLEAN, still : BOOLEAN]
NotWatching == [moves |-> 0, was |-> FALSE, lacked |-> FALSE, still |-> TRUE]

TypeOK ==
    /\ kind \in [Channels -> Event \cup Standing]
    /\ role \in [Users -> Roles]
    /\ ypt \subseteq Users /\ roster \subseteq Users /\ rsvp \subseteq Users
    /\ members \in [Channels -> SUBSET Users]
    /\ suspended \subseteq Channels /\ archived \subseteq Channels
    /\ call \in [Calls -> Call]
    /\ \A j \in Calls : call[j].stage \notin {"idle", "next"} => call[j].ch \in Channels
    /\ watch \in [Calls -> Watches]
    /\ changes \in Nat

\* Every channel as its last reconciliation left it.
Init ==
    /\ kind \in Layouts
    /\ role = Role0 /\ rsvp = Rsvp0 /\ archived = {} /\ changes = 0
    /\ ypt = Leaders
    /\ roster = {u \in Users : GuardianOf[u] # {}}
    /\ members = [c \in Channels |-> Wanted(c)]
    /\ suspended = {c \in Channels : ~TwoDeep(c)}
    /\ call = [j \in Calls |-> Idle]
    /\ watch = [j \in Calls |-> NotWatching]

-----------------------------------------------------------------------------
\* Changes of the facts, each in a request that may go on to reconcile.
Changes == changes < MaxChanges /\ changes' = changes + 1

\* The call goes over these channels, one after the other.
GoesOver(j, work, channels) ==
    /\ call[j] = Idle
    /\ call' = [call EXCEPT ![j] = [Idle EXCEPT !.kind = work, !.stage = "next", !.left = channels]]

EventChannels    == {c \in Channels \ archived : kind[c] \in Event}
StandingChannels == {c \in Channels : kind[c] \in Standing}

\* An answer to the event, then reconcileEventChannels.
Rsvp(j, u) ==
    /\ Changes
    /\ rsvp' = IF u \in rsvp THEN rsvp \ {u} ELSE rsvp \cup {u}
    /\ GoesOver(j, "reconcile", EventChannels)
    /\ UNCHANGED members /\ UNCHANGED facts /\ UNCHANGED flags

\* An admin changes what someone who has joined may do, then refreshUnitChannels.
SetAccess(j, u, r) ==
    /\ Changes
    /\ role[u] \notin {"none", r} /\ r \in {"parent", "leader"}
    /\ role' = [role EXCEPT ![u] = r]
    /\ GoesOver(j, "reconcile", StandingChannels)
    /\ UNCHANGED <<ypt, roster, rsvp, members>> /\ UNCHANGED flags

\* An adult on the roster joins the unit, then refreshUnitChannels.
Join(j, u) ==
    /\ Changes
    /\ role[u] = "none" /\ u \in Adults
    /\ role' = [role EXCEPT ![u] = "parent"]
    /\ GoesOver(j, "reconcile", StandingChannels)
    /\ UNCHANGED <<ypt, roster, rsvp, members>> /\ UNCHANGED flags

\* An account is deleted: its role and its member rows, in one transaction.
DeleteAccount(u) ==
    /\ Changes
    /\ role[u] # "none"
    /\ role' = [role EXCEPT ![u] = "none"]
    /\ members' = [c \in Channels |-> members[c] \ {u}]
    /\ ypt' = ypt \ {u}
    /\ UNCHANGED <<roster, rsvp, call>> /\ UNCHANGED flags

\* A training date passes, or a new one is entered.
Training(u) ==
    /\ Changes
    /\ role[u] # "none"
    /\ ypt' = IF u \in ypt THEN ypt \ {u} ELSE ypt \cup {u}
    /\ UNCHANGED <<role, roster, rsvp, members, call>> /\ UNCHANGED flags

\* A youth's roster entry gets or loses this person's address.
EditRoster(u) ==
    /\ Changes
    /\ roster' = IF u \in roster THEN roster \ {u} ELSE roster \cup {u}
    /\ UNCHANGED <<role, ypt, rsvp, members, call>> /\ UNCHANGED flags

-----------------------------------------------------------------------------
\* Calls.  Most steps only move the call on.
quiet == <<role, ypt, roster, rsvp, members, suspended, archived, changes>>

Ends(j) == call' = [call EXCEPT ![j] = Idle]
Goes(j, stage) == call' = [call EXCEPT ![j].stage = stage]

\* Fault: the next check begins before a channel is taken.
TooSoon(j) == call' = [call EXCEPT ![j] = [Idle EXCEPT !.kind = call[j].kind, !.stage = "check", !.left = call[j].left]]

\* Done with this channel: on to the next, or at the end.
NextOne(j) == call' = [call EXCEPT ![j] =
    IF call[j].kind \in {"sweep", "reconcile"}
    THEN [Idle EXCEPT !.kind = call[j].kind, !.stage = "next", !.left = call[j].left]
    ELSE Idle]

\* sendMessage and the mobile route read the channel's flags first ...
StartPost(j, c) ==
    /\ call[j] = Idle
    /\ call' = [call EXCEPT ![j] = [Idle EXCEPT !.kind = "post", !.stage = "who", !.ch = c,
                                                 !.may = c \notin suspended \cup archived]]
    /\ UNCHANGED quiet

\* canPostToChannel, for someone with a role.
Allowed(c, u) ==
    \/ IsLeader(u)
    \/ PostPolicy[c] = "everyone"
    \/ PostPolicy[c] = "members" /\ u \in members[c]

\* ... then the author's role and member row; the mobile app wants the row
\* even of a leader.
Who(j, u) ==
    /\ call[j].stage = "who"
    /\ \E mobile \in BOOLEAN :
        IF role[u] = "none" \/ (mobile /\ u \notin members[call[j].ch])
        THEN Ends(j)
        ELSE call' = [call EXCEPT ![j].stage = "check", ![j].may = @ /\ Allowed(call[j].ch, u)]
    /\ UNCHANGED quiet

\* Fault: a leader's word is enough.
OnTheirWord == "open"

ReopensBy == "check"

\* unsuspendChannel: nothing to do for a channel that is not suspended.
StartReopen(j, c) ==
    /\ call[j] = Idle /\ c \in suspended
    /\ call' = [call EXCEPT ![j] = [Idle EXCEPT !.kind = "reopen", !.stage = ReopensBy, !.ch = c]]
    /\ UNCHANGED quiet

\* Staff changes, and a new event channel, reconcile as an answer does.
StartReconcile(j) ==
    /\ GoesOver(j, "reconcile", EventChannels)
    /\ UNCHANGED quiet

Live == Channels \ (archived \cup suspended)

Sweep ==
    /\ GoesOver(Cron, "sweep", Live)
    /\ UNCHANGED quiet

TakeNext(j) ==
    /\ call[j].stage = "next"
    /\ \/ /\ call[j].left = {}
          /\ Ends(j)
       \/ \E c \in call[j].left :
            call' = [call EXCEPT ![j].ch = c, ![j].left = @ \ {c},
                ![j].stage = IF call[j].kind = "sweep" THEN "check" ELSE "wanted"]
    /\ UNCHANGED quiet

\* reconcileChannelMembers: whom the facts want ...
ReadWanted(j) ==
    /\ call[j].stage = "wanted"
    /\ call' = [call EXCEPT ![j].stage = "compare", ![j].add = Wanted(call[j].ch)]
    /\ UNCHANGED quiet

\* ... against whom the channel has ...
Compare(j) ==
    LET have == members[call[j].ch] IN
    /\ call[j].stage = "compare"
    /\ call' = [call EXCEPT ![j].stage = "add", ![j].add = @ \ have, ![j].drop = have \ call[j].add]
    /\ UNCHANGED quiet

Add(j) ==
    /\ call[j].stage = "add"
    /\ members' = [members EXCEPT ![call[j].ch] = @ \cup call[j].add]
    /\ call' = [call EXCEPT ![j].stage = "drop", ![j].add = {}]
    /\ UNCHANGED <<rsvp, changes>> /\ UNCHANGED facts /\ UNCHANGED flags

Drop(j) ==
    /\ call[j].stage = "drop"
    /\ members' = [members EXCEPT ![call[j].ch] = @ \ call[j].drop]
    /\ call' = [call EXCEPT ![j].stage = "check", ![j].drop = {}]
    /\ UNCHANGED <<rsvp, changes>> /\ UNCHANGED facts /\ UNCHANGED flags

-----------------------------------------------------------------------------
\* checkChannelTwoDeep reads the members with their roles and training ...
CheckMembers(j) ==
    LET here == members[call[j].ch] IN
    /\ call[j].stage = "check"
    /\ call' = [call EXCEPT ![j].stage = "roster",
                            ![j].seen = [enough  |-> TwoCurrent(here),
                                         scouts  |-> \E u \in here : role[u] = "scout",
                                         parents |-> {u \in here : role[u] = "parent"}]]
    /\ UNCHANGED quiet

\* Fault: who is on the roster does not matter.
RolesOnly(seen) == seen.scouts => seen.enough

\* Fault: every parent is taken for a youth.
AnyParent(seen) == seen.scouts \/ seen.parents # {} => seen.enough

\* ... then their addresses on the roster.
Passes(seen) == seen.scouts \/ seen.parents \cap roster # {} => seen.enough

CheckRoster(j) ==
    /\ call[j].stage = "roster"
    /\ LET stage == IF Passes(call[j].seen)
                    THEN CASE call[j].kind = "post"      -> IF call[j].may THEN "store" ELSE "idle"
                           [] call[j].kind = "reopen"    -> "open"
                           [] call[j].kind = "sweep"     -> "next"
                           [] call[j].kind = "reconcile" -> "look"
                    ELSE IF call[j].kind = "reopen" THEN "idle" ELSE "close"
       IN CASE stage = "idle" -> Ends(j)
            [] stage = "next" -> NextOne(j)
            [] OTHER -> call' = [call EXCEPT ![j].stage = stage, ![j].seen = Blank, ![j].may = FALSE]
    /\ UNCHANGED quiet

\* The message is written.
Store(j) ==
    /\ call[j].stage = "store"
    /\ Ends(j)
    /\ UNCHANGED quiet

\* suspendChannel.
Close(j) ==
    /\ call[j].stage = "close"
    /\ suspended' = suspended \cup {call[j].ch}
    /\ NextOne(j)
    /\ UNCHANGED <<rsvp, members, archived, changes>> /\ UNCHANGED facts

\* After a reconciliation that passed: a suspended channel is opened again.
Look(j) ==
    /\ call[j].stage = "look"
    /\ IF call[j].ch \in suspended THEN Goes(j, "open") ELSE NextOne(j)
    /\ UNCHANGED quiet

Open(j) ==
    /\ call[j].stage = "open"
    /\ suspended' = suspended \ {call[j].ch}
    /\ NextOne(j)
    /\ UNCHANGED <<rsvp, members, archived, changes>> /\ UNCHANGED facts

\* A leader suspends or archives a channel by hand: one write each.
SuspendByHand(c) ==
    /\ suspended' = suspended \cup {c}
    /\ UNCHANGED <<rsvp, members, archived, changes, call>> /\ UNCHANGED facts

Archive(c) ==
    /\ archived' = archived \cup {c}
    /\ UNCHANGED <<rsvp, members, suspended, changes, call>> /\ UNCHANGED facts

\* The process dies, or a statement fails and the error is swallowed.
Dies(j) ==
    /\ Changes
    /\ call[j] # Idle
    /\ Ends(j)
    /\ UNCHANGED <<rsvp, members>> /\ UNCHANGED facts /\ UNCHANGED flags

-----------------------------------------------------------------------------
Steps(j) ==
    \/ TakeNext(j) \/ ReadWanted(j) \/ Compare(j) \/ Add(j) \/ Drop(j)
    \/ CheckMembers(j) \/ CheckRoster(j) \/ Store(j) \/ Close(j) \/ Look(j) \/ Open(j)
    \/ \E u \in Users : Who(j, u)

Starts(j) ==
    \/ \E u \in Users : Rsvp(j, u) \/ Join(j, u) \/ \E r \in Roles : SetAccess(j, u, r)
    \/ \E c \in Channels : StartPost(j, c) \/ StartReopen(j, c)
    \/ StartReconcile(j)

Outside ==
    \/ \E u \in Users : DeleteAccount(u) \/ Training(u) \/ EditRoster(u)
    \/ \E c \in Channels : SuspendByHand(c) \/ Archive(c)

Moves ==
    \/ \E j \in Requests : Starts(j)
    \/ Sweep
    \/ \E j \in Calls : Steps(j) \/ Dies(j)
    \/ Outside

\* A check is watched from its first read until its call moves to another
\* channel, a reconciliation from the read of whom the facts want.
Checking == {"roster", "store", "close", "look", "open"}
Watching == Checking \cup {"compare", "add", "drop", "check"}

Moved  == <<facts, members>>' # <<facts, members>>
Shifts == Moved \/ rsvp' # rsvp

Observed(j) ==
    LET old == watch[j]
        two == TwoDeep(call[j].ch)'
        checks == call'[j].stage \in Checking
    IN IF call'[j].stage \notin Watching THEN NotWatching
       ELSE [moves  |-> IF Moved /\ call[j].stage \in Checking /\ old.moves < 2
                        THEN old.moves + 1 ELSE old.moves,
             was    |-> old.was \/ (checks /\ two),
             lacked |-> old.lacked \/ (checks /\ ~two),
             still  |-> old.still /\ (Shifts => call'[j] # call[j])]

\* A channel stays what it is.
Watch == watch' = [j \in Calls |-> Observed(j)] /\ UNCHANGED kind

Next == Moves /\ Watch

Spec == Init /\ [][Next]_vars

\* The scheduler calls the cron tick again and again, and a call that has
\* begun runs on.
FairSpec ==
    /\ Spec
    /\ WF_vars(Sweep /\ Watch)
    /\ \A j \in Calls : WF_vars(Steps(j) /\ Watch)

-----------------------------------------------------------------------------
\* A message is written, or a suspended channel opened, only when the channel
\* has been two-deep at some moment since the check began: a check that reads
\* members and roster at different times does not pass a channel that lacked
\* its leaders all along, unless two things changed under it
\* (assertChannelTwoDeep, unsuspendChannel, reconcileChannelMembers).
PassedForCause == \A j \in Calls :
    call[j].stage \in {"store", "look", "open"} /\ watch[j].moves < 2 => watch[j].was

\* A check suspends a channel only when it lacked its leaders at some moment
\* since the check began, unless two things changed under it.
SuspendedForCause == \A j \in Calls :
    call[j].stage = "close" /\ watch[j].moves < 2 => watch[j].lacked

\* When roles, roster and training stop changing, every channel that is not
\* two-deep gets suspended and stays so, whatever reopenings and
\* reconciliations with an older check were under way (the cron sweep is the
\* backstop).
DriftIsCaught == <>[](\A c \in Channels : TwoDeep(c) \/ c \in suspended \cup archived)

Reconciling(c) == \E j \in Calls : call[j].kind = "reconcile" /\ (call[j].ch = c \/ c \in call[j].left)

\* A reconciliation that nothing moved under leaves every leader in; in a
\* families channel no scout without a guardian and nobody without a place, in
\* a staff channel no youth; and it opens or suspends the channel by what it
\* then is (reconcileChannelMembers).
HasPlace(c, u) ==
    \/ IsLeader(u)
    \/ u \in rsvp /\ ~IsYouth(u)
    \/ u \in rsvp /\ Guardians(u) \cap members[c] # {}
    \/ \E s \in rsvp \cap members[c] : IsYouth(s) /\ u \in Guardians(s)

Settles(c) ==
    /\ Leaders \subseteq members[c]
    /\ kind[c] = "families" => \A u \in members[c] : HasPlace(c, u)
    /\ kind[c] = "staff" => \A u \in members[c] : ~IsYouth(u)

ReconcileSettles == \A j \in Calls :
    call[j].kind = "reconcile" /\ watch[j].still =>
        /\ call[j].stage \in Checking => Settles(call[j].ch)
        /\ call[j].stage \in {"look", "open"} => TwoDeep(call[j].ch)
        /\ call[j].stage = "close" => ~TwoDeep(call[j].ch)

\* "A families channel includes a scout only together with their own guardian"
\* (eventChannelUserIds), once nobody is reconciling it.
ScoutWithGuardian == \A c \in Channels :
    kind[c] = "families" /\ ~Reconciling(c) =>
        \A u \in members[c] : role[u] = "scout" => GuardianOf[u] \cap members[c] # {}
=============================================================================
