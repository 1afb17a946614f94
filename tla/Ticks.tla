------------------------------- MODULE Ticks -------------------------------
(***************************************************************************)
(* The hourly cron tick (src/src/lib/newsletter/cron.ts): it drafts the    *)
(* week's newsletter, fires a newsletter rule, and reminds owners of the   *)
(* end of their trial (src/src/lib/billing/trial-reminders.ts).            *)
(*                                                                         *)
(* A tick that runs long overlaps the next; it may die, and whatever it    *)
(* sends goes out before the mark that says so.  Time is coarse: a step of *)
(* the clock begins a week for the newsletter, passes the rule's floor,    *)
(* and brings a trial's end from far, to a week, to a day, to over.        *)
(***************************************************************************)
EXTENDS Integers, FiniteSets

CONSTANTS
    Units,         \* units with a trial
    Runs,          \* ticks that may be under way at once
    NoUnit,        \* stands for no unit
    MaxNow,        \* bound: how far the clock goes
    MaxOverlaps,   \* bound: ticks that start while another runs
    MaxMishaps,    \* bound: ticks that die, statements and mails that fail
    MaxExtensions  \* bound: trials that are extended

ASSUME TicksAssumption ==
    /\ NoUnit \notin Units /\ IsFiniteSet(Runs)
    /\ MaxNow \in Nat \ {0} /\ MaxOverlaps \in Nat /\ MaxMishaps \in Nat /\ MaxExtensions \in Nat

VARIABLES
    now,         \* the clock
    ends,        \* trialEndsAt of each unit
    settled,     \* units that subscribed, or are comped or suspended
    marks,       \* windows marked as reminded, in the audit log
    mails,       \* reminders each owner got for each window
    told,        \* windows the owner got one for since the end was last moved
    drafted,     \* lastDraftedAt of the schedule
    open,        \* when the drafts nobody sent or deleted yet were made
    drafts,      \* drafts made for each week
    fired,       \* lastFiredAt of the rule
    nudges,      \* times the rule's mails went out in each floor
    tick,        \* what each tick is doing
    overlaps,    \* ticks begun while another ran
    mishaps,     \* ticks that died, statements and mails that failed
    extensions   \* trials extended

trials == <<ends, settled, told, extensions>>
sent   == <<marks, mails>>
letter == <<drafted, open, drafts>>
rule   == <<fired, nudges>>
faults == <<overlaps, mishaps>>
vars   == <<now, ends, settled, marks, mails, told, drafted, open, drafts, fired, nudges,
            tick, overlaps, mishaps, extensions>>

Times   == 0..MaxNow
Windows == {7, 1}
Stages  == {"idle", "compose", "create", "markDraft", "rules", "markRule",
            "list", "mail", "markMail"}

\* now: when it began; due: the window each unit it still has to look at is
\* in, 0 for none; unit: the one just mailed.
Tick == [stage : Stages, now : Times, due : [Units -> Windows \cup {0}],
         unit : Units \cup {NoUnit}]
NoneDue == [u \in Units |-> 0]
Idle == [stage |-> "idle", now |-> 0, due |-> NoneDue, unit |-> NoUnit]

TypeOK ==
    /\ now \in Times \ {0} /\ ends \in [Units -> Nat] /\ settled \subseteq Units
    /\ marks \in [Units -> SUBSET Windows] /\ told \in [Units -> SUBSET Windows]
    /\ mails \in [Units -> [Windows -> Nat]]
    /\ drafted \in 0..now /\ open \subseteq 1..now /\ drafts \in [Times -> Nat]
    /\ fired \in 0..now /\ nudges \in [Times -> Nat]
    /\ tick \in [Runs -> Tick]
    /\ \A t \in Runs :
        /\ tick[t].now <= now
        /\ tick[t].stage = "markMail" =>
             tick[t].unit \in Units /\ tick[t].due[tick[t].unit] \in Windows
    /\ overlaps \in Nat /\ mishaps \in Nat /\ extensions \in Nat

Init ==
    /\ now = 1 /\ ends = [u \in Units |-> 3] /\ settled = {} /\ extensions = 0
    /\ marks = [u \in Units |-> {}] /\ told = [u \in Units |-> {}]
    /\ mails = [u \in Units |-> [w \in Windows |-> 0]]
    /\ drafted = 0 /\ open = {} /\ drafts = [n \in Times |-> 0]
    /\ fired = 0 /\ nudges = [n \in Times |-> 0]
    /\ tick = [t \in Runs |-> Idle] /\ overlaps = 0 /\ mishaps = 0

-----------------------------------------------------------------------------
\* Between the ticks: the clock, an owner who subscribes, a leader who sends
\* or deletes a draft, and the owner console's extension of a trial, which
\* reads the end it had and leaves the marks.
Passes ==
    /\ now < MaxNow /\ now' = now + 1
    /\ UNCHANGED <<tick>>
    /\ UNCHANGED trials /\ UNCHANGED sent /\ UNCHANGED letter
    /\ UNCHANGED rule /\ UNCHANGED faults

Settles(u) ==
    /\ u \notin settled /\ settled' = settled \cup {u}
    /\ UNCHANGED <<now, ends, told, extensions, tick>>
    /\ UNCHANGED sent /\ UNCHANGED letter /\ UNCHANGED rule /\ UNCHANGED faults

Leader(n) ==
    /\ n \in open /\ open' = open \ {n}
    /\ UNCHANGED <<now, drafted, drafts, tick>>
    /\ UNCHANGED trials /\ UNCHANGED sent /\ UNCHANGED rule /\ UNCHANGED faults

ExtendTrial(u) ==
    /\ u \notin settled /\ extensions < MaxExtensions
    /\ extensions' = extensions + 1
    /\ ends' = [ends EXCEPT ![u] = 1 + IF @ > now THEN @ ELSE now]
    /\ told' = [told EXCEPT ![u] = {}]
    /\ UNCHANGED <<now, settled, tick>>
    /\ UNCHANGED sent /\ UNCHANGED letter /\ UNCHANGED rule /\ UNCHANGED faults

-----------------------------------------------------------------------------
Reaches(t, stage) == tick' = [tick EXCEPT ![t].stage = stage]
Ends(t) == tick' = [tick EXCEPT ![t] = Idle]
Others(t) == {s \in Runs \ {t} : tick[s].stage # "idle"}

\* A tick keeps the time it began at, and reads when the schedule last ran.
Begin(t) ==
    /\ tick[t].stage = "idle"
    /\ Others(t) # {} => overlaps < MaxOverlaps
    /\ overlaps' = IF Others(t) = {} THEN overlaps ELSE overlaps + 1
    /\ tick' = [tick EXCEPT ![t].stage = IF drafted < now THEN "compose" ELSE "rules",
                            ![t].now = now]
    /\ UNCHANGED <<now, mishaps>>
    /\ UNCHANGED trials /\ UNCHANGED sent /\ UNCHANGED letter /\ UNCHANGED rule

\* Fault: the mark says when the next draft is due.
NextWeek(t) == tick[t].now + 1

\* The time a tick marks things with.
Stamp(t) == tick[t].now

\* Too few stories, or a draft of this week: nothing but the mark.
Compose(t) ==
    /\ tick[t].stage = "compose"
    /\ \E enough \in BOOLEAN :
         Reaches(t, IF enough /\ \A n \in open : n < tick[t].now THEN "create" ELSE "markDraft")
    /\ UNCHANGED <<now>> /\ UNCHANGED trials /\ UNCHANGED sent /\ UNCHANGED letter
    /\ UNCHANGED rule /\ UNCHANGED faults

Create(t) ==
    /\ tick[t].stage = "create"
    /\ open' = open \cup {now} /\ drafts' = [drafts EXCEPT ![tick[t].now] = @ + 1]
    /\ Reaches(t, "markDraft")
    /\ UNCHANGED <<now, drafted>> /\ UNCHANGED trials /\ UNCHANGED sent /\ UNCHANGED rule
    /\ UNCHANGED faults

MarkDraft(t) ==
    /\ tick[t].stage = "markDraft"
    /\ drafted' = Stamp(t)
    /\ Reaches(t, "rules")
    /\ UNCHANGED <<now, open, drafts>> /\ UNCHANGED trials /\ UNCHANGED sent
    /\ UNCHANGED rule /\ UNCHANGED faults

\* A rule past its floor fires; a handler that fails is marked like one that ends.
Rules(t) ==
    /\ tick[t].stage = "rules"
    /\ IF fired < tick[t].now
       THEN /\ \E done \in BOOLEAN :
                /\ done \/ mishaps < MaxMishaps
                /\ nudges' = IF done THEN [nudges EXCEPT ![tick[t].now] = @ + 1] ELSE nudges
                /\ mishaps' = IF done THEN mishaps ELSE mishaps + 1
            /\ Reaches(t, "markRule")
       ELSE Reaches(t, "list") /\ UNCHANGED <<nudges, mishaps>>
    /\ UNCHANGED <<now, fired, overlaps>> /\ UNCHANGED trials /\ UNCHANGED sent
    /\ UNCHANGED letter

MarkRule(t) ==
    /\ tick[t].stage = "markRule"
    /\ fired' = Stamp(t)
    /\ Reaches(t, "list")
    /\ UNCHANGED <<now, nudges>> /\ UNCHANGED trials /\ UNCHANGED sent /\ UNCHANGED letter
    /\ UNCHANGED faults

-----------------------------------------------------------------------------
\* The reminder sweep.
\* The window a trial's end is in, at a time (dueTrialReminder).
Window(end, time) ==
    IF end - time = 1 THEN 1 ELSE IF end - time = 2 THEN 7 ELSE 0

\* The tick as it goes on with what is due; with nothing due it ends.
Left(t, due) ==
    IF due = NoneDue THEN Idle
    ELSE [tick[t] EXCEPT !.stage = "mail", !.due = due, !.unit = NoUnit]

\* Fault: the marks are not looked at.
Unmarked(u, w) == TRUE

Unreminded(u, w) == w \notin marks[u]

\* The units whose trial ends soon, and the marks they have.
List(t) ==
    /\ tick[t].stage = "list"
    /\ tick' = [tick EXCEPT ![t] = Left(t, [u \in Units |->
                 LET w == Window(ends[u], tick[t].now)
                 IN  IF u \notin settled /\ Unreminded(u, w) THEN w ELSE 0])]
    /\ UNCHANGED <<now>> /\ UNCHANGED trials /\ UNCHANGED sent /\ UNCHANGED letter
    /\ UNCHANGED rule /\ UNCHANGED faults

\* Fault: a reminder that could not be sent is marked as well.
Anyway(ok) == TRUE

Marked(ok) == ok

\* A mail that goes out, or that the provider is not known to have taken.
Remind(t, u) ==
    /\ tick[t].stage = "mail" /\ tick[t].due[u] # 0
    /\ \E taken \in BOOLEAN, ok \in BOOLEAN :
        /\ ok => taken
        /\ ok \/ mishaps < MaxMishaps
        /\ mishaps' = IF ok THEN mishaps ELSE mishaps + 1
        /\ mails' = IF taken THEN [mails EXCEPT ![u][tick[t].due[u]] = @ + 1] ELSE mails
        /\ told' = IF taken THEN [told EXCEPT ![u] = @ \cup {tick[t].due[u]}] ELSE told
        /\ tick' = [tick EXCEPT ![t] =
                      IF Marked(ok) THEN [@ EXCEPT !.stage = "markMail", !.unit = u]
                      ELSE Left(t, [tick[t].due EXCEPT ![u] = 0])]
    /\ UNCHANGED <<now, ends, settled, extensions, marks, overlaps>>
    /\ UNCHANGED letter /\ UNCHANGED rule

MarkMail(t) ==
    /\ tick[t].stage = "markMail"
    /\ LET u == tick[t].unit
       IN  /\ marks' = [marks EXCEPT ![u] = @ \cup {tick[t].due[u]}]
           /\ tick' = [tick EXCEPT ![t] = Left(t, [tick[t].due EXCEPT ![u] = 0])]
    /\ UNCHANGED <<now, mails>> /\ UNCHANGED trials /\ UNCHANGED letter
    /\ UNCHANGED rule /\ UNCHANGED faults

\* Where a tick goes on when a statement fails: the schedules and the rules
\* are tried one by one; in the sweep a failure ends it, and the tick.
After(stage) ==
    IF stage \in {"compose", "create", "markDraft"} THEN "rules"
    ELSE IF stage = "markRule" THEN "list" ELSE "idle"

StatementFails(t) ==
    /\ tick[t].stage # "idle" /\ mishaps < MaxMishaps
    /\ mishaps' = mishaps + 1
    /\ IF After(tick[t].stage) = "idle" THEN Ends(t) ELSE Reaches(t, After(tick[t].stage))
    /\ UNCHANGED <<now, overlaps>> /\ UNCHANGED trials /\ UNCHANGED sent
    /\ UNCHANGED letter /\ UNCHANGED rule

Dies(t) ==
    /\ tick[t].stage # "idle" /\ mishaps < MaxMishaps
    /\ mishaps' = mishaps + 1
    /\ Ends(t)
    /\ UNCHANGED <<now, overlaps>> /\ UNCHANGED trials /\ UNCHANGED sent
    /\ UNCHANGED letter /\ UNCHANGED rule

-----------------------------------------------------------------------------
Steps(t) ==
    \/ Compose(t) \/ Create(t) \/ MarkDraft(t)
    \/ Rules(t) \/ MarkRule(t)
    \/ List(t) \/ (\E u \in Units : Remind(t, u)) \/ MarkMail(t)

Next ==
    \/ Passes
    \/ \E u \in Units : Settles(u) \/ ExtendTrial(u)
    \/ \E n \in Times : Leader(n)
    \/ \E t \in Runs : Begin(t) \/ Steps(t) \/ StatementFails(t) \/ Dies(t)

Spec == Init /\ [][Next]_vars

\* The scheduler calls every hour, and a tick that began goes on.
FairSpec ==
    /\ Spec
    /\ WF_vars(\E t \in Runs : Begin(t))
    /\ \A t \in Runs : WF_vars(Steps(t))

-----------------------------------------------------------------------------
\* Whatever overlaps, dies or fails, a week has one draft more, a floor one
\* round of nudges more, and an owner one reminder more for a window, than
\* the ticks that overlapped and the things that went wrong: each is sent
\* before it is marked, and the marks are read before.
FewRepeats ==
    /\ \A n \in Times : drafts[n] <= 1 + overlaps + mishaps
    /\ \A n \in Times : nudges[n] <= 1 + overlaps + mishaps
    /\ \A u \in Units, w \in Windows : mails[u][w] <= 1 + overlaps + mishaps

InWindow(u, w) == Window(ends[u], now) = w /\ u \notin settled

\* A unit that enters a window is reminded for it, though ticks die and mails
\* fail, unless it leaves the window or settles first
\* (trial-reminders.ts: a missed earlier window is not backfilled).
Reminded ==
    \A u \in Units, w \in Windows : InWindow(u, w) ~> mails[u][w] > 0 \/ ~InWindow(u, w)

\* docs/billing.md: a unit with no card on file gets an email 7 days and 1 day
\* before the trial ends -- the end it has now.
EachEndReminded ==
    \A u \in Units, w \in Windows : InWindow(u, w) ~> w \in told[u] \/ ~InWindow(u, w)
=============================================================================
