---------------------------- MODULE TicksProofs ----------------------------
(***************************************************************************)
(* Ticks, for any units, any number of ticks at once and any bounds: the   *)
(* fields keep their types, and what is sent twice is paid for by a tick   *)
(* that overlapped or by something that went wrong.                        *)
(***************************************************************************)
EXTENDS Ticks, FiniteSetTheorems, TLAPS

\* Of the ticks only t changes.
Only(t) ==
    /\ tick' \in [Runs -> Tick]
    /\ \A s \in Runs \ {t} : tick'[s] = tick[s]

\* It goes to a stage and keeps the rest, or is over.
Steady(t) == tick'[t].now = tick[t].now /\ tick'[t].due = tick[t].due /\ tick'[t].unit = tick[t].unit

LEMMA IdleType == Idle \in Tick /\ NoneDue \in [Units -> Windows \cup {0}] /\ Idle.stage = "idle" /\ Idle.now = 0
  BY TicksAssumption DEF Idle, Tick, Stages, Times, NoneDue, Windows

LEMMA ReachesOnly ==
  ASSUME TypeOK, NEW t \in Runs, NEW stage \in Stages, Reaches(t, stage)
  PROVE  Only(t) /\ Steady(t) /\ tick'[t].stage = stage
  BY DEF TypeOK, Only, Steady, Reaches, Tick

LEMMA EndsOnly ==
  ASSUME TypeOK, NEW t \in Runs, Ends(t)
  PROVE  Only(t) /\ tick'[t] = Idle
  BY IdleType DEF TypeOK, Only, Ends

\* What is left to do is nothing, or some units with their windows.
LEMMA LeftType ==
  ASSUME TypeOK, NEW t \in Runs, NEW due \in [Units -> Windows \cup {0}]
  PROVE  /\ Left(t, due) \in Tick
         /\ \/ Left(t, due) = Idle
            \/ /\ Left(t, due).stage = "mail" /\ Left(t, due).due = due
               /\ Left(t, due).now = tick[t].now
  BY IdleType DEF TypeOK, Left, Tick, Stages

\* The ticks keep their types when one of them moves to a state that does.
LEMMA TickType ==
  ASSUME TypeOK, NEW t \in Runs, Only(t), now' = now,
         tick'[t].now <= now,
         tick'[t].stage = "markMail" =>
           tick'[t].unit \in Units /\ tick'[t].due[tick'[t].unit] \in Windows
  PROVE  /\ tick' \in [Runs -> Tick]
         /\ \A s \in Runs :
              /\ tick'[s].now <= now'
              /\ tick'[s].stage = "markMail" =>
                   tick'[s].unit \in Units /\ tick'[s].due[tick'[s].unit] \in Windows
  <1> SUFFICES ASSUME NEW s \in Runs
               PROVE  /\ tick'[s].now <= now'
                      /\ tick'[s].stage = "markMail" =>
                           tick'[s].unit \in Units /\ tick'[s].due[tick'[s].unit] \in Windows
    BY DEF Only
  <1>1. CASE s = t
    BY <1>1
  <1>2. CASE s # t
    BY <1>2 DEF TypeOK, Only
  <1> QED
    BY <1>1, <1>2

-----------------------------------------------------------------------------
LEMMA InitType ==
  ASSUME Init
  PROVE  TypeOK
  BY TicksAssumption, IdleType DEF Init, TypeOK, Times, Windows

LEMMA OutsideType ==
  ASSUME TypeOK,
         \/ Passes
         \/ \E u \in Units : Settles(u) \/ ExtendTrial(u)
         \/ \E n \in Times : Leader(n)
  PROVE  TypeOK'
  <1>1. CASE Passes
    <2>1. now' \in Times \ {0} /\ drafted \in 0..now' /\ open \subseteq 1..now' /\ fired \in 0..now'
      BY <1>1, TicksAssumption DEF Passes, TypeOK, Times
    <2>2. \A t \in Runs : tick[t].now <= now'
      BY <1>1 DEF Passes, TypeOK, Times, Tick
    <2> QED
      BY <1>1, <2>1, <2>2 DEF Passes, TypeOK, trials, sent, letter, rule, faults
  <1>2. ASSUME NEW u \in Units, Settles(u)
        PROVE  TypeOK'
    BY <1>2 DEF Settles, TypeOK, sent, letter, rule, faults
  <1>3. ASSUME NEW u \in Units, ExtendTrial(u)
        PROVE  TypeOK'
    <2>1. ends' \in [Units -> Nat] /\ extensions' \in Nat
      BY <1>3 DEF ExtendTrial, TypeOK, Times
    <2>2. told' \in [Units -> SUBSET Windows]
      BY <1>3 DEF ExtendTrial, TypeOK
    <2> QED
      BY <1>3, <2>1, <2>2 DEF ExtendTrial, TypeOK, sent, letter, rule, faults
  <1>4. ASSUME NEW n \in Times, Leader(n)
        PROVE  TypeOK'
    BY <1>4 DEF Leader, TypeOK, trials, sent, rule, faults
  <1> QED
    BY <1>1, <1>2, <1>3, <1>4

-----------------------------------------------------------------------------
\* What each action does to the tick that takes it.
LEMMA BeginOnly ==
  ASSUME TypeOK, NEW t \in Runs, Begin(t)
  PROVE  /\ Only(t) /\ tick'[t].now = now /\ tick'[t].due = tick[t].due
         /\ tick'[t].stage = IF drafted < now THEN "compose" ELSE "rules"
  BY DEF TypeOK, Only, Begin, Tick, Stages

LEMMA ComposeOnly ==
  ASSUME TypeOK, NEW t \in Runs, Compose(t)
  PROVE  Only(t) /\ Steady(t) /\ tick'[t].stage \in {"create", "markDraft"}
  <1>1. PICK stage \in {"create", "markDraft"} : Reaches(t, stage)
    BY DEF Compose
  <1>2. stage \in Stages
    BY DEF Stages
  <1> QED
    BY <1>1, <1>2, ReachesOnly

LEMMA CreateOnly ==
  ASSUME TypeOK, NEW t \in Runs, Create(t)
  PROVE  Only(t) /\ Steady(t) /\ tick'[t].stage = "markDraft"
  BY ReachesOnly DEF Create, Stages

LEMMA MarkDraftOnly ==
  ASSUME TypeOK, NEW t \in Runs, MarkDraft(t)
  PROVE  Only(t) /\ Steady(t) /\ tick'[t].stage = "rules"
  BY ReachesOnly DEF MarkDraft, Stages

LEMMA RulesOnly ==
  ASSUME TypeOK, NEW t \in Runs, Rules(t)
  PROVE  /\ Only(t) /\ Steady(t)
         /\ tick'[t].stage = IF fired < tick[t].now THEN "markRule" ELSE "list"
  BY ReachesOnly DEF Rules, Stages

LEMMA MarkRuleOnly ==
  ASSUME TypeOK, NEW t \in Runs, MarkRule(t)
  PROVE  Only(t) /\ Steady(t) /\ tick'[t].stage = "list"
  BY ReachesOnly DEF MarkRule, Stages

\* The sweep, and a tick that ends.
Sweeps(t) == tick'[t] = Idle \/ (tick'[t].stage \in {"mail", "markMail"} /\ tick'[t].now = tick[t].now)

LEMMA LeftOnly ==
  ASSUME TypeOK, NEW t \in Runs, NEW due \in [Units -> Windows \cup {0}],
         tick' = [tick EXCEPT ![t] = Left(t, due)]
  PROVE  /\ Only(t) /\ Sweeps(t) /\ tick'[t].stage # "markMail"
         /\ \/ tick'[t] = Idle
            \/ tick'[t].stage = "mail" /\ tick'[t].due = due
  BY LeftType, IdleType DEF TypeOK, Only, Sweeps

\* What the sweep finds to do.
Finds(t) == [u \in Units |-> LET w == Window(ends[u], tick[t].now)
                             IN  IF u \notin settled /\ Unreminded(u, w) THEN w ELSE 0]

LEMMA ListOnly ==
  ASSUME TypeOK, NEW t \in Runs, List(t)
  PROVE  /\ Only(t) /\ Sweeps(t) /\ tick'[t].stage # "markMail"
         /\ \/ tick'[t] = Idle
            \/ tick'[t].stage = "mail" /\ tick'[t].due = Finds(t)
  <1>1. \A u \in Units : Window(ends[u], tick[t].now) \in Windows \cup {0}
    BY DEF Window, Windows
  <1>2. Finds(t) \in [Units -> Windows \cup {0}]
    BY <1>1 DEF Finds
  <1>3. tick' = [tick EXCEPT ![t] = Left(t, Finds(t))]
    BY DEF List, Finds
  <1> QED
    BY <1>2, <1>3, LeftOnly

Without(t, u) == [tick[t].due EXCEPT ![u] = 0]

LEMMA WithoutType ==
  ASSUME TypeOK, NEW t \in Runs, NEW u \in Units
  PROVE  Without(t, u) \in [Units -> Windows \cup {0}]
  BY DEF Without, TypeOK, Tick

LEMMA RemindOnly ==
  ASSUME TypeOK, NEW t \in Runs, NEW u \in Units, Remind(t, u)
  PROVE  /\ Only(t) /\ Sweeps(t)
         /\ \/ tick'[t] = Idle
            \/ tick'[t].stage = "mail" /\ tick'[t].due = Without(t, u)
            \/ /\ tick'[t].stage = "markMail" /\ tick'[t].unit = u /\ tick'[t].due = tick[t].due
               /\ mishaps' = mishaps
  <1>1. PICK ok \in BOOLEAN :
          /\ mishaps' = IF ok THEN mishaps ELSE mishaps + 1
          /\ tick' = [tick EXCEPT ![t] =
                        IF ok THEN [@ EXCEPT !.stage = "markMail", !.unit = u]
                        ELSE Left(t, Without(t, u))]
    BY DEF Remind, Marked, Without
  <1>2. CASE ~ok
    BY <1>1, <1>2, LeftOnly, WithoutType
  <1>3. CASE ok
    BY <1>1, <1>3 DEF TypeOK, Only, Sweeps, Tick, Stages
  <1> QED
    BY <1>2, <1>3

LEMMA MarkMailOnly ==
  ASSUME TypeOK, NEW t \in Runs, MarkMail(t)
  PROVE  /\ Only(t) /\ Sweeps(t) /\ tick'[t].stage # "markMail"
         /\ \/ tick'[t] = Idle
            \/ tick'[t].stage = "mail" /\ tick'[t].due = Without(t, tick[t].unit)
         /\ tick[t].unit \in Units /\ tick[t].due[tick[t].unit] \in Windows
  <1>1. tick[t].unit \in Units /\ tick[t].due[tick[t].unit] \in Windows
    BY DEF MarkMail, TypeOK
  <1>2. tick' = [tick EXCEPT ![t] = Left(t, Without(t, tick[t].unit))]
    BY DEF MarkMail, Without
  <1> QED
    BY <1>1, <1>2, LeftOnly, WithoutType

LEMMA FailsOnly ==
  ASSUME TypeOK, NEW t \in Runs, StatementFails(t)
  PROVE  /\ Only(t)
         /\ \/ tick'[t] = Idle
            \/ /\ Steady(t) /\ tick'[t].stage = "rules"
               /\ tick[t].stage \in {"compose", "create", "markDraft"}
            \/ Steady(t) /\ tick'[t].stage = "list" /\ tick[t].stage = "markRule"
  BY ReachesOnly, EndsOnly DEF StatementFails, After, Stages

LEMMA DiesOnly ==
  ASSUME TypeOK, NEW t \in Runs, Dies(t)
  PROVE  Only(t) /\ tick'[t] = Idle
  BY EndsOnly DEF Dies

-----------------------------------------------------------------------------
LEMMA StepType ==
  ASSUME TypeOK, NEW t \in Runs, Begin(t) \/ Steps(t) \/ StatementFails(t) \/ Dies(t)
  PROVE  TypeOK'
  <1> USE DEF trials, sent, letter, rule, faults
  <1> DEFINE Fits == /\ now' = now /\ Only(t) /\ tick'[t].now <= now
                     /\ tick'[t].stage = "markMail" =>
                          tick'[t].unit \in Units /\ tick'[t].due[tick'[t].unit] \in Windows
  <1>0. tick[t].now \in Times /\ tick[t].now <= now /\ 0 <= now /\ 0 \in Times /\ now \in Times
    BY TicksAssumption DEF TypeOK, Tick, Times
  <1>1. CASE Begin(t)
    <2>1. Fits
      <3>1. now' = now
        BY <1>1, Zenon DEF Begin
      <3>2. Only(t) /\ tick'[t].now = now /\ tick'[t].stage # "markMail"
        BY <1>1, BeginOnly
      <3>3. now <= now
        BY <1>0 DEF Times
      <3> QED
        BY <3>1, <3>2, <3>3
    <2>2. overlaps' \in Nat /\ UNCHANGED <<now, mishaps>>
      BY <1>1 DEF Begin, TypeOK
    <2> QED
      BY <1>1, <2>1, <2>2, TickType DEF TypeOK, Begin
  <1>2. CASE Compose(t)
    <2>1. Fits
      BY <1>0, <1>2, ComposeOnly DEF Compose, Steady
    <2> QED
      BY <1>2, <2>1, TickType DEF TypeOK, Compose
  <1>3. CASE Create(t)
    <2>1. Fits
      BY <1>0, <1>3, CreateOnly DEF Create, Steady
    <2>2. open' \subseteq 1..now
      <3>1. now \in 1..now
        BY <1>0 DEF TypeOK, Times
      <3> QED
        BY <1>3, <3>1 DEF TypeOK, Create
    <2>3. drafts' \in [Times -> Nat]
      <3>1. drafts \in [Times -> Nat] /\ drafts' = [drafts EXCEPT ![tick[t].now] = @ + 1]
        BY <1>3 DEF TypeOK, Create
      <3> QED
        BY <1>0, <3>1
    <2> QED
      BY <1>3, <2>1, <2>2, <2>3, TickType DEF TypeOK, Create
  <1>4. CASE MarkDraft(t)
    <2>1. Fits
      BY <1>0, <1>4, MarkDraftOnly DEF MarkDraft, Steady
    <2>2. drafted' \in 0..now
      BY <1>0, <1>4 DEF MarkDraft, Stamp, Times
    <2> QED
      BY <1>4, <2>1, <2>2, TickType DEF TypeOK, MarkDraft
  <1>5. CASE Rules(t)
    <2>1. Fits
      BY <1>0, <1>5, RulesOnly DEF Rules, Steady
    <2>2. nudges' \in [Times -> Nat] /\ mishaps' \in Nat
      BY <1>5 DEF TypeOK, Rules
    <2> QED
      BY <1>5, <2>1, <2>2, TickType DEF TypeOK, Rules
  <1>6. CASE MarkRule(t)
    <2>1. Fits
      BY <1>0, <1>6, MarkRuleOnly DEF MarkRule, Steady
    <2>2. fired' \in 0..now
      BY <1>0, <1>6 DEF MarkRule, Stamp, Times
    <2> QED
      BY <1>6, <2>1, <2>2, TickType DEF TypeOK, MarkRule
  <1>7. CASE List(t)
    <2>1. Fits
      BY <1>0, <1>7, ListOnly, IdleType DEF List, Sweeps
    <2> QED
      BY <1>7, <2>1, TickType DEF TypeOK, List
  <1>8. ASSUME NEW u \in Units, Remind(t, u)
        PROVE  TypeOK'
    <2>0. tick[t].due[u] \in Windows
      BY <1>8 DEF Remind, TypeOK, Tick
    <2>1. Fits
      BY <1>0, <1>8, <2>0, RemindOnly, IdleType DEF Remind, Sweeps
    <2>2. mails' \in [Units -> [Windows -> Nat]]
      BY <1>8, <2>0 DEF Remind, TypeOK
    <2>3. told' \in [Units -> SUBSET Windows] /\ mishaps' \in Nat
      BY <1>8, <2>0 DEF Remind, TypeOK
    <2> QED
      BY <1>8, <2>1, <2>2, <2>3, TickType DEF TypeOK, Remind
  <1>9. CASE MarkMail(t)
    <2>1. Fits
      BY <1>0, <1>9, MarkMailOnly, IdleType DEF MarkMail, Sweeps
    <2>2. marks' \in [Units -> SUBSET Windows]
      BY <1>9, MarkMailOnly DEF MarkMail, TypeOK
    <2> QED
      BY <1>9, <2>1, <2>2, TickType DEF TypeOK, MarkMail
  <1>10. CASE StatementFails(t)
    <2>1. Fits
      BY <1>0, <1>10, FailsOnly, IdleType DEF StatementFails, Steady
    <2> QED
      BY <1>10, <2>1, TickType DEF TypeOK, StatementFails
  <1>11. CASE Dies(t)
    <2>1. Fits
      BY <1>0, <1>11, DiesOnly, IdleType DEF Dies
    <2> QED
      BY <1>11, <2>1, TickType DEF TypeOK, Dies
  <1> QED
    BY <1>1, <1>2, <1>3, <1>4, <1>5, <1>6, <1>7, <1>8, <1>9, <1>10, <1>11 DEF Steps

LEMMA NextType == TypeOK /\ [Next]_vars => TypeOK'
  <1>1. ASSUME TypeOK, UNCHANGED vars
        PROVE  TypeOK'
    BY <1>1 DEF TypeOK, vars
  <1>2. ASSUME TypeOK, Next
        PROVE  TypeOK'
    BY <1>2, OutsideType, StepType DEF Next
  <1> QED
    BY <1>1, <1>2

\* Every reachable state of the ticks is well typed (cron.ts,
\* trial-reminders.ts).
THEOREM TypeCorrect == Spec => []TypeOK
  BY InitType, NextType, PTL DEF Spec

-----------------------------------------------------------------------------
\* What is sent twice.  For each week, floor and window: the ticks that may
\* still send for it or take its mark back, and whether it is marked, or a tick
\* is about to mark it.
DraftStages == {"compose", "create", "markDraft"}
RuleStages  == DraftStages \cup {"rules", "markRule"}

DraftsLate(t, n) ==
    \/ tick[t].now = n /\ tick[t].stage \in {"compose", "create"}
    \/ tick[t].now < n /\ tick[t].stage \in DraftStages
DraftersFor(n) == {t \in Runs : DraftsLate(t, n)}
DraftDone(n) == n <= drafted \/ \E t \in Runs : tick[t].now = n /\ tick[t].stage = "markDraft"

Stale(t, n) == tick[t].now < n /\ tick[t].stage \in RuleStages
Nudges(t, n) == tick[t].now = n /\ tick[t].stage \in DraftStages \cup {"rules"}
NudgersFor(n) == {t \in Runs :
    /\ Stale(t, n) \/ Nudges(t, n)
    /\ fired < n \/ \E s \in Runs : Stale(s, n)}
NudgeDone(n) == n <= fired \/ \E t \in Runs : tick[t].now = n /\ tick[t].stage = "markRule"

Mails(t, u, w) ==
    /\ tick[t].stage \in {"mail", "markMail"} /\ tick[t].due[u] = w
    /\ ~(tick[t].stage = "markMail" /\ tick[t].unit = u)
Lists(t) == tick[t].stage \in RuleStages \cup {"list"}
MailersFor(u, w) == {t \in Runs : Mails(t, u, w) \/ (w \notin marks[u] /\ Lists(t))}
Marking(t, u, w) == tick[t].stage = "markMail" /\ tick[t].unit = u /\ tick[t].due[u] = w
MailDone(u, w) == w \in marks[u] \/ \E t \in Runs : Marking(t, u, w)

DraftsPaid(n) ==
    /\ drafts[n] + Cardinality(DraftersFor(n)) <= 1 + (overlaps + mishaps)
    /\ DraftDone(n) \/ drafts[n] <= (overlaps + mishaps)
NudgesPaid(n) ==
    /\ nudges[n] + Cardinality(NudgersFor(n)) <= 1 + (overlaps + mishaps)
    /\ NudgeDone(n) \/ nudges[n] <= (overlaps + mishaps)
MailsPaid(u, w) ==
    /\ mails[u][w] + Cardinality(MailersFor(u, w)) <= 1 + (overlaps + mishaps)
    /\ MailDone(u, w) \/ mails[u][w] <= (overlaps + mishaps)

AllPaid ==
    /\ TypeOK
    /\ \A n \in Times : DraftsPaid(n)
    /\ \A n \in Times : NudgesPaid(n)
    /\ \A u \in Units, w \in Windows : MailsPaid(u, w)

\* Sets of ticks.
LEMMA Fewer ==
  ASSUME NEW K \in SUBSET Runs, NEW L \in SUBSET K
  PROVE  Cardinality(L) \in Nat /\ Cardinality(K) \in Nat /\ Cardinality(L) <= Cardinality(K)
  BY TicksAssumption, FS_Subset, FS_CardinalityType DEF TicksAssumption

LEMMA OneOut ==
  ASSUME NEW K \in SUBSET Runs, NEW t \in K, NEW L \in SUBSET (K \ {t})
  PROVE  Cardinality(L) \in Nat /\ Cardinality(K) \in Nat /\ Cardinality(L) + 1 <= Cardinality(K)
  <1>1. IsFiniteSet(K) /\ Cardinality(K) \in Nat
    BY TicksAssumption, FS_Subset, FS_CardinalityType
  <1>2. IsFiniteSet(K \ {t}) /\ Cardinality(K \ {t}) = Cardinality(K) - 1
    BY <1>1, FS_RemoveElement
  <1>3. Cardinality(L) <= Cardinality(K \ {t}) /\ Cardinality(L) \in Nat
    BY <1>2, FS_Subset, FS_CardinalityType
  <1> QED
    BY <1>1, <1>2, <1>3

LEMMA OneIn ==
  ASSUME NEW K \in SUBSET Runs, NEW t \in Runs, NEW L \in SUBSET (K \cup {t})
  PROVE  Cardinality(L) \in Nat /\ Cardinality(K) \in Nat /\ Cardinality(L) <= Cardinality(K) + 1
  <1>1. IsFiniteSet(K) /\ Cardinality(K) \in Nat
    BY TicksAssumption, FS_Subset, FS_CardinalityType
  <1>2. IsFiniteSet(K \cup {t}) /\ Cardinality(K \cup {t}) <= Cardinality(K) + 1
    BY <1>1, FS_AddElement
  <1>3. Cardinality(L) <= Cardinality(K \cup {t}) /\ Cardinality(L) \in Nat
    BY <1>2, FS_Subset, FS_CardinalityType
  <1>4. Cardinality(K \cup {t}) \in Nat
    BY <1>2, FS_CardinalityType
  <1> QED
    BY <1>1, <1>2, <1>3, <1>4

LEMMA SumType == \A m, n \in Nat : m + n \in Nat
  OBVIOUS

LEMMA CreditType ==
  ASSUME TypeOK, TypeOK'
  PROVE  overlaps + mishaps \in Nat /\ overlaps' + mishaps' \in Nat
  <1>1. overlaps \in Nat /\ mishaps \in Nat
    BY DEF TypeOK
  <1>2. overlaps' \in Nat /\ mishaps' \in Nat
    BY DEF TypeOK
  <1> QED
    BY <1>1, <1>2, SumType

\* Five ways a count stays paid for: nothing is sent and no mark is lost;
\* something went wrong; a tick sends that might; a tick joins the others;
\* a tick that might takes the mark back.
LEMMA Kept ==
  ASSUME NEW c \in Nat, NEW b \in Nat, NEW d \in Nat, b <= d,
         NEW K \in SUBSET Runs, NEW L \in SUBSET K, c + Cardinality(K) <= 1 + b
  PROVE  c + Cardinality(L) <= 1 + d /\ (c <= b => c <= d)
  BY Fewer

LEMMA Faulted ==
  ASSUME NEW c \in Nat, NEW b \in Nat, NEW d \in Nat, b + 1 <= d,
         NEW K \in SUBSET Runs, NEW L \in SUBSET K, c + Cardinality(K) <= 1 + b
  PROVE  c + Cardinality(L) <= 1 + d /\ c <= d
  BY Fewer

LEMMA Sent ==
  ASSUME NEW c \in Nat, NEW b \in Nat, NEW K \in SUBSET Runs, NEW t \in K, NEW L \in SUBSET (K \ {t}),
         c + Cardinality(K) <= 1 + b
  PROVE  c + 1 + Cardinality(L) <= 1 + b /\ c <= b
  BY OneOut

LEMMA Joined ==
  ASSUME NEW c \in Nat, NEW b \in Nat, NEW K \in SUBSET Runs, NEW t \in Runs, NEW L \in SUBSET (K \cup {t}),
         c + Cardinality(K) <= 1 + b
  PROVE  c + Cardinality(L) <= 1 + (b + 1) /\ c <= b + 1
  BY OneIn

LEMMA JoinedAlone ==
  ASSUME NEW c \in Nat, NEW b \in Nat, NEW t \in Runs, NEW L \in SUBSET {t}, c <= b
  PROVE  c + Cardinality(L) <= 1 + b
  <1>1. Cardinality(L) <= Cardinality({}) + 1 /\ Cardinality(L) \in Nat
    BY OneIn
  <1> QED
    BY <1>1, FS_EmptySet

-----------------------------------------------------------------------------
\* The drafts of week n.
LEMMA DraftsQuiet ==
  ASSUME TypeOK, TypeOK', NEW n \in Times, DraftsPaid(n), drafts' = drafts, (overlaps + mishaps) <= (overlaps' + mishaps'),
         \A s \in Runs : DraftsLate(s, n)' => DraftsLate(s, n),
         (DraftDone(n) => DraftDone(n)') \/ (overlaps + mishaps) + 1 <= (overlaps' + mishaps')
  PROVE  DraftsPaid(n)'
  <1>1. DraftersFor(n) \in SUBSET Runs /\ DraftersFor(n)' \in SUBSET DraftersFor(n)
    BY DEF DraftersFor
  <1>2. drafts[n] \in Nat /\ (overlaps + mishaps) \in Nat /\ (overlaps' + mishaps') \in Nat
    BY CreditType DEF TypeOK
  <1>3. drafts[n] + Cardinality(DraftersFor(n)') <= 1 + (overlaps' + mishaps')
        /\ (drafts[n] <= (overlaps + mishaps) => drafts[n] <= (overlaps' + mishaps'))
    BY <1>1, <1>2, Kept DEF DraftsPaid
  <1>4. (overlaps + mishaps) + 1 <= (overlaps' + mishaps') => drafts[n] <= (overlaps' + mishaps')
    BY <1>1, <1>2, Faulted DEF DraftsPaid
  <1> QED
    BY <1>3, <1>4 DEF DraftsPaid

\* A tick that is done with the draft, or goes on to its mark.
LEMMA DraftsAway ==
  ASSUME TypeOK, TypeOK', NEW n \in Times, DraftsPaid(n), NEW t \in Runs, Only(t),
         drafts' = drafts, drafted' = drafted, (overlaps + mishaps) <= (overlaps' + mishaps'),
         \/ tick'[t].stage \notin DraftStages
         \/ /\ tick'[t].now = tick[t].now /\ tick[t].stage \in DraftStages
            /\ tick'[t].stage = "create" => tick[t].stage = "compose"
            /\ tick'[t].stage # "compose",
         tick[t].stage # "markDraft" \/ (overlaps + mishaps) + 1 <= (overlaps' + mishaps')
  PROVE  DraftsPaid(n)'
  <1>1. ASSUME NEW s \in Runs, DraftsLate(s, n)'
        PROVE  DraftsLate(s, n)
    BY <1>1 DEF DraftsLate, DraftStages, Only
  <1>2. tick[t].stage # "markDraft" => (DraftDone(n) => DraftDone(n)')
    BY DEF DraftDone, Only
  <1> QED
    BY <1>1, <1>2, DraftsQuiet

LEMMA DraftsOutside ==
  ASSUME TypeOK, TypeOK', NEW n \in Times, DraftsPaid(n),
         UNCHANGED <<tick, drafts, drafted, overlaps, mishaps>>
  PROVE  DraftsPaid(n)'
  BY DEF DraftsPaid, DraftersFor, DraftsLate, DraftDone

LEMMA DraftsBegin ==
  ASSUME TypeOK, TypeOK', NEW n \in Times, DraftsPaid(n), NEW t \in Runs, Begin(t)
  PROVE  DraftsPaid(n)'
  <1>1. /\ Only(t) /\ tick'[t].now = now
        /\ tick'[t].stage = IF drafted < now THEN "compose" ELSE "rules"
    BY BeginOnly
  <1>2. /\ tick[t].stage = "idle" /\ drafts' = drafts /\ drafted' = drafted /\ mishaps' = mishaps
        /\ overlaps' = IF Others(t) = {} THEN overlaps ELSE overlaps + 1
    BY Zenon DEF Begin, letter
  <1>3. /\ drafts[n] \in Nat /\ overlaps \in Nat /\ mishaps \in Nat /\ overlaps + mishaps \in Nat
        /\ now \in Nat /\ now # 0 /\ drafted \in Nat /\ drafted <= now /\ n \in Nat
    BY CreditType, TicksAssumption DEF TypeOK, Times
  <1>4. CASE tick'[t].stage # "compose"
    <2>1. tick'[t].stage \notin DraftStages
      BY <1>1, <1>4 DEF DraftStages
    <2>2. overlaps + mishaps <= overlaps' + mishaps'
      BY <1>2, <1>3
    <2> QED
      BY <1>1, <1>2, <2>1, <2>2, DraftsAway
  <1>5. CASE tick'[t].stage = "compose" /\ Others(t) # {}
    <2>1. DraftersFor(n) \in SUBSET Runs /\ DraftersFor(n)' \in SUBSET (DraftersFor(n) \cup {t})
      BY <1>1 DEF DraftersFor, DraftsLate, Only
    <2>2. overlaps' + mishaps' = overlaps + mishaps + 1
      BY <1>2, <1>3, <1>5
    <2>3. drafts[n] + Cardinality(DraftersFor(n)') <= 1 + (overlaps + mishaps + 1)
          /\ drafts[n] <= overlaps + mishaps + 1
      BY <1>3, <2>1, Joined DEF DraftsPaid
    <2> QED
      BY <1>2, <2>2, <2>3 DEF DraftsPaid
  <1>6. CASE tick'[t].stage = "compose" /\ Others(t) = {}
    <2>1. \A s \in Runs : tick[s].stage = "idle"
      BY <1>2, <1>6 DEF Others
    <2>2. DraftersFor(n)' \in SUBSET {t}
      BY <1>1, <2>1 DEF DraftersFor, DraftsLate, DraftStages, Only
    <2>3. CASE n <= drafted
      <3>1. DraftersFor(n)' = {}
        BY <1>1, <1>3, <1>6, <2>2, <2>3 DEF DraftersFor, DraftsLate, DraftStages
      <3>2. Cardinality(DraftersFor(n)') = 0
        BY <3>1, FS_EmptySet
      <3>3. Cardinality(DraftersFor(n)) \in Nat
        BY Fewer DEF DraftersFor
      <3>4. DraftDone(n)'
        BY <1>2, <2>3 DEF DraftDone
      <3>5. drafts'[n] + Cardinality(DraftersFor(n)') <= 1 + (overlaps' + mishaps')
        BY <1>2, <1>3, <1>6, <3>2, <3>3 DEF DraftsPaid
      <3> QED
        BY <3>4, <3>5 DEF DraftsPaid
    <2>4. CASE ~(n <= drafted)
      <3>1. drafts[n] <= overlaps + mishaps
        BY <2>1, <2>4 DEF DraftsPaid, DraftDone
      <3>2. drafts[n] + Cardinality(DraftersFor(n)') <= 1 + (overlaps + mishaps)
        BY <1>3, <2>2, <3>1, JoinedAlone
      <3> QED
        BY <1>2, <1>6, <3>1, <3>2 DEF DraftsPaid
    <2> QED
      BY <2>3, <2>4
  <1> QED
    BY <1>4, <1>5, <1>6

LEMMA DraftsCreate ==
  ASSUME TypeOK, TypeOK', NEW n \in Times, DraftsPaid(n), NEW t \in Runs, Create(t)
  PROVE  DraftsPaid(n)'
  <1>1. /\ Only(t) /\ tick'[t].now = tick[t].now /\ tick'[t].stage = "markDraft"
        /\ tick[t].stage = "create"
    BY CreateOnly DEF Create, Steady
  <1>2. /\ drafts' = [drafts EXCEPT ![tick[t].now] = @ + 1] /\ drafted' = drafted
        /\ overlaps' = overlaps /\ mishaps' = mishaps
    BY DEF Create, faults
  <1>3. /\ drafts \in [Times -> Nat] /\ drafts[n] \in Nat /\ overlaps + mishaps \in Nat
        /\ tick[t].now \in Nat /\ n \in Nat
    <2>1. drafts \in [Times -> Nat] /\ drafts[n] \in Nat
      BY DEF TypeOK
    <2>2. tick[t].now \in Nat /\ n \in Nat
      BY TicksAssumption DEF TypeOK, Tick, Times
    <2> QED
      BY <2>1, <2>2, CreditType
  <1>4. CASE tick[t].now = n
    <2>1. /\ DraftersFor(n) \in SUBSET Runs /\ t \in DraftersFor(n)
          /\ DraftersFor(n)' \in SUBSET (DraftersFor(n) \ {t})
      BY <1>1, <1>3, <1>4 DEF DraftersFor, DraftsLate, DraftStages, Only
    <2>2. drafts[n] + 1 + Cardinality(DraftersFor(n)') <= 1 + (overlaps + mishaps)
      BY <1>3, <2>1, Sent DEF DraftsPaid
    <2>3. drafts'[n] = drafts[n] + 1
      BY <1>2, <1>3, <1>4
    <2>4. DraftDone(n)'
      BY <1>1, <1>4 DEF DraftDone
    <2> QED
      BY <1>2, <2>2, <2>3, <2>4 DEF DraftsPaid
  <1>5. CASE tick[t].now # n
    <2>1. DraftersFor(n) \in SUBSET Runs /\ DraftersFor(n)' \in SUBSET DraftersFor(n)
      BY <1>1, <1>5 DEF DraftersFor, DraftsLate, DraftStages, Only
    <2>2. drafts'[n] = drafts[n]
      BY <1>2, <1>3, <1>5
    <2>3. DraftDone(n) => DraftDone(n)'
      BY <1>1, <1>2 DEF DraftDone, Only
    <2>4. drafts[n] + Cardinality(DraftersFor(n)') <= 1 + (overlaps + mishaps)
      <3>1. overlaps + mishaps <= overlaps + mishaps
        BY <1>3
      <3> QED
        BY <1>3, <2>1, <3>1, Kept DEF DraftsPaid
    <2> QED
      BY <1>2, <2>2, <2>3, <2>4 DEF DraftsPaid
  <1> QED
    BY <1>4, <1>5

LEMMA DraftsMark ==
  ASSUME TypeOK, TypeOK', NEW n \in Times, DraftsPaid(n), NEW t \in Runs, MarkDraft(t)
  PROVE  DraftsPaid(n)'
  <1>1. /\ Only(t) /\ tick'[t].stage = "rules" /\ tick[t].stage = "markDraft"
    BY MarkDraftOnly DEF MarkDraft
  <1>2. drafts' = drafts /\ drafted' = tick[t].now /\ overlaps' = overlaps /\ mishaps' = mishaps
    BY DEF MarkDraft, Stamp, faults
  <1>3. /\ drafts[n] \in Nat /\ overlaps + mishaps \in Nat
        /\ tick[t].now \in Nat /\ n \in Nat
    BY CreditType, TicksAssumption DEF TypeOK, Tick, Times
  <1>4. CASE tick[t].now < n
    <2>1. /\ DraftersFor(n) \in SUBSET Runs /\ t \in DraftersFor(n)
          /\ DraftersFor(n)' \in SUBSET (DraftersFor(n) \ {t})
      BY <1>1, <1>3, <1>4 DEF DraftersFor, DraftsLate, DraftStages, Only
    <2>2. drafts[n] + 1 + Cardinality(DraftersFor(n)') <= 1 + (overlaps + mishaps)
          /\ drafts[n] <= overlaps + mishaps
      BY <1>3, <2>1, Sent DEF DraftsPaid
    <2>3. Cardinality(DraftersFor(n)') \in Nat
      BY <2>1, OneOut
    <2> QED
      BY <1>2, <1>3, <2>2, <2>3 DEF DraftsPaid
  <1>5. CASE n <= tick[t].now
    <2>1. DraftersFor(n) \in SUBSET Runs /\ DraftersFor(n)' \in SUBSET DraftersFor(n)
      BY <1>1 DEF DraftersFor, DraftsLate, DraftStages, Only
    <2>3. DraftDone(n)'
      BY <1>2, <1>5 DEF DraftDone
    <2>4. drafts[n] + Cardinality(DraftersFor(n)') <= 1 + (overlaps + mishaps)
      <3>1. overlaps + mishaps <= overlaps + mishaps
        BY <1>3
      <3> QED
        BY <1>3, <2>1, <3>1, Kept DEF DraftsPaid
    <2> QED
      BY <1>2, <2>3, <2>4 DEF DraftsPaid
  <1> QED
    <2>1. tick[t].now < n \/ n <= tick[t].now
      BY <1>3
    <2> QED
      BY <1>4, <1>5, <2>1

LEMMA DraftsStep ==
  ASSUME TypeOK, TypeOK', NEW n \in Times, DraftsPaid(n), Next
  PROVE  DraftsPaid(n)'
  <1> USE DEF trials, sent, letter, rule, faults
  <1>0. /\ overlaps \in Nat /\ mishaps \in Nat /\ overlaps + mishaps <= overlaps + mishaps
        /\ overlaps + (mishaps + 1) = overlaps + mishaps + 1
        /\ overlaps + mishaps <= overlaps + (mishaps + 1)
        /\ overlaps + mishaps + 1 <= overlaps + (mishaps + 1)
    <2>1. overlaps \in Nat /\ mishaps \in Nat
      BY DEF TypeOK
    <2> QED
      BY <2>1
  <1>1. CASE Passes
    BY <1>1, DraftsOutside DEF Passes
  <1>2. ASSUME NEW u \in Units, Settles(u) \/ ExtendTrial(u) PROVE DraftsPaid(n)'
    BY <1>2, DraftsOutside DEF Settles, ExtendTrial
  <1>3. ASSUME NEW m \in Times, Leader(m) PROVE DraftsPaid(n)'
    BY <1>3, DraftsOutside DEF Leader
  <1>4. ASSUME NEW t \in Runs, Begin(t) PROVE DraftsPaid(n)'
    BY <1>4, DraftsBegin
  <1>5. ASSUME NEW t \in Runs, StatementFails(t) \/ Dies(t) PROVE DraftsPaid(n)'
    <2>1. Only(t) /\ tick'[t].stage \notin DraftStages
      BY <1>5, FailsOnly, DiesOnly, IdleType DEF DraftStages
    <2>2. drafts' = drafts /\ drafted' = drafted /\ overlaps' = overlaps /\ mishaps' = mishaps + 1
      BY <1>5 DEF StatementFails, Dies
    <2> QED
      BY <1>0, <2>1, <2>2, DraftsAway
  <1>6. ASSUME NEW t \in Runs, Steps(t) PROVE DraftsPaid(n)'
    <2>1. CASE Compose(t)
      <3>1. /\ Only(t) /\ tick'[t].now = tick[t].now /\ tick'[t].stage \in {"create", "markDraft"}
            /\ tick[t].stage = "compose"
        BY <2>1, ComposeOnly DEF Compose, Steady
      <3>2. drafts' = drafts /\ drafted' = drafted /\ overlaps' = overlaps /\ mishaps' = mishaps
        BY <2>1 DEF Compose
      <3> QED
        BY <1>0, <3>1, <3>2, DraftsAway DEF DraftStages
    <2>2. CASE Create(t)
      BY <2>2, DraftsCreate
    <2>3. CASE MarkDraft(t)
      BY <2>3, DraftsMark
    <2>4. CASE Rules(t)
      <3>1. Only(t) /\ tick'[t].stage \notin DraftStages /\ tick[t].stage # "markDraft"
        BY <2>4, RulesOnly DEF Rules, DraftStages
      <3>2. drafts' = drafts /\ drafted' = drafted /\ overlaps' = overlaps
            /\ mishaps' \in {mishaps, mishaps + 1}
        BY <2>4 DEF Rules
      <3> QED
        BY <1>0, <3>1, <3>2, DraftsAway
    <2>5. CASE MarkRule(t)
      <3>1. Only(t) /\ tick'[t].stage \notin DraftStages /\ tick[t].stage # "markDraft"
        BY <2>5, MarkRuleOnly DEF MarkRule, DraftStages
      <3>2. drafts' = drafts /\ drafted' = drafted /\ overlaps' = overlaps /\ mishaps' = mishaps
        BY <2>5 DEF MarkRule
      <3> QED
        BY <1>0, <3>1, <3>2, DraftsAway
    <2>6. CASE List(t)
      <3>1. Only(t) /\ tick'[t].stage \notin DraftStages /\ tick[t].stage # "markDraft"
        BY <2>6, ListOnly, IdleType DEF List, DraftStages, Sweeps
      <3>2. drafts' = drafts /\ drafted' = drafted /\ overlaps' = overlaps /\ mishaps' = mishaps
        BY <2>6 DEF List
      <3> QED
        BY <1>0, <3>1, <3>2, DraftsAway
    <2>7. ASSUME NEW u \in Units, Remind(t, u) PROVE DraftsPaid(n)'
      <3>1. Only(t) /\ tick'[t].stage \notin DraftStages /\ tick[t].stage # "markDraft"
        BY <2>7, RemindOnly, IdleType DEF Remind, DraftStages, Sweeps
      <3>2. drafts' = drafts /\ drafted' = drafted /\ overlaps' = overlaps
            /\ mishaps' \in {mishaps, mishaps + 1}
        BY <2>7 DEF Remind
      <3> QED
        BY <1>0, <3>1, <3>2, DraftsAway
    <2>8. CASE MarkMail(t)
      <3>1. Only(t) /\ tick'[t].stage \notin DraftStages /\ tick[t].stage # "markDraft"
        BY <2>8, MarkMailOnly, IdleType DEF MarkMail, DraftStages, Sweeps
      <3>2. drafts' = drafts /\ drafted' = drafted /\ overlaps' = overlaps /\ mishaps' = mishaps
        BY <2>8 DEF MarkMail
      <3> QED
        BY <1>0, <3>1, <3>2, DraftsAway
    <2> QED
      BY <1>6, <2>1, <2>2, <2>3, <2>4, <2>5, <2>6, <2>7, <2>8 DEF Steps
  <1> QED
    BY <1>1, <1>2, <1>3, <1>4, <1>5, <1>6 DEF Next

-----------------------------------------------------------------------------
\* The nudges of floor n.
LEMMA NudgesQuiet ==
  ASSUME TypeOK, TypeOK', NEW n \in Times, NudgesPaid(n), nudges'[n] = nudges[n],
         overlaps + mishaps <= overlaps' + mishaps',
         NudgersFor(n)' \subseteq NudgersFor(n),
         (NudgeDone(n) => NudgeDone(n)') \/ overlaps + mishaps + 1 <= overlaps' + mishaps'
  PROVE  NudgesPaid(n)'
  <1>1. NudgersFor(n) \in SUBSET Runs /\ NudgersFor(n)' \in SUBSET NudgersFor(n)
    BY DEF NudgersFor
  <1>2. nudges[n] \in Nat /\ overlaps + mishaps \in Nat /\ overlaps' + mishaps' \in Nat
    BY CreditType DEF TypeOK
  <1>3. nudges[n] + Cardinality(NudgersFor(n)') <= 1 + (overlaps' + mishaps')
        /\ (nudges[n] <= overlaps + mishaps => nudges[n] <= overlaps' + mishaps')
    BY <1>1, <1>2, Kept DEF NudgesPaid
  <1>4. overlaps + mishaps + 1 <= overlaps' + mishaps' => nudges[n] <= overlaps' + mishaps'
    BY <1>1, <1>2, Faulted DEF NudgesPaid
  <1> QED
    BY <1>3, <1>4 DEF NudgesPaid

LEMMA NudgesAway ==
  ASSUME TypeOK, TypeOK', NEW n \in Times, NudgesPaid(n), NEW t \in Runs, Only(t),
         nudges'[n] = nudges[n], fired' = fired, overlaps + mishaps <= overlaps' + mishaps',
         \/ tick'[t].stage \notin RuleStages
         \/ tick'[t].now = tick[t].now /\ tick[t].stage \in RuleStages \ {"markRule"},
         tick[t].stage # "markRule" \/ overlaps + mishaps + 1 <= overlaps' + mishaps'
  PROVE  NudgesPaid(n)'
  <1>1. ASSUME NEW s \in Runs, Stale(s, n)'
        PROVE  Stale(s, n)
    BY <1>1 DEF Stale, Only
  <1>2. ASSUME NEW s \in Runs, Nudges(s, n)'
        PROVE  Nudges(s, n)
    BY <1>2 DEF Nudges, RuleStages, DraftStages, Only
  <1>3. NudgersFor(n)' \subseteq NudgersFor(n)
    BY <1>1, <1>2 DEF NudgersFor
  <1>4. tick[t].stage # "markRule" => (NudgeDone(n) => NudgeDone(n)')
    BY DEF NudgeDone, Only
  <1> QED
    BY <1>3, <1>4, NudgesQuiet

LEMMA NudgesOutside ==
  ASSUME TypeOK, TypeOK', NEW n \in Times, NudgesPaid(n),
         UNCHANGED <<tick, nudges, fired, overlaps, mishaps>>
  PROVE  NudgesPaid(n)'
  BY DEF NudgesPaid, NudgersFor, Stale, Nudges, NudgeDone

LEMMA NudgesBegin ==
  ASSUME TypeOK, TypeOK', NEW n \in Times, NudgesPaid(n), NEW t \in Runs, Begin(t)
  PROVE  NudgesPaid(n)'
  <1>1. Only(t) /\ tick'[t].now = now /\ tick'[t].stage \in {"compose", "rules"}
    BY BeginOnly
  <1>2. /\ tick[t].stage = "idle" /\ nudges' = nudges /\ fired' = fired /\ mishaps' = mishaps
        /\ overlaps' = IF Others(t) = {} THEN overlaps ELSE overlaps + 1
    BY Zenon DEF Begin, rule
  <1>3. /\ nudges[n] \in Nat /\ overlaps \in Nat /\ mishaps \in Nat /\ overlaps + mishaps \in Nat
        /\ now \in Nat /\ fired \in Nat /\ fired <= now /\ n \in Nat
    BY CreditType, TicksAssumption DEF TypeOK, Times
  <1>4. ASSUME NEW s \in Runs, s # t
        PROVE  (Stale(s, n)' <=> Stale(s, n)) /\ (Nudges(s, n)' <=> Nudges(s, n))
    BY <1>1, <1>4 DEF Stale, Nudges, Only
  <1>5. Stale(t, n)' => now < n
    BY <1>1 DEF Stale
  <1>6. CASE ~(fired < n) /\ \A s \in Runs : ~Stale(s, n)
    <2>1. ~Stale(t, n)'
      BY <1>3, <1>5, <1>6
    <2>2. NudgersFor(n)' \subseteq NudgersFor(n)
      BY <1>2, <1>4, <1>6, <2>1 DEF NudgersFor
    <2>3. NudgeDone(n)'
      BY <1>2, <1>3, <1>6 DEF NudgeDone
    <2>4. overlaps + mishaps <= overlaps' + mishaps'
      BY <1>2, <1>3
    <2> QED
      BY <1>2, <2>2, <2>3, <2>4, NudgesQuiet
  <1>7. CASE Others(t) # {}
    <2>1. NudgersFor(n) \in SUBSET Runs /\ NudgersFor(n)' \in SUBSET (NudgersFor(n) \cup {t})
      <3>1. fired' < n \/ (\E s \in Runs : Stale(s, n)') => fired < n \/ \E s \in Runs : Stale(s, n)
        BY <1>2, <1>3, <1>4, <1>5
      <3> QED
        BY <1>4, <3>1 DEF NudgersFor
    <2>2. overlaps' + mishaps' = overlaps + mishaps + 1
      BY <1>2, <1>3, <1>7
    <2>3. nudges[n] + Cardinality(NudgersFor(n)') <= 1 + (overlaps + mishaps + 1)
          /\ nudges[n] <= overlaps + mishaps + 1
      BY <1>3, <2>1, Joined DEF NudgesPaid
    <2> QED
      BY <1>2, <2>2, <2>3 DEF NudgesPaid
  <1>8. CASE Others(t) = {} /\ (fired < n \/ \E s \in Runs : Stale(s, n))
    <2>1. \A s \in Runs : tick[s].stage = "idle"
      BY <1>2, <1>8 DEF Others
    <2>2. NudgersFor(n)' \in SUBSET {t}
      <3>1. \A s \in Runs : ~Stale(s, n) /\ ~Nudges(s, n)
        BY <2>1 DEF Stale, Nudges, RuleStages, DraftStages
      <3> QED
        BY <1>4, <3>1 DEF NudgersFor
    <2>3. fired < n
      BY <1>8, <2>1 DEF Stale, RuleStages, DraftStages
    <2>4. nudges[n] <= overlaps + mishaps
      BY <1>3, <2>1, <2>3 DEF NudgesPaid, NudgeDone
    <2>5. nudges[n] + Cardinality(NudgersFor(n)') <= 1 + (overlaps + mishaps)
      BY <1>3, <2>2, <2>4, JoinedAlone
    <2> QED
      BY <1>2, <1>8, <2>4, <2>5 DEF NudgesPaid
  <1> QED
    BY <1>6, <1>7, <1>8

LEMMA NudgesFire ==
  ASSUME TypeOK, TypeOK', NEW n \in Times, NudgesPaid(n), NEW t \in Runs, Rules(t)
  PROVE  NudgesPaid(n)'
  <1>1. /\ Only(t) /\ tick'[t].now = tick[t].now /\ tick[t].stage = "rules"
        /\ tick'[t].stage = IF fired < tick[t].now THEN "markRule" ELSE "list"
    BY RulesOnly DEF Rules, Steady
  <1>2. nudges \in [Times -> Nat] /\ nudges[n] \in Nat
    BY DEF TypeOK
  <1>3. overlaps \in Nat /\ mishaps \in Nat /\ overlaps + mishaps \in Nat
    BY CreditType DEF TypeOK
  <1>4. CASE /\ nudges'[n] = nudges[n] /\ fired' = fired /\ overlaps' = overlaps
             /\ mishaps' \in {mishaps, mishaps + 1}
    <2>1. overlaps + mishaps <= overlaps + mishaps /\ overlaps + mishaps <= overlaps + (mishaps + 1)
      BY <1>3
    <2>2. overlaps + mishaps <= overlaps' + mishaps'
      BY <1>4, <2>1
    <2> QED
      BY <1>1, <1>4, <2>2, NudgesAway DEF RuleStages, DraftStages
  <1>5. CASE /\ fired < tick[t].now /\ tick[t].now = n /\ fired' = fired /\ overlaps' = overlaps
             /\ mishaps' = mishaps /\ nudges'[n] = nudges[n] + 1
    <2>1. NudgersFor(n) \in SUBSET Runs /\ t \in NudgersFor(n)
      BY <1>1, <1>5 DEF NudgersFor, Nudges
    <2>2. ~Stale(t, n)' /\ ~Nudges(t, n)'
      <3>1. ~(n < n)
        BY DEF Times
      <3> QED
        BY <1>1, <1>5, <3>1 DEF Stale, Nudges, DraftStages
    <2>3. NudgersFor(n)' \in SUBSET (NudgersFor(n) \ {t})
      <3>1. ASSUME NEW s \in Runs, s # t
            PROVE  (Stale(s, n)' <=> Stale(s, n)) /\ (Nudges(s, n)' <=> Nudges(s, n))
        BY <1>1, <3>1 DEF Stale, Nudges, Only
      <3> QED
        BY <1>5, <2>2, <3>1 DEF NudgersFor
    <2>4. nudges[n] + 1 + Cardinality(NudgersFor(n)') <= 1 + (overlaps + mishaps)
      BY <1>2, <1>3, <2>1, <2>3, Sent DEF NudgesPaid
    <2>5. NudgeDone(n)'
      BY <1>1, <1>5 DEF NudgeDone
    <2> QED
      BY <1>5, <2>4, <2>5 DEF NudgesPaid
  <1>6. PICK done \in BOOLEAN :
          fired < tick[t].now =>
            /\ nudges' = IF done THEN [nudges EXCEPT ![tick[t].now] = @ + 1] ELSE nudges
            /\ mishaps' = IF done THEN mishaps ELSE mishaps + 1
    BY DEF Rules
  <1>7. fired' = fired /\ overlaps' = overlaps /\ (~(fired < tick[t].now) => UNCHANGED <<nudges, mishaps>>)
    BY DEF Rules
  <1> QED
    BY <1>2, <1>4, <1>5, <1>6, <1>7

LEMMA NudgesMark ==
  ASSUME TypeOK, TypeOK', NEW n \in Times, NudgesPaid(n), NEW t \in Runs, MarkRule(t)
  PROVE  NudgesPaid(n)'
  <1>1. /\ Only(t) /\ tick'[t].stage = "list" /\ tick[t].stage = "markRule"
    BY MarkRuleOnly DEF MarkRule
  <1>2. nudges' = nudges /\ fired' = tick[t].now /\ overlaps' = overlaps /\ mishaps' = mishaps
    BY DEF MarkRule, Stamp, faults
  <1>3. /\ nudges[n] \in Nat /\ overlaps + mishaps \in Nat
        /\ tick[t].now \in Nat /\ n \in Nat
    <2>1. nudges[n] \in Nat
      BY DEF TypeOK
    <2>2. tick[t].now \in Nat /\ n \in Nat
      BY TicksAssumption DEF TypeOK, Tick, Times
    <2> QED
      BY <2>1, <2>2, CreditType
  <1>4. ASSUME NEW s \in Runs, s # t
        PROVE  (Stale(s, n)' <=> Stale(s, n)) /\ (Nudges(s, n)' <=> Nudges(s, n))
    BY <1>1, <1>4 DEF Stale, Nudges, Only
  <1>5. ~Stale(t, n)' /\ ~Nudges(t, n)'
    BY <1>1 DEF Stale, Nudges, RuleStages, DraftStages
  <1>6. CASE tick[t].now < n
    <2>1. Stale(t, n)
      BY <1>1, <1>6 DEF Stale, RuleStages
    <2>2. NudgersFor(n) \in SUBSET Runs /\ t \in NudgersFor(n)
      BY <2>1 DEF NudgersFor
    <2>3. NudgersFor(n)' \in SUBSET (NudgersFor(n) \ {t})
      BY <1>4, <1>5, <2>1 DEF NudgersFor
    <2>4. nudges[n] + 1 + Cardinality(NudgersFor(n)') <= 1 + (overlaps + mishaps)
          /\ nudges[n] <= overlaps + mishaps
      BY <1>3, <2>2, <2>3, Sent DEF NudgesPaid
    <2>5. Cardinality(NudgersFor(n)') \in Nat
      BY <2>2, <2>3, OneOut
    <2> QED
      BY <1>2, <1>3, <2>4, <2>5 DEF NudgesPaid
  <1>7. CASE n <= tick[t].now
    <2>1. NudgersFor(n)' \subseteq NudgersFor(n)
      <3>1. ~(fired' < n)
        BY <1>2, <1>3, <1>7
      <3> QED
        BY <1>4, <1>5, <3>1 DEF NudgersFor
    <2>2. NudgeDone(n)'
      BY <1>2, <1>7 DEF NudgeDone
    <2>3. overlaps + mishaps <= overlaps' + mishaps'
      BY <1>2, <1>3
    <2> QED
      BY <1>2, <2>1, <2>2, <2>3, NudgesQuiet
  <1> QED
    <2>1. tick[t].now < n \/ n <= tick[t].now
      BY <1>3
    <2> QED
      BY <1>6, <1>7, <2>1

LEMMA NudgesStep ==
  ASSUME TypeOK, TypeOK', NEW n \in Times, NudgesPaid(n), Next
  PROVE  NudgesPaid(n)'
  <1> USE DEF trials, sent, letter, rule, faults
  <1>0. /\ overlaps \in Nat /\ mishaps \in Nat /\ overlaps + mishaps <= overlaps + mishaps
        /\ overlaps + mishaps <= overlaps + (mishaps + 1)
        /\ overlaps + mishaps + 1 <= overlaps + (mishaps + 1)
    <2>1. overlaps \in Nat /\ mishaps \in Nat
      BY DEF TypeOK
    <2> QED
      BY <2>1
  <1>1. CASE Passes
    BY <1>1, NudgesOutside DEF Passes
  <1>2. ASSUME NEW u \in Units, Settles(u) \/ ExtendTrial(u) PROVE NudgesPaid(n)'
    BY <1>2, NudgesOutside DEF Settles, ExtendTrial
  <1>3. ASSUME NEW m \in Times, Leader(m) PROVE NudgesPaid(n)'
    BY <1>3, NudgesOutside DEF Leader
  <1>4. ASSUME NEW t \in Runs, Begin(t) PROVE NudgesPaid(n)'
    BY <1>4, NudgesBegin
  <1>5. ASSUME NEW t \in Runs, StatementFails(t) \/ Dies(t) PROVE NudgesPaid(n)'
    <2>1. /\ Only(t)
          /\ \/ tick'[t].stage \notin RuleStages
             \/ tick'[t].now = tick[t].now /\ tick[t].stage \in RuleStages \ {"markRule"}
      BY <1>5, FailsOnly, DiesOnly, IdleType DEF RuleStages, DraftStages, Steady
    <2>2. nudges' = nudges /\ fired' = fired /\ overlaps' = overlaps /\ mishaps' = mishaps + 1
      BY <1>5 DEF StatementFails, Dies
    <2> QED
      BY <1>0, <2>1, <2>2, NudgesAway
  <1>6. ASSUME NEW t \in Runs, Steps(t) PROVE NudgesPaid(n)'
    <2>1. CASE Compose(t)
      <3>1. Only(t) /\ tick'[t].now = tick[t].now /\ tick[t].stage = "compose"
        BY <2>1, ComposeOnly DEF Compose, Steady
      <3>2. nudges' = nudges /\ fired' = fired /\ overlaps' = overlaps /\ mishaps' = mishaps
        BY <2>1 DEF Compose
      <3> QED
        BY <1>0, <3>1, <3>2, NudgesAway DEF RuleStages, DraftStages
    <2>2. CASE Create(t)
      <3>1. Only(t) /\ tick'[t].now = tick[t].now /\ tick[t].stage = "create"
        BY <2>2, CreateOnly DEF Create, Steady
      <3>2. nudges' = nudges /\ fired' = fired /\ overlaps' = overlaps /\ mishaps' = mishaps
        BY <2>2 DEF Create
      <3> QED
        BY <1>0, <3>1, <3>2, NudgesAway DEF RuleStages, DraftStages
    <2>3. CASE MarkDraft(t)
      <3>1. Only(t) /\ tick'[t].now = tick[t].now /\ tick[t].stage = "markDraft"
        BY <2>3, MarkDraftOnly DEF MarkDraft, Steady
      <3>2. nudges' = nudges /\ fired' = fired /\ overlaps' = overlaps /\ mishaps' = mishaps
        BY <2>3 DEF MarkDraft
      <3> QED
        BY <1>0, <3>1, <3>2, NudgesAway DEF RuleStages, DraftStages
    <2>4. CASE Rules(t)
      BY <2>4, NudgesFire
    <2>5. CASE MarkRule(t)
      BY <2>5, NudgesMark
    <2>6. CASE List(t)
      <3>1. Only(t) /\ tick'[t].stage \notin RuleStages /\ tick[t].stage # "markRule"
        BY <2>6, ListOnly, IdleType DEF List, RuleStages, DraftStages, Sweeps
      <3>2. nudges' = nudges /\ fired' = fired /\ overlaps' = overlaps /\ mishaps' = mishaps
        BY <2>6 DEF List
      <3> QED
        BY <1>0, <3>1, <3>2, NudgesAway
    <2>7. ASSUME NEW u \in Units, Remind(t, u) PROVE NudgesPaid(n)'
      <3>1. Only(t) /\ tick'[t].stage \notin RuleStages /\ tick[t].stage # "markRule"
        BY <2>7, RemindOnly, IdleType DEF Remind, RuleStages, DraftStages, Sweeps
      <3>2. nudges' = nudges /\ fired' = fired /\ overlaps' = overlaps
            /\ mishaps' \in {mishaps, mishaps + 1}
        BY <2>7 DEF Remind
      <3> QED
        BY <1>0, <3>1, <3>2, NudgesAway
    <2>8. CASE MarkMail(t)
      <3>1. Only(t) /\ tick'[t].stage \notin RuleStages /\ tick[t].stage # "markRule"
        BY <2>8, MarkMailOnly, IdleType DEF MarkMail, RuleStages, DraftStages, Sweeps
      <3>2. nudges' = nudges /\ fired' = fired /\ overlaps' = overlaps /\ mishaps' = mishaps
        BY <2>8 DEF MarkMail
      <3> QED
        BY <1>0, <3>1, <3>2, NudgesAway
    <2> QED
      BY <1>6, <2>1, <2>2, <2>3, <2>4, <2>5, <2>6, <2>7, <2>8 DEF Steps
  <1> QED
    BY <1>1, <1>2, <1>3, <1>4, <1>5, <1>6 DEF Next

-----------------------------------------------------------------------------
\* The reminders of unit u for window w.
MayMail(t, u, w) == Mails(t, u, w) \/ (w \notin marks[u] /\ Lists(t))

LEMMA MailsQuiet ==
  ASSUME TypeOK, TypeOK', NEW u \in Units, NEW w \in Windows, MailsPaid(u, w),
         mails'[u][w] = mails[u][w], overlaps + mishaps <= overlaps' + mishaps',
         \A s \in Runs : MayMail(s, u, w)' => MayMail(s, u, w),
         (MailDone(u, w) => MailDone(u, w)') \/ overlaps + mishaps + 1 <= overlaps' + mishaps'
  PROVE  MailsPaid(u, w)'
  <1>1. MailersFor(u, w) \in SUBSET Runs /\ MailersFor(u, w)' \in SUBSET MailersFor(u, w)
    BY DEF MailersFor, MayMail
  <1> DEFINE c == mails[u][w]
  <1>2. c \in Nat
    BY DEF TypeOK
  <1>3. overlaps + mishaps \in Nat /\ overlaps' + mishaps' \in Nat
    BY CreditType
  <1>4. c + Cardinality(MailersFor(u, w)) <= 1 + (overlaps + mishaps)
    BY DEF MailsPaid
  <1> HIDE DEF c
  <1>5. c + Cardinality(MailersFor(u, w)') <= 1 + (overlaps' + mishaps')
        /\ (c <= overlaps + mishaps => c <= overlaps' + mishaps')
    BY <1>1, <1>2, <1>3, <1>4, Kept
  <1>6. overlaps + mishaps + 1 <= overlaps' + mishaps' => c <= overlaps' + mishaps'
    BY <1>1, <1>2, <1>3, <1>4, Faulted
  <1> QED
    BY <1>5, <1>6 DEF MailsPaid, c

LEMMA MailsAway ==
  ASSUME TypeOK, TypeOK', NEW u \in Units, NEW w \in Windows, MailsPaid(u, w), NEW t \in Runs, Only(t),
         mails'[u][w] = mails[u][w], marks[u] \subseteq marks'[u],
         overlaps + mishaps <= overlaps' + mishaps',
         MayMail(t, u, w)' => MayMail(t, u, w),
         (Marking(t, u, w) => w \in marks'[u]) \/ overlaps + mishaps + 1 <= overlaps' + mishaps'
  PROVE  MailsPaid(u, w)'
  <1>1. ASSUME NEW s \in Runs, MayMail(s, u, w)'
        PROVE  MayMail(s, u, w)
    BY <1>1 DEF MayMail, Mails, Lists, Only
  <1>2. (Marking(t, u, w) => w \in marks'[u]) => (MailDone(u, w) => MailDone(u, w)')
    BY DEF MailDone, Marking, Only
  <1> QED
    BY <1>1, <1>2, MailsQuiet

LEMMA MailsOutside ==
  ASSUME TypeOK, TypeOK', NEW u \in Units, NEW w \in Windows, MailsPaid(u, w),
         UNCHANGED <<tick, mails, marks, overlaps, mishaps>>
  PROVE  MailsPaid(u, w)'
  BY DEF MailsPaid, MailersFor, Mails, Lists, MailDone, Marking

\* A tick before its sweep, or ended.
LEMMA MailsBefore ==
  ASSUME TypeOK, TypeOK', NEW u \in Units, NEW w \in Windows, MailsPaid(u, w), NEW t \in Runs, Only(t),
         mails' = mails, marks' = marks, overlaps + mishaps <= overlaps' + mishaps',
         tick'[t].stage = "idle" \/ (Lists(t) /\ Lists(t)'),
         tick[t].stage # "markMail" \/ overlaps + mishaps + 1 <= overlaps' + mishaps'
  PROVE  MailsPaid(u, w)'
  <1>1. MayMail(t, u, w)' => MayMail(t, u, w)
    BY DEF MayMail, Mails, Lists, RuleStages, DraftStages
  <1>2. tick[t].stage # "markMail" => ~Marking(t, u, w)
    BY DEF Marking
  <1> QED
    BY <1>1, <1>2, MailsAway

LEMMA MailsBegin ==
  ASSUME TypeOK, TypeOK', NEW u \in Units, NEW w \in Windows, MailsPaid(u, w), NEW t \in Runs, Begin(t)
  PROVE  MailsPaid(u, w)'
  <1>1. Only(t) /\ tick'[t].stage \in {"compose", "rules"}
    BY BeginOnly
  <1>2. /\ tick[t].stage = "idle" /\ mails' = mails /\ marks' = marks /\ mishaps' = mishaps
        /\ overlaps' = IF Others(t) = {} THEN overlaps ELSE overlaps + 1
    BY Zenon DEF Begin, sent
  <1> DEFINE c == mails[u][w]
  <1>3. /\ c \in Nat /\ overlaps \in Nat /\ mishaps \in Nat
    BY DEF TypeOK
  <1>4. /\ overlaps + mishaps \in Nat
    BY CreditType
  <1>5. c + Cardinality(MailersFor(u, w)) <= 1 + (overlaps + mishaps)
        /\ (MailDone(u, w) \/ c <= overlaps + mishaps)
    BY DEF MailsPaid
  <1>6. ~Mails(t, u, w)'
    BY <1>1 DEF Mails
  <1> HIDE DEF c
  <1>7. CASE w \in marks[u]
    <2>1. MayMail(t, u, w)' => MayMail(t, u, w)
      BY <1>2, <1>6, <1>7 DEF MayMail
    <2>2. overlaps + mishaps <= overlaps' + mishaps'
      BY <1>2, <1>3
    <2> QED
      BY <1>1, <1>2, <2>1, <2>2, MailsAway DEF Marking
  <1>8. CASE Others(t) # {}
    <2>1. MailersFor(u, w) \in SUBSET Runs /\ MailersFor(u, w)' \in SUBSET (MailersFor(u, w) \cup {t})
      BY <1>1, <1>2 DEF MailersFor, Mails, Lists, Only
    <2>2. overlaps' + mishaps' = overlaps + mishaps + 1
      BY <1>2, <1>3, <1>8
    <2>3. c + Cardinality(MailersFor(u, w)') <= 1 + (overlaps + mishaps + 1)
          /\ c <= overlaps + mishaps + 1
      BY <1>3, <1>4, <1>5, <2>1, Joined
    <2> QED
      BY <1>2, <2>2, <2>3 DEF MailsPaid, c
  <1>9. CASE Others(t) = {} /\ w \notin marks[u]
    <2>1. \A s \in Runs : tick[s].stage = "idle"
      BY <1>2, <1>9 DEF Others
    <2>2. MailersFor(u, w)' \in SUBSET {t}
      BY <1>1, <2>1 DEF MailersFor, Mails, Lists, RuleStages, DraftStages, Only
    <2>3. c <= overlaps + mishaps
      BY <1>5, <1>9, <2>1 DEF MailDone, Marking
    <2>4. c + Cardinality(MailersFor(u, w)') <= 1 + (overlaps + mishaps)
      BY <1>3, <1>4, <2>2, <2>3, JoinedAlone
    <2> QED
      BY <1>2, <1>9, <2>3, <2>4 DEF MailsPaid, c
  <1> QED
    BY <1>7, <1>8, <1>9

LEMMA MailsList ==
  ASSUME TypeOK, TypeOK', NEW u \in Units, NEW w \in Windows, MailsPaid(u, w), NEW t \in Runs, List(t)
  PROVE  MailsPaid(u, w)'
  <1>1. /\ Only(t) /\ Sweeps(t) /\ tick'[t].stage # "markMail" /\ tick[t].stage = "list"
        /\ \/ tick'[t] = Idle
           \/ tick'[t].stage = "mail" /\ tick'[t].due = Finds(t)
    BY ListOnly DEF List
  <1>2. mails' = mails /\ marks' = marks /\ overlaps' = overlaps /\ mishaps' = mishaps
    BY DEF List, sent, faults
  <1>3. overlaps + mishaps <= overlaps' + mishaps'
    <2>1. overlaps + mishaps <= overlaps + mishaps
      BY CreditType
    <2> QED
      BY <1>2, <2>1
  <1>4. Lists(t) /\ ~Lists(t)'
    BY <1>1, IdleType DEF Lists, RuleStages, DraftStages
  <1>5. ASSUME Mails(t, u, w)'
        PROVE  w \notin marks[u]
    <2>1. tick'[t].due = Finds(t) /\ tick'[t].due[u] = w
      BY <1>1, <1>5, IdleType DEF Mails
    <2>2. w # 0
      BY DEF Windows
    <2> QED
      BY <2>1, <2>2 DEF Finds, Unreminded
  <1>6. MayMail(t, u, w)' => MayMail(t, u, w)
    BY <1>4, <1>5 DEF MayMail
  <1>7. ~Marking(t, u, w)
    BY <1>1 DEF Marking
  <1> QED
    BY <1>1, <1>2, <1>3, <1>6, <1>7, MailsAway

LEMMA MailsRemind ==
  ASSUME TypeOK, TypeOK', NEW u \in Units, NEW w \in Windows, MailsPaid(u, w),
         NEW t \in Runs, NEW v \in Units, Remind(t, v)
  PROVE  MailsPaid(u, w)'
  <1>1. /\ Only(t) /\ Sweeps(t) /\ tick[t].stage = "mail"
        /\ \/ tick'[t] = Idle
           \/ tick'[t].stage = "mail" /\ tick'[t].due = Without(t, v)
           \/ /\ tick'[t].stage = "markMail" /\ tick'[t].unit = v /\ tick'[t].due = tick[t].due
              /\ mishaps' = mishaps
    BY RemindOnly DEF Remind
  <1>2. marks' = marks /\ overlaps' = overlaps /\ tick[t].due \in [Units -> Windows \cup {0}]
    BY DEF Remind, TypeOK, Tick
  <1> DEFINE c == mails[u][w]
  <1>3. c \in Nat /\ overlaps \in Nat /\ mishaps \in Nat /\ mails \in [Units -> [Windows -> Nat]]
    BY DEF TypeOK
  <1>4. overlaps + mishaps \in Nat
    BY CreditType
  <1>5. PICK taken \in BOOLEAN, ok \in BOOLEAN :
          /\ mishaps' = IF ok THEN mishaps ELSE mishaps + 1
          /\ mails' = IF taken THEN [mails EXCEPT ![v][tick[t].due[v]] = @ + 1] ELSE mails
          /\ ok \/ tick'[t].stage # "markMail"
          /\ ok => tick'[t].stage = "markMail"
    <2>1. PICK taken \in BOOLEAN, ok \in BOOLEAN :
            /\ mishaps' = IF ok THEN mishaps ELSE mishaps + 1
            /\ mails' = IF taken THEN [mails EXCEPT ![v][tick[t].due[v]] = @ + 1] ELSE mails
            /\ tick' = [tick EXCEPT ![t] =
                        IF ok THEN [@ EXCEPT !.stage = "markMail", !.unit = v]
                        ELSE Left(t, Without(t, v))]
      BY DEF Remind, Marked, Without
    <2>2. CASE ok
      <3>1. tick'[t].stage = "markMail"
        BY <2>1, <2>2 DEF TypeOK, Tick
      <3> QED
        BY <2>1, <2>2, <3>1
    <2>3. CASE ~ok
      BY <2>1, <2>3, LeftOnly, WithoutType
    <2> QED
      BY <2>1, <2>2, <2>3
  <1>6. 0 \notin Windows
    BY DEF Windows
  <1>7. ~Lists(t) /\ ~Lists(t)' /\ ~Marking(t, u, w)
    BY <1>1, IdleType DEF Lists, RuleStages, DraftStages, Marking
  <1>8. CASE v # u \/ tick[t].due[u] # w
    <2>1. mails'[u][w] = mails[u][w]
      BY <1>3, <1>5, <1>8
    <2>2. Mails(t, u, w)' => Mails(t, u, w)
      BY <1>1, <1>2, <1>6, <1>8, IdleType DEF Mails, Without
    <2>3. overlaps + mishaps <= overlaps' + mishaps'
      <3>1. overlaps + mishaps <= overlaps + mishaps /\ overlaps + mishaps <= overlaps + (mishaps + 1)
        BY <1>3
      <3> QED
        BY <1>2, <1>5, <3>1
    <2> QED
      BY <1>1, <1>2, <1>7, <2>1, <2>2, <2>3, MailsAway DEF MayMail
  <1>9. CASE v = u /\ tick[t].due[u] = w
    <2>1. MailersFor(u, w) \in SUBSET Runs /\ t \in MailersFor(u, w)
      BY <1>1, <1>9 DEF MailersFor, Mails
    <2>2. ~Mails(t, u, w)'
      BY <1>1, <1>2, <1>6, <1>9, IdleType DEF Mails, Without
    <2>3. MailersFor(u, w)' \in SUBSET (MailersFor(u, w) \ {t})
      BY <1>1, <1>2, <1>7, <2>2 DEF MailersFor, Mails, Lists, Only
    <2>4. c + Cardinality(MailersFor(u, w)) <= 1 + (overlaps + mishaps)
      BY DEF MailsPaid
    <2>5. mails'[u][w] \in {c, c + 1}
      BY <1>3, <1>5, <1>9
    <2>6. ok => MailDone(u, w)'
      BY <1>1, <1>5, <1>9, IdleType DEF MailDone, Marking
    <2>7. mishaps' = mishaps \/ mishaps' = mishaps + 1
      BY <1>5
    <2>8. ~ok => mishaps' = mishaps + 1
      BY <1>5
    <2> HIDE DEF c
    <2>9. c + 1 + Cardinality(MailersFor(u, w)') <= 1 + (overlaps + mishaps) /\ c <= overlaps + mishaps
      BY <1>3, <1>4, <2>1, <2>3, <2>4, Sent
    <2>10. Cardinality(MailersFor(u, w)') \in Nat
      BY <2>1, <2>3, OneOut
    <2>11. /\ c + 1 + Cardinality(MailersFor(u, w)') <= 1 + (overlaps + (mishaps + 1))
           /\ c + Cardinality(MailersFor(u, w)') <= 1 + (overlaps + mishaps)
           /\ c + Cardinality(MailersFor(u, w)') <= 1 + (overlaps + (mishaps + 1))
           /\ c + 1 <= overlaps + (mishaps + 1) /\ c <= overlaps + (mishaps + 1)
      BY <1>3, <2>9, <2>10
    <2>12. mails'[u][w] + Cardinality(MailersFor(u, w)') <= 1 + (overlaps' + mishaps')
      <3>1. CASE mails'[u][w] = c /\ mishaps' = mishaps
        BY <1>2, <2>11, <3>1
      <3>2. CASE mails'[u][w] = c /\ mishaps' = mishaps + 1
        BY <1>2, <2>11, <3>2
      <3>3. CASE mails'[u][w] = c + 1 /\ mishaps' = mishaps
        BY <1>2, <2>9, <3>3
      <3>4. CASE mails'[u][w] = c + 1 /\ mishaps' = mishaps + 1
        BY <1>2, <2>11, <3>4
      <3> QED
        BY <2>5, <2>7, <3>1, <3>2, <3>3, <3>4
    <2>13. ~ok => mails'[u][w] <= overlaps' + mishaps'
      BY <1>2, <2>5, <2>8, <2>11
    <2> QED
      BY <2>6, <2>12, <2>13 DEF MailsPaid
  <1> QED
    BY <1>8, <1>9

LEMMA MailsMark ==
  ASSUME TypeOK, TypeOK', NEW u \in Units, NEW w \in Windows, MailsPaid(u, w), NEW t \in Runs, MarkMail(t)
  PROVE  MailsPaid(u, w)'
  <1> DEFINE v == tick[t].unit
  <1>1. /\ Only(t) /\ Sweeps(t) /\ tick'[t].stage # "markMail" /\ tick[t].stage = "markMail"
        /\ \/ tick'[t] = Idle
           \/ tick'[t].stage = "mail" /\ tick'[t].due = Without(t, v)
        /\ v \in Units /\ tick[t].due[v] \in Windows
    BY MarkMailOnly DEF MarkMail
  <1>2. /\ mails' = mails /\ overlaps' = overlaps /\ mishaps' = mishaps
        /\ marks' = [marks EXCEPT ![v] = @ \cup {tick[t].due[v]}]
    BY DEF MarkMail, faults
  <1>3. marks \in [Units -> SUBSET Windows] /\ tick[t].due \in [Units -> Windows \cup {0}]
    BY DEF TypeOK, Tick
  <1>4. overlaps + mishaps <= overlaps' + mishaps'
    <2>1. overlaps + mishaps <= overlaps + mishaps
      BY CreditType
    <2> QED
      BY <1>2, <2>1
  <1>5. marks[u] \subseteq marks'[u]
    BY <1>2, <1>3
  <1>6. Marking(t, u, w) => w \in marks'[u]
    BY <1>2, <1>3 DEF Marking
  <1>7. ~Lists(t)'
    BY <1>1, IdleType DEF Lists, RuleStages, DraftStages
  <1>8. Mails(t, u, w)' => Mails(t, u, w)
    <2>1. 0 \notin Windows
      BY DEF Windows
    <2> QED
      BY <1>1, <1>3, <2>1, IdleType DEF Mails, Without
  <1>9. MayMail(t, u, w)' => MayMail(t, u, w)
    BY <1>7, <1>8 DEF MayMail
  <1> QED
    BY <1>1, <1>2, <1>4, <1>5, <1>6, <1>9, MailsAway

LEMMA MailsStep ==
  ASSUME TypeOK, TypeOK', NEW u \in Units, NEW w \in Windows, MailsPaid(u, w), Next
  PROVE  MailsPaid(u, w)'
  <1> USE DEF trials, sent, letter, rule, faults
  <1>0. /\ overlaps \in Nat /\ mishaps \in Nat /\ overlaps + mishaps <= overlaps + mishaps
        /\ overlaps + mishaps <= overlaps + (mishaps + 1)
        /\ overlaps + mishaps + 1 <= overlaps + (mishaps + 1)
    <2>1. overlaps \in Nat /\ mishaps \in Nat
      BY DEF TypeOK
    <2> QED
      BY <2>1
  <1>1. CASE Passes
    BY <1>1, MailsOutside DEF Passes
  <1>2. ASSUME NEW v \in Units, Settles(v) \/ ExtendTrial(v) PROVE MailsPaid(u, w)'
    BY <1>2, MailsOutside DEF Settles, ExtendTrial
  <1>3. ASSUME NEW m \in Times, Leader(m) PROVE MailsPaid(u, w)'
    BY <1>3, MailsOutside DEF Leader
  <1>4. ASSUME NEW t \in Runs, Begin(t) PROVE MailsPaid(u, w)'
    BY <1>4, MailsBegin
  <1>5. ASSUME NEW t \in Runs, StatementFails(t) \/ Dies(t) PROVE MailsPaid(u, w)'
    <2>1. Only(t) /\ (tick'[t].stage = "idle" \/ (Lists(t) /\ Lists(t)'))
      BY <1>5, FailsOnly, DiesOnly, IdleType DEF Lists, RuleStages, DraftStages
    <2>2. mails' = mails /\ marks' = marks /\ overlaps' = overlaps /\ mishaps' = mishaps + 1
      BY <1>5 DEF StatementFails, Dies
    <2> QED
      BY <1>0, <2>1, <2>2, MailsBefore
  <1>6. ASSUME NEW t \in Runs, Steps(t) PROVE MailsPaid(u, w)'
    <2> USE DEF Lists, RuleStages, DraftStages
    <2>1. CASE Compose(t)
      <3>1. Only(t) /\ Lists(t) /\ Lists(t)' /\ tick[t].stage # "markMail"
        BY <2>1, ComposeOnly DEF Compose
      <3>2. mails' = mails /\ marks' = marks /\ overlaps' = overlaps /\ mishaps' = mishaps
        BY <2>1 DEF Compose
      <3> QED
        BY <1>0, <3>1, <3>2, MailsBefore
    <2>2. CASE Create(t)
      <3>1. Only(t) /\ Lists(t) /\ Lists(t)' /\ tick[t].stage # "markMail"
        BY <2>2, CreateOnly DEF Create
      <3>2. mails' = mails /\ marks' = marks /\ overlaps' = overlaps /\ mishaps' = mishaps
        BY <2>2 DEF Create
      <3> QED
        BY <1>0, <3>1, <3>2, MailsBefore
    <2>3. CASE MarkDraft(t)
      <3>1. Only(t) /\ Lists(t) /\ Lists(t)' /\ tick[t].stage # "markMail"
        BY <2>3, MarkDraftOnly DEF MarkDraft
      <3>2. mails' = mails /\ marks' = marks /\ overlaps' = overlaps /\ mishaps' = mishaps
        BY <2>3 DEF MarkDraft
      <3> QED
        BY <1>0, <3>1, <3>2, MailsBefore
    <2>4. CASE Rules(t)
      <3>1. Only(t) /\ Lists(t) /\ Lists(t)' /\ tick[t].stage # "markMail"
        BY <2>4, RulesOnly DEF Rules
      <3>2. mails' = mails /\ marks' = marks /\ overlaps' = overlaps
            /\ mishaps' \in {mishaps, mishaps + 1}
        BY <2>4 DEF Rules
      <3>3. overlaps + mishaps <= overlaps' + mishaps'
        BY <1>0, <3>2
      <3> QED
        BY <3>1, <3>2, <3>3, MailsBefore
    <2>5. CASE MarkRule(t)
      <3>1. Only(t) /\ Lists(t) /\ Lists(t)' /\ tick[t].stage # "markMail"
        BY <2>5, MarkRuleOnly DEF MarkRule
      <3>2. mails' = mails /\ marks' = marks /\ overlaps' = overlaps /\ mishaps' = mishaps
        BY <2>5 DEF MarkRule
      <3> QED
        BY <1>0, <3>1, <3>2, MailsBefore
    <2>6. CASE List(t)
      BY <2>6, MailsList
    <2>7. ASSUME NEW v \in Units, Remind(t, v) PROVE MailsPaid(u, w)'
      BY <2>7, MailsRemind
    <2>8. CASE MarkMail(t)
      BY <2>8, MailsMark
    <2> QED
      BY <1>6, <2>1, <2>2, <2>3, <2>4, <2>5, <2>6, <2>7, <2>8 DEF Steps
  <1> QED
    BY <1>1, <1>2, <1>3, <1>4, <1>5, <1>6 DEF Next

-----------------------------------------------------------------------------
LEMMA InitPaid == Init => AllPaid
  <1> SUFFICES ASSUME Init PROVE AllPaid
    OBVIOUS
  <1>1. TypeOK
    BY InitType
  <1>2. \A t \in Runs : tick[t].stage = "idle"
    BY IdleType DEF Init
  <1>3. ASSUME NEW n \in Times
        PROVE  DraftsPaid(n) /\ NudgesPaid(n)
    <2>1. DraftersFor(n) = {} /\ NudgersFor(n) = {}
      BY <1>2 DEF DraftersFor, DraftsLate, NudgersFor, Stale, Nudges, RuleStages, DraftStages
    <2>2. drafts[n] = 0 /\ nudges[n] = 0 /\ overlaps = 0 /\ mishaps = 0
      BY DEF Init
    <2>3. Cardinality(DraftersFor(n)) = 0 /\ Cardinality(NudgersFor(n)) = 0
      BY <2>1, FS_EmptySet
    <2> QED
      BY <2>2, <2>3 DEF DraftsPaid, NudgesPaid
  <1>4. ASSUME NEW u \in Units, NEW w \in Windows
        PROVE  MailsPaid(u, w)
    <2>1. MailersFor(u, w) = {}
      BY <1>2 DEF MailersFor, Mails, Lists, RuleStages, DraftStages
    <2>2. mails[u][w] = 0 /\ overlaps = 0 /\ mishaps = 0
      BY DEF Init
    <2>3. Cardinality(MailersFor(u, w)) = 0
      BY <2>1, FS_EmptySet
    <2> QED
      BY <2>2, <2>3 DEF MailsPaid
  <1> QED
    BY <1>1, <1>3, <1>4 DEF AllPaid

LEMMA NextPaid == AllPaid /\ [Next]_vars => AllPaid'
  <1> SUFFICES ASSUME AllPaid, [Next]_vars PROVE AllPaid'
    OBVIOUS
  <1>1. TypeOK /\ TypeOK'
    BY NextType DEF AllPaid
  <1>2. ASSUME NEW n \in Times
        PROVE  DraftsPaid(n)' /\ NudgesPaid(n)'
    BY <1>1, <1>2, DraftsStep, NudgesStep, DraftsOutside, NudgesOutside DEF AllPaid, vars
  <1>3. ASSUME NEW u \in Units, NEW w \in Windows
        PROVE  MailsPaid(u, w)'
    BY <1>1, <1>3, MailsStep, MailsOutside DEF AllPaid, vars
  <1> QED
    BY <1>1, <1>2, <1>3 DEF AllPaid

LEMMA PaidMeansFew == AllPaid => FewRepeats
  <1> SUFFICES ASSUME AllPaid PROVE FewRepeats
    OBVIOUS
  <1>1. overlaps \in Nat /\ mishaps \in Nat
    BY DEF AllPaid, TypeOK
  <1>2. ASSUME NEW n \in Times
        PROVE  drafts[n] <= 1 + overlaps + mishaps /\ nudges[n] <= 1 + overlaps + mishaps
    <2>1. Cardinality(DraftersFor(n)) \in Nat /\ Cardinality(NudgersFor(n)) \in Nat
      BY Fewer DEF DraftersFor, NudgersFor
    <2>2. drafts[n] \in Nat /\ nudges[n] \in Nat
      BY DEF AllPaid, TypeOK
    <2>3. DraftsPaid(n) /\ NudgesPaid(n)
      BY DEF AllPaid
    <2> QED
      BY <1>1, <2>1, <2>2, <2>3 DEF DraftsPaid, NudgesPaid
  <1>3. ASSUME NEW u \in Units, NEW w \in Windows
        PROVE  mails[u][w] <= 1 + overlaps + mishaps
    <2> DEFINE c == mails[u][w]
    <2>1. Cardinality(MailersFor(u, w)) \in Nat
      BY Fewer DEF MailersFor
    <2>2. c \in Nat
      BY DEF AllPaid, TypeOK
    <2>3. c + Cardinality(MailersFor(u, w)) <= 1 + (overlaps + mishaps)
      BY DEF AllPaid, MailsPaid
    <2> HIDE DEF c
    <2>4. c <= 1 + overlaps + mishaps
      BY <1>1, <2>1, <2>2, <2>3
    <2> QED
      BY <2>4 DEF c
  <1> QED
    BY <1>2, <1>3 DEF FewRepeats

\* However many ticks run at once, die or fail, no week gets more drafts, no
\* floor more rounds of nudges and no owner more reminders for a window than
\* one, and one for each tick that overlapped and each thing that went wrong.
THEOREM RepeatsAreFew == Spec => []FewRepeats
  <1>1. Spec => []AllPaid
    BY InitPaid, NextPaid, PTL DEF Spec
  <1> QED
    BY <1>1, PaidMeansFew, PTL
=============================================================================
