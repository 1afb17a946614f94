--------------------------- MODULE MailingProofs ---------------------------
(***************************************************************************)
(* Mailing, for any recipients, any workers and any bounds: the fields     *)
(* keep their types, nobody is mailed more often than once and once for    *)
(* each mishap, a broadcast with nothing left to do has a final status,    *)
(* and one that nothing went wrong with is closed on all its answers.      *)
(***************************************************************************)
EXTENDS Mailing, FiniteSetTheorems, TLAPS

\* Of the places a handler runs only s changes.
Only(s) ==
    /\ run' \in [Senders -> Run]
    /\ \A t \in Senders \ {s} : run'[t] = run[t]

\* The handler at s goes from one stage to another, for the same recipient.
Moves(s, from, to) ==
    /\ Only(s)
    /\ run[s].stage = from /\ run'[s].stage = to /\ run'[s].to = run[s].to

LEMMA IdleType == Idle \in Run /\ Idle.stage = "idle" /\ Idle.to = "nobody"
  BY DEF Idle, Run, Stages, Verdicts

LEMMA StartsOnly ==
  ASSUME TypeOK, NEW s \in Senders, NEW r \in Recipients, Starts(s, r)
  PROVE  Only(s) /\ run'[s].stage = "send" /\ run'[s].to = r
  <1>1. [Idle EXCEPT !.stage = "send", !.to = r] \in Run
    BY DEF Idle, Run, Stages, Verdicts
  <1>2. [Idle EXCEPT !.stage = "send", !.to = r].stage = "send"
        /\ [Idle EXCEPT !.stage = "send", !.to = r].to = r
    BY DEF Idle
  <1> QED
    BY <1>1, <1>2 DEF TypeOK, Only, Starts

LEMMA SendOnly ==
  ASSUME TypeOK, NEW s \in Senders, SendMail(s)
  PROVE  /\ Moves(s, "send", "count")
         /\ \/ inbox' = inbox
            \/ inbox' = [inbox EXCEPT ![run[s].to] = @ + 1]
  <1>1. PICK taken \in BOOLEAN, ok \in BOOLEAN :
          /\ inbox' = [inbox EXCEPT ![run[s].to] = IF taken THEN @ + 1 ELSE @]
          /\ run' = [run EXCEPT ![s].stage = "count", ![s].ok = ok]
    BY DEF SendMail
  <1>2. run[s].stage = "send"
    BY DEF SendMail
  <1>3. Moves(s, "send", "count")
    BY <1>1, <1>2 DEF TypeOK, Only, Moves, Run, Stages
  <1>4. CASE taken
    BY <1>1, <1>3, <1>4
  <1>5. CASE ~taken
    <2>1. inbox' = [inbox EXCEPT ![run[s].to] = @]
      BY <1>1, <1>5
    <2> QED
      BY <2>1, <1>3 DEF TypeOK
  <1> QED
    BY <1>4, <1>5

LEMMA CountOnly ==
  ASSUME TypeOK, NEW s \in Senders, Count(s)
  PROVE  Moves(s, "count", "look")
  BY DEF TypeOK, Count, Only, Moves, Run, Stages

LEMMA LookOnly ==
  ASSUME TypeOK, NEW s \in Senders, Look(s)
  PROVE  \/ /\ log.status = "queued" /\ AllAnswered /\ Moves(s, "look", "close")
            /\ run'[s].verdict = Verdict
         \/ /\ ~(log.status = "queued" /\ AllAnswered) /\ Moves(s, "look", "finish")
  <1>1. Verdict \in Verdicts
    BY DEF Verdict, Verdicts
  <1>2. CASE log.status = "queued" /\ AllAnswered
    BY <1>1, <1>2 DEF TypeOK, Look, Only, Moves, Run, Stages
  <1>3. CASE ~(log.status = "queued" /\ AllAnswered)
    BY <1>3 DEF TypeOK, Look, Reaches, Only, Moves, Run, Stages
  <1> QED
    BY <1>2, <1>3

LEMMA CloseOnly ==
  ASSUME TypeOK, NEW s \in Senders, Close(s)
  PROVE  Moves(s, "close", "finish")
  BY DEF TypeOK, Close, Only, Moves, Run, Stages, Verdicts

LEMMA FinishOnly ==
  ASSUME TypeOK, NEW s \in Senders, Finish(s)
  PROVE  Only(s) /\ run[s].stage = "finish" /\ run'[s] = Idle
  BY IdleType DEF TypeOK, Finish, Only

LEMMA WorkerFailsOnly ==
  ASSUME TypeOK, NEW w \in Workers, WorkerFails(w)
  PROVE  Only(w) /\ run'[w] = Idle
  BY IdleType DEF TypeOK, WorkerFails, Only, Senders

LEMMA RequestFailsOnly ==
  ASSUME TypeOK, RequestFails
  PROVE  Only(Web) /\ run'[Web] = Idle
  BY IdleType DEF TypeOK, RequestFails, Only, Senders

-----------------------------------------------------------------------------
\* Types.  A handler runs for somebody on the list, a job is for somebody on
\* the list, and a job a worker has is active and no other worker's.
Busy(s) == run[s].stage # "idle"

ForTheList ==
    /\ \A s \in Senders : Busy(s) => run[s].to \in audience
    /\ \A r \in Recipients : queue[r] # "none" => r \in audience

OneWorkerEach ==
    /\ \A w \in Workers : Busy(w) => queue[run[w].to] = "active"
    /\ \A v \in Workers, w \in Workers :
          Busy(v) /\ Busy(w) /\ run[v].to = run[w].to => v = w

\* The request hands out what is on its list, and runs its handlers while it
\* goes over it.
RequestFirst ==
    /\ web = "new" => todo = {} /\ \A r \in Recipients : queue[r] = "none"
    /\ \A r \in todo : queue[r] = "none"
    /\ Busy(Web) => web = "loop"

Tidy == TypeOK /\ ForTheList /\ OneWorkerEach /\ RequestFirst

LEMMA InitTidy ==
  ASSUME Init
  PROVE  Tidy
  <1>1. TypeOK
    BY IdleType DEF Init, TypeOK, Verdicts
  <1>2. \A s \in Senders : run[s].stage = "idle"
    BY IdleType DEF Init
  <1>3. ForTheList /\ OneWorkerEach
    BY <1>2 DEF Init, ForTheList, OneWorkerEach, Busy, Senders
  <1>4. RequestFirst
    BY <1>2 DEF Init, RequestFirst, Busy, Senders
  <1> QED
    BY <1>1, <1>3, <1>4 DEF Tidy

LEMMA ComposeTidy ==
  ASSUME Tidy, Compose
  PROVE  Tidy'
  <1>1. TypeOK'
    BY DEF Tidy, TypeOK, Compose, jobVars, Listed
  <1>2. ForTheList' /\ OneWorkerEach'
    BY DEF Tidy, ForTheList, OneWorkerEach, Busy, Compose, jobVars
  <1>3. RequestFirst'
    BY DEF Tidy, TypeOK, RequestFirst, Busy, Compose, Listed, jobVars
  <1> QED
    BY <1>1, <1>2, <1>3 DEF Tidy

\* Enqueue leaves the run of the workers alone, and the request's is idle
\* before it.
LEMMA EnqueueOnly ==
  ASSUME Tidy, NEW r \in Recipients, Enqueue(r)
  PROVE  /\ Only(Web) /\ ~Busy(Web) /\ web = "loop" /\ r \in todo
         /\ \/ run' = run /\ queue' = [queue EXCEPT ![r] = "waiting"] /\ mishaps' = mishaps
            \/ /\ run'[Web].stage = "send" /\ run'[Web].to = r
               /\ \/ queue' = queue /\ mishaps' = mishaps
                  \/ queue' = [queue EXCEPT ![r] = "waiting"] /\ mishaps' = mishaps + 1
  <1>1. ~Busy(Web) /\ r \in todo /\ web = "loop"
    BY DEF Enqueue, Busy
  <1>2. CASE Starts(Web, r)
    <2>1. Only(Web) /\ run'[Web].stage = "send" /\ run'[Web].to = r
      BY <1>2, StartsOnly DEF Tidy, Senders
    <2>2. \/ queue' = queue /\ mishaps' = mishaps
          \/ queue' = [queue EXCEPT ![r] = "waiting"] /\ mishaps' = mishaps + 1
          \/ queue' = [queue EXCEPT ![r] = "waiting"] /\ mishaps' = mishaps /\ run' = run
      BY DEF Enqueue, LeftToQueue
    <2>3. run' # run
      BY <1>1, <2>1 DEF Busy
    <2> QED
      BY <1>1, <2>1, <2>2, <2>3
  <1>3. CASE ~Starts(Web, r)
    <2>1. run' = run /\ queue' = [queue EXCEPT ![r] = "waiting"] /\ mishaps' = mishaps
      BY <1>3 DEF Enqueue, LeftToQueue
    <2>2. Only(Web)
      BY <2>1 DEF Only, Tidy, TypeOK
    <2> QED
      BY <1>1, <2>1, <2>2
  <1> QED
    BY <1>2, <1>3

LEMMA EnqueueTidy ==
  ASSUME Tidy, NEW r \in Recipients, Enqueue(r)
  PROVE  Tidy'
  <1>1. /\ Only(Web) /\ ~Busy(Web) /\ web = "loop" /\ r \in todo
        /\ run' = run \/ run'[Web].to = r
        /\ queue' = queue \/ queue' = [queue EXCEPT ![r] = "waiting"]
        /\ mishaps' = mishaps \/ mishaps' = mishaps + 1
    BY EnqueueOnly
  <1>2. todo' = todo \ {r} /\ UNCHANGED <<audience, runtime, log, web, tries, inbox, counted>>
    BY DEF Enqueue
  <1>3. r \in audience /\ TypeOK'
    BY <1>1, <1>2 DEF Tidy, TypeOK, Only
  <1>4. ForTheList'
    BY <1>1, <1>2, <1>3 DEF Tidy, TypeOK, ForTheList, Busy, Only, Senders
  <1>5. \A w \in Workers : run'[w] = run[w] /\ w # Web
    BY <1>1, MailingAssumption DEF Only, Senders
  <1>6. OneWorkerEach'
    <2>1. queue[r] = "none"
      BY <1>1 DEF Tidy, RequestFirst
    <2>2. \A w \in Workers : Busy(w) => queue'[run[w].to] = "active"
      BY <1>1, <2>1 DEF Tidy, TypeOK, ForTheList, OneWorkerEach, Senders
    <2> QED
      BY <1>5, <2>2 DEF Tidy, OneWorkerEach, Busy
  <1>7. RequestFirst'
    <2>1. \A t \in todo' : queue'[t] = "none"
      BY <1>1, <1>2 DEF Tidy, TypeOK, RequestFirst
    <2> QED
      BY <1>1, <1>2, <2>1 DEF RequestFirst
  <1> QED
    BY <1>3, <1>4, <1>6, <1>7 DEF Tidy

LEMMA AnsweredTidy ==
  ASSUME Tidy, Answered
  PROVE  Tidy'
  <1>1. TypeOK' /\ ForTheList' /\ OneWorkerEach'
    BY DEF Tidy, TypeOK, ForTheList, OneWorkerEach, Busy, Answered, jobVars
  <1>2. RequestFirst'
    BY DEF Tidy, RequestFirst, Busy, Answered, jobVars
  <1> QED
    BY <1>1, <1>2 DEF Tidy

LEMMA FetchOnly ==
  ASSUME Tidy, NEW w \in Workers, NEW r \in Recipients, Fetch(w, r)
  PROVE  /\ Only(w) /\ ~Busy(w) /\ run'[w].stage = "send" /\ run'[w].to = r
         /\ queue[r] = "waiting" /\ r \in audience
         /\ queue' = [queue EXCEPT ![r] = "active"]
         /\ UNCHANGED <<audience, web, todo, log, inbox, counted, mishaps>>
  BY StartsOnly DEF Fetch, Busy, Tidy, ForTheList, Senders, requestVars

LEMMA FetchTidy ==
  ASSUME Tidy, NEW w \in Workers, NEW r \in Recipients, Fetch(w, r)
  PROVE  Tidy'
  <1>1. /\ Only(w) /\ ~Busy(w) /\ run'[w].stage = "send" /\ run'[w].to = r
        /\ queue[r] = "waiting" /\ r \in audience
        /\ queue' = [queue EXCEPT ![r] = "active"]
        /\ UNCHANGED <<audience, web, todo, log, inbox, counted, mishaps>>
    BY FetchOnly
  <1>2. w # Web /\ w \in Senders /\ Web \in Senders
    BY MailingAssumption DEF Senders
  <1>3. TypeOK'
    BY <1>1 DEF Tidy, TypeOK, Only, Fetch
  <1>4. ForTheList'
    BY <1>1, <1>2 DEF Tidy, TypeOK, ForTheList, Busy, Only
  <1>5. OneWorkerEach'
    <2>1. \A v \in Workers : Busy(v) => run[v].to # r
      BY <1>1 DEF Tidy, OneWorkerEach
    <2>2. \A v \in Workers \ {w} : run'[v] = run[v]
      BY <1>1 DEF Only, Senders
    <2>3. \A v \in Workers : Busy(v)' => queue'[run'[v].to] = "active"
      BY <1>1, <2>1, <2>2 DEF Tidy, TypeOK, OneWorkerEach, Busy
    <2>4. \A v \in Workers, u \in Workers :
             Busy(v)' /\ Busy(u)' /\ run'[v].to = run'[u].to => v = u
      BY <1>1, <2>1, <2>2 DEF Tidy, OneWorkerEach, Busy
    <2> QED
      BY <2>3, <2>4 DEF OneWorkerEach
  <1>6. RequestFirst'
    BY <1>1, <1>2 DEF Tidy, TypeOK, RequestFirst, Busy, Only
  <1> QED
    BY <1>3, <1>4, <1>5, <1>6 DEF Tidy

\* A handler goes on, for the same recipient, and no job changes.
LEMMA MovesTidy ==
  ASSUME Tidy, TypeOK', NEW s \in Senders, NEW from \in Stages \ {"idle"}, NEW to \in Stages \ {"idle"},
         Moves(s, from, to), UNCHANGED <<audience, web, todo, queue>>
  PROVE  Tidy'
  <1>1. \A t \in Senders : run'[t].to = run[t].to /\ (Busy(t)' <=> Busy(t))
    BY DEF Moves, Only, Busy
  <1>2. ForTheList' /\ OneWorkerEach'
    BY <1>1 DEF Tidy, ForTheList, OneWorkerEach, Busy, Senders
  <1>3. RequestFirst'
    BY <1>1 DEF Tidy, RequestFirst, Busy, Senders
  <1> QED
    BY <1>2, <1>3 DEF Tidy

\* A handler ends; if it was a worker's, its job is no longer active.
LEMMA EndsTidy ==
  ASSUME Tidy, TypeOK', NEW s \in Senders, Busy(s), Only(s), run'[s] = Idle,
         UNCHANGED <<audience, todo>>,
         web' = web \/ (s = Web /\ web' = "lost"),
         NEW state \in {"completed", "failed", "waiting"},
         queue' = IF s = Web THEN queue ELSE [queue EXCEPT ![run[s].to] = state]
  PROVE  Tidy'
  <1>1. run[s].to \in audience /\ ~Busy(s)'
    BY IdleType DEF Tidy, ForTheList, Busy
  <1>2. \A t \in Senders : Busy(t)' => t # s /\ Busy(t) /\ run'[t] = run[t]
    BY <1>1 DEF Only, Busy
  <1>3. ForTheList'
    BY <1>1, <1>2 DEF Tidy, TypeOK, ForTheList, Busy
  <1>4. \A v \in Workers : Busy(v)' => queue'[run[v].to] = "active"
    BY <1>2 DEF Tidy, TypeOK, OneWorkerEach, Senders
  <1>5. OneWorkerEach'
    BY <1>2, <1>4 DEF Tidy, OneWorkerEach, Busy, Senders
  <1>6. s # Web => web # "new" /\ \A r \in todo : r # run[s].to
    BY <1>1 DEF Tidy, TypeOK, RequestFirst, OneWorkerEach, Senders
  <1>7. Busy(Web)' => web' = "loop"
    <2>1. CASE s = Web
      BY <1>1, <2>1
    <2>2. CASE s # Web
      BY <1>2, <2>2 DEF Tidy, RequestFirst, Senders
    <2> QED
      BY <2>1, <2>2
  <1>8. RequestFirst'
    <2>1. CASE s = Web
      BY <1>7, <2>1 DEF Tidy, RequestFirst
    <2>2. CASE s # Web
      BY <1>6, <1>7, <2>2 DEF Tidy, TypeOK, RequestFirst
    <2> QED
      BY <2>1, <2>2
  <1> QED
    BY <1>3, <1>5, <1>8 DEF Tidy

LEMMA SendTidy ==
  ASSUME Tidy, NEW s \in Senders, SendMail(s)
  PROVE  Tidy'
  <1>1. Moves(s, "send", "count") /\ (inbox' = inbox \/ inbox' = [inbox EXCEPT ![run[s].to] = @ + 1])
    BY SendOnly DEF Tidy
  <1>2. UNCHANGED <<audience, runtime, log, web, todo, queue, tries, counted, mishaps>>
    BY DEF SendMail, requestVars, jobVars
  <1>3. inbox' \in [Recipients -> Nat]
    BY <1>1 DEF Tidy, TypeOK
  <1>4. TypeOK'
    BY <1>1, <1>2, <1>3 DEF Tidy, TypeOK, Moves, Only
  <1> QED
    BY <1>1, <1>2, <1>4, MovesTidy DEF Stages

LEMMA CountTidy ==
  ASSUME Tidy, NEW s \in Senders, Count(s)
  PROVE  Tidy'
  <1>1. Moves(s, "count", "look")
    BY CountOnly DEF Tidy
  <1>2. UNCHANGED <<audience, runtime, web, todo, queue, tries, inbox, mishaps>>
    BY DEF Count, requestVars, jobVars
  <1>3. run[s].to \in audience
    BY <1>1 DEF Tidy, ForTheList, Busy, Moves
  <1>4. log' \in [status : Verdicts \cup {"none", "queued"}, delivered : Nat, failed : Nat]
    <2>1. CASE run[s].ok
      BY <2>1 DEF Tidy, TypeOK, Count
    <2>2. CASE ~run[s].ok
      BY <2>2 DEF Tidy, TypeOK, Count
    <2> QED
      BY <2>1, <2>2
  <1>5. TypeOK'
    BY <1>1, <1>2, <1>3, <1>4 DEF Tidy, TypeOK, Moves, Only, Count
  <1> QED
    BY <1>1, <1>2, <1>5, MovesTidy DEF Stages

LEMMA LookTidy ==
  ASSUME Tidy, NEW s \in Senders, Look(s)
  PROVE  Tidy'
  <1>1. PICK to \in {"close", "finish"} : Moves(s, "look", to)
    BY LookOnly DEF Tidy
  <1>2. UNCHANGED <<audience, runtime, log, web, todo, queue, tries, inbox, counted, mishaps>>
    BY DEF Look, requestVars, jobVars
  <1>3. TypeOK'
    BY <1>1, <1>2 DEF Tidy, TypeOK, Moves, Only
  <1> QED
    BY <1>1, <1>2, <1>3, MovesTidy DEF Stages

LEMMA CloseTidy ==
  ASSUME Tidy, NEW s \in Senders, Close(s)
  PROVE  Tidy'
  <1>1. Moves(s, "close", "finish")
    BY CloseOnly DEF Tidy
  <1>2. UNCHANGED <<audience, runtime, web, todo, queue, tries, inbox, counted, mishaps>>
    BY DEF Close, requestVars, jobVars
  <1>3. run[s].verdict \in Verdicts
    BY DEF Tidy, TypeOK, Run
  <1>4. log' \in [status : Verdicts \cup {"none", "queued"}, delivered : Nat, failed : Nat]
    BY <1>3 DEF Tidy, TypeOK, Close
  <1>5. TypeOK'
    BY <1>1, <1>2, <1>4 DEF Tidy, TypeOK, Moves, Only
  <1> QED
    BY <1>1, <1>2, <1>5, MovesTidy DEF Stages

LEMMA FinishTidy ==
  ASSUME Tidy, NEW s \in Senders, Finish(s)
  PROVE  Tidy'
  <1>1. Only(s) /\ run[s].stage = "finish" /\ run'[s] = Idle
    BY FinishOnly DEF Tidy
  <1>2. UNCHANGED <<audience, runtime, log, web, todo, tries, inbox, counted, mishaps>>
        /\ queue' = IF s = Web THEN queue ELSE [queue EXCEPT ![run[s].to] = "completed"]
    BY DEF Finish, requestVars
  <1>3. TypeOK'
    BY <1>1, <1>2 DEF Tidy, TypeOK, Only
  <1> QED
    BY <1>1, <1>2, <1>3, EndsTidy DEF Busy

LEMMA FailTidy ==
  ASSUME Tidy, RequestFails \/ \E w \in Workers : WorkerFails(w)
  PROVE  Tidy'
  <1>1. CASE RequestFails
    <2>1. Only(Web) /\ run'[Web] = Idle /\ Web \in Senders
      BY <1>1, RequestFailsOnly DEF Tidy, Senders
    <2>2. TypeOK'
      BY <1>1, <2>1 DEF Tidy, TypeOK, Only, RequestFails, jobVars
    <2>3. \A s \in Workers : run'[s] = run[s]
      BY <2>1, MailingAssumption DEF Only, Senders
    <2>4. \A s \in Senders : Busy(s)' => Busy(s) /\ run'[s] = run[s] /\ s # Web
      BY <2>1, IdleType DEF Only, Busy
    <2>5. ForTheList' /\ OneWorkerEach' /\ RequestFirst'
      BY <1>1, <2>1, <2>3, <2>4 DEF Tidy, ForTheList, OneWorkerEach, RequestFirst, RequestFails, jobVars, Busy
    <2> QED
      BY <2>2, <2>5 DEF Tidy
  <1>2. ASSUME NEW w \in Workers, WorkerFails(w)
        PROVE  Tidy'
    <2>1. Only(w) /\ run'[w] = Idle /\ w \in Senders /\ w # Web /\ Busy(w)
      BY <1>2, WorkerFailsOnly, MailingAssumption DEF Tidy, Senders, Busy, WorkerFails
    <2>2. PICK state \in {"failed", "waiting"} : queue' = [queue EXCEPT ![run[w].to] = state]
      BY <1>2 DEF WorkerFails, Again
    <2>3. UNCHANGED <<audience, runtime, log, web, todo, tries, inbox, counted>> /\ mishaps' = mishaps + 1
      BY <1>2 DEF WorkerFails, requestVars
    <2>4. queue' \in [Recipients -> {"none", "waiting", "active", "completed", "failed"}]
      BY <2>2 DEF Tidy, TypeOK
    <2>5. TypeOK'
      BY <2>1, <2>3, <2>4 DEF Tidy, TypeOK, Only
    <2> QED
      BY <2>1, <2>2, <2>3, <2>5, EndsTidy
  <1> QED
    BY <1>1, <1>2

\* One step of the broadcast, by what it does.
LEMMA StepCases ==
  ASSUME [Next]_vars
  PROVE  \/ Compose \/ Answered \/ UNCHANGED vars
         \/ RequestFails \/ \E w \in Workers : WorkerFails(w)
         \/ \E r \in Recipients : Enqueue(r)
         \/ \E w \in Workers, r \in Recipients : Fetch(w, r)
         \/ \E s \in Senders : SendMail(s)
         \/ \E s \in Senders : Count(s)
         \/ \E s \in Senders : Look(s)
         \/ \E s \in Senders : Close(s)
         \/ \E s \in Senders : Finish(s)
  BY DEF Next, Request, Handler

LEMMA StepTidy ==
  ASSUME Tidy, [Next]_vars
  PROVE  Tidy'
  <1>1. CASE UNCHANGED vars
    <2>1. TypeOK' /\ ForTheList' /\ OneWorkerEach' /\ RequestFirst'
      BY <1>1 DEF Tidy, TypeOK, ForTheList, OneWorkerEach, RequestFirst, Busy, vars
    <2> QED
      BY <2>1 DEF Tidy
  <1> QED
    BY <1>1, StepCases, ComposeTidy, AnsweredTidy, FailTidy, EnqueueTidy, FetchTidy, SendTidy,
       CountTidy, LookTidy, CloseTidy, FinishTidy

\* The fields keep their types: recipients, todo and counted stay on the list
\* (sendLoggedBroadcast), for any recipients, workers, retries and mishaps.
THEOREM TypeCorrect == Spec => []TypeOK
  <1>1. Init => Tidy
    BY InitTidy
  <1>2. Tidy /\ [Next]_vars => Tidy'
    BY StepTidy
  <1>3. Tidy => TypeOK
    BY DEF Tidy
  <1> QED
    BY <1>1, <1>2, <1>3, PTL DEF Spec

-----------------------------------------------------------------------------
\* Few duplicates.  What a recipient has been mailed and what may still be
\* mailed, from the list, by a job or in the request, is paid for by the one
\* mail it is owed and the mishaps.
Sends(s, r) == run[s].stage = "send" /\ run[s].to = r

Ahead(r)  == IF web = "new" \/ r \in todo THEN 1 ELSE 0
Queued(r) == IF queue[r] = "waiting" \/ \E w \in Workers : Sends(w, r) THEN 1 ELSE 0
Here(r)   == IF Sends(Web, r) THEN 1 ELSE 0

PaidFor(r) == inbox[r] + Ahead(r) + Queued(r) + Here(r) <= 1 + mishaps

Paid == \A r \in Recipients : PaidFor(r)

LEMMA OwedType ==
  ASSUME NEW r \in Recipients
  PROVE  Ahead(r) \in 0..1 /\ Queued(r) \in 0..1 /\ Here(r) \in 0..1
  BY DEF Ahead, Queued, Here

LEMMA CountsType ==
  ASSUME Tidy, NEW r \in Recipients
  PROVE  inbox[r] \in Nat /\ mishaps \in Nat
  BY DEF Tidy, TypeOK

\* Nothing more is owed to r than before.
LEMMA NoMore ==
  ASSUME Tidy, Tidy', NEW r \in Recipients, PaidFor(r), inbox'[r] = inbox[r],
         Ahead(r)' <= Ahead(r), Here(r)' <= Here(r),
         \/ Queued(r)' <= Queued(r) /\ mishaps' = mishaps
         \/ mishaps' = mishaps + 1
  PROVE  PaidFor(r)'
  <1>1. /\ inbox[r] \in Nat /\ mishaps \in Nat
        /\ Ahead(r) \in 0..1 /\ Queued(r) \in 0..1 /\ Here(r) \in 0..1
    BY CountsType, OwedType
  <1>2. Ahead(r)' \in 0..1 /\ Queued(r)' \in 0..1 /\ Here(r)' \in 0..1
    BY DEF Ahead, Queued, Here
  <1>3. inbox[r] + Ahead(r) + Queued(r) + Here(r) <= 1 + mishaps
    BY DEF PaidFor
  <1>4. inbox[r] + Ahead(r)' + Queued(r)' + Here(r)' <= 1 + mishaps'
    BY <1>1, <1>2, <1>3
  <1> QED
    BY <1>4 DEF PaidFor

LEMMA PaidInit ==
  ASSUME Init
  PROVE  Paid
  <1>1. \A s \in Senders : run[s].stage = "idle"
    BY IdleType DEF Init
  <1>2. \A r \in Recipients : Queued(r) = 0 /\ Here(r) = 0 /\ Ahead(r) = 1
    BY <1>1 DEF Init, Queued, Here, Ahead, Sends, Senders
  <1>3. \A r \in Recipients : inbox[r] = 0 /\ mishaps = 0
    BY DEF Init
  <1> QED
    BY <1>2, <1>3 DEF Paid, PaidFor

LEMMA PaidEnqueue ==
  ASSUME Tidy, Tidy', Paid, NEW r \in Recipients, Enqueue(r)
  PROVE  Paid'
  <1> SUFFICES ASSUME NEW t \in Recipients
               PROVE  PaidFor(t)'
    BY DEF Paid
  <1>1. /\ Only(Web) /\ ~Busy(Web) /\ web = "loop" /\ r \in todo
        /\ \/ run' = run /\ queue' = [queue EXCEPT ![r] = "waiting"] /\ mishaps' = mishaps
           \/ /\ run'[Web].stage = "send" /\ run'[Web].to = r
              /\ \/ queue' = queue /\ mishaps' = mishaps
                 \/ queue' = [queue EXCEPT ![r] = "waiting"] /\ mishaps' = mishaps + 1
    BY EnqueueOnly
  <1>2. todo' = todo \ {r} /\ web' = web /\ inbox' = inbox
    BY DEF Enqueue
  <1>3. \A w \in Workers : run'[w] = run[w]
    BY <1>1, MailingAssumption DEF Only, Senders
  <1>4. PaidFor(t)
    BY DEF Paid
  <1>5. CASE t # r
    <2>1. Ahead(t)' = Ahead(t)
      BY <1>2, <1>5 DEF Ahead
    <2>2. Queued(t)' = Queued(t)
      BY <1>1, <1>3, <1>5 DEF Tidy, TypeOK, Queued, Sends
    <2>3. Here(t)' = 0 /\ Here(t) = 0
      BY <1>1, <1>5 DEF Here, Sends, Busy
    <2>4. Ahead(t) \in 0..1 /\ Queued(t) \in 0..1 /\ mishaps \in Nat
      BY OwedType, CountsType
    <2> QED
      BY <1>1, <1>2, <1>4, <2>1, <2>2, <2>3, <2>4, NoMore
  <1>6. CASE t = r
    <2>1. Ahead(r) = 1 /\ Ahead(r)' = 0 /\ Here(r) = 0
      BY <1>1, <1>2 DEF Ahead, Here, Sends, Busy
    <2>2. Queued(r) = 0
      <3>1. queue[r] = "none"
        BY <1>1 DEF Tidy, RequestFirst
      <3>2. \A w \in Workers : ~Sends(w, r)
        BY <3>1 DEF Tidy, OneWorkerEach, Sends, Busy
      <3> QED
        BY <3>1, <3>2 DEF Queued
    <2>3. inbox[r] \in Nat /\ mishaps \in Nat /\ inbox'[r] = inbox[r]
      BY <1>2, CountsType
    <2>4. inbox[r] + 1 <= 1 + mishaps
      BY <1>4, <1>6, <2>1, <2>2, <2>3 DEF PaidFor
    <2>5. Queued(r)' \in 0..1 /\ Here(r)' \in 0..1
      BY DEF Queued, Here
    <2>6. \/ Queued(r)' + Here(r)' <= 1 /\ mishaps' = mishaps
          \/ mishaps' = mishaps + 1
      <3>1. CASE run' = run /\ mishaps' = mishaps
        <4>1. Here(r)' = 0
          BY <1>1, <3>1 DEF Here, Sends, Busy
        <4> QED
          BY <3>1, <4>1, <2>5
      <3>2. CASE queue' = queue /\ mishaps' = mishaps
        <4>1. Queued(r)' = 0
          BY <1>3, <2>2, <3>2 DEF Queued, Sends
        <4> QED
          BY <3>2, <4>1, <2>5
      <3> QED
        BY <1>1, <3>1, <3>2
    <2>7. inbox'[r] + Ahead(r)' + Queued(r)' + Here(r)' <= 1 + mishaps'
      BY <2>1, <2>3, <2>4, <2>5, <2>6
    <2> QED
      BY <1>6, <2>7 DEF PaidFor
  <1> QED
    BY <1>5, <1>6

LEMMA PaidFetch ==
  ASSUME Tidy, Tidy', Paid, NEW w \in Workers, NEW r \in Recipients, Fetch(w, r)
  PROVE  Paid'
  <1> SUFFICES ASSUME NEW t \in Recipients
               PROVE  PaidFor(t)'
    BY DEF Paid
  <1>1. /\ Only(w) /\ ~Busy(w) /\ run'[w].to = r
        /\ queue[r] = "waiting" /\ queue' = [queue EXCEPT ![r] = "active"]
        /\ UNCHANGED <<web, todo, inbox, mishaps>>
    BY FetchOnly
  <1>2. Web \in Senders /\ run'[Web] = run[Web]
    BY <1>1, MailingAssumption DEF Only, Senders
  <1>3. Ahead(t)' = Ahead(t) /\ Here(t)' = Here(t)
    BY <1>1, <1>2 DEF Ahead, Here, Sends
  <1>4. Queued(t)' <= Queued(t)
    <2>1. CASE t = r
      BY <1>1, <2>1 DEF Queued
    <2>2. CASE t # r
      <3>1. \A v \in Workers : Sends(v, t)' => Sends(v, t)
        BY <1>1, <2>2 DEF Sends, Only, Senders
      <3>2. queue'[t] = queue[t]
        BY <1>1, <2>2 DEF Tidy, TypeOK
      <3> QED
        BY <3>1, <3>2 DEF Queued
    <2> QED
      BY <2>1, <2>2
  <1>5. PaidFor(t) /\ Ahead(t) \in 0..1 /\ Here(t) \in 0..1 /\ inbox'[t] = inbox[t]
    BY <1>1, OwedType DEF Paid
  <1> QED
    BY <1>1, <1>3, <1>4, <1>5, NoMore

LEMMA PaidSend ==
  ASSUME Tidy, Tidy', Paid, NEW s \in Senders, SendMail(s)
  PROVE  Paid'
  <1> SUFFICES ASSUME NEW t \in Recipients
               PROVE  PaidFor(t)'
    BY DEF Paid
  <1>1. Moves(s, "send", "count") /\ (inbox' = inbox \/ inbox' = [inbox EXCEPT ![run[s].to] = @ + 1])
    BY SendOnly DEF Tidy
  <1>2. UNCHANGED <<web, todo, queue, mishaps>>
    BY DEF SendMail, requestVars, jobVars
  <1>3. \A v \in Senders : Sends(v, t)' <=> Sends(v, t) /\ v # s
    BY <1>1 DEF Sends, Moves, Only
  <1>4. Ahead(t)' = Ahead(t) /\ Here(t)' <= Here(t) /\ Queued(t)' <= Queued(t)
    BY <1>2, <1>3 DEF Ahead, Here, Queued, Senders
  <1>5. PaidFor(t) /\ Ahead(t) \in 0..1 /\ Here(t) \in 0..1
    BY OwedType DEF Paid
  <1>6. CASE inbox'[t] = inbox[t]
    BY <1>2, <1>4, <1>5, <1>6, NoMore
  <1>7. CASE inbox'[t] # inbox[t]
    <2>1. run[s].to = t /\ inbox'[t] = inbox[t] + 1
      BY <1>1, <1>7 DEF Tidy, TypeOK
    <2>2. Sends(s, t)
      BY <1>1, <2>1 DEF Sends, Moves
    <2>3. Queued(t)' + Here(t)' + 1 <= Queued(t) + Here(t)
      <3>1. CASE s = Web
        <4>1. Here(t) = 1 /\ Here(t)' = 0
          BY <1>3, <2>2, <3>1 DEF Here, Senders
        <4>2. Queued(t)' \in 0..1 /\ Queued(t) \in 0..1
          BY DEF Queued
        <4> QED
          BY <1>4, <4>1, <4>2
      <3>2. CASE s # Web
        <4>1. s \in Workers /\ queue[t] = "active"
          BY <2>1, <2>2, <3>2 DEF Tidy, OneWorkerEach, Busy, Sends, Senders
        <4>2. \A v \in Workers : Sends(v, t) => v = s
          BY <4>1, <2>2 DEF Tidy, OneWorkerEach, Busy, Sends
        <4>3. Queued(t) = 1 /\ Queued(t)' = 0
          BY <1>2, <1>3, <2>2, <4>1, <4>2 DEF Queued, Senders
        <4>4. Here(t)' \in 0..1 /\ Here(t) \in 0..1
          BY DEF Here
        <4> QED
          BY <1>4, <4>3, <4>4
      <3> QED
        BY <3>1, <3>2
    <2>4. /\ inbox[t] \in Nat /\ mishaps \in Nat /\ Ahead(t) \in 0..1
          /\ Queued(t)' \in 0..1 /\ Here(t)' \in 0..1 /\ Queued(t) \in 0..1 /\ Here(t) \in 0..1
      BY CountsType, OwedType DEF Queued, Here
    <2>5. inbox[t] + Ahead(t) + Queued(t) + Here(t) <= 1 + mishaps
      BY <1>5 DEF PaidFor
    <2>6. inbox'[t] + Ahead(t)' + Queued(t)' + Here(t)' <= 1 + mishaps'
      BY <1>2, <1>4, <2>1, <2>3, <2>4, <2>5
    <2> QED
      BY <2>6 DEF PaidFor
  <1> QED
    BY <1>6, <1>7

\* Nobody new sends.
NobodyNew == \A s \in Senders, r \in Recipients : Sends(s, r)' => Sends(s, r)

LEMMA PaidQuiet ==
  ASSUME Tidy, Tidy', Paid, NobodyNew, inbox' = inbox, web' = "new" => web = "new",
         web = "new" \/ todo' \subseteq todo,
         \/ mishaps' = mishaps /\ \A r \in Recipients : queue'[r] = "waiting" => queue[r] = "waiting"
         \/ mishaps' = mishaps + 1
  PROVE  Paid'
  <1> SUFFICES ASSUME NEW t \in Recipients
               PROVE  PaidFor(t)'
    BY DEF Paid
  <1>1. Ahead(t)' <= Ahead(t) /\ Here(t)' <= Here(t)
    BY DEF Ahead, Here, NobodyNew, Senders
  <1>2. mishaps' = mishaps => Queued(t)' <= Queued(t)
    BY CountsType DEF Queued, NobodyNew, Senders
  <1>3. PaidFor(t) /\ inbox'[t] = inbox[t]
    BY DEF Paid
  <1> QED
    BY <1>1, <1>2, <1>3, NoMore

LEMMA MovesNobodyNew ==
  ASSUME NEW s \in Senders, Only(s), run'[s].stage # "send"
  PROVE  NobodyNew
  BY DEF Only, NobodyNew, Sends

LEMMA StepPaid ==
  ASSUME Tidy, Paid, [Next]_vars
  PROVE  Paid'
  <1>1. Tidy'
    BY StepTidy
  <1>2. CASE Compose
    BY <1>1, <1>2, PaidQuiet DEF Compose, NobodyNew, Sends, jobVars
  <1>3. CASE Answered
    BY <1>1, <1>3, PaidQuiet DEF Answered, NobodyNew, Sends, jobVars
  <1>4. CASE UNCHANGED vars
    BY <1>1, <1>4, PaidQuiet DEF vars, NobodyNew, Sends
  <1>5. CASE RequestFails
    <2>1. NobodyNew
      BY <1>5, RequestFailsOnly, MovesNobodyNew, IdleType DEF Tidy, Senders
    <2> QED
      BY <1>1, <1>5, <2>1, PaidQuiet DEF RequestFails, jobVars
  <1>6. ASSUME NEW w \in Workers, WorkerFails(w)
        PROVE  Paid'
    <2>1. NobodyNew
      BY <1>6, WorkerFailsOnly, MovesNobodyNew, IdleType DEF Tidy, Senders
    <2> QED
      BY <1>1, <1>6, <2>1, PaidQuiet DEF WorkerFails, requestVars
  <1>7. ASSUME NEW s \in Senders, Count(s)
        PROVE  Paid'
    <2>1. NobodyNew
      BY <1>7, CountOnly, MovesNobodyNew DEF Tidy, Moves
    <2> QED
      BY <1>1, <1>7, <2>1, PaidQuiet DEF Count, requestVars, jobVars
  <1>8. ASSUME NEW s \in Senders, Look(s)
        PROVE  Paid'
    <2>1. NobodyNew
      BY <1>8, LookOnly, MovesNobodyNew DEF Tidy, Moves
    <2> QED
      BY <1>1, <1>8, <2>1, PaidQuiet DEF Look, requestVars, jobVars
  <1>9. ASSUME NEW s \in Senders, Close(s)
        PROVE  Paid'
    <2>1. NobodyNew
      BY <1>9, CloseOnly, MovesNobodyNew DEF Tidy, Moves
    <2> QED
      BY <1>1, <1>9, <2>1, PaidQuiet DEF Close, requestVars, jobVars
  <1>10. ASSUME NEW s \in Senders, Finish(s)
         PROVE  Paid'
    <2>1. NobodyNew
      BY <1>10, FinishOnly, MovesNobodyNew, IdleType DEF Tidy
    <2>2. \A r \in Recipients : queue'[r] = "waiting" => queue[r] = "waiting"
      BY <1>10 DEF Finish, Tidy, TypeOK
    <2> QED
      BY <1>1, <1>10, <2>1, <2>2, PaidQuiet DEF Finish, requestVars
  <1> QED
    BY <1>1, <1>2, <1>3, <1>4, <1>5, <1>6, <1>7, <1>8, <1>9, <1>10, StepCases,
       PaidEnqueue, PaidFetch, PaidSend

LEMMA PaidIsFew ==
  ASSUME Tidy, Paid
  PROVE  FewDuplicates
  <1> SUFFICES ASSUME NEW r \in Recipients
               PROVE  inbox[r] <= 1 + mishaps
    BY DEF FewDuplicates
  <1>1. inbox[r] \in Nat /\ mishaps \in Nat
    BY CountsType
  <1>2. Ahead(r) \in 0..1 /\ Queued(r) \in 0..1 /\ Here(r) \in 0..1
    BY OwedType
  <1>3. inbox[r] + Ahead(r) + Queued(r) + Here(r) <= 1 + mishaps
    BY DEF Paid, PaidFor
  <1> QED
    BY <1>1, <1>2, <1>3

\* Nobody is mailed more often than once and once for each mishap, whatever
\* is retried, given out again or run in the request besides (enqueueJob,
\* email.broadcast.send-one).
THEOREM DuplicatesAreFew == Spec => []FewDuplicates
  <1>1. Init => Tidy /\ Paid
    BY InitTidy, PaidInit
  <1>2. Tidy /\ Paid /\ [Next]_vars => (Tidy /\ Paid)'
    BY StepTidy, StepPaid
  <1>3. Tidy /\ Paid => FewDuplicates
    BY PaidIsFew
  <1> QED
    BY <1>1, <1>2, <1>3, PTL DEF Spec

-----------------------------------------------------------------------------
\* The counts.  The answers on the log are at least as many as the recipients
\* that have one.
LEMMA ListFinite ==
  ASSUME Tidy
  PROVE  /\ IsFiniteSet(audience) /\ IsFiniteSet(counted)
         /\ Cardinality(audience) \in Nat /\ Cardinality(counted) \in Nat
         /\ Cardinality(counted) <= Cardinality(audience)
         /\ counted # audience => Cardinality(counted) < Cardinality(audience)
         /\ audience # {} => Cardinality(audience) > 0
  <1>1. audience \subseteq Recipients /\ counted \subseteq audience /\ IsFiniteSet(Recipients)
    BY MailingAssumption DEF Tidy, TypeOK
  <1>2. IsFiniteSet(audience)
    BY <1>1, FS_Subset
  <1>3. /\ IsFiniteSet(counted) /\ Cardinality(counted) <= Cardinality(audience)
        /\ Cardinality(audience) = Cardinality(counted) => audience = counted
    BY <1>1, <1>2, FS_Subset
  <1>4. Cardinality(audience) \in Nat /\ Cardinality(counted) \in Nat
    BY <1>2, <1>3, FS_CardinalityType
  <1>5. audience # {} => Cardinality(audience) # 0
    BY <1>2, FS_EmptySet
  <1> QED
    BY <1>2, <1>3, <1>4, <1>5

LEMMA LogType ==
  ASSUME Tidy
  PROVE  log.delivered \in Nat /\ log.failed \in Nat /\ Total \in Nat
  BY DEF Tidy, TypeOK, Total

\* Only Count adds to the answers.
LEMMA CountAdds ==
  ASSUME Tidy, NEW s \in Senders, Count(s)
  PROVE  Total' = Total + 1 /\ log'.status = log.status
  <1>1. CASE run[s].ok
    <2>1. log' = [log EXCEPT !.delivered = @ + 1]
      BY <1>1 DEF Count
    <2>2. log'.delivered = log.delivered + 1 /\ log'.failed = log.failed /\ log'.status = log.status
      BY <2>1 DEF Tidy, TypeOK
    <2> QED
      BY <2>2, LogType DEF Total
  <1>2. CASE ~run[s].ok
    <2>1. log' = [log EXCEPT !.failed = @ + 1]
      BY <1>2 DEF Count
    <2>2. log'.delivered = log.delivered /\ log'.failed = log.failed + 1 /\ log'.status = log.status
      BY <2>1 DEF Tidy, TypeOK
    <2> QED
      BY <2>2, LogType DEF Total
  <1> QED
    BY <1>1, <1>2

\* The answers stay as they are.
SameAnswers == log'.delivered = log.delivered /\ log'.failed = log.failed /\ counted' = counted

LEMMA OthersSame ==
  ASSUME Tidy, [Next]_vars, \A s \in Senders : ~Count(s)
  PROVE  SameAnswers
  <1>1. CASE Compose
    BY <1>1 DEF SameAnswers, Compose, Tidy, TypeOK
  <1>2. CASE Answered \/ UNCHANGED vars \/ RequestFails
    BY <1>2 DEF SameAnswers, Answered, vars, RequestFails
  <1>3. CASE \E w \in Workers : WorkerFails(w)
    BY <1>3 DEF SameAnswers, WorkerFails
  <1>4. CASE \E r \in Recipients : Enqueue(r)
    BY <1>4 DEF SameAnswers, Enqueue
  <1>5. CASE \E w \in Workers, r \in Recipients : Fetch(w, r)
    BY <1>5, FetchOnly DEF SameAnswers
  <1>6. CASE \E s \in Senders : SendMail(s)
    BY <1>6 DEF SameAnswers, SendMail
  <1>7. CASE \E s \in Senders : Look(s)
    BY <1>7 DEF SameAnswers, Look
  <1>8. CASE \E s \in Senders : Close(s)
    BY <1>8 DEF SameAnswers, Close, Tidy, TypeOK
  <1>9. CASE \E s \in Senders : Finish(s)
    BY <1>9 DEF SameAnswers, Finish
  <1> QED
    BY <1>1, <1>2, <1>3, <1>4, <1>5, <1>6, <1>7, <1>8, <1>9, StepCases

Enough == Cardinality(counted) <= Total

LEMMA EnoughInit ==
  ASSUME Init
  PROVE  Enough
  <1>1. Cardinality(counted) = 0
    BY FS_EmptySet DEF Init
  <1>2. Total = 0
    BY DEF Init, Total
  <1> QED
    BY <1>1, <1>2 DEF Enough

LEMMA StepEnough ==
  ASSUME Tidy, Enough, [Next]_vars
  PROVE  Enough'
  <1>1. ASSUME NEW s \in Senders, Count(s)
        PROVE  Enough'
    <2>1. counted' = counted \cup {run[s].to}
      BY <1>1 DEF Count
    <2>2. Cardinality(counted') = IF run[s].to \in counted THEN Cardinality(counted)
                                                          ELSE Cardinality(counted) + 1
      BY <2>1, ListFinite, FS_AddElement
    <2>3. Cardinality(counted') \in {Cardinality(counted), Cardinality(counted) + 1}
      BY <2>2
    <2>4. Total' = Total + 1 /\ Total \in Nat /\ Cardinality(counted) \in Nat
      BY <1>1, CountAdds, LogType, ListFinite
    <2>5. Cardinality(counted') <= Total'
      BY <2>3, <2>4 DEF Enough
    <2> QED
      BY <2>5 DEF Enough
  <1>2. CASE \A s \in Senders : ~Count(s)
    BY <1>2, OthersSame DEF SameAnswers, Enough, Total
  <1> QED
    BY <1>1, <1>2

-----------------------------------------------------------------------------
\* Never stuck.  Everybody on the list is still on it, in the queue, with the
\* request, has an answer, or was lost with the request.
InHand(r) ==
    \/ r \in todo \/ web = "lost" \/ r \in counted
    \/ queue[r] \in {"waiting", "active", "failed"}
    \/ Busy(Web) /\ run[Web].to = r

Accounted ==
    /\ web # "new" => log.status # "none" /\ \A r \in audience : InHand(r)
    /\ web = "done" => todo = {}
    /\ \A s \in Senders : run[s].stage \in {"look", "close", "finish"} => run[s].to \in counted

LEMMA AccountedInit ==
  ASSUME Init
  PROVE  Accounted
  BY IdleType DEF Init, Accounted

\* A handler goes on: nobody gets out of hand.
LEMMA AccountedMoves ==
  ASSUME Tidy, Accounted, NEW s \in Senders, NEW from \in Stages \ {"idle"}, NEW to \in Stages \ {"idle"},
         Moves(s, from, to), UNCHANGED <<audience, web, todo, queue>>, counted \subseteq counted',
         log.status # "none" => log'.status # "none",
         to = "count" \/ run[s].to \in counted'
  PROVE  Accounted'
  <1>1. \A t \in Senders : run'[t].to = run[t].to /\ (Busy(t)' <=> Busy(t))
    BY DEF Moves, Only, Busy
  <1>2. Web \in Senders
    BY DEF Senders
  <1>3. \A r \in Recipients : InHand(r) => InHand(r)'
    BY <1>1, <1>2 DEF InHand
  <1>4. \A t \in Senders : run'[t].stage \in {"look", "close", "finish"} => run'[t].to \in counted'
    BY <1>1 DEF Accounted, Moves, Only
  <1>5. audience \subseteq Recipients
    BY DEF Tidy, TypeOK
  <1> QED
    BY <1>3, <1>4, <1>5 DEF Accounted

LEMMA AccountedEnqueue ==
  ASSUME Tidy, Accounted, NEW r \in Recipients, Enqueue(r)
  PROVE  Accounted'
  <1>1. /\ Only(Web) /\ ~Busy(Web) /\ web = "loop"
        /\ \/ run' = run /\ queue' = [queue EXCEPT ![r] = "waiting"]
           \/ /\ run'[Web].stage = "send" /\ run'[Web].to = r
              /\ queue' = queue \/ queue' = [queue EXCEPT ![r] = "waiting"]
    BY EnqueueOnly
  <1>2. todo' = todo \ {r} /\ UNCHANGED <<audience, log, web, counted>>
    BY DEF Enqueue
  <1>3. \A t \in audience : InHand(t)'
    <2> SUFFICES ASSUME NEW t \in audience
                 PROVE  InHand(t)'
      OBVIOUS
    <2>1. InHand(t) /\ t \in Recipients
      BY <1>1 DEF Accounted, Tidy, TypeOK
    <2>2. CASE t = r
      BY <1>1, <2>1, <2>2 DEF InHand, Busy, Tidy, TypeOK
    <2>3. CASE t # r
      BY <1>1, <1>2, <2>1, <2>3 DEF InHand, Tidy, TypeOK
    <2> QED
      BY <2>2, <2>3
  <1>4. \A s \in Senders : run'[s].stage \in {"look", "close", "finish"} => run'[s].to \in counted'
    BY <1>1, <1>2 DEF Accounted, Only
  <1> QED
    BY <1>1, <1>2, <1>3, <1>4 DEF Accounted

LEMMA AccountedFetch ==
  ASSUME Tidy, Accounted, NEW w \in Workers, NEW r \in Recipients, Fetch(w, r)
  PROVE  Accounted'
  <1>1. /\ Only(w) /\ run'[w].stage = "send"
        /\ queue' = [queue EXCEPT ![r] = "active"]
        /\ UNCHANGED <<audience, web, todo, log, counted>>
    BY FetchOnly
  <1>2. Web \in Senders /\ run'[Web] = run[Web]
    BY <1>1, MailingAssumption DEF Only, Senders
  <1>3. \A t \in Recipients : InHand(t) => InHand(t)'
    BY <1>1, <1>2 DEF InHand, Busy, Tidy, TypeOK
  <1>4. \A s \in Senders : run'[s].stage \in {"look", "close", "finish"} => run'[s].to \in counted'
    BY <1>1 DEF Accounted, Only
  <1>5. audience \subseteq Recipients
    BY DEF Tidy, TypeOK
  <1> QED
    BY <1>1, <1>3, <1>4, <1>5 DEF Accounted

LEMMA AccountedFinish ==
  ASSUME Tidy, Accounted, NEW s \in Senders, Finish(s)
  PROVE  Accounted'
  <1>1. Only(s) /\ run[s].stage = "finish" /\ run'[s] = Idle
    BY FinishOnly DEF Tidy
  <1>2. UNCHANGED <<audience, log, web, todo, counted>>
        /\ queue' = IF s = Web THEN queue ELSE [queue EXCEPT ![run[s].to] = "completed"]
    BY DEF Finish, requestVars
  <1>3. run[s].to \in counted
    BY <1>1 DEF Accounted
  <1>4. \A t \in Recipients : InHand(t) => InHand(t)'
    <2> SUFFICES ASSUME NEW t \in Recipients, InHand(t), t # run[s].to
                 PROVE  InHand(t)'
      BY <1>2, <1>3 DEF InHand
    <2>1. queue'[t] = queue[t]
      BY <1>2 DEF Tidy, TypeOK
    <2>2. Busy(Web) /\ run[Web].to = t => Busy(Web)' /\ run'[Web].to = t
      BY <1>1 DEF Busy, Only, Senders
    <2> QED
      BY <1>2, <2>1, <2>2 DEF InHand
  <1>5. \A t \in Senders : run'[t].stage \in {"look", "close", "finish"} => run'[t].to \in counted'
    BY <1>1, <1>2, IdleType DEF Accounted, Only
  <1>6. audience \subseteq Recipients
    BY DEF Tidy, TypeOK
  <1> QED
    BY <1>2, <1>4, <1>5, <1>6 DEF Accounted

LEMMA AccountedFails ==
  ASSUME Tidy, Accounted, RequestFails \/ \E w \in Workers : WorkerFails(w)
  PROVE  Accounted'
  <1>1. CASE RequestFails
    <2>1. Only(Web) /\ run'[Web] = Idle
      BY <1>1, RequestFailsOnly DEF Tidy
    <2>2. UNCHANGED <<audience, log, counted>> /\ web' = "lost" /\ web = "loop"
      BY <1>1 DEF RequestFails
    <2>3. \A r \in audience : InHand(r)'
      BY <2>2 DEF InHand
    <2>4. \A t \in Senders : run'[t].stage \in {"look", "close", "finish"} => run'[t].to \in counted'
      BY <2>1, <2>2, IdleType DEF Accounted, Only
    <2> QED
      BY <2>2, <2>3, <2>4 DEF Accounted
  <1>2. ASSUME NEW w \in Workers, WorkerFails(w)
        PROVE  Accounted'
    <2>1. Only(w) /\ run'[w] = Idle
      BY <1>2, WorkerFailsOnly DEF Tidy
    <2>2. PICK state \in {"failed", "waiting"} : queue' = [queue EXCEPT ![run[w].to] = state]
      BY <1>2 DEF WorkerFails, Again
    <2>3. UNCHANGED <<audience, log, web, todo, counted>>
      BY <1>2 DEF WorkerFails, requestVars
    <2>4. run'[Web] = run[Web]
      BY <2>1, MailingAssumption DEF Only, Senders
    <2>5. \A t \in Recipients : InHand(t) => InHand(t)'
      BY <2>2, <2>3, <2>4 DEF InHand, Busy, Tidy, TypeOK
    <2>6. \A t \in Senders : run'[t].stage \in {"look", "close", "finish"} => run'[t].to \in counted'
      BY <2>1, <2>3, IdleType DEF Accounted, Only
    <2>7. audience \subseteq Recipients
      BY DEF Tidy, TypeOK
    <2> QED
      BY <2>3, <2>5, <2>6, <2>7 DEF Accounted
  <1> QED
    BY <1>1, <1>2

LEMMA StepAccounted ==
  ASSUME Tidy, Accounted, [Next]_vars
  PROVE  Accounted'
  <1>1. CASE Compose
    <2>1. todo' = audience' /\ run' = run /\ counted' = counted /\ log'.status = "queued"
          /\ (web' = "done" => audience = {}) /\ audience' = audience
      BY <1>1 DEF Compose, Listed, Tidy, TypeOK
    <2> QED
      BY <2>1 DEF Accounted, InHand
  <1>2. CASE Answered
    BY <1>2 DEF Answered, Accounted, InHand, Busy, jobVars
  <1>3. CASE UNCHANGED vars
    BY <1>3 DEF vars, Accounted, InHand, Busy
  <1>4. ASSUME NEW s \in Senders, SendMail(s)
        PROVE  Accounted'
    <2>1. Moves(s, "send", "count")
      BY <1>4, SendOnly DEF Tidy
    <2>2. UNCHANGED <<audience, log, web, todo, queue, counted>>
      BY <1>4 DEF SendMail, requestVars, jobVars
    <2> QED
      BY <2>1, <2>2, AccountedMoves DEF Stages
  <1>5. ASSUME NEW s \in Senders, Count(s)
        PROVE  Accounted'
    <2>1. Moves(s, "count", "look") /\ log'.status = log.status
      BY <1>5, CountOnly, CountAdds DEF Tidy
    <2>2. UNCHANGED <<audience, web, todo, queue>> /\ counted' = counted \cup {run[s].to}
      BY <1>5 DEF Count, requestVars, jobVars
    <2> QED
      BY <2>1, <2>2, AccountedMoves DEF Stages
  <1>6. ASSUME NEW s \in Senders, Look(s)
        PROVE  Accounted'
    <2>1. PICK to \in {"close", "finish"} : Moves(s, "look", to)
      BY <1>6, LookOnly DEF Tidy
    <2>2. UNCHANGED <<audience, log, web, todo, queue, counted>>
      BY <1>6 DEF Look, requestVars, jobVars
    <2>3. run[s].to \in counted
      BY <2>1 DEF Moves, Accounted
    <2> QED
      BY <2>1, <2>2, <2>3, AccountedMoves DEF Stages
  <1>7. ASSUME NEW s \in Senders, Close(s)
        PROVE  Accounted'
    <2>1. Moves(s, "close", "finish")
      BY <1>7, CloseOnly DEF Tidy
    <2>2. UNCHANGED <<audience, web, todo, queue, counted>>
      BY <1>7 DEF Close, requestVars, jobVars
    <2>3. run[s].to \in counted
      BY <2>1 DEF Moves, Accounted
    <2>4. log.status # "none" => log'.status # "none"
      <3>1. run[s].verdict # "none"
        BY DEF Tidy, TypeOK, Run, Verdicts
      <3> QED
        BY <1>7, <3>1 DEF Close, Tidy, TypeOK
    <2> QED
      BY <2>1, <2>2, <2>3, <2>4, AccountedMoves DEF Stages
  <1> QED
    BY <1>1, <1>2, <1>3, <1>4, <1>5, <1>6, <1>7, StepCases, AccountedEnqueue, AccountedFetch,
       AccountedFinish, AccountedFails

\* A log that could be closed is waited for by somebody who will look at it.
Closable == log.status = "queued" /\ AllAnswered /\ audience # {}

Pending ==
    \/ todo # {} \/ web = "lost"
    \/ \E r \in Recipients : queue[r] \in {"waiting", "failed"}
    \/ \E s \in Senders : run[s].stage \in {"send", "count", "look", "close"}

Watched == Closable => Pending

\* A log that can be closed could be before, unless somebody was counted.
LEMMA ClosableBefore ==
  ASSUME Tidy, SameAnswers, audience' = audience, log'.status = log.status, Closable'
  PROVE  Closable
  BY DEF Closable, SameAnswers, AllAnswered, Total

LEMMA StepWatched ==
  ASSUME Tidy, Watched, [Next]_vars
  PROVE  Watched'
  <1>1. CASE Compose
    BY <1>1 DEF Compose, Listed, Watched, Closable, Pending
  <1>2. CASE Answered
    <2>1. ~Closable \/ Pending
      BY DEF Watched
    <2>2. SameAnswers /\ UNCHANGED <<audience, log, run, queue, todo>> /\ web # "lost"
      BY <1>2 DEF SameAnswers, Answered, jobVars
    <2> QED
      BY <2>1, <2>2, ClosableBefore DEF Watched, Pending
  <1>3. CASE UNCHANGED vars
    BY <1>3 DEF vars, Watched, Closable, Pending, AllAnswered, Total
  <1>4. CASE RequestFails
    BY <1>4 DEF RequestFails, Watched, Pending
  <1>5. ASSUME NEW w \in Workers, WorkerFails(w)
        PROVE  Watched'
    <2>1. PICK state \in {"failed", "waiting"} : queue' = [queue EXCEPT ![run[w].to] = state]
      BY <1>5 DEF WorkerFails, Again
    <2>2. run[w].to \in Recipients /\ w \in Senders
      BY <1>5 DEF WorkerFails, Tidy, ForTheList, TypeOK, Busy, Senders
    <2>3. queue'[run[w].to] \in {"waiting", "failed"}
      BY <2>1, <2>2 DEF Tidy, TypeOK
    <2> QED
      BY <2>2, <2>3 DEF Watched, Pending
  <1>6. ASSUME NEW r \in Recipients, Enqueue(r)
        PROVE  Watched'
    <2>1. \/ queue' = [queue EXCEPT ![r] = "waiting"]
          \/ run'[Web].stage = "send"
      BY <1>6, EnqueueOnly
    <2>2. queue'[r] = "waiting" \/ run'[Web].stage = "send"
      BY <2>1 DEF Tidy, TypeOK
    <2> QED
      BY <2>2 DEF Watched, Pending, Senders
  <1>7. ASSUME NEW w \in Workers, NEW r \in Recipients, Fetch(w, r)
        PROVE  Watched'
    BY <1>7, FetchOnly DEF Watched, Pending, Senders
  <1>8. ASSUME NEW s \in Senders, SendMail(s)
        PROVE  Watched'
    BY <1>8, SendOnly DEF Tidy, Moves, Watched, Pending
  <1>9. ASSUME NEW s \in Senders, Count(s)
        PROVE  Watched'
    BY <1>9, CountOnly DEF Tidy, Moves, Watched, Pending
  <1>10. ASSUME NEW s \in Senders, Look(s)
         PROVE  Watched'
    <2>1. SameAnswers /\ UNCHANGED <<audience, log, web, todo, queue>>
      BY <1>10 DEF SameAnswers, Look, requestVars, jobVars
    <2>2. CASE Moves(s, "look", "close")
      BY <2>2 DEF Moves, Watched, Pending
    <2>3. CASE ~Moves(s, "look", "close")
      <3>1. ~Closable
        BY <1>10, <2>3, LookOnly DEF Tidy, Closable
      <3>2. ~Closable'
        BY <3>1, <2>1, ClosableBefore
      <3> QED
        BY <3>2 DEF Watched
    <2> QED
      BY <2>2, <2>3
  <1>11. ASSUME NEW s \in Senders, Close(s)
         PROVE  Watched'
    <2>1. log'.status # "queued"
      <3>1. run[s].verdict # "queued"
        BY DEF Tidy, TypeOK, Run, Verdicts
      <3> QED
        BY <1>11, <3>1 DEF Close, Tidy, TypeOK
    <2> QED
      BY <2>1 DEF Watched, Closable
  <1>12. ASSUME NEW s \in Senders, Finish(s)
         PROVE  Watched'
    <2>1. Only(s) /\ run[s].stage = "finish" /\ run'[s] = Idle
      BY <1>12, FinishOnly DEF Tidy
    <2>2. SameAnswers /\ UNCHANGED <<audience, log, web, todo>>
          /\ queue' = IF s = Web THEN queue ELSE [queue EXCEPT ![run[s].to] = "completed"]
      BY <1>12 DEF SameAnswers, Finish, requestVars
    <2>3. s # Web => queue[run[s].to] = "active"
      BY <2>1 DEF Tidy, OneWorkerEach, Busy, Senders
    <2>4. \A r \in Recipients : queue[r] \in {"waiting", "failed"} => queue'[r] = queue[r]
      BY <2>2, <2>3 DEF Tidy, TypeOK
    <2>5. \A t \in Senders : run[t].stage # "finish" => run'[t] = run[t]
      BY <2>1 DEF Only
    <2>6. Pending => Pending'
      BY <2>2, <2>4, <2>5 DEF Pending
    <2> QED
      BY <2>2, <2>6, ClosableBefore DEF Watched
  <1> QED
    BY <1>1, <1>2, <1>3, <1>4, <1>5, <1>6, <1>7, <1>8, <1>9, <1>10, <1>11, <1>12, StepCases

Reckoned == Tidy /\ Enough /\ Accounted /\ Watched

LEMMA ReckonedIsConcluded ==
  ASSUME Reckoned
  PROVE  NeverStuck
  <1> SUFFICES ASSUME Quiet, \A r \in Recipients : queue[r] # "failed", ~Settled
               PROVE  FALSE
    BY DEF NeverStuck
  <1>1. /\ web = "done" /\ audience # {} /\ todo = {}
        /\ \A s \in Senders : run[s].stage = "idle"
        /\ \A r \in Recipients : queue[r] \notin {"waiting", "active", "failed"}
    BY DEF Quiet, Active, Reckoned, Accounted
  <1>2. ~Pending
    BY <1>1 DEF Pending
  <1>3. log.status = "queued"
    BY <1>1 DEF Reckoned, Accounted, Tidy, TypeOK, Settled
  <1>4. \A r \in audience : r \in counted
    BY <1>1 DEF Reckoned, Accounted, InHand, Busy, Tidy, TypeOK, Senders
  <1>5. counted = audience
    BY <1>4 DEF Reckoned, Tidy, TypeOK
  <1>6. AllAnswered
    <2>1. Tidy /\ Enough
      BY DEF Reckoned
    <2>2. Total \in Nat /\ Cardinality(audience) \in Nat /\ Cardinality(audience) <= Total
      BY <2>1, <1>5, LogType, ListFinite DEF Enough
    <2> QED
      BY <2>2 DEF AllAnswered
  <1> QED
    BY <1>1, <1>2, <1>3, <1>6 DEF Reckoned, Watched, Closable

\* A broadcast with nothing left to do has a final status, unless the queue
\* gave a job up, however the last handlers overlapped and whatever was run
\* again (maybeFinaliseMailLogStatus).
THEOREM NothingStuck == Spec => []NeverStuck
  <1>1. Init => Reckoned
    <2> SUFFICES ASSUME Init
                 PROVE  Reckoned
      OBVIOUS
    <2>1. ~Closable
      BY DEF Init, Closable
    <2> QED
      BY <2>1, InitTidy, EnoughInit, AccountedInit DEF Reckoned, Watched
  <1>2. Reckoned /\ [Next]_vars => Reckoned'
    BY StepTidy, StepEnough, StepAccounted, StepWatched DEF Reckoned
  <1>3. Reckoned => NeverStuck
    BY ReckonedIsConcluded
  <1> QED
    BY <1>1, <1>2, <1>3, PTL DEF Spec

-----------------------------------------------------------------------------
\* Closed whole.  While nothing has gone wrong, each recipient is on the list,
\* in the queue, or with one handler, and has no answer before that handler
\* counts it; whoever closes the log has seen all answers.
Unanswered(r) ==
    \/ web = "new" \/ r \in todo \/ queue[r] = "waiting"
    \/ \E s \in Senders : run[s].stage \in {"send", "count"} /\ run[s].to = r

Apart ==
    /\ \A s \in Senders : Busy(s) => run[s].to \notin todo
    /\ Busy(Web) => queue[run[Web].to] = "none"

Whole ==
    /\ counted = audience
    /\ Total = Cardinality(audience)

Clean ==
    /\ Apart
    /\ \A r \in audience : Unanswered(r) => r \notin counted
    /\ Total = Cardinality(counted)
    /\ \A s \in Senders : run[s].stage = "close" => Whole /\ run[s].verdict = Verdict
    /\ Settled => Whole /\ log.status = Verdict

Proper == mishaps = 0 => Clean

\* Two handlers are never for the same recipient.
LEMMA OneHandlerEach ==
  ASSUME Tidy, Apart, NEW s \in Senders, NEW t \in Senders, Busy(s), Busy(t), run[s].to = run[t].to
  PROVE  s = t
  <1>1. s \in Workers /\ t \in Workers => s = t
    BY DEF Tidy, OneWorkerEach
  <1>2. \A w \in Workers : Busy(w) => queue[run[w].to] = "active"
    BY DEF Tidy, OneWorkerEach
  <1> QED
    BY <1>1, <1>2 DEF Apart, Senders

LEMMA ProperInit ==
  ASSUME Init
  PROVE  Proper
  <1>1. \A s \in Senders : run[s].stage = "idle"
    BY IdleType DEF Init
  <1>2. Apart
    BY <1>1 DEF Init, Apart, Busy, Senders
  <1>3. Total = Cardinality(counted)
    BY FS_EmptySet DEF Init, Total
  <1>4. ~Settled
    BY DEF Init, Settled, Verdicts
  <1> QED
    BY <1>1, <1>2, <1>3, <1>4 DEF Init, Proper, Clean

\* The answers, the list and the status stay: what was closed whole still is.
LEMMA StillWhole ==
  ASSUME Clean, SameAnswers, audience' = audience,
         log'.status = log.status \/ log'.status \notin Verdicts,
         NEW s \in Senders, Only(s), run'[s].stage # "close"
  PROVE  /\ Total' = Cardinality(counted')
         /\ \A t \in Senders : run'[t].stage = "close" => Whole' /\ run'[t].verdict = Verdict'
         /\ Settled' => Whole' /\ log'.status = Verdict'
  <1>1. Total' = Total /\ Verdict' = Verdict /\ counted' = counted
    BY DEF SameAnswers, Total, Verdict
  <1>2. Whole' <=> Whole
    BY <1>1 DEF Whole
  <1>3. \A t \in Senders : run'[t].stage = "close" => run'[t] = run[t]
    BY DEF Only
  <1> QED
    BY <1>1, <1>2, <1>3 DEF Clean, Settled

LEMMA CleanCompose ==
  ASSUME Tidy, Clean, Compose
  PROVE  Clean'
  <1>1. SameAnswers /\ UNCHANGED <<audience, run, queue>> /\ web = "new" /\ todo' = audience
        /\ log'.status = "queued"
    BY DEF Compose, Listed, SameAnswers, jobVars, Tidy, TypeOK
  <1>2. \A s \in Senders : ~Busy(s)
    BY <1>1 DEF Tidy, RequestFirst, OneWorkerEach, ForTheList, TypeOK, Senders
  <1>3. Apart'
    BY <1>1, <1>2 DEF Apart, Busy, Senders
  <1>4. \A r \in audience : r \notin counted
    BY <1>1 DEF Clean, Unanswered
  <1>5. Only(Web) /\ run'[Web].stage # "close" /\ Web \in Senders
    BY <1>1, <1>2 DEF Only, Busy, Tidy, TypeOK, Senders
  <1>6. log'.status \notin Verdicts
    BY <1>1 DEF Verdicts
  <1>7. counted' = counted
    BY <1>1 DEF SameAnswers
  <1> QED
    BY <1>1, <1>3, <1>4, <1>5, <1>6, <1>7, StillWhole DEF Clean

LEMMA CleanEnqueue ==
  ASSUME Tidy, Clean, NEW r \in Recipients, Enqueue(r), mishaps' = mishaps
  PROVE  Clean'
  <1>1. /\ Only(Web) /\ ~Busy(Web) /\ web = "loop" /\ r \in todo /\ mishaps \in Nat
        /\ \/ run' = run /\ queue' = [queue EXCEPT ![r] = "waiting"]
           \/ run'[Web].stage = "send" /\ run'[Web].to = r /\ queue' = queue
    BY EnqueueOnly DEF Tidy, TypeOK
  <1>2. todo' = todo \ {r} /\ UNCHANGED <<audience, log, web, counted>> /\ SameAnswers
    BY DEF Enqueue, SameAnswers
  <1>3. queue[r] = "none" /\ r \in audience /\ Web \in Senders /\ r \notin counted
    BY <1>1 DEF Tidy, TypeOK, RequestFirst, Senders, Clean, Unanswered
  <1>4. Apart'
    <2>1. \A s \in Senders : Busy(s)' => run'[s].to \notin todo'
      BY <1>1, <1>2 DEF Clean, Apart, Busy, Only
    <2>2. Busy(Web)' => queue'[run'[Web].to] = "none"
      BY <1>1, <1>3 DEF Busy
    <2> QED
      BY <2>1, <2>2 DEF Apart
  <1>5. \A t \in audience : Unanswered(t)' => t = r \/ Unanswered(t)
    BY <1>1, <1>2 DEF Unanswered, Only, Tidy, TypeOK
  <1>6. \A t \in audience' : Unanswered(t)' => t \notin counted'
    BY <1>2, <1>3, <1>5 DEF Clean
  <1>7. run'[Web].stage # "close"
    BY <1>1 DEF Busy
  <1> QED
    BY <1>1, <1>2, <1>3, <1>4, <1>6, <1>7, StillWhole DEF Clean

LEMMA CleanFetch ==
  ASSUME Tidy, Clean, NEW w \in Workers, NEW r \in Recipients, Fetch(w, r)
  PROVE  Clean'
  <1>1. /\ Only(w) /\ ~Busy(w) /\ run'[w].stage = "send" /\ run'[w].to = r
        /\ queue[r] = "waiting" /\ r \in audience
        /\ queue' = [queue EXCEPT ![r] = "active"]
        /\ UNCHANGED <<audience, web, todo, log, counted>>
    BY FetchOnly
  <1>2. w \in Senders /\ SameAnswers /\ run'[Web] = run[Web] /\ Web \in Senders
    BY <1>1, MailingAssumption DEF SameAnswers, Only, Senders
  <1>3. Apart'
    <2>1. r \notin todo
      BY <1>1 DEF Tidy, RequestFirst
    <2>2. \A s \in Senders : Busy(s)' => run'[s].to \notin todo'
      BY <1>1, <2>1 DEF Clean, Apart, Busy, Only
    <2>3. Busy(Web) => run[Web].to # r
      BY <1>1 DEF Clean, Apart
    <2>4. Busy(Web)' => queue'[run'[Web].to] = "none"
      BY <1>1, <1>2, <2>3 DEF Clean, Apart, Busy, Tidy, TypeOK, ForTheList
    <2> QED
      BY <2>2, <2>4 DEF Apart
  <1>4. \A t \in audience : Unanswered(t)' => Unanswered(t)
    BY <1>1 DEF Unanswered, Only, Tidy, TypeOK
  <1> QED
    BY <1>1, <1>2, <1>3, <1>4, StillWhole DEF Clean

\* A handler goes on, without an answer or a status.
LEMMA CleanMoves ==
  ASSUME Tidy, Clean, NEW s \in Senders, NEW from \in Stages \ {"idle"}, NEW to \in Stages \ {"idle"},
         Moves(s, from, to), UNCHANGED <<audience, web, todo, queue>>
  PROVE  /\ Apart'
         /\ to # "count" \/ from = "send" =>
              \A r \in audience : to # "send" /\ Unanswered(r)' => Unanswered(r)
  <1>1. \A t \in Senders : run'[t].to = run[t].to /\ (Busy(t)' <=> Busy(t))
    BY DEF Moves, Only, Busy
  <1>2. Apart'
    BY <1>1 DEF Clean, Apart, Senders
  <1>3. ASSUME to # "count" \/ from = "send", to # "send", NEW r \in audience, Unanswered(r)'
        PROVE  Unanswered(r)
    BY <1>3 DEF Unanswered, Moves, Only
  <1> QED
    BY <1>2, <1>3

LEMMA CleanSend ==
  ASSUME Tidy, Clean, NEW s \in Senders, SendMail(s)
  PROVE  Clean'
  <1>1. Moves(s, "send", "count")
    BY SendOnly DEF Tidy
  <1>2. UNCHANGED <<audience, log, web, todo, queue, counted>> /\ SameAnswers
    BY DEF SendMail, requestVars, jobVars, SameAnswers
  <1>3. Apart' /\ \A r \in audience : Unanswered(r)' => Unanswered(r)
    BY <1>1, <1>2, CleanMoves DEF Stages
  <1>4. Only(s) /\ run'[s].stage # "close"
    BY <1>1 DEF Moves
  <1> QED
    BY <1>2, <1>3, <1>4, StillWhole DEF Clean

LEMMA CleanCount ==
  ASSUME Tidy, Clean, NEW s \in Senders, Count(s)
  PROVE  Clean'
  <1>1. Moves(s, "count", "look") /\ Total' = Total + 1 /\ log'.status = log.status
    BY CountOnly, CountAdds DEF Tidy
  <1>0. PICK r \in audience : r = run[s].to
    BY <1>1 DEF Moves, Tidy, ForTheList, Busy
  <1>2. UNCHANGED <<audience, web, todo, queue>> /\ counted' = counted \cup {r}
    BY <1>0 DEF Count, requestVars, jobVars
  <1>3. Apart' /\ \A t \in audience : Unanswered(t)' => Unanswered(t)
    BY <1>1, <1>2, CleanMoves DEF Stages
  <1>4. r = run[s].to /\ r \notin counted /\ Busy(s)
    BY <1>0, <1>1 DEF Moves, Busy, Clean, Unanswered
  <1>5. ~Unanswered(r)'
    <2>1. web' # "new" /\ r \notin todo'
      BY <1>2, <1>4 DEF Clean, Apart, Tidy, ForTheList, RequestFirst, OneWorkerEach, TypeOK, Senders
    <2>2. queue'[r] # "waiting"
      BY <1>2, <1>4 DEF Clean, Apart, Tidy, OneWorkerEach, Senders
    <2>3. \A t \in Senders : Busy(t) /\ run[t].to = r => t = s
      BY <1>4, OneHandlerEach DEF Clean
    <2>4. \A t \in Senders : run'[t].stage \in {"send", "count"} => run'[t].to # r
      BY <1>1, <2>3 DEF Moves, Only, Busy
    <2> QED
      BY <2>1, <2>2, <2>4 DEF Unanswered
  <1>6. \A t \in audience' : Unanswered(t)' => t \notin counted'
    BY <1>2, <1>3, <1>5 DEF Clean
  <1>7. Total' = Cardinality(counted')
    <2>1. Cardinality(counted') = Cardinality(counted) + 1
      BY <1>2, <1>4, ListFinite, FS_AddElement
    <2> QED
      BY <1>1, <2>1 DEF Clean
  <1>8. ~Whole
    BY <1>4 DEF Whole
  <1>9. \A t \in Senders : run'[t].stage # "close"
    BY <1>1, <1>8 DEF Clean, Moves, Only
  <1>10. ~Settled'
    BY <1>1, <1>8 DEF Clean, Settled
  <1> QED
    BY <1>3, <1>6, <1>7, <1>9, <1>10 DEF Clean

LEMMA CleanLook ==
  ASSUME Tidy, Clean, NEW s \in Senders, Look(s)
  PROVE  Clean'
  <1>1. UNCHANGED <<audience, log, web, todo, queue, counted>> /\ SameAnswers
    BY DEF Look, requestVars, jobVars, SameAnswers
  <1>2. PICK to \in {"close", "finish"} : Moves(s, "look", to)
    BY LookOnly DEF Tidy
  <1>3. Apart' /\ \A r \in audience : Unanswered(r)' => Unanswered(r)
    BY <1>1, <1>2, CleanMoves DEF Stages
  <1>4. Total' = Total /\ Verdict' = Verdict /\ (Whole' <=> Whole)
    BY <1>1 DEF Total, Verdict, Whole
  <1>5. run'[s].stage = "close" => Whole /\ run'[s].verdict = Verdict
    <2> SUFFICES ASSUME run'[s].stage = "close"
                 PROVE  Whole /\ run'[s].verdict = Verdict
      OBVIOUS
    <2>1. AllAnswered /\ run'[s].verdict = Verdict
      BY LookOnly DEF Tidy, Moves
    <2>2. Cardinality(audience) <= Total /\ Total = Cardinality(counted)
      BY <2>1, LogType, ListFinite DEF AllAnswered, Clean
    <2>3. counted = audience
      BY <2>2, ListFinite
    <2> QED
      BY <2>1, <2>2, <2>3 DEF Whole
  <1>6. \A t \in Senders \ {s} : run'[t] = run[t]
    BY <1>2 DEF Moves, Only
  <1>7. \A t \in Senders : run'[t].stage = "close" => Whole' /\ run'[t].verdict = Verdict'
    BY <1>4, <1>5, <1>6 DEF Clean
  <1>8. Settled' => Whole' /\ log'.status = Verdict'
    BY <1>1, <1>4 DEF Clean, Settled
  <1> QED
    BY <1>1, <1>3, <1>4, <1>7, <1>8 DEF Clean

LEMMA CleanClose ==
  ASSUME Tidy, Clean, NEW s \in Senders, Close(s)
  PROVE  Clean'
  <1>1. UNCHANGED <<audience, web, todo, queue, counted>>
    BY DEF Close, requestVars, jobVars
  <1>2. Moves(s, "close", "finish")
    BY CloseOnly DEF Tidy
  <1>3. Apart' /\ \A r \in audience : Unanswered(r)' => Unanswered(r)
    BY <1>1, <1>2, CleanMoves DEF Stages
  <1>4. log'.delivered = log.delivered /\ log'.failed = log.failed
        /\ log'.status \in {log.status, run[s].verdict}
    BY DEF Close, Tidy, TypeOK
  <1>5. Total' = Total /\ Verdict' = Verdict
    BY <1>4 DEF Total, Verdict
  <1>6. Whole /\ run[s].verdict = Verdict
    BY <1>2 DEF Clean, Moves
  <1>7. Whole'
    BY <1>1, <1>5, <1>6 DEF Whole
  <1>8. \A t \in Senders : run'[t].stage = "close" => run'[t].verdict = Verdict'
    BY <1>2, <1>5 DEF Clean, Moves, Only
  <1>9. Settled' => log'.status = Verdict'
    BY <1>4, <1>5, <1>6 DEF Clean, Settled
  <1> QED
    BY <1>1, <1>3, <1>5, <1>7, <1>8, <1>9 DEF Clean

LEMMA CleanFinish ==
  ASSUME Tidy, Clean, NEW s \in Senders, Finish(s)
  PROVE  Clean'
  <1>1. Only(s) /\ run[s].stage = "finish" /\ run'[s] = Idle
    BY FinishOnly DEF Tidy
  <1>2. UNCHANGED <<audience, log, web, todo, counted>> /\ SameAnswers
        /\ queue' = IF s = Web THEN queue ELSE [queue EXCEPT ![run[s].to] = "completed"]
    BY DEF Finish, requestVars, SameAnswers
  <1>3. \A t \in Senders : Busy(t)' => Busy(t) /\ run'[t] = run[t] /\ t # s
    BY <1>1, IdleType DEF Only, Busy
  <1>4. Apart'
    <2>1. \A t \in Senders : Busy(t)' => run'[t].to \notin todo'
      BY <1>2, <1>3 DEF Clean, Apart
    <2>2. Busy(Web)' => queue'[run'[Web].to] = "none"
      <3>1. s # Web => queue[run[s].to] = "active"
        BY <1>1 DEF Tidy, OneWorkerEach, Busy, Senders
      <3>2. Web \in Senders
        BY DEF Senders
      <3> QED
        BY <1>2, <1>3, <3>1, <3>2 DEF Clean, Apart, Tidy, TypeOK, ForTheList
    <2> QED
      BY <2>1, <2>2 DEF Apart
  <1>5. \A r \in audience : Unanswered(r)' => Unanswered(r)
    BY <1>2, <1>3 DEF Unanswered, Busy, Tidy, TypeOK
  <1>6. run'[s].stage # "close"
    BY <1>1, IdleType
  <1> QED
    BY <1>1, <1>2, <1>4, <1>5, <1>6, StillWhole DEF Clean

LEMMA CleanSame ==
  ASSUME Clean, UNCHANGED <<audience, log, todo, queue, run, counted>>, web' = "new" => web = "new"
  PROVE  Clean'
  <1>1. Apart'
    BY DEF Clean, Apart, Busy
  <1>2. \A r \in audience : Unanswered(r)' => Unanswered(r)
    BY DEF Unanswered
  <1>3. Total' = Total /\ Verdict' = Verdict /\ (Whole' <=> Whole) /\ (Settled' <=> Settled)
    BY DEF Total, Verdict, Whole, Settled
  <1> QED
    BY <1>1, <1>2, <1>3 DEF Clean

LEMMA StepProper ==
  ASSUME Tidy, Proper, [Next]_vars
  PROVE  Proper'
  <1> SUFFICES ASSUME mishaps' = 0
               PROVE  Clean'
    BY DEF Proper
  <1>0. mishaps \in Nat
    BY DEF Tidy, TypeOK
  <1>1. CASE Answered
    BY <1>1, CleanSame DEF Answered, Proper, jobVars
  <1>2. CASE UNCHANGED vars
    BY <1>2, CleanSame DEF vars, Proper
  <1>3. CASE RequestFails
    BY <1>0, <1>3 DEF RequestFails
  <1>4. CASE \E w \in Workers : WorkerFails(w)
    BY <1>0, <1>4 DEF WorkerFails
  <1>5. CASE Compose
    BY <1>5, CleanCompose DEF Proper, Compose
  <1>6. ASSUME NEW r \in Recipients, Enqueue(r)
        PROVE  Clean'
    <2>1. mishaps' = mishaps
      BY <1>0, <1>6, EnqueueOnly
    <2> QED
      BY <1>6, <2>1, CleanEnqueue DEF Proper
  <1>7. ASSUME NEW w \in Workers, NEW r \in Recipients, Fetch(w, r)
        PROVE  Clean'
    BY <1>7, CleanFetch, FetchOnly DEF Proper
  <1>8. ASSUME NEW s \in Senders, SendMail(s)
        PROVE  Clean'
    BY <1>8, CleanSend DEF Proper, SendMail
  <1>9. ASSUME NEW s \in Senders, Count(s)
        PROVE  Clean'
    BY <1>9, CleanCount DEF Proper, Count
  <1>10. ASSUME NEW s \in Senders, Look(s)
         PROVE  Clean'
    BY <1>10, CleanLook DEF Proper, Look
  <1>11. ASSUME NEW s \in Senders, Close(s)
         PROVE  Clean'
    BY <1>11, CleanClose DEF Proper, Close
  <1>12. ASSUME NEW s \in Senders, Finish(s)
         PROVE  Clean'
    BY <1>12, CleanFinish DEF Proper, Finish
  <1> QED
    BY <1>1, <1>2, <1>3, <1>4, <1>5, <1>6, <1>7, <1>8, <1>9, <1>10, <1>11, <1>12, StepCases

LEMMA ProperIsWhole ==
  ASSUME Proper
  PROVE  ClosedWhole
  BY DEF Proper, Clean, Whole, ClosedWhole

\* While nothing goes wrong the log is closed only when everybody on the list
\* has had exactly one answer, and with the verdict of all the answers
\* (maybeFinaliseMailLogStatus, called by every handler).
THEOREM ClosedOnAllAnswers == Spec => []ClosedWhole
  <1>1. Init => Tidy /\ Proper
    BY InitTidy, ProperInit
  <1>2. Tidy /\ Proper /\ [Next]_vars => (Tidy /\ Proper)'
    BY StepTidy, StepProper
  <1>3. Tidy /\ Proper => ClosedWhole
    BY ProperIsWhole
  <1> QED
    BY <1>1, <1>2, <1>3, PTL DEF Spec
=============================================================================
