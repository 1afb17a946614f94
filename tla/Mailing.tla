------------------------------ MODULE Mailing ------------------------------
(***************************************************************************)
(* One broadcast to a list of recipients: the request that composes it     *)
(* (src/src/lib/mail/broadcast.ts), the job queue (src/src/lib/jobs) and   *)
(* the workers that send the mails and keep the progress on the MailLog    *)
(* (src/src/lib/jobs/handlers.ts).                                         *)
(*                                                                         *)
(* The handler runs in a worker, for a queued job, or inside the request,  *)
(* when no queue is running or the queue refuses the job.  Each of its     *)
(* statements is a step of its own; between any two the process may die or *)
(* the database may fail, and the queue then gives the job out again.      *)
(***************************************************************************)
EXTENDS Integers, FiniteSets

CONSTANTS
    Recipients,  \* whom a broadcast may be for
    Workers,     \* processes that work the queue
    Web,         \* the composing request
    RetryLimit,  \* how often the queue gives a failed job out again
    MaxMishaps   \* bound: deaths, failed statements, lost answers

ASSUME MailingAssumption ==
    /\ IsFiniteSet(Recipients) /\ Web \notin Workers
    /\ RetryLimit \in Nat /\ MaxMishaps \in Nat

VARIABLES
    audience,  \* the recipients of this broadcast
    runtime,   \* the queue is running on the request's pod
    log,       \* the MailLog row
    web,       \* the request
    todo,      \* recipients it has not enqueued
    queue,     \* each recipient's job
    tries,     \* how often that job was given out
    run,       \* the handler, where it is running
    inbox,     \* mails the provider took, for each recipient
    counted,   \* recipients with at least one answer on the log
    mishaps    \* deaths, failed statements and lost answers so far

vars == <<audience, runtime, log, web, todo, queue, tries, run, inbox, counted, mishaps>>

Senders  == Workers \cup {Web}
Verdicts == {"sent", "partial", "failed"}
Stages   == {"idle", "send", "count", "look", "close", "finish"}

\* ok: the provider's answer; verdict: the status it is about to write.
Run == [stage : Stages, to : Recipients \cup {"nobody"}, ok : BOOLEAN,
        verdict : Verdicts]
Idle == [stage |-> "idle", to |-> "nobody", ok |-> FALSE, verdict |-> "sent"]

TypeOK ==
    /\ audience \subseteq Recipients /\ todo \subseteq audience /\ counted \subseteq audience
    /\ runtime \in BOOLEAN
    /\ log \in [status : Verdicts \cup {"none", "queued"}, delivered : Nat, failed : Nat]
    /\ web \in {"new", "loop", "done", "lost"}
    /\ queue \in [Recipients -> {"none", "waiting", "active", "completed", "failed"}]
    /\ tries \in [Recipients -> Nat] /\ inbox \in [Recipients -> Nat]
    /\ run \in [Senders -> Run]
    /\ mishaps \in Nat

Init ==
    /\ audience \in SUBSET Recipients /\ runtime \in BOOLEAN
    /\ log = [status |-> "none", delivered |-> 0, failed |-> 0]
    /\ web = "new" /\ todo = {} /\ counted = {} /\ mishaps = 0
    /\ queue = [r \in Recipients |-> "none"] /\ tries = [r \in Recipients |-> 0]
    /\ run = [s \in Senders |-> Idle] /\ inbox = [r \in Recipients |-> 0]

-----------------------------------------------------------------------------
\* The composing request.
requestVars == <<web, todo>>
jobVars     == <<queue, tries>>

Starts(s, r) == run' = [run EXCEPT ![s] = [Idle EXCEPT !.stage = "send", !.to = r]]
Reaches(s, stage) == run' = [run EXCEPT ![s].stage = stage]

\* Fault: the list is read again instead of taken from the log.
Everybody == Recipients

\* The recipients the log row was made with.
Listed == audience

\* The log row, with the recipients fixed; nobody to write to ends the request.
Compose ==
    /\ web = "new"
    /\ log' = [log EXCEPT !.status = "queued"]
    /\ todo' = Listed
    /\ web' = IF audience = {} THEN "done" ELSE "loop"
    /\ UNCHANGED <<audience, runtime, run, inbox, counted, mishaps>> /\ UNCHANGED jobVars

\* Fault: a job the queue took is run here as well.
KeepsBoth(r) == Starts(Web, r)

\* A job the queue took is left to it.
LeftToQueue(r) == UNCHANGED run

\* One recipient after the other is handed to the queue, or served here: no
\* queue, a refusal, or an answer that was lost after the job was stored.
Enqueue(r) ==
    /\ web = "loop" /\ run[Web].stage = "idle" /\ r \in todo
    /\ todo' = todo \ {r}
    /\ \/ /\ runtime
          /\ queue' = [queue EXCEPT ![r] = "waiting"]
          /\ LeftToQueue(r) /\ UNCHANGED mishaps
       \/ /\ Starts(Web, r)
          /\ UNCHANGED <<queue, mishaps>>
       \/ /\ runtime /\ mishaps < MaxMishaps
          /\ mishaps' = mishaps + 1
          /\ queue' = [queue EXCEPT ![r] = "waiting"]
          /\ Starts(Web, r)
    /\ UNCHANGED <<audience, runtime, log, web, tries, inbox, counted>>

Answered ==
    /\ web = "loop" /\ todo = {} /\ run[Web].stage = "idle"
    /\ web' = "done"
    /\ UNCHANGED <<audience, runtime, log, todo, run, inbox, counted, mishaps>>
    /\ UNCHANGED jobVars

-----------------------------------------------------------------------------
\* The queue and the handler.
Fetch(w, r) ==
    /\ run[w].stage = "idle" /\ queue[r] = "waiting"
    /\ queue' = [queue EXCEPT ![r] = "active"] /\ tries' = [tries EXCEPT ![r] = @ + 1]
    /\ Starts(w, r)
    /\ UNCHANGED <<audience, runtime, log, inbox, counted, mishaps>> /\ UNCHANGED requestVars

\* The provider takes the mail and says so, or takes it and the answer times
\* out, or refuses it: the last two look alike.
SendMail(s) ==
    /\ run[s].stage = "send"
    /\ \E taken \in BOOLEAN, ok \in BOOLEAN :
        /\ ok => taken
        /\ inbox' = [inbox EXCEPT ![run[s].to] = IF taken THEN @ + 1 ELSE @]
        /\ run' = [run EXCEPT ![s].stage = "count", ![s].ok = ok]
    /\ UNCHANGED <<audience, runtime, log, counted, mishaps>>
    /\ UNCHANGED requestVars /\ UNCHANGED jobVars

Count(s) ==
    /\ run[s].stage = "count"
    /\ log' = IF run[s].ok THEN [log EXCEPT !.delivered = @ + 1] ELSE [log EXCEPT !.failed = @ + 1]
    /\ counted' = counted \cup {run[s].to}
    /\ run' = [run EXCEPT ![s].stage = "look", ![s].ok = FALSE]
    /\ UNCHANGED <<audience, runtime, inbox, mishaps>>
    /\ UNCHANGED requestVars /\ UNCHANGED jobVars

Total == log.delivered + log.failed
Verdict == IF log.failed = 0 THEN "sent" ELSE IF log.delivered = 0 THEN "failed" ELSE "partial"

\* Fault: one answer short is enough.
AlmostAll == Total + 1 >= Cardinality(audience)

\* Fault: the count must be met exactly.
ExactlyAll == Total = Cardinality(audience)

AllAnswered == Total >= Cardinality(audience)

\* maybeFinaliseMailLogStatus reads the row ...
Look(s) ==
    /\ run[s].stage = "look"
    /\ IF log.status = "queued" /\ AllAnswered
       THEN run' = [run EXCEPT ![s].stage = "close", ![s].verdict = Verdict]
       ELSE Reaches(s, "finish")
    /\ UNCHANGED <<audience, runtime, log, inbox, counted, mishaps>>
    /\ UNCHANGED requestVars /\ UNCHANGED jobVars

\* ... and writes the status, if the row still says queued.
Close(s) ==
    /\ run[s].stage = "close"
    /\ log' = IF log.status = "queued" THEN [log EXCEPT !.status = run[s].verdict] ELSE log
    /\ run' = [run EXCEPT ![s].stage = "finish", ![s].verdict = "sent"]
    /\ UNCHANGED <<audience, runtime, inbox, counted, mishaps>>
    /\ UNCHANGED requestVars /\ UNCHANGED jobVars

\* The worker reports the job done; the request goes on with its list.
Finish(s) ==
    /\ run[s].stage = "finish"
    /\ run' = [run EXCEPT ![s] = Idle]
    /\ queue' = IF s = Web THEN queue ELSE [queue EXCEPT ![run[s].to] = "completed"]
    /\ UNCHANGED <<audience, runtime, log, tries, inbox, counted, mishaps>>
    /\ UNCHANGED requestVars

\* Fault: the job of a worker that died is taken for done.
Forgets(r) == "completed"

\* What the queue makes of a job that did not end.
Again(r) == IF tries[r] > RetryLimit THEN "failed" ELSE "waiting"

\* A worker dies, or a statement of its handler fails: the job is given out again.
WorkerFails(w) ==
    /\ run[w].stage # "idle" /\ mishaps < MaxMishaps
    /\ mishaps' = mishaps + 1
    /\ queue' = [queue EXCEPT ![run[w].to] = Again(run[w].to)]
    /\ run' = [run EXCEPT ![w] = Idle]
    /\ UNCHANGED <<audience, runtime, log, tries, inbox, counted>> /\ UNCHANGED requestVars

\* The request dies, or the handler it runs fails: the rest of its list is lost.
RequestFails ==
    /\ web = "loop" /\ mishaps < MaxMishaps
    /\ mishaps' = mishaps + 1
    /\ web' = "lost" /\ run' = [run EXCEPT ![Web] = Idle]
    /\ UNCHANGED <<audience, runtime, log, todo, inbox, counted>> /\ UNCHANGED jobVars

-----------------------------------------------------------------------------
Handler(s) == SendMail(s) \/ Count(s) \/ Look(s) \/ Close(s) \/ Finish(s)

Request == Compose \/ (\E r \in Recipients : Enqueue(r)) \/ Answered

Next ==
    \/ Request
    \/ \E w \in Workers, r \in Recipients : Fetch(w, r)
    \/ \E s \in Senders : Handler(s)
    \/ \E w \in Workers : WorkerFails(w)
    \/ RequestFails

Spec == Init /\ [][Next]_vars

\* The request runs on, a worker that has a job runs on, and the queue gives
\* a waiting job to some worker: the code's loops wait for nothing else.
FairSpec ==
    /\ Spec
    /\ WF_vars(Request) /\ WF_vars(\E w \in Workers, r \in Recipients : Fetch(w, r))
    /\ \A s \in Senders : WF_vars(Handler(s))

-----------------------------------------------------------------------------
Settled == log.status \in Verdicts
Active(r) == queue[r] \in {"waiting", "active"}

\* Nothing of the broadcast is left to do.
Quiet ==
    /\ web = "done" /\ audience # {}
    /\ \A s \in Senders : run[s].stage = "idle"
    /\ \A r \in Recipients : ~Active(r)

\* When every job is done the broadcast has a final status, however the last
\* handlers overlapped and whatever was run again, unless the queue gave a
\* job up (handlers.ts: the one that finishes last closes the log).
NeverStuck == Quiet => Settled \/ \E r \in Recipients : queue[r] = "failed"

\* While nothing goes wrong the log is closed only when everybody on the list
\* has had exactly one answer, and with the verdict of all the answers
\* (two handlers may both see the last count, and both write).
ClosedWhole ==
    mishaps = 0 /\ Settled =>
        /\ counted = audience /\ Total = Cardinality(audience)
        /\ log.status = Verdict

\* Nobody gets more mails than one for the broadcast and one for each mishap,
\* in the queue or in the request (jobs/index.ts falls back to the request).
FewDuplicates == \A r \in Recipients : inbox[r] <= 1 + mishaps

\* The schema says the status leaves "queued" once every recipient has an
\* answer (schema.prisma, MailLog).
ClosedWhenAllAnswered == Settled => counted = audience

\* A broadcast to somebody gets a final status in the end, unless its request
\* was lost or the queue gave a job up.
Concludes ==
    web = "loop" ~> \/ Settled \/ web = "lost"
                    \/ \E r \in Recipients : queue[r] = "failed"
=============================================================================
