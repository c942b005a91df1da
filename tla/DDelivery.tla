----------------------------- MODULE DDelivery -----------------------------
(***************************************************************************)
(* Service d: the `jobs` and `dead_letters` tables (d/src/db.rs), the one  *)
(* worker task that sends what is due (d/src/worker.rs), ingestion         *)
(* (d/src/webhook.rs) and redelivery of dead letters (d/src/dlq.rs).       *)
(*                                                                         *)
(* There is no claim: only the worker updates a job.  Moving a job between *)
(* the tables takes two statements, each committed on its own, under the   *)
(* connection mutex; a statement fails, or the process dies, in between.   *)
(***************************************************************************)
EXTENDS Integers, Sequences, FiniteSets, Schedule

CONSTANTS
    Payloads,         \* requests to POST /webhook
    Handlers,         \* redeliver requests being served at once
    MaxAttempts,      \* MAX_ATTEMPTS
    FetchLimit,       \* the `10` of fetch_due(now, 10)
    RetryBase,        \* RETRY_BASE_SECS, in ticks
    RetryMax,         \* RETRY_MAX_SECS, in ticks
    MaxJobs, MaxTime, MaxCrashes, MaxDbErrors   \* bounds of the model

\* What Config::from_env returns, beside the bounds of the model.
Config ==
    /\ IsFiniteSet(Payloads)
    /\ MaxAttempts \in Nat
    /\ FetchLimit \in Nat \ {0}
    /\ {RetryBase, RetryMax} \subseteq Nat
    /\ {MaxJobs, MaxTime, MaxCrashes, MaxDbErrors} \subseteq Nat

ASSUME ConfigAssumption == Config

VARIABLES
    now,              \* Utc::now()
    jobs,             \* rows of `jobs`
    dead_letters,     \* rows of `dead_letters`
    up,               \* is the process running
    wpc,              \* where the worker is
    batch,            \* the fetched jobs it has not recorded yet
    hpc,              \* where each redeliver request is
    entry,            \* the dead letter it has read
    \* history and bounds, read by no handler
    ids, entry_ids,   \* job and entry ids given out (fresh UUIDs)
    accepted,         \* payloads answered 202
    sends,            \* POSTs made, by job id
    acked,            \* has the destination ever answered 2xx, by job id
    crashes, dberrors

worker == <<wpc, batch>>
handlers == <<hpc, entry>>
history == <<ids, entry_ids, accepted, sends, acked, crashes, dberrors>>
vars == <<now, jobs, dead_letters, up, worker, handlers, history>>

JobIds == 1..MaxJobs

WebhookJob == [id : JobIds, payload : Payloads, attempts : Nat, next_attempt_at : Nat,
               status : {"Pending", "Delivered"}]

DlqEntry == [id : Nat, job_id : JobIds, payload : Payloads, attempts : Nat]

NoEntry == [id |-> 0]

Backoff(n) == Jitter20(Capped(RetryBase, MinOf(n - 1, 10), RetryMax))

Init ==
    /\ now = 0
    /\ jobs = {}
    /\ dead_letters = {}
    /\ up = TRUE
    /\ wpc = "idle"
    /\ batch = <<>>
    /\ hpc = [h \in Handlers |-> "idle"]
    /\ entry = [h \in Handlers |-> NoEntry]
    /\ ids = 0
    /\ entry_ids = 0
    /\ accepted = {}
    /\ sends = [i \in JobIds |-> 0]
    /\ acked = [i \in JobIds |-> FALSE]
    /\ crashes = 0
    /\ dberrors = 0

\* The connection mutex is held between the two statements of a move.
Locked == wpc = "moving" \/ \E h \in Handlers : hpc[h] = "moving"

\* UPDATE jobs SET ... WHERE id = : the row becomes f of itself.
Update(id, f(_)) == jobs' = {IF j.id = id THEN f(j) ELSE j : j \in jobs}

Row(id, payload) ==
    [id |-> id, payload |-> payload, attempts |-> 0, next_attempt_at |-> now,
     status |-> "Pending"]

(***************************************************************************)
(* The worker: run_worker, process_job, handle_failure                     *)
(***************************************************************************)

Due_mutant == {j \in jobs : j.next_attempt_at <= now}     \* delivered ones too

Due == {j \in jobs : j.status = "Pending" /\ j.next_attempt_at <= now}

fetch_due ==
    /\ up
    /\ wpc = "idle"
    /\ ~Locked
    /\ batch' \in OldestDue(Due, [j \in Due |-> j.next_attempt_at], FetchLimit)
    /\ wpc' = IF Due = {} THEN "asleep" ELSE "batch"
    /\ UNCHANGED <<now, jobs, dead_letters, up, handlers, history>>

\* sleep(poll_interval) is over.
WakeUp ==
    /\ wpc = "asleep"
    /\ wpc' = "idle"
    /\ UNCHANGED <<now, jobs, dead_letters, up, batch, handlers, history>>

\* The destination is blocked, or its name did not resolve this time.
Block ==
    /\ wpc = "batch"
    /\ wpc' = "to_dlq"
    /\ UNCHANGED <<now, jobs, dead_letters, up, batch, handlers, history>>

Send ==
    /\ wpc = "batch"
    /\ wpc' = "sending"
    /\ sends' = [sends EXCEPT ![Head(batch).id] = @ + 1]
    /\ UNCHANGED <<now, jobs, dead_letters, up, batch, handlers, ids, entry_ids, accepted,
                   acked, crashes, dberrors>>

Answer(outcome) ==
    /\ wpc = "sending"
    /\ wpc' = outcome
    /\ acked' = [acked EXCEPT ![Head(batch).id] = @ \/ outcome = "ok"]
    /\ UNCHANGED <<now, jobs, dead_letters, up, batch, handlers, ids, entry_ids, accepted,
                   sends, crashes, dberrors>>

\* Mutated forms (names ending in _mutant or _dead) are slips that a property
\* below must catch; no action uses them.
NextJob_mutant ==                     \* one step past the end of the batch
    /\ batch' = Tail(batch)
    /\ wpc' = IF Len(batch) = 0 THEN "asleep" ELSE "batch"

\* On to the next job of the batch, or to sleep.
NextJob ==
    /\ batch' = Tail(batch)
    /\ wpc' = IF Len(batch) = 1 THEN "asleep" ELSE "batch"

mark_delivered_mutant ==              \* any answer at all is a delivery
    /\ wpc \in {"ok", "failed"}
    /\ ~Locked
    /\ Update(Head(batch).id, LAMBDA j : [j EXCEPT !.status = "Delivered"])
    /\ NextJob
    /\ UNCHANGED <<now, dead_letters, up, handlers, history>>

mark_delivered ==
    /\ wpc = "ok"
    /\ ~Locked
    /\ Update(Head(batch).id, LAMBDA j : [j EXCEPT !.status = "Delivered"])
    /\ NextJob
    /\ UNCHANGED <<now, dead_letters, up, handlers, history>>

record_attempt_mutant ==              \* the attempt is not counted
    /\ wpc = "failed"
    /\ Head(batch).attempts + 1 < MaxAttempts
    /\ ~Locked
    /\ \E delay \in Backoff(Head(batch).attempts + 1) :
          Update(Head(batch).id, LAMBDA j : [j EXCEPT !.next_attempt_at = now + delay])
    /\ NextJob
    /\ UNCHANGED <<now, dead_letters, up, handlers, history>>

record_attempt_dead ==                \* status Dead, which no query looks for
    /\ wpc = "failed"
    /\ Head(batch).attempts + 1 < MaxAttempts
    /\ ~Locked
    /\ Update(Head(batch).id, LAMBDA j : [j EXCEPT !.status = "Dead"])
    /\ NextJob
    /\ UNCHANGED <<now, dead_letters, up, handlers, history>>

record_attempt ==
    /\ wpc = "failed"
    /\ Head(batch).attempts + 1 < MaxAttempts
    /\ ~Locked
    /\ \E delay \in Backoff(Head(batch).attempts + 1) :
          Update(Head(batch).id,
                 LAMBDA j : [j EXCEPT !.attempts = Head(batch).attempts + 1,
                                      !.next_attempt_at = now + delay])
    /\ NextJob
    /\ UNCHANGED <<now, dead_letters, up, handlers, history>>

\* handle_failure: the copy that goes to the dead letter queue counts the
\* attempt just made.
GiveUp ==
    /\ wpc = "failed"
    /\ Head(batch).attempts + 1 >= MaxAttempts
    /\ wpc' = "to_dlq"
    /\ batch' = [batch EXCEPT ![1].attempts = @ + 1]
    /\ UNCHANGED <<now, jobs, dead_letters, up, handlers, history>>

\* move_to_dlq, first statement.
move_to_dlq_insert ==
    /\ wpc = "to_dlq"
    /\ ~Locked
    /\ dead_letters' = dead_letters \union
          {[id |-> entry_ids + 1, job_id |-> Head(batch).id, payload |-> Head(batch).payload,
            attempts |-> Head(batch).attempts]}
    /\ entry_ids' = entry_ids + 1
    /\ wpc' = "moving"
    /\ UNCHANGED <<now, jobs, up, batch, handlers, ids, accepted, sends, acked, crashes,
                   dberrors>>

Delete_mutant(id) == UNCHANGED jobs   \* the row stays in the queue

Delete(id) == jobs' = {j \in jobs : j.id # id}

\* move_to_dlq, second statement.
move_to_dlq_delete ==
    /\ wpc = "moving"
    /\ Delete(Head(batch).id)
    /\ NextJob
    /\ UNCHANGED <<now, dead_letters, up, handlers, history>>

WorkerStep ==
    \/ fetch_due \/ WakeUp \/ Block \/ Send
    \/ \E outcome \in {"ok", "failed"} : Answer(outcome)
    \/ mark_delivered \/ record_attempt \/ GiveUp
    \/ move_to_dlq_insert \/ move_to_dlq_delete

(***************************************************************************)
(* The API                                                                 *)
(***************************************************************************)

enqueue(p) ==
    /\ ~Locked
    /\ ids < MaxJobs
    /\ jobs' = jobs \union {Row(ids + 1, p)}
    /\ ids' = ids + 1

\* The row is committed before the 202.
create_webhook(p) ==
    /\ up
    /\ p \notin accepted
    /\ enqueue(p)
    /\ accepted' = accepted \union {p}
    /\ UNCHANGED <<now, dead_letters, up, worker, handlers, entry_ids, sends, acked, crashes,
                   dberrors>>

\* redeliver: get_dlq takes and releases the mutex.
get_dlq(h, e) ==
    /\ up
    /\ ~Locked
    /\ hpc[h] = "idle"
    /\ e \in dead_letters
    /\ hpc' = [hpc EXCEPT ![h] = "found"]
    /\ entry' = [entry EXCEPT ![h] = e]
    /\ UNCHANGED <<now, jobs, dead_letters, up, worker, history>>

redeliver_insert_mutant(h) ==         \* deletes first, inserts when it can
    /\ hpc[h] = "found"
    /\ ~Locked
    /\ ids < MaxJobs
    /\ dead_letters' = {e \in dead_letters : e.id # entry[h].id}
    /\ hpc' = [hpc EXCEPT ![h] = "moving"]
    /\ UNCHANGED <<now, jobs, up, worker, entry, history>>

\* The mutex is taken again: a brand new job for what the entry held.
redeliver_insert(h) ==
    /\ hpc[h] = "found"
    /\ enqueue(entry[h].payload)
    /\ hpc' = [hpc EXCEPT ![h] = "moving"]
    /\ UNCHANGED <<now, dead_letters, up, worker, entry, entry_ids, accepted, sends, acked,
                   crashes, dberrors>>

\* The request is answered.
Respond(h) ==
    /\ hpc' = [hpc EXCEPT ![h] = "idle"]
    /\ entry' = [entry EXCEPT ![h] = NoEntry]

redeliver_delete(h) ==
    /\ hpc[h] = "moving"
    /\ dead_letters' = {e \in dead_letters : e.id # entry[h].id}
    /\ Respond(h)
    /\ UNCHANGED <<now, jobs, up, worker, history>>

(***************************************************************************)
(* Failures, the process and time                                          *)
(***************************************************************************)

\* The worker ignores the error of every statement and goes on; a request
\* answers 500.  What was committed before stays.
DbError ==
    /\ dberrors < MaxDbErrors
    /\ dberrors' = dberrors + 1
    /\ \/ wpc = "idle" /\ wpc' = "asleep" /\ UNCHANGED <<batch, handlers>>
       \/ wpc \in {"ok", "failed", "to_dlq", "moving"} /\ NextJob /\ UNCHANGED handlers
       \/ (\E h \in Handlers : hpc[h] # "idle" /\ Respond(h)) /\ UNCHANGED worker
    /\ UNCHANGED <<now, jobs, dead_letters, up, ids, entry_ids, accepted, sends, acked, crashes>>

\* There is no graceful shutdown: every stop is a crash.
Crash ==
    /\ up
    /\ crashes < MaxCrashes
    /\ crashes' = crashes + 1
    /\ up' = FALSE
    /\ wpc' = "idle"
    /\ batch' = <<>>
    /\ hpc' = [h \in Handlers |-> "idle"]
    /\ entry' = [h \in Handlers |-> NoEntry]
    /\ UNCHANGED <<now, jobs, dead_letters, ids, entry_ids, accepted, sends, acked, dberrors>>

Restart ==
    /\ ~up
    /\ up' = TRUE
    /\ UNCHANGED <<now, jobs, dead_letters, worker, handlers, history>>

Tick ==
    /\ now < MaxTime
    /\ now' = now + 1
    /\ UNCHANGED <<jobs, dead_letters, up, worker, handlers, history>>

Next ==
    \/ WorkerStep
    \/ \E p \in Payloads : create_webhook(p)
    \/ \E h \in Handlers :
          \/ \E e \in dead_letters : get_dlq(h, e)
          \/ redeliver_insert(h)
          \/ redeliver_delete(h)
    \/ DbError \/ Crash \/ Restart \/ Tick

Spec == Init /\ [][Next]_vars

\* The runtime runs the worker and the request that holds the mutex, a stopped
\* process is started again, and time passes.  The mutex is not fair, but it is
\* held for two statements only: the worker gets it in the end (strong fairness).
Fairness ==
    /\ SF_vars(WorkerStep)
    /\ \A h \in Handlers : WF_vars(redeliver_delete(h))
    /\ WF_vars(Restart)
    /\ WF_vars(Tick)

FairSpec == Spec /\ Fairness

-----------------------------------------------------------------------------
(***************************************************************************)
(* Properties                                                              *)
(***************************************************************************)

\* Rows and snapshots keep their types, and ids are unique in each table; the
\* worker has a job in hand exactly when it is neither idle nor asleep.
TypeOK ==
    /\ now \in Nat
    /\ jobs \subseteq WebhookJob
    /\ dead_letters \subseteq DlqEntry
    /\ \A i, j \in jobs : i.id = j.id => i = j
    /\ \A d, e \in dead_letters : d.id = e.id => d = e
    /\ up \in BOOLEAN
    /\ wpc \in {"idle", "asleep", "batch", "sending", "ok", "failed", "to_dlq", "moving"}
    /\ batch \in Seq(WebhookJob)
    /\ wpc \in {"idle", "asleep"} <=> batch = <<>>
    /\ hpc \in [Handlers -> {"idle", "found", "moving"}]
    /\ entry \in [Handlers -> DlqEntry \union {NoEntry}]
    /\ ids \in 0..MaxJobs
    /\ entry_ids \in Nat
    /\ accepted \subseteq Payloads
    /\ sends \in [JobIds -> Nat]
    /\ acked \in [JobIds -> BOOLEAN]
    /\ crashes \in Nat
    /\ dberrors \in Nat

\* README, Delivery semantics: no accepted payload is lost.  Wherever the
\* process dies or a statement fails, each is in one of the two tables.
NothingIsLost ==
    \A p \in accepted :
        (\E j \in jobs : j.payload = p) \/ (\E e \in dead_letters : e.payload = p)

\* A job marked delivered was answered 2xx, that very job and not another one
\* for the same payload.
DeliveredWasAcknowledged ==
    \A j \in jobs : j.status = "Delivered" => acked[j.id]

\* A dead letter never claims more attempts than MAX_ATTEMPTS, or than POSTs of
\* its job were made; while nothing has crashed or failed it claims exactly
\* those.  After a failure an entry may claim too few: a job whose move was
\* interrupted is still pending, and is POSTed again behind the entry's back.
\* But each crash or failed statement hides one POST from the count of
\* the job at most: no job is POSTed more often than MAX_ATTEMPTS (or once,
\* when that is 0) and once more for each failure.
EntryCountsSends ==
    /\ \A e \in dead_letters :
          /\ e.attempts <= MaxOf(1, MaxAttempts)
          /\ e.attempts <= sends[e.job_id]
          /\ crashes = 0 /\ dberrors = 0 => e.attempts = sends[e.job_id]
    /\ \A i \in JobIds : sends[i] <= MaxOf(1, MaxAttempts) + crashes + dberrors

\* Without crashes, failed statements and overlapping redeliver requests a
\* payload is in one place: one job, or one dead letter, whenever the mutex is
\* free.
OnePlace ==
    ~Locked /\ crashes = 0 /\ dberrors = 0 /\ (\A g, h \in Handlers : g = h) =>
        \A p \in accepted :
            Cardinality({j \in jobs : j.payload = p}
                            \union {e \in dead_letters : e.payload = p}) = 1

\* Where the service says a job is: an id not given out yet, a pending or a
\* delivered row, or none any more.
Phase(i) ==
    CASE i > ids -> "absent"
      [] i <= ids /\ \E j \in jobs : j.id = i /\ j.status = "Pending" -> "queued"
      [] i <= ids /\ \E j \in jobs : j.id = i /\ j.status = "Delivered" -> "delivered"
      [] OTHER -> "parked"

Abstract == INSTANCE AtLeastOnce
            WITH Jobs <- JobIds, phase <- [i \in JobIds |-> Phase(i)]

\* Service d keeps the promise of the four for each job, whatever crashes or
\* fails: a job is in the queue until it is delivered, after a 2xx and for
\* good, or has left for the dead letters, for good too (a redelivery is a new
\* job).
ImplementsAtLeastOnce == Abstract!Spec

\* Every job is eventually delivered or moved to the dead letter queue (or its
\* retry lies beyond the horizon), through crashes and failed statements.
EveryJobIsSettled ==
    \A i \in JobIds :
        (\E j \in jobs : j.id = i /\ j.status = "Pending") ~>
            \/ \E j \in jobs :
                  j.id = i /\ (j.status = "Delivered" \/ j.next_attempt_at > MaxTime)
            \/ \E e \in dead_letters : e.job_id = i
            \/ \A j \in jobs : j.id # i

(***************************************************************************)
(* What the documentation says and the code does not do                    *)
(***************************************************************************)

\* db.rs: move_to_dlq is to "move a job to the dead letter queue and remove it
\* from the active queue".  A crash between its statements leaves it in both.
DeadLetterLeftTheQueue ==
    ~Locked => \A e \in dead_letters : \A j \in jobs : j.id # e.job_id
=============================================================================
