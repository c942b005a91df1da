----------------------------- MODULE GDelivery -----------------------------
(***************************************************************************)
(* Service g: the `deliveries` table, the polling loop that reclaims stale *)
(* rows, claims due ones and spawns a task for each (g/src/worker.rs), the *)
(* tasks that wait for a permit, deliver and finalize (g/src/worker.rs,    *)
(* g/src/deliver.rs), ingestion and requeue (g/src/routes.rs), and startup *)
(* recovery (g/src/db.rs, g/src/main.rs).                                  *)
(*                                                                         *)
(* A row is leased, not locked: the task that claimed it and the loop that *)
(* takes it back after the visibility timeout never meet, and a task       *)
(* finalizes the row by id whatever it has become.                         *)
(***************************************************************************)
EXTENDS Integers, FiniteSets, Schedule

CONSTANTS
    Jobs,              \* delivery ids
    Tasks,             \* spawned tasks alive at once (a bound of the model)
    Handlers,          \* requeue requests being served at once
    MaxAttempts,       \* MAX_ATTEMPTS
    BatchSize,         \* BATCH_SIZE
    MaxConcurrent,     \* MAX_CONCURRENT_DELIVERIES, permits of the semaphore
    RetryBase,         \* RETRY_BASE_MS, in ticks
    RetryMax,          \* RETRY_MAX_MS, in ticks
    DeliveryTimeout,   \* DELIVERY_TIMEOUT_SECS, in ticks
    Visibility,        \* VISIBILITY_TIMEOUT_SECS, in ticks
    MaxTime, MaxCrashes, MaxDbErrors, MaxRequeues   \* bounds of the model

\* What Config::from_env returns, beside the bounds of the model.
Config ==
    /\ IsFiniteSet(Jobs)
    /\ IsFiniteSet(Tasks)
    /\ MaxAttempts \in Int
    /\ {BatchSize, MaxConcurrent} \subseteq Nat \ {0}
    /\ {RetryBase, RetryMax, DeliveryTimeout, Visibility} \subseteq Nat
    /\ {MaxTime, MaxCrashes, MaxDbErrors, MaxRequeues} \subseteq Nat

ASSUME ConfigAssumption == Config

VARIABLES
    now,               \* Utc::now()
    status,            \* the columns of `deliveries`, by id
    attempts,
    next_attempt_at,
    updated_at,
    up,                \* is the process running
    ticking,           \* the loop is between its reclaim and its claim
    pc,                \* where each task is
    job,               \* the ClaimedJob it was spawned with
    started_at,        \* its `now`, read once it has a permit
    checked,           \* the id a requeue request has found dead-lettered
    \* history and bounds, read by no handler
    tries,             \* delivery attempts begun since accepted or requeued
    acked,             \* the destination answered 2xx at least once
    requeued, crashes, dberrors

rows == <<status, attempts, next_attempt_at, updated_at>>
tasks == <<pc, job, started_at>>
loop == <<up, ticking>>
history == <<tries, acked, requeued, crashes, dberrors>>
vars == <<now, rows, loop, tasks, checked, history>>

DeliveryStatus == {"pending", "processing", "delivered", "dead_lettered"}
ClaimedJob == [id : Jobs, attempts : Nat]
NoJob == [id |-> "none", attempts |-> 0]
NoId == "none"

\* Full jitter between half the capped exponential and all of it.
Backoff(n) ==
    LET capped == Capped(MaxOf(RetryBase, 1), MinOf(n - 1, 16), MaxOf(RetryMax, 1))
    IN  {delay \in 0..capped : capped \div 2 <= delay}

Init ==
    /\ now = 0
    /\ status = [j \in Jobs |-> "absent"]
    /\ attempts = [j \in Jobs |-> 0]
    /\ next_attempt_at = [j \in Jobs |-> 0]
    /\ updated_at = [j \in Jobs |-> 0]
    /\ up = TRUE
    /\ ticking = FALSE
    /\ pc = [t \in Tasks |-> "free"]
    /\ job = [t \in Tasks |-> NoJob]
    /\ started_at = [t \in Tasks |-> 0]
    /\ checked = [h \in Handlers |-> NoId]
    /\ tries = [j \in Jobs |-> 0]
    /\ acked = [j \in Jobs |-> FALSE]
    /\ requeued = [j \in Jobs |-> 0]
    /\ crashes = 0
    /\ dberrors = 0

(***************************************************************************)
(* The loop: tick                                                          *)
(***************************************************************************)

\* Mutated forms (names ending in _mutant or _units) are slips that a property
\* below must catch; no action uses them.
Stale_mutant(j) == status[j] = "processing"     \* no cutoff

Stale_units(j) ==                     \* seconds taken for milliseconds once more
    status[j] = "processing" /\ updated_at[j] < now - Visibility * 1000

Stale(j) == status[j] = "processing" /\ updated_at[j] < now - Visibility

\* First statement of a tick: rows past the visibility timeout are pending
\* again; attempts and next_attempt_at stay.
Reclaim ==
    /\ up
    /\ ~ticking
    /\ ticking' = TRUE
    /\ status' = [j \in Jobs |-> IF Stale(j) THEN "pending" ELSE status[j]]
    /\ updated_at' = [j \in Jobs |-> IF Stale(j) THEN now ELSE updated_at[j]]
    /\ UNCHANGED <<now, attempts, next_attempt_at, up, tasks, checked, history>>

Due == {j \in Jobs : status[j] = "pending" /\ next_attempt_at[j] <= now}

Free == {t \in Tasks : pc[t] = "free"}

\* Second statement: flip the oldest due rows and spawn a task for each.
Claim ==
    /\ up
    /\ ticking
    /\ ticking' = FALSE
    /\ \E s \in OldestDue(Due, next_attempt_at, BatchSize) :
          LET claimed == {s[i] : i \in DOMAIN s}
          IN  /\ status' = [j \in Jobs |-> IF j \in claimed THEN "processing" ELSE status[j]]
              /\ updated_at' = [j \in Jobs |-> IF j \in claimed THEN now ELSE updated_at[j]]
              /\ \E spawned \in SUBSET Free : \E id \in [spawned -> claimed] :
                    /\ \A j \in claimed : \E t \in spawned : id[t] = j
                    /\ \A t, u \in spawned : id[t] = id[u] => t = u
                    /\ pc' = [t \in Tasks |-> IF t \in spawned THEN "waiting" ELSE pc[t]]
                    /\ job' = [t \in Tasks |->
                                  IF t \in spawned
                                  THEN [id |-> id[t], attempts |-> attempts[id[t]]]
                                  ELSE job[t]]
    /\ UNCHANGED <<now, attempts, next_attempt_at, up, started_at, checked, history>>

(***************************************************************************)
(* A task: process_job                                                     *)
(***************************************************************************)

Delivering == {t \in Tasks : pc[t] \in {"delivering", "ok", "failed"}}

PermitFree == Cardinality(Delivering) < MaxConcurrent

\* It acquires a permit and deliver_once begins: destination check, POST.
Start(t) ==
    /\ pc[t] = "waiting"
    /\ PermitFree
    /\ pc' = [pc EXCEPT ![t] = "delivering"]
    /\ started_at' = [started_at EXCEPT ![t] = now]
    /\ tries' = [tries EXCEPT ![job[t].id] = @ + 1]
    /\ UNCHANGED <<now, rows, loop, job, checked, acked, requeued, crashes, dberrors>>

\* "ok" for a 2xx; "failed" for anything else, a refused destination included.
Answer(t, outcome) ==
    /\ pc[t] = "delivering"
    /\ pc' = [pc EXCEPT ![t] = outcome]
    /\ acked' = [acked EXCEPT ![job[t].id] = @ \/ outcome = "ok"]
    /\ UNCHANGED <<now, rows, loop, job, started_at, checked, tries, requeued, crashes,
                   dberrors>>

\* The task returns and drops its permit.
Finish(t) ==
    /\ pc' = [pc EXCEPT ![t] = "free"]
    /\ job' = [job EXCEPT ![t] = NoJob]
    /\ started_at' = [started_at EXCEPT ![t] = 0]

\* UPDATE deliveries ... WHERE id = : attempts is the claimed value plus one.
Record(t, s) ==
    /\ status' = [status EXCEPT ![job[t].id] = s]
    /\ attempts' = [attempts EXCEPT ![job[t].id] = job[t].attempts + 1]
    /\ updated_at' = [updated_at EXCEPT ![job[t].id] = started_at[t]]

Delivered(t) ==
    /\ pc[t] = "ok"
    /\ Record(t, "delivered")
    /\ UNCHANGED next_attempt_at

Exhausted_mutant(t) == job[t].attempts >= MaxAttempts    \* counts from the old value

Exhausted(t) == job[t].attempts + 1 >= MaxAttempts

DeadLettered_mutant(t) ==             \* a failed last attempt ends as delivered
    /\ pc[t] = "failed"
    /\ Exhausted(t)
    /\ Record(t, "delivered")
    /\ UNCHANGED next_attempt_at

DeadLettered(t) ==
    /\ pc[t] = "failed"
    /\ Exhausted(t)
    /\ Record(t, "dead_lettered")
    /\ UNCHANGED next_attempt_at

\* The retry delay runs from the start of the attempt, not from its end.
RetryScheduled(t) ==
    /\ pc[t] = "failed"
    /\ ~Exhausted(t)
    /\ Record(t, "pending")
    /\ \E delay \in Backoff(job[t].attempts + 1) :
          next_attempt_at' = [next_attempt_at EXCEPT ![job[t].id] = started_at[t] + delay]

Finalize(t) ==
    /\ Delivered(t) \/ DeadLettered(t) \/ RetryScheduled(t)
    /\ Finish(t)
    /\ UNCHANGED <<now, loop, checked, history>>

\* The loop logs a failed statement and sleeps; a task whose final update
\* fails is gone and leaves the row processing.
DbError ==
    /\ dberrors < MaxDbErrors
    /\ dberrors' = dberrors + 1
    /\ \/ ticking /\ ticking' = FALSE /\ UNCHANGED tasks
       \/ /\ \E t \in Tasks : pc[t] \in {"ok", "failed"} /\ Finish(t)
          /\ UNCHANGED ticking
    /\ UNCHANGED <<now, rows, up, checked, tries, acked, requeued, crashes>>

(***************************************************************************)
(* The API, the process and time                                           *)
(***************************************************************************)

\* The row is committed before the 202.
create_webhook(j) ==
    /\ up
    /\ status[j] = "absent"
    /\ status' = [status EXCEPT ![j] = "pending"]
    /\ next_attempt_at' = [next_attempt_at EXCEPT ![j] = now]
    /\ updated_at' = [updated_at EXCEPT ![j] = now]
    /\ UNCHANGED <<now, attempts, loop, tasks, checked, history>>

\* requeue_from_dlq, first query: only a dead-lettered row passes.
FindDeadLetter(h, j) ==
    /\ up
    /\ checked[h] = NoId
    /\ status[j] = "dead_lettered"
    /\ requeued[j] < MaxRequeues
    /\ checked' = [checked EXCEPT ![h] = j]
    /\ UNCHANGED <<now, rows, loop, tasks, history>>

Requeue_mutant(h) ==                  \* attempts below zero for an extra try
    /\ checked[h] # NoId
    /\ checked' = [checked EXCEPT ![h] = NoId]
    /\ status' = [status EXCEPT ![checked[h]] = "pending"]
    /\ attempts' = [attempts EXCEPT ![checked[h]] = 0 - 1]
    /\ UNCHANGED <<now, next_attempt_at, updated_at, loop, tasks, history>>

\* Second query: UPDATE ... WHERE id = , which does not look at the status.
Requeue(h) ==
    LET j == checked[h]
    IN  /\ j # NoId
        /\ checked' = [checked EXCEPT ![h] = NoId]
        /\ status' = [status EXCEPT ![j] = "pending"]
        /\ attempts' = [attempts EXCEPT ![j] = 0]
        /\ next_attempt_at' = [next_attempt_at EXCEPT ![j] = now]
        /\ updated_at' = [updated_at EXCEPT ![j] = now]
        /\ tries' = [tries EXCEPT ![j] = 0]
        /\ requeued' = [requeued EXCEPT ![j] = @ + 1]
        /\ UNCHANGED <<now, loop, tasks, acked, crashes, dberrors>>

\* The process dies with its tasks and requests.  Ctrl-c is no better: main
\* returns when the HTTP server has stopped, and the runtime drops the tasks.
Crash ==
    /\ up
    /\ crashes < MaxCrashes
    /\ crashes' = crashes + 1
    /\ up' = FALSE
    /\ ticking' = FALSE
    /\ pc' = [t \in Tasks |-> "free"]
    /\ job' = [t \in Tasks |-> NoJob]
    /\ started_at' = [t \in Tasks |-> 0]
    /\ checked' = [h \in Handlers |-> NoId]
    /\ UNCHANGED <<now, rows, tries, acked, requeued, dberrors>>

reset_processing ==
    LET claimed(j) == status[j] = "processing"
    IN  /\ status' = [j \in Jobs |-> IF claimed(j) THEN "pending" ELSE status[j]]
        /\ updated_at' = [j \in Jobs |-> IF claimed(j) THEN now ELSE updated_at[j]]
        /\ UNCHANGED <<attempts, next_attempt_at>>

\* main: reset_processing, then the loop and the server.
Restart ==
    /\ ~up
    /\ up' = TRUE
    /\ reset_processing
    /\ UNCHANGED <<now, ticking, tasks, checked, history>>

\* Statements take no time, a free permit goes to a waiting task at once, and
\* an attempt with its final update ends within DeliveryTimeout.
Tick ==
    /\ now < MaxTime
    /\ ~ticking
    /\ \A t \in Tasks : pc[t] = "waiting" => ~PermitFree
    /\ \A t \in Delivering : now - started_at[t] < DeliveryTimeout
    /\ now' = now + 1
    /\ UNCHANGED <<rows, loop, tasks, checked, history>>

TaskStep(t) ==
    Start(t) \/ Finalize(t) \/ \E outcome \in {"ok", "failed"} : Answer(t, outcome)

Next ==
    \/ Reclaim \/ Claim
    \/ \E t \in Tasks : TaskStep(t)
    \/ DbError
    \/ \E j \in Jobs : create_webhook(j)
    \/ \E h \in Handlers : Requeue(h) \/ \E j \in Jobs : FindDeadLetter(h, j)
    \/ Crash \/ Restart \/ Tick

Spec == Init /\ [][Next]_vars

\* The loop keeps ticking, the runtime runs every task, a stopped process is
\* started again, and time passes: the loop sleeps between two ticks, so a
\* clock tick that only a loop tick holds up again and again does come
\* (strong fairness).
Fairness ==
    /\ WF_vars(Reclaim)
    /\ WF_vars(Claim)
    /\ \A t \in Tasks : WF_vars(TaskStep(t))
    /\ WF_vars(Restart)
    /\ SF_vars(Tick)

FairSpec == Spec /\ Fairness

-----------------------------------------------------------------------------
(***************************************************************************)
(* Properties                                                              *)
(***************************************************************************)

Live(t) == pc[t] # "free"

\* Columns and locals keep their types; a live task knows its job.
TypeOK ==
    /\ now \in Nat
    /\ status \in [Jobs -> DeliveryStatus \union {"absent"}]
    /\ attempts \in [Jobs -> Nat]
    /\ next_attempt_at \in [Jobs -> Nat]
    /\ updated_at \in [Jobs -> Nat]
    /\ up \in BOOLEAN
    /\ ticking \in BOOLEAN
    /\ pc \in [Tasks -> {"free", "waiting", "delivering", "ok", "failed"}]
    /\ job \in [Tasks -> ClaimedJob \union {NoJob}]
    /\ \A t \in Tasks : Live(t) => job[t] \in ClaimedJob
    /\ started_at \in [Tasks -> Nat]
    /\ checked \in [Handlers -> Jobs \union {NoId}]
    /\ tries \in [Jobs -> Nat]
    /\ acked \in [Jobs -> BOOLEAN]
    /\ requeued \in [Jobs -> Nat]
    /\ crashes \in Nat
    /\ dberrors \in Nat

\* A lease is never taken from a live task: while a task waits, delivers or
\* finalizes, its row is processing with the attempts it was spawned with,
\* and no other task works on it.  Nothing in the code couples the two: it
\* needs a permit for every spawned task, attempts shorter than the
\* visibility timeout, and requeue requests that do not overlap.
LeaseOutlivesTask ==
    /\ \A t \in Tasks : Live(t) =>
          /\ status[job[t].id] = "processing"
          /\ attempts[job[t].id] = job[t].attempts
    /\ \A t, u \in Tasks : Live(t) /\ Live(u) /\ job[t].id = job[u].id => t = u

\* A delivery is dead-lettered by its MAX_ATTEMPTS-th counted attempt, and
\* the uncounted ones are those a crash or a lost write interrupted.
DeadAfterMaxAttempts ==
    \A j \in Jobs : status[j] = "dead_lettered" =>
        /\ attempts[j] = MaxOf(1, MaxAttempts)
        /\ tries[j] \in attempts[j] .. attempts[j] + crashes + dberrors

\* The promise of the service as a whole, as for service q.
Phase(s) ==
    CASE s = "absent" -> "absent"
      [] s \in {"pending", "processing"} -> "queued"
      [] s = "delivered" -> "delivered"
      [] s = "dead_lettered" -> "parked"

Abstract == INSTANCE AtLeastOnce WITH phase <- [j \in Jobs |-> Phase(status[j])]

ImplementsAtLeastOnce == Abstract!Spec

\* The retry, or the end of the lease, lies beyond the horizon of the model.
BeyondHorizon(j) ==
    \/ next_attempt_at[j] > MaxTime
    \/ status[j] = "processing" /\ updated_at[j] + Visibility >= MaxTime

\* README, Crash recovery: through crashes, restarts and lost writes, every
\* accepted delivery is eventually delivered or dead-lettered.
AcceptedIsSettled ==
    \A j \in Jobs :
        status[j] \in {"pending", "processing"} ~>
            status[j] \in {"delivered", "dead_lettered"} \/ BeyondHorizon(j)

(***************************************************************************)
(* What the documentation says and the code does not do                    *)
(***************************************************************************)

\* routes.rs: "only dead-lettered deliveries can be requeued".
OnlyDeadLettersAreRequeued ==
    [][\A j \in Jobs : requeued'[j] > requeued[j] => status[j] = "dead_lettered"]_vars

\* README: after MAX_ATTEMPTS failed attempts the job is "parked in
\* dead_lettered state [...] replayable via /dlq/{id}/requeue": it stays
\* there until it is requeued.
DeadLetterStaysParked ==
    [][\A j \in Jobs :
          status[j] = "dead_lettered" /\ status'[j] # "dead_lettered"
              => requeued'[j] > requeued[j]]_vars
=============================================================================
