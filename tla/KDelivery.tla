----------------------------- MODULE KDelivery -----------------------------
(***************************************************************************)
(* Service k (k/webhook-delivery): the `jobs` table (src/db.rs), the       *)
(* worker tasks that claim a batch of due jobs and deliver them one by one *)
(* (src/worker.rs), ingestion and dead letter requeue (src/routes.rs), and *)
(* the bounded drain at shutdown (src/main.rs).                            *)
(*                                                                         *)
(* A claim counts the attempt before it is made, and nothing ever takes an *)
(* in_flight job away from the worker that claimed it: no timeout, no      *)
(* recovery at startup.                                                    *)
(***************************************************************************)
EXTENDS Integers, Sequences, FiniteSets, Schedule

CONSTANTS
    Jobs,             \* job ids
    Workers,          \* worker tasks (WORKER_CONCURRENCY)
    MaxAttempts,      \* MAX_ATTEMPTS
    ClaimLimit,       \* the `8` of claim_due_jobs(8)
    BaseDelay,        \* BASE_DELAY_MS, in ticks
    MaxDelay,         \* MAX_DELAY_MS, in ticks
    MaxTime, MaxKills, MaxDbErrors, MaxRequeues   \* bounds of the model

\* What Config::from_env returns, beside the bounds of the model.
Config ==
    /\ IsFiniteSet(Jobs)
    /\ MaxAttempts \in Int
    /\ ClaimLimit \in Nat \ {0}
    /\ BaseDelay \in Nat
    /\ MaxDelay \in Nat
    /\ {MaxTime, MaxKills, MaxDbErrors, MaxRequeues} \subseteq Nat

ASSUME ConfigAssumption == Config

VARIABLES
    now,              \* Utc::now()
    status,           \* the columns of `jobs`, by id
    attempts,
    next_attempt_at,
    process,          \* "up", "draining" (server stopped, token cancelled), "down"
    pc,               \* where each worker task is
    batch,            \* the claimed jobs it has not recorded yet, as returned
    \* history and bounds, read by no handler
    sends,            \* POSTs made for the job since accepted or requeued
    acked,            \* the destination answered 2xx at least once
    requeued, kills, dberrors

rows == <<status, attempts, next_attempt_at>>
tasks == <<process, pc, batch>>
history == <<sends, acked, requeued, kills, dberrors>>
vars == <<now, rows, tasks, history>>

JobStatus == {"pending", "in_flight", "delivered", "dead"}

\* A claimed job as RETURNING shows it: attempts includes the one to be made.
ClaimedJob == [id : Jobs, attempts : Nat \ {0}]

\* base * 2^(attempts-1) capped, then a jitter of 20% either way, truncated.
Backoff(n) == Jitter20(Capped(BaseDelay, MinOf(n - 1, 20), MaxDelay))

Init ==
    /\ now = 0
    /\ status = [j \in Jobs |-> "absent"]
    /\ attempts = [j \in Jobs |-> 0]
    /\ next_attempt_at = [j \in Jobs |-> 0]
    /\ process = "up"
    /\ pc = [w \in Workers |-> "loop"]
    /\ batch = [w \in Workers |-> <<>>]
    /\ sends = [j \in Jobs |-> 0]
    /\ acked = [j \in Jobs |-> FALSE]
    /\ requeued = [j \in Jobs |-> 0]
    /\ kills = 0
    /\ dberrors = 0

(***************************************************************************)
(* The worker loop                                                         *)
(***************************************************************************)

\* The cancellation token is looked at before a claim, not after it.
CheckShutdown(w) ==
    /\ pc[w] = "loop"
    /\ pc' = [pc EXCEPT ![w] = IF process = "up" THEN "claiming" ELSE "stopped"]
    /\ UNCHANGED <<now, rows, process, batch, history>>

Due == {j \in Jobs : status[j] = "pending" /\ next_attempt_at[j] <= now}

\* Mutated forms (names ending in _mutant or _stuck) are slips that a property
\* below must catch; no action uses them.
claim_due_jobs_mutant(w) ==           \* the rows are returned but not flipped
    /\ pc[w] = "claiming"
    /\ Due # {}
    /\ \E s \in OldestDue(Due, next_attempt_at, ClaimLimit) :
          /\ attempts' = [j \in Jobs |-> IF j \in {s[i] : i \in DOMAIN s}
                                         THEN attempts[j] + 1 ELSE attempts[j]]
          /\ batch' = [batch EXCEPT ![w] =
                [i \in DOMAIN s |-> [id |-> s[i], attempts |-> attempts[s[i]] + 1]]]
    /\ pc' = [pc EXCEPT ![w] = "batch"]
    /\ UNCHANGED <<now, status, next_attempt_at, process, history>>

\* One immediate transaction: pick the oldest due jobs, flip them all.
claim_due_jobs(w) ==
    /\ pc[w] = "claiming"
    /\ Due # {}
    /\ \E s \in OldestDue(Due, next_attempt_at, ClaimLimit) :
          LET claimed == {s[i] : i \in DOMAIN s}
          IN  /\ status' = [j \in Jobs |-> IF j \in claimed THEN "in_flight" ELSE status[j]]
              /\ attempts' = [j \in Jobs |->
                                 IF j \in claimed THEN attempts[j] + 1 ELSE attempts[j]]
              /\ batch' = [batch EXCEPT ![w] =
                    [i \in DOMAIN s |-> [id |-> s[i], attempts |-> attempts[s[i]] + 1]]]
    /\ pc' = [pc EXCEPT ![w] = "batch"]
    /\ UNCHANGED <<now, next_attempt_at, process, history>>

\* Nothing due: sleep for WORKER_POLL_MS or until cancelled, and start over.
NothingDue(w) ==
    /\ pc[w] = "claiming"
    /\ Due = {}
    /\ pc' = [pc EXCEPT ![w] = "loop"]
    /\ UNCHANGED <<now, rows, process, batch, history>>

\* deliver: the POST of the first job of the batch leaves.
Send(w) ==
    /\ pc[w] = "batch"
    /\ pc' = [pc EXCEPT ![w] = "sending"]
    /\ sends' = [sends EXCEPT ![Head(batch[w]).id] = @ + 1]
    /\ UNCHANGED <<now, rows, process, batch, acked, requeued, kills, dberrors>>

\* The answer: "ok" for a 2xx, "failed" for any other status or no answer.
Answer(w, outcome) ==
    /\ pc[w] = "sending"
    /\ pc' = [pc EXCEPT ![w] = outcome]
    /\ acked' = [acked EXCEPT ![Head(batch[w]).id] = @ \/ outcome = "ok"]
    /\ UNCHANGED <<now, rows, process, batch, sends, requeued, kills, dberrors>>

NextJob_mutant(w) ==                  \* one step past the end of the batch
    /\ batch' = [batch EXCEPT ![w] = Tail(@)]
    /\ pc' = [pc EXCEPT ![w] = IF Len(batch[w]) = 0 THEN "loop" ELSE "batch"]
    /\ UNCHANGED process

\* On to the next job of the batch, or to the top of the loop.
NextJob(w) ==
    /\ batch' = [batch EXCEPT ![w] = Tail(@)]
    /\ pc' = [pc EXCEPT ![w] = IF Len(batch[w]) = 1 THEN "loop" ELSE "batch"]
    /\ UNCHANGED process

\* UPDATE jobs ... WHERE id = j: by id only, whatever the row says by now.
mark_delivered(j) ==
    /\ status' = [status EXCEPT ![j] = "delivered"]
    /\ UNCHANGED next_attempt_at

reschedule_job_stuck(j, at) ==        \* leaves the row in_flight
    /\ next_attempt_at' = [next_attempt_at EXCEPT ![j] = at]
    /\ UNCHANGED status

reschedule_job(j, at) ==
    /\ status' = [status EXCEPT ![j] = "pending"]
    /\ next_attempt_at' = [next_attempt_at EXCEPT ![j] = at]

mark_dead_mutant(j) == mark_delivered(j)   \* the statement of its neighbour

mark_dead(j) ==
    /\ status' = [status EXCEPT ![j] = "dead"]
    /\ UNCHANGED next_attempt_at

Exhausted_mutant(job) == job.attempts > MaxAttempts   \* one attempt too many

Exhausted(job) == job.attempts >= MaxAttempts

\* Record the outcome the claimed copy of the job calls for.
handle_one(w) ==
    LET job == Head(batch[w])
    IN  /\ \/ pc[w] = "ok" /\ mark_delivered(job.id)
           \/ pc[w] = "failed" /\ Exhausted(job) /\ mark_dead(job.id)
           \/ /\ pc[w] = "failed" /\ ~Exhausted(job)
              /\ \E delay \in Backoff(job.attempts) : reschedule_job(job.id, now + delay)
        /\ NextJob(w)
        /\ UNCHANGED <<now, attempts, history>>

WorkerStep(w) ==
    \/ CheckShutdown(w) \/ claim_due_jobs(w) \/ NothingDue(w) \/ Send(w)
    \/ \E outcome \in {"ok", "failed"} : Answer(w, outcome)
    \/ handle_one(w)

\* A database error is logged; a failed claim rolls back and returns nothing,
\* a failed record leaves the row as it is and the worker goes on.
DbError(w) ==
    /\ dberrors < MaxDbErrors
    /\ dberrors' = dberrors + 1
    /\ \/ pc[w] = "claiming" /\ pc' = [pc EXCEPT ![w] = "loop"] /\ UNCHANGED <<process, batch>>
       \/ pc[w] \in {"ok", "failed"} /\ NextJob(w)
    /\ UNCHANGED <<now, rows, sends, acked, requeued, kills>>

(***************************************************************************)
(* The API, the process and time                                           *)
(***************************************************************************)

insert_job(j) ==
    /\ status' = [status EXCEPT ![j] = "pending"]
    /\ next_attempt_at' = [next_attempt_at EXCEPT ![j] = now]
    /\ UNCHANGED attempts

requeue_dead_mutant(j) ==             \* keeps the attempts of the dead life
    /\ status[j] = "dead"
    /\ insert_job(j)

\* One UPDATE ... WHERE status = 'dead'.
requeue_dead(j) ==
    /\ status[j] = "dead"
    /\ status' = [status EXCEPT ![j] = "pending"]
    /\ attempts' = [attempts EXCEPT ![j] = 0]
    /\ next_attempt_at' = [next_attempt_at EXCEPT ![j] = now]

\* The row is committed before the 202.
post_webhook(j) ==
    /\ process = "up"
    /\ status[j] = "absent"
    /\ insert_job(j)
    /\ UNCHANGED <<now, tasks, history>>

retry_dlq(j) ==
    /\ process = "up"
    /\ requeue_dead(j)
    /\ requeued[j] < MaxRequeues
    /\ sends' = [sends EXCEPT ![j] = 0]
    /\ requeued' = [requeued EXCEPT ![j] = @ + 1]
    /\ UNCHANGED <<now, tasks, acked, kills, dberrors>>

\* ctrl-c: the HTTP server has stopped, then the token is cancelled.
Shutdown ==
    /\ process = "up"
    /\ process' = "draining"
    /\ UNCHANGED <<now, rows, pc, batch, history>>

\* main has joined every worker and returns.
Exit ==
    /\ process = "draining"
    /\ \A w \in Workers : pc[w] = "stopped"
    /\ process' = "down"
    /\ UNCHANGED <<now, rows, pc, batch, history>>

\* The process dies with its tasks: a crash, or the 5 seconds main gives the
\* workers are over (one request may take 10, a batch 8 requests).
Kill ==
    /\ process # "down"
    /\ kills < MaxKills
    /\ kills' = kills + 1
    /\ process' = "down"
    /\ pc' = [w \in Workers |-> "stopped"]
    /\ batch' = [w \in Workers |-> <<>>]
    /\ UNCHANGED <<now, rows, sends, acked, requeued, dberrors>>

\* Startup runs the migrations and spawns the workers; it changes no row.
Restart ==
    /\ process = "down"
    /\ process' = "up"
    /\ pc' = [w \in Workers |-> "loop"]
    /\ UNCHANGED <<now, rows, batch, history>>

Tick ==
    /\ now < MaxTime
    /\ now' = now + 1
    /\ UNCHANGED <<rows, tasks, history>>

Next ==
    \/ \E w \in Workers : WorkerStep(w) \/ DbError(w)
    \/ \E j \in Jobs : post_webhook(j) \/ retry_dlq(j)
    \/ Shutdown \/ Exit \/ Kill \/ Restart \/ Tick

Spec == Init /\ [][Next]_vars

\* The runtime keeps running every task, a stopped process is started again,
\* and time passes.
Fairness ==
    /\ \A w \in Workers : WF_vars(WorkerStep(w))
    /\ WF_vars(Exit)
    /\ WF_vars(Restart)
    /\ WF_vars(Tick)

FairSpec == Spec /\ Fairness

-----------------------------------------------------------------------------
(***************************************************************************)
(* Properties                                                              *)
(***************************************************************************)

Busy == {"batch", "sending", "ok", "failed"}

\* Columns and locals keep their types; a worker between its claim and its
\* last record has a job in hand, and at no other time; no task outlives the
\* process.
TypeOK ==
    /\ now \in Nat
    /\ status \in [Jobs -> JobStatus \union {"absent"}]
    /\ attempts \in [Jobs -> Nat]
    /\ next_attempt_at \in [Jobs -> Nat]
    /\ process \in {"up", "draining", "down"}
    /\ pc \in [Workers -> Busy \union {"stopped", "loop", "claiming"}]
    /\ batch \in [Workers -> Seq(ClaimedJob)]
    /\ \A w \in Workers : pc[w] \in Busy <=> batch[w] # <<>>
    /\ process = "down" => \A w \in Workers : pc[w] = "stopped"
    /\ sends \in [Jobs -> Nat]
    /\ acked \in [Jobs -> BOOLEAN]
    /\ requeued \in [Jobs -> Nat]
    /\ kills \in Nat
    /\ dberrors \in Nat

\* A job waits in at most one place of one batch, and as long as it does its
\* row is in_flight with the attempts the worker goes by.  Through crashes,
\* lost writes and requeues: this is what makes the unconditional updates by
\* id safe.
ClaimIsExclusive ==
    \A w \in Workers : \A i \in 1..Len(batch[w]) :
        LET job == batch[w][i]
        IN  /\ status[job.id] = "in_flight"
            /\ attempts[job.id] = job.attempts
            /\ \A v \in Workers : \A k \in 1..Len(batch[v]) :
                  batch[v][k].id = job.id => v = w /\ k = i

\* attempts is the number of POSTs of this life of the job: exactly, unless
\* it is in_flight and the last one may be still to come (or never will).
AttemptsCountSends ==
    \A j \in Jobs :
        \/ sends[j] = attempts[j]
        \/ status[j] = "in_flight" /\ sends[j] = attempts[j] - 1

\* A dead job was POSTed exactly MAX_ATTEMPTS times since it was accepted or
\* requeued (once, if MAX_ATTEMPTS is not positive), crash or no crash.
DeadAfterMaxAttempts ==
    \A j \in Jobs : status[j] = "dead" => sends[j] = MaxOf(1, MaxAttempts)

\* The promise of the service as a whole, as for service q.
Phase(s) ==
    CASE s = "absent" -> "absent"
      [] s \in {"pending", "in_flight"} -> "queued"
      [] s = "delivered" -> "delivered"
      [] s = "dead" -> "parked"

Abstract == INSTANCE AtLeastOnce WITH phase <- [j \in Jobs |-> Phase(status[j])]

ImplementsAtLeastOnce == Abstract!Spec

Settles(j) ==
    status[j] \in {"pending", "in_flight"} ~>
        status[j] \in {"delivered", "dead"} \/ next_attempt_at[j] > MaxTime

\* While the process is not killed and no write is lost, every accepted job
\* is eventually delivered or dead (or its retry lies beyond the horizon),
\* graceful restarts included.
AcceptedIsSettled ==
    <>[](process = "up") /\ [](kills = 0 /\ dberrors = 0) => \A j \in Jobs : Settles(j)

(***************************************************************************)
(* What the documentation says and the code does not do                    *)
(***************************************************************************)

\* README: "If the process crashes mid-delivery, the job is either still
\* pending [...] or in_flight [...]; on restart it is picked up and retried."
CrashedJobIsRetried ==
    <>[](process = "up") => \A j \in Jobs : Settles(j)
=============================================================================
