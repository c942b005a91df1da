----------------------------- MODULE QDelivery -----------------------------
(***************************************************************************)
(* The delivery pipeline of service q: the `deliveries` and `dead_letters` *)
(* tables (q/src/db.rs), the pool of delivery workers that poll, claim,    *)
(* send and record (q/src/delivery/worker.rs), ingestion                   *)
(* (q/src/api/webhook.rs), operator replay (q/src/api/admin.rs), graceful  *)
(* shutdown (q/src/lib.rs), crashes and restarts.                          *)
(*                                                                         *)
(* One action is one critical section of the SQLite connection mutex,      *)
(* together with the straight-line code around it that no other task can   *)
(* observe.  Time is counted in abstract ticks.                            *)
(***************************************************************************)
EXTENDS Integers, Sequences, FiniteSets, Schedule

CONSTANTS
    Ids,              \* delivery ids
    Workers,          \* the worker tasks of one process (WORKER_COUNT)
    MaxAttempts,      \* MAX_ATTEMPTS, stored in every row at insert
    BatchLimit,       \* the `20` of list_due(now, 20)
    BaseRetryDelay,   \* BASE_RETRY_DELAY_MS, in ticks
    MaxRetryDelay,    \* MAX_RETRY_DELAY_MS, in ticks
    RequestTimeout,   \* REQUEST_TIMEOUT_MS: bounds how long a send is in flight
    StaleInFlight,    \* STALE_IN_FLIGHT_MS
    DestinationsMayChange,  \* may delivery-time validation reject an accepted row
    MaxTime, MaxCrashes, MaxDbErrors, MaxReplays   \* bounds of the model

\* What Config::from_env returns, beside the bounds of the model.  It refuses
\* a zero, but truncates MAX_ATTEMPTS to 32 bits, which can make it one.
Config ==
    /\ IsFiniteSet(Ids)
    /\ IsFiniteSet(Workers) /\ Workers # {}
    /\ MaxAttempts \in Nat
    /\ BatchLimit \in Nat \ {0}
    /\ BaseRetryDelay \in Nat
    /\ MaxRetryDelay \in Nat
    /\ RequestTimeout \in Nat
    /\ StaleInFlight \in Nat
    /\ DestinationsMayChange \in BOOLEAN
    /\ MaxTime \in Nat
    /\ MaxCrashes \in Nat
    /\ MaxDbErrors \in Nat
    /\ MaxReplays \in Nat

ASSUME ConfigAssumption == Config

VARIABLES
    now,            \* now_ms()
    status,         \* the columns of `deliveries`, by id
    attempts,
    next_retry_at,
    updated_at,
    dead_letters,   \* number of `dead_letters` rows of each delivery
    pc,             \* where each worker task is
    batch,          \* snapshots returned by list_due and not yet processed
    job,            \* the claimed snapshot a worker is sending
    since,          \* when it claimed it
    outcome,        \* the classified answer, before it is recorded
    shutdown,       \* the watch channel value
    \* history and bounds, read by no handler
    sends,          \* POSTs made for the delivery since accepted or replayed
    acked,          \* the destination answered 2xx at least once
    replayed, crashes, dberrors

rows == <<status, attempts, next_retry_at, updated_at, dead_letters>>
tasks == <<pc, batch, job, since, outcome>>
history == <<sends, acked, replayed, crashes, dberrors>>
vars == <<now, rows, tasks, shutdown, history>>

(***************************************************************************)
(* Values                                                                  *)
(***************************************************************************)
DeliveryStatus == {"pending", "in_flight", "delivered", "dead_letter"}
Outcome == {"Delivered", "Retryable", "Permanent"}

NoJob == [id |-> "none", attempts |-> 0]
NoOutcome == "none"

\* What a worker remembers of a row after list_due has released the mutex.
Snapshot == [id : Ids, attempts : Nat]

Up == \E w \in Workers : pc[w] # "down"

\* Full jitter: every delay from 0 to the capped exponential (attempt >= 1).
RetryDelays(attempt) ==
    0 .. Capped(BaseRetryDelay, MinOf(attempt - 1, 20), MaxRetryDelay)

-----------------------------------------------------------------------------
Init ==
    /\ now = 0
    /\ status = [d \in Ids |-> "absent"]
    /\ attempts = [d \in Ids |-> 0]
    /\ next_retry_at = [d \in Ids |-> 0]
    /\ updated_at = [d \in Ids |-> 0]
    /\ dead_letters = [d \in Ids |-> 0]
    /\ pc = [w \in Workers |-> "boot"]
    /\ batch = [w \in Workers |-> <<>>]
    /\ job = [w \in Workers |-> NoJob]
    /\ since = [w \in Workers |-> 0]
    /\ outcome = [w \in Workers |-> NoOutcome]
    /\ shutdown = FALSE
    /\ sends = [d \in Ids |-> 0]
    /\ acked = [d \in Ids |-> FALSE]
    /\ replayed = [d \in Ids |-> 0]
    /\ crashes = 0
    /\ dberrors = 0

(***************************************************************************)
(* Statements on the tables                                                *)
(***************************************************************************)

\* UPDATE deliveries SET status = s, updated_at = now WHERE id = d
SetStatus(d, s) ==
    /\ status' = [status EXCEPT ![d] = s]
    /\ updated_at' = [updated_at EXCEPT ![d] = now]

insert(d) ==
    /\ SetStatus(d, "pending")
    /\ next_retry_at' = [next_retry_at EXCEPT ![d] = now]
    /\ UNCHANGED <<attempts, dead_letters>>

\* The compare and set by which one worker wins the row.
claim(d) ==
    /\ status[d] = "pending"
    /\ SetStatus(d, "in_flight")
    /\ UNCHANGED <<attempts, next_retry_at, dead_letters>>

\* No WHERE status = ...: the row is overwritten whatever it says by now.
mark_delivered(d) ==
    /\ SetStatus(d, "delivered")
    /\ attempts' = [attempts EXCEPT ![d] = @ + 1]
    /\ UNCHANGED <<next_retry_at, dead_letters>>

\* Mutated forms (names ending in _mutant or _stuck) are slips that a property below
\* must catch; no action uses them.
schedule_retry_mutant(d, next) ==     \* forgets to count the send
    /\ SetStatus(d, "pending")
    /\ next_retry_at' = [next_retry_at EXCEPT ![d] = next]
    /\ UNCHANGED <<attempts, dead_letters>>

schedule_retry_stuck(d, next) ==      \* leaves the row in_flight
    /\ attempts' = [attempts EXCEPT ![d] = @ + 1]
    /\ next_retry_at' = [next_retry_at EXCEPT ![d] = next]
    /\ updated_at' = [updated_at EXCEPT ![d] = now]
    /\ UNCHANGED <<status, dead_letters>>

schedule_retry(d, next) ==
    /\ SetStatus(d, "pending")
    /\ attempts' = [attempts EXCEPT ![d] = @ + 1]
    /\ next_retry_at' = [next_retry_at EXCEPT ![d] = next]
    /\ UNCHANGED dead_letters

dead_letter_mutant(d) ==              \* INSERT OR IGNORE, keyed by delivery
    /\ SetStatus(d, "dead_letter")
    /\ dead_letters' = [dead_letters EXCEPT ![d] = 1]
    /\ UNCHANGED <<attempts, next_retry_at>>

\* One transaction: the status and the dead_letters row together.
dead_letter(d) ==
    /\ SetStatus(d, "dead_letter")
    /\ dead_letters' = [dead_letters EXCEPT ![d] = @ + 1]
    /\ UNCHANGED <<attempts, next_retry_at>>

\* Entries are kept for audit, so an entry once found is always there.
find_dlq_entry(d) == dead_letters[d] > 0

replay_dead_letter(d) ==
    /\ status[d] = "dead_letter"
    /\ SetStatus(d, "pending")
    /\ attempts' = [attempts EXCEPT ![d] = 0]
    /\ next_retry_at' = [next_retry_at EXCEPT ![d] = now]
    /\ UNCHANGED dead_letters

reset_stale_in_flight ==
    LET stale(d) == status[d] = "in_flight" /\ updated_at[d] <= now - StaleInFlight
        reset(column, value) == [d \in Ids |-> IF stale(d) THEN value ELSE column[d]]
    IN  /\ status' = reset(status, "pending")
        /\ next_retry_at' = reset(next_retry_at, now)
        /\ updated_at' = reset(updated_at, now)
        /\ UNCHANGED <<attempts, dead_letters>>

Due == {d \in Ids : status[d] = "pending" /\ next_retry_at[d] <= now}

list_due == OldestDue(Due, next_retry_at, BatchLimit)

(***************************************************************************)
(* The worker: run and process                                             *)
(***************************************************************************)

Boot_mutant(w) ==                     \* resets whatever is in flight, stale or not
    /\ pc[w] = "boot"
    /\ status' = [d \in Ids |-> IF status[d] = "in_flight" THEN "pending" ELSE status[d]]
    /\ pc' = [pc EXCEPT ![w] = "loop"]
    /\ UNCHANGED <<now, attempts, next_retry_at, updated_at, dead_letters, batch,
                   job, since, outcome, shutdown, history>>

\* Each worker task runs the reset once, before its first poll.
Boot(w) ==
    /\ pc[w] = "boot"
    /\ reset_stale_in_flight
    /\ pc' = [pc EXCEPT ![w] = "loop"]
    /\ UNCHANGED <<now, batch, job, since, outcome, shutdown, history>>

\* Top of the loop: take snapshots of the due rows.
Poll(w) ==
    /\ pc[w] = "loop"
    /\ batch[w] = <<>>
    /\ ~shutdown
    /\ Due # {}
    /\ \E s \in list_due :
          batch' = [batch EXCEPT ![w] =
                       [i \in DOMAIN s |-> [id |-> s[i], attempts |-> attempts[s[i]]]]]
    /\ UNCHANGED <<now, rows, pc, job, since, outcome, shutdown, history>>

Stop_mutant(w) ==                     \* select! drops the send when asked to stop
    /\ pc[w] \in {"loop", "sending"}
    /\ shutdown
    /\ pc' = [pc EXCEPT ![w] = "down"]
    /\ batch' = [batch EXCEPT ![w] = <<>>]
    /\ job' = [job EXCEPT ![w] = NoJob]
    /\ since' = [since EXCEPT ![w] = 0]
    /\ UNCHANGED <<now, rows, outcome, shutdown, history>>

\* The shutdown flag is looked at only between batches.
Stop(w) ==
    /\ pc[w] = "loop"
    /\ batch[w] = <<>>
    /\ shutdown
    /\ pc' = [pc EXCEPT ![w] = "down"]
    /\ UNCHANGED <<now, rows, batch, job, since, outcome, shutdown, history>>

\* process: the destination no longer passes validation, so the row is
\* dead-lettered straight from the snapshot, without a claim.
Reject(w) ==
    /\ pc[w] = "loop"
    /\ batch[w] # <<>>
    /\ DestinationsMayChange
    /\ dead_letter(Head(batch[w]).id)
    /\ batch' = [batch EXCEPT ![w] = Tail(@)]
    /\ UNCHANGED <<now, pc, job, since, outcome, shutdown, history>>

\* The POST leaves with the claimed snapshot.
Send(w) ==
    /\ pc[w] = "loop"
    /\ pc' = [pc EXCEPT ![w] = "sending"]
    /\ batch' = [batch EXCEPT ![w] = Tail(@)]
    /\ job' = [job EXCEPT ![w] = Head(batch[w])]
    /\ since' = [since EXCEPT ![w] = now]
    /\ sends' = [sends EXCEPT ![Head(batch[w]).id] = @ + 1]
    /\ UNCHANGED <<now, outcome, shutdown, acked, replayed, crashes, dberrors>>

Claim_mutant(w) ==                    \* UPDATE without AND status = 'pending'
    /\ batch[w] # <<>>
    /\ SetStatus(Head(batch[w]).id, "in_flight")
    /\ UNCHANGED <<attempts, next_retry_at, dead_letters>>
    /\ Send(w)

\* process: the claim looks at the status only, not at next_retry_at and not
\* at whether attempts still has its snapshot value.
Claim(w) ==
    /\ batch[w] # <<>>
    /\ claim(Head(batch[w]).id)
    /\ Send(w)

LoseClaim(w) ==
    /\ pc[w] = "loop"
    /\ batch[w] # <<>>
    /\ status[Head(batch[w]).id] # "pending"
    /\ batch' = [batch EXCEPT ![w] = Tail(@)]
    /\ UNCHANGED <<now, rows, pc, job, since, outcome, shutdown, history>>

\* send returns and the answer (or the transport error) is classified.
Answer(w, o) ==
    /\ pc[w] = "sending"
    /\ outcome' = [outcome EXCEPT ![w] = o]
    /\ pc' = [pc EXCEPT ![w] = "answered"]
    /\ acked' = [acked EXCEPT ![job[w].id] = @ \/ o = "Delivered"]
    /\ UNCHANGED <<now, rows, batch, job, since, shutdown, sends, replayed,
                   crashes, dberrors>>

\* The worker is done with its snapshot and goes on with its batch.
Release(w) ==
    /\ pc' = [pc EXCEPT ![w] = "loop"]
    /\ job' = [job EXCEPT ![w] = NoJob]
    /\ since' = [since EXCEPT ![w] = 0]
    /\ outcome' = [outcome EXCEPT ![w] = NoOutcome]
    /\ UNCHANGED batch

Record_mutant(w) ==                   \* takes any final answer for a delivery
    LET d == job[w].id
        attempt == job[w].attempts + 1
    IN  /\ pc[w] = "answered"
        /\ \/ outcome[w] # "Retryable" /\ mark_delivered(d)
           \/ outcome[w] = "Retryable" /\ attempt >= MaxAttempts /\ dead_letter(d)
           \/ /\ outcome[w] = "Retryable" /\ attempt < MaxAttempts
              /\ \E delay \in RetryDelays(attempt) : schedule_retry(d, now + delay)
        /\ Release(w)
        /\ UNCHANGED <<now, shutdown, history>>

\* The retry decision uses the attempts of the snapshot, not of the row.
Record(w) ==
    LET d == job[w].id
        attempt == job[w].attempts + 1
    IN  /\ pc[w] = "answered"
        /\ \/ outcome[w] = "Delivered" /\ mark_delivered(d)
           \/ outcome[w] = "Permanent" /\ dead_letter(d)
           \/ outcome[w] = "Retryable" /\ attempt >= MaxAttempts /\ dead_letter(d)
           \/ /\ outcome[w] = "Retryable" /\ attempt < MaxAttempts
              /\ \E delay \in RetryDelays(attempt) : schedule_retry(d, now + delay)
        /\ Release(w)
        /\ UNCHANGED <<now, shutdown, history>>

\* Every database error of a worker is swallowed: the statement has no effect
\* and the task goes on as if it had returned nothing.
DbError(w) ==
    /\ dberrors < MaxDbErrors
    /\ dberrors' = dberrors + 1
    /\ \/ /\ pc[w] = "boot"
          /\ pc' = [pc EXCEPT ![w] = "loop"]
          /\ UNCHANGED <<batch, job, since, outcome>>
       \/ /\ pc[w] = "loop" /\ batch[w] # <<>>
          /\ batch' = [batch EXCEPT ![w] = Tail(@)]
          /\ UNCHANGED <<pc, job, since, outcome>>
       \/ pc[w] = "answered" /\ Release(w)
    /\ UNCHANGED <<now, rows, shutdown, sends, acked, replayed, crashes>>

WorkerStep(w) ==
    \/ Boot(w) \/ Poll(w) \/ Stop(w) \/ Reject(w) \/ Claim(w) \/ LoseClaim(w)
    \/ \E o \in Outcome : Answer(w, o)
    \/ Record(w)

(***************************************************************************)
(* The API, the process and time                                           *)
(***************************************************************************)

\* POST /webhook is answered 202: the row is committed, due now.
Submit(d) ==
    /\ Up
    /\ status[d] = "absent"
    /\ insert(d)
    /\ UNCHANGED <<now, tasks, shutdown, history>>

Replay_mutant(d) ==                   \* resets attempts below zero for one extra try
    /\ Up
    /\ status[d] = "dead_letter"
    /\ replayed[d] < MaxReplays
    /\ SetStatus(d, "pending")
    /\ attempts' = [attempts EXCEPT ![d] = 0 - 1]
    /\ UNCHANGED <<now, next_retry_at, dead_letters, tasks, shutdown, history>>

\* POST /admin/dead-letters/{id}/replay: the entry exists and the row is still
\* dead-lettered.  Looking the entry up and updating the row are one step, as
\* no entry is ever deleted.
Replay(d) ==
    /\ Up
    /\ find_dlq_entry(d)
    /\ replay_dead_letter(d)
    /\ replayed[d] < MaxReplays
    /\ sends' = [sends EXCEPT ![d] = 0]
    /\ replayed' = [replayed EXCEPT ![d] = @ + 1]
    /\ UNCHANGED <<now, tasks, shutdown, acked, crashes, dberrors>>

Shutdown ==
    /\ Up
    /\ ~shutdown
    /\ shutdown' = TRUE
    /\ UNCHANGED <<now, rows, tasks, history>>

\* The process dies: only the tables survive.
Crash ==
    /\ Up
    /\ crashes < MaxCrashes
    /\ now + StaleInFlight <= MaxTime   \* bound: time is left to notice it
    /\ crashes' = crashes + 1
    /\ pc' = [w \in Workers |-> "down"]
    /\ batch' = [w \in Workers |-> <<>>]
    /\ job' = [w \in Workers |-> NoJob]
    /\ since' = [w \in Workers |-> 0]
    /\ outcome' = [w \in Workers |-> NoOutcome]
    /\ shutdown' = FALSE
    /\ UNCHANGED <<now, rows, sends, acked, replayed, dberrors>>

Restart ==
    /\ ~Up
    /\ pc' = [w \in Workers |-> "boot"]
    /\ shutdown' = FALSE
    /\ UNCHANGED <<now, rows, batch, job, since, outcome, history>>

\* A send, with recording its answer, takes at most RequestTimeout ticks.
Tick ==
    /\ now < MaxTime
    /\ \A w \in Workers :
          pc[w] \in {"sending", "answered"} => now - since[w] < RequestTimeout
    /\ now' = now + 1
    /\ UNCHANGED <<rows, tasks, shutdown, history>>

Next ==
    \/ \E w \in Workers : WorkerStep(w) \/ DbError(w)
    \/ \E d \in Ids : Submit(d) \/ Replay(d)
    \/ Shutdown \/ Crash \/ Restart \/ Tick

Spec == Init /\ [][Next]_vars

\* The tokio runtime keeps running every worker task, a stopped process is
\* started again, and time passes; nothing obliges clients, operators,
\* crashes or shutdowns to happen.
Fairness ==
    /\ \A w \in Workers : WF_vars(WorkerStep(w))
    /\ WF_vars(Restart)
    /\ WF_vars(Tick)

FairSpec == Spec /\ Fairness

-----------------------------------------------------------------------------
(***************************************************************************)
(* Properties                                                              *)
(***************************************************************************)

RowsOK ==
    /\ status \in [Ids -> DeliveryStatus \union {"absent"}]
    /\ attempts \in [Ids -> Nat]
    /\ next_retry_at \in [Ids -> Nat]
    /\ updated_at \in [Ids -> Nat]
    /\ dead_letters \in [Ids -> Nat]

TasksOK ==
    /\ pc \in [Workers -> {"down", "boot", "loop", "sending", "answered"}]
    /\ batch \in [Workers -> Seq(Snapshot)]
    /\ job \in [Workers -> Snapshot \union {NoJob}]
    /\ since \in [Workers -> Nat]
    /\ outcome \in [Workers -> Outcome \union {NoOutcome}]

HistoryOK ==
    /\ sends \in [Ids -> Nat]
    /\ acked \in [Ids -> BOOLEAN]
    /\ replayed \in [Ids -> Nat]
    /\ crashes \in Nat
    /\ dberrors \in Nat

\* Every variable keeps the type of the column or local it stands for; in
\* particular a worker that has a claim knows which row it is sending.
TypeOK ==
    /\ now \in Nat
    /\ shutdown \in BOOLEAN
    /\ RowsOK
    /\ TasksOK
    /\ HistoryOK
    /\ \A w \in Workers : pc[w] \in {"sending", "answered"} => job[w] \in Snapshot
    /\ \A w \in Workers : pc[w] = "answered" => outcome[w] \in Outcome

\* A worker between its successful claim and the recording of the outcome.
Holding(w) == pc[w] \in {"sending", "answered"}

\* While a worker is sending a row, that row is in_flight since the worker's
\* own claim and no other worker is sending it.  The claim is a compare and
\* set, but the row is released by unconditional updates and by the stale
\* reset of any worker that boots late, so this needs destinations that stay
\* valid and a stale threshold longer than a send.
Custody ==
    /\ \A w \in Workers : Holding(w) =>
          /\ status[job[w].id] = "in_flight"
          /\ updated_at[job[w].id] = since[w]
          /\ since[w] <= now
          /\ now <= since[w] + RequestTimeout
    /\ \A v, w \in Workers :
          Holding(v) /\ Holding(w) /\ job[v].id = job[w].id => v = w

\* However the stale snapshots of the other workers interleave, a delivery is
\* sent at most once more per extra worker than MAX_ATTEMPTS, plus once for
\* every crash or database error that lost the recording of a send.
SendBound ==
    \A d \in Ids :
        sends[d] <= MaxOf(1, MaxAttempts) + Cardinality(Workers) - 1 + crashes + dberrors

\* Each life of a delivery ends in the dead letter queue at most once: there
\* is one entry for every replay, and one more while it is dead-lettered.
OneEntryPerDeath ==
    \A d \in Ids :
        dead_letters[d] = replayed[d] + (IF status[d] = "dead_letter" THEN 1 ELSE 0)

\* A graceful shutdown drains: when every worker has stopped and none of them
\* was killed or lost a database write, no row is left in_flight.
DrainLeavesNothingInFlight ==
    ~Up /\ crashes = 0 /\ dberrors = 0 => \A d \in Ids : status[d] # "in_flight"

\* Whatever validation decides at delivery time, a row shown as delivered was
\* answered 2xx, even when the worker that recorded it had lost the row.
DeliveredWasAcknowledged ==
    \A d \in Ids : status[d] = "delivered" => acked[d]

\* Whatever validation decides at delivery time, a dead-lettered row has an
\* entry of its present life, so an operator can find and replay it.
DeadLetterIsListed ==
    \A d \in Ids : status[d] = "dead_letter" => dead_letters[d] > replayed[d]

\* The promise of the service as a whole: the queue implements AtLeastOnce
\* (a delivered row was acknowledged and never moves again, a dead-lettered
\* row moves only by replay, an accepted row is never forgotten).
Phase(s) ==
    CASE s = "absent" -> "absent"
      [] s \in {"pending", "in_flight"} -> "queued"
      [] s = "delivered" -> "delivered"
      [] s = "dead_letter" -> "parked"

Abstract == INSTANCE AtLeastOnce
    WITH Jobs <- Ids, phase <- [d \in Ids |-> Phase(status[d])]

ImplementsAtLeastOnce == Abstract!Spec

Settled(d) == status[d] \in {"delivered", "dead_letter"}

\* Without crashes and database errors, every accepted delivery is eventually
\* delivered or dead-lettered (or its next retry lies beyond the horizon of
\* the model), whatever the destination answers and however the workers
\* interleave, once no further shutdown is requested.
AcceptedIsSettled ==
    <>[]~shutdown /\ [](crashes = 0 /\ dberrors = 0) =>
        \A d \in Ids :
            status[d] \in {"pending", "in_flight"} ~>
                Settled(d) \/ next_retry_at[d] > MaxTime

(***************************************************************************)
(* What the documentation says and the code does not do                    *)
(***************************************************************************)

\* README: "A dead-lettered row with MAX_ATTEMPTS = N made exactly N sends."
\* Not even "at most N" holds: a worker that listed the row before another
\* worker's failed attempt claims it again and counts from its own snapshot.
AtMostMaxAttemptsSends ==
    \A d \in Ids :
        status[d] = "dead_letter" /\ crashes = 0 /\ dberrors = 0 => sends[d] <= MaxAttempts

\* README: on startup in_flight rows are reset, "so a process that died
\* mid-delivery does not lose the row".  Every accepted delivery would then
\* be settled even when the process dies and is restarted.
RestartLosesNoRow ==
    <>[]~shutdown =>
        \A d \in Ids :
            status[d] \in {"pending", "in_flight"} ~>
                Settled(d) \/ next_retry_at[d] > MaxTime
=============================================================================
