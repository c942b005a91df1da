# Verification of the four webhook delivery services

The repository holds four independent implementations of one idea, a webhook
delivery service: `q/`, `k/webhook-delivery/`, `g/` and `d/`. Each accepts a
payload and a destination over HTTP, stores a job in SQLite, answers 202, and
delivers the job in the background with retries until the destination answers
2xx or the job is parked in a dead letter queue from which an operator can
requeue it. They share no code and no state; each owns its database file.

This directory models the part they are about, the queue and its workers, in
TLA+, and for service q, the one with idempotency keys and a rate limiter, also
the way a submission takes into the queue; checks it with TLC; and proves the
main facts with TLAPS.

## Inventory

### Service q (`q/src`)

- State: table `deliveries` (status, attempts, next_retry_at, updated_at, ...)
  and table `dead_letters`, behind one connection mutex (`db.rs`); the workers'
  local snapshots; the shutdown channels; the rate limiter's map of hits.
- Operations: `POST /webhook` (`api/webhook.rs`), replay of a dead letter
  (`api/admin.rs`), the worker loop of `WORKER_COUNT` tasks
  (`delivery/worker.rs`): reset stale rows once, then poll, validate, claim,
  send, record.
- Interaction: only through the tables. A worker lists due rows, releases the
  mutex, and works through the snapshots one after another.
- Hard: snapshots outlive the mutex; the claim is a compare and set but the
  final updates are unconditional; validation can dead-letter a row nobody
  claimed; every worker resets stale rows whenever it happens to start; every
  database error is swallowed.
- Correct when: whoever sends a row owns it alone; the number of sends is
  bounded; each life of a delivery has one dead letter entry; a row shown as
  delivered was acknowledged; every accepted delivery is settled; shutdown
  drains.
- Ingestion (`api/webhook.rs`): authorise, ask the rate limiter, parse; then, on
  a blocking thread that nothing cancels, resolve the destination and insert
  under the UNIQUE idempotency key; then, in the handler, count and answer. Its
  state: the table's key column, the threads and handlers under way, the
  limiter's map of instants (`security/ratelimit.rs`), the `submitted` counter.
  Hard: two requests race for one key; the client, the handler or the process
  may go away at any of these points and the client sends again; housekeeping
  prunes the map between any two requests; the limiter reads the clock before it
  takes its lock, so instants may enter the map out of order. Correct when: a key
  has one row and every answer names it; the limiter lets through no more than
  the limit in any rolling window, and no fewer, up to the longest delay between
  its clock and its lock; the counter never runs ahead of the table; a client
  that keeps sending gets an answer.
- Stateless parts on that way: authentication (`security/auth.rs`), destination
  validation (`security/ssrf.rs`), configuration (`config.rs`). Health and
  metrics (`api/health.rs`, `api/mod.rs`) are read by people only.

### Service k (`k/webhook-delivery/src`)

- State: table `jobs`; each worker's claimed batch; the cancellation token.
- Operations: `POST /webhook`, `POST /dlq/:id/retry` (`routes.rs`); workers that
  claim up to 8 due jobs in one immediate transaction, counting the attempt as
  they claim, and deliver them one by one (`worker.rs`, `db.rs`); a drain of at
  most 5 seconds at shutdown (`main.rs`).
- Hard: the attempt is counted before it is made; nothing takes an `in_flight`
  job back, not even a restart; the drain may be cut off mid-batch.
- Correct when: a claim is exclusive until it is recorded, which is all that
  makes the updates by id safe; `attempts` counts sends; a dead job had exactly
  MAX_ATTEMPTS of them.

### Service g (`g/src`)

- State: table `deliveries`; spawned tasks waiting for one of
  `MAX_CONCURRENT_DELIVERIES` permits; requeue requests between two statements.
- Operations: a loop that reclaims rows past the visibility timeout and claims
  a batch, one task per claimed row (`worker.rs`, `deliver.rs`),
  `POST /webhook`, `POST /dlq/{id}/requeue` (`routes.rs`), the reset of
  `processing` rows at startup (`db.rs`, `main.rs`).
- Hard: a lease is counted from the claim, an attempt from the permit; a late
  task finalizes by id whatever the row has become; requeue checks and updates
  in two statements; stopping drops the tasks.
- Correct when: no lease is taken from a live task; attempts are accounted for
  across crashes; every accepted delivery is settled through crashes.

### Service d (`d/src`)

- State: tables `jobs` and `dead_letters` behind one mutex; the single worker's
  batch; redeliver requests between their lookup and their two statements.
- Operations: the worker fetches due jobs, checks the destination, sends,
  records (`worker.rs`, `db.rs`); `POST /webhook` (`webhook.rs`); redelivery of
  a dead letter as a new job (`dlq.rs`).
- Hard: a move between the tables is two autocommitted statements; a failed
  statement is ignored; redelivery looks up and inserts under separate locks.
- Correct when: no accepted payload is ever lost from both tables; it is in one
  place when nothing went wrong; dead letters keep true attempt counts; every
  job is settled.

## Modules

| Module | Models | Code |
|---|---|---|
| `AtLeastOnce` | the promise: a job is queued, delivered or parked; delivered only if acknowledged; final unless parked; parked until requeued | what the services' documentation promises in common |
| `Schedule` | backoff bases, also as computed on 64-bit numbers, and `ORDER BY ... LIMIT` over due rows | shared by the four; `delivery/backoff.rs` of q, `worker.rs` of k and d |
| `QDelivery` | service q, the pipeline | `db.rs`, `delivery/`, `api/webhook.rs`, `api/admin.rs`, `lib.rs` |
| `RateLimiter` | q's sliding window limiter | `security/ratelimit.rs`, `lib.rs` |
| `Destination` | q's checks of a destination, and the documented list of blocks | `security/ssrf.rs` |
| `QIngest` | q's ingestion; extends the two above | `api/webhook.rs`, `api/mod.rs`, `security/auth.rs`, `db.rs`, `lib.rs` |
| `SubmitOnce` | the promise of an idempotency key: who is stored first owns it, and every answer names the owner | what `insert` documents and the API promises |
| `KDelivery` | service k | `db.rs`, `worker.rs`, `routes.rs`, `main.rs` |
| `GDelivery` | service g | `db.rs`, `worker.rs`, `deliver.rs`, `routes.rs`, `main.rs` |
| `DDelivery` | service d | `db.rs`, `worker.rs`, `webhook.rs`, `dlq.rs`, `main.rs` |
| `QDelivery_proofs` | theorems about `QDelivery` | |
| `RateLimiter_proofs`, `QIngest_proofs` | theorems about `RateLimiter` and `QIngest` | |
| `KDelivery_proofs` | theorems about `KDelivery` | |
| `GDelivery_proofs` | theorems about `GDelivery` | |
| `DDelivery_proofs` | theorems about `DDelivery` | |
| `Destination_proofs`, `Schedule_proofs` | theorems about `Destination` and `Schedule` | |
| `MC...` | model values for TLC | |

How the state corresponds: each column that some handler reads is a function
from ids; each worker task has a program counter and its locals; time is a
counter of ticks. An SQL statement is an operator with the name of the Rust
function that runs it (`claim`, `mark_delivered`, `requeue_dead`, ...), and an
action is one statement, or one transaction, together with the straight-line
code around it that no other task can observe. In q and d that is what the
connection mutex serialises; in k and g, what SQLite does. Two statements with
an await or an autocommit between them are two actions with a program counter
in between (`FindDeadLetter`/`Requeue` in g, `move_to_dlq_insert`/`_delete` in
d). A request to a destination is two actions, so anything can happen while it
is under way. In `QIngest` a submission is named by the UUID it draws; `pc` says
whether its thread is running, for a handler (`"blocking"`) or for nobody
(`"orphaned"`), or with which result the handler has been woken. An instant in
the limiter is kept as its age, which is all the code reads of it; `last`, read
by no handler, remembers the ages of the youngest instants let through. Crashes keep the tables and lose everything else. A database
error is an action that lets the task go on as the code does, with the
statement undone; `MaxDbErrors` bounds how often.

Variables under "history and bounds" are not in the code: they count sends,
acknowledgements, requeues, crashes and errors for the properties, and no guard
of a handler reads them except as a bound of the model.

Operators ending in `_mutant` (or `_stuck`, `_units`, `_dead`) are plausible
slips of the definition they stand before. No action uses them; each shows that
some property notices the slip.

## What each run checks

| Run | Setting | Shows |
|---|---|---|
| `q_core` | 1 delivery, 2 workers, stable destinations, 1 crash, 1 lost write, 1 replay | `TypeOK`, `Custody`, `SendBound`, `OneEntryPerDeath`, `DrainLeavesNothingInFlight`, refinement of `AtLeastOnce` |
| `q_flaky` | the same without failures, destinations may be rejected at delivery time | `DeliveredWasAcknowledged`, `DeadLetterIsListed`, `AcceptedIsSettled` |
| `q_ingest` | 4 clients of one bucket, 2 of them with one key, 3 ids, 2 requests per window of 2 ticks, a delay of up to 1 tick between the limiter's clock and its lock, 1 fault (answer lost, connection broken, failed insert, restart) | `TypeOK`, `AnswersNameTheRow`, `SubmittedNeverOvercounts`, `WindowBound`, `VerdictIsNearlyExact`, refinement of `SubmitOnce`, `EveryClientIsAnswered` |
| `q_sends` | 2 workers, no failures | counterexample to "made exactly N sends" |
| `q_restart` | 1 worker, 1 crash | counterexample to "does not lose the row" |
| `k_core` | 2 jobs, 2 workers, 1 kill, 1 lost write, 1 requeue per job | `TypeOK`, `ClaimIsExclusive`, `AttemptsCountSends`, `DeadAfterMaxAttempts`, refinement, `AcceptedIsSettled` |
| `k_restart` | 1 job, 1 worker, 1 kill | counterexample to "on restart it is picked up and retried" |
| `g_core` | 1 job, 2 tasks, 2 permits, 1 requeue request at a time, 2 requeues, 2 crashes, 1 lost write | `TypeOK`, `LeaseOutlivesTask`, `DeadAfterMaxAttempts`, refinement, `AcceptedIsSettled` through crashes |
| `g_requeue` | 2 requeue requests at a time | counterexample to "only dead-lettered deliveries can be requeued" |
| `g_overload` | 2 tasks, 1 permit | counterexample to "parked": a dead-lettered row leaves with no requeue |
| `d_core` | 1 payload, 1 redeliver request at a time, 1 crash, 1 failed statement | `TypeOK`, `NothingIsLost`, `DeliveredWasAcknowledged`, `EntryCountsSends`, `OnePlace`, refinement of `AtLeastOnce` job by job, `EveryJobIsSettled` |
| `d_move` | 1 crash | counterexample to "and remove it from the active queue" |

The six counterexample runs are the findings of `PROJECT.json`, each with the
sentence of the repository it contradicts. Two more disagreements concern q's
limiter and have no run of their own:

- The doc comment at `q/src/security/ratelimit.rs:7-8` says "each key may make at
  most `limit` checks per rolling `window`", which is `RollingWindow`. The code
  may let one more through when a thread is delayed between `Instant::now()` and
  the lock. With the constants of `q_ingest`: one request is let through; a
  second one, whose clock was read a tick before, pushes its older instant behind
  the first; a tick later housekeeping finds the instant at the back expired and
  drops the bucket, although the first instant still counts; two more requests
  are let through, three within a window whose limit is two. To see it, add
  `RollingWindow` to the invariants of `q_ingest.cfg`. What holds instead is
  `WindowBound`, and `RollingWindow` itself when nothing is delayed
  (`RollingWindowWithoutDelay`). In practice the delay is tiny beside the 60
  seconds.
- `q/README.md:162` calls the limit a "per-minute fixed window". The code, like
  `q/PLAN.md:102` and the doc comment, has a sliding one; the model follows the
  code.

Where a property needs a condition
that the code does not enforce, the condition is a constant of the run and the
comment on the property says so: `Custody` and the refinement of q need
destinations that stay valid and `REQUEST_TIMEOUT_MS < STALE_IN_FLIGHT_MS`
(10 s and 300 s by default); those of g need a permit per spawned task,
attempts within the visibility timeout (10 s and 60 s by default, 64 permits)
and requeue requests that do not overlap. `g_requeue` and `g_overload` show
what happens without.

`MCQIngest` also assumes, and TLC evaluates at the start of `q_ingest`, that
`is_blocked_ip` blocks exactly the blocks its documentation lists
(`BlockedAsDocumented`), over every octet and segment next to the end of a
block, IPv4-mapped addresses included; `Destination_proofs` proves it for every
address. `MCQDelivery` does the same for the backoff on numbers of 5 bits
(`BackoffOfFiveBits`), which `Schedule_proofs` proves for every width.

### Bounds, and why they are enough

- Two workers are needed for a stale snapshot, a lost claim or a late boot. A
  third would repeat what one of the two does; `CustodyHolds` and `SendBoundHolds` cover
  any number.
- MAX_ATTEMPTS is 2: a first failure that retries and a second that does not.
- Rows do not interact except through a batch, so q and g use one row and k two,
  which is the least that fills a batch. What g's batch could add, two tasks for
  one row, is excluded for any number of rows by `LeaseOutlivesTaskHolds`.
- Times: retry delays of 0 to 1 tick, requests of at most one, a stale threshold
  of 2 (q) or a visibility timeout of 1 with a strict comparison (g), and enough
  ticks for a row to become stale after a retry. `MaxTime` ends the clock;
  liveness properties except rows whose retry lies beyond it.
- One crash (two in g), one database error, one requeue per job: the hazards
  listed are about the state one of them leaves behind meeting the rest of the
  system.
- In `q_ingest` two clients suffice for a race and a third id for a submission
  that was stored for nobody; the other two clients are there to be refused, one
  before and one after the limiter counts it. All four use one token, so that
  they compete for one bucket; `"anonymous"` stays empty, and the theorems about
  the limiter hold for any buckets. Limit and window of 2 let instants expire
  one by one, which a limit of 1 cannot show. `MaxDelay` is 1, half the window:
  enough for an instant to be pushed behind a younger one and for `prune` to
  drop both while one counts. `MaxFaults` is 1: whatever goes wrong, the retry
  meets what it left; the theorems allow any number.
- `d_core` has one redeliver request at a time. Two of them with a third job and
  a crash outgrow the time limit; `NothingIsLostHolds` and `Refinement` cover any
  number.
- In `g_core` there is a permit for each task, so no task waits for one; that
  wait is what `g_overload` is about.
- In g, `Tasks` bounds how many spawned tasks are alive at once; the loop waits
  when there are more.

### Time

In q, a send together with its recording takes at most `RequestTimeout` ticks
(the client has that timeout and recording is one statement on a local file).
In g, statements take no time, a free permit goes to a waiting task at once, and
an attempt ends within `DeliveryTimeout`, name lookups included. In k and d no
property depends on durations and any action may take any time; k's drain limit
of 5 seconds is therefore just a kill that may come at any moment. In `QIngest` a
window is two ticks, and any number of actions fits between two ticks.

`RateLimiter::check` and `prune` read the clock first and take the lock then, and
the thread may be delayed in between by any amount, here by up to `MaxDelay`
ticks. The instant is a local until the lock is held: no other thread sees it,
and what the call does under the lock depends on nothing else the call has read.
So a call is one step, at the moment it holds the lock, with the age `at` that
its instant has by then, any number in `Delays`: calls take the lock in any
order, whatever the order of their instants. `up` keeps `at` from reaching back
before the process started. q's per-worker
shutdown channels are one flag: they are set in one loop, and a worker that is
told later than another only polls where the model lets it poll before.

### Fairness

Weak fairness on every worker or task step: the tokio runtime keeps running
tasks that can go on, and requests end by timeout. Weak fairness on `Restart`:
an operator or supervisor starts a stopped service again. Weak fairness on
`Tick`: time passes. In g a tick of the clock is held up by each tick of the
loop for an instant, again and again, and in d the worker by requests holding
the mutex; there strong fairness says that it comes in the end, since the loop
sleeps and the mutex is held for two statements only. In `QIngest`
weak fairness on `Send`, `ingest_sync` and `Respond`: the property is about
clients that send again until they are answered, and threads and handlers are
scheduled. Nothing is assumed of housekeeping, operators, crashes, errors or
shutdowns, nor of clients elsewhere; the liveness of q and k is
stated for executions in which shutdowns stop and (in `AcceptedIsSettled` of q
and k) no crash or lost write happens, because with those it is false.

## What is proved

`QDelivery_proofs` proves, for any finite sets of ids and of workers and any
values of the limits:

- `TypeCorrect`: `Spec => []TypeOK`. `TypeOK` is inductive as it stands; it
  includes that a worker that has claimed knows its row and that one with an
  answer knows its outcome. Lemmas give the types of `list_due`, of the three
  outcome statements and of the head of a batch.
- `CustodyHolds`: `Custody` under `StableConfig` (destinations do not change,
  request timeout below the stale threshold). `TypeOK /\ Custody` is inductive:
  the row a worker holds is in flight with the timestamp of its own claim and
  that claim is at most a request timeout old, so the stale reset of a late
  booting worker cannot touch it, no other worker can claim it, and the
  unconditional updates hit only rows their worker holds. The clause on ages is
  what makes the induction work.
- `DeliveredIsAcknowledged`: `DeliveredWasAcknowledged` for every configuration,
  with the strengthening that a worker whose recorded outcome is a success has
  had its row acknowledged.
- `Refinement`: under `StableConfig`, service q implements `AtLeastOnce`:
  initial states map to initial states and each action to an abstract action or
  a stutter. It uses `Custody`: only a worker that holds the row records it.
- `SendBoundHolds`, under `StableConfig`. What bounds the sends is a potential:
  `Spare(d)` are the workers with a snapshot of the row whose failure will be
  retried, whatever the row says by then, and `attempts + |Spare|` stays below
  the bound (`Within`). A poll adds a worker only while the row itself has
  attempts to spare; a retry takes its worker out, since a worker has one
  snapshot of a row at most (`Distinct`); a replay starts from zero. A send
  whose recording was lost is one crash or one database error.
- `OneEntryPerDeathHolds`, under `StableConfig`, and `DeadLetterIsListedHolds`
  without it, from one lemma on what a step may do to a row and its entries
  (`EntriesStep`).
- `DrainHolds`, for every configuration: until a worker is killed or loses a
  statement, a row in flight has a worker that holds it (`Attended`).
- `OneWorkerSendsAtMostMaxAttempts`: with one worker the README's "exactly `N`
  sends" holds as an upper bound while nothing crashes. It follows from
  `SendBoundHolds`, and shows that the second worker of `q_sends` is what breaks
  the claim.
- `OutcomesAreFinal`, under `StableConfig`: no snapshot, however stale, takes a
  delivery back or moves a dead letter; only a replay does, and it is counted.
  It needs `Custody`, since the updates that record match by id alone.
- `AbandonedUntilBoot`, under `StableConfig`: a row in flight that no worker
  holds stays so until some worker boots. This is the general fact behind
  `q_restart`: when the last worker has booted before the row is stale, the row
  waits for another restart.

`KDelivery_proofs` proves, for any finite set of jobs, any workers, any integer
`MAX_ATTEMPTS` and any claim limit and delays, with no condition on how requests
and the clock relate:

- `TypeCorrect`: `Spec => []TypeOK`. `TypeOK` says which program counters go
  with a job in hand and that no task outlives the process; without the second
  a restart would not preserve the first.
- `ClaimIsExclusiveHolds`: `TypeOK /\ ClaimIsExclusive` is inductive. A claim
  takes pending rows, which nobody has in hand, and each once
  (`OldestDueIsInjective`, `ClaimEffect`); recording rewrites the row of the
  first of a batch, which no other place of any batch names
  (`ExclusiveNextJob`). Nothing else touches an `in_flight` row.
- `AttemptsCountSendsHolds`: the attempt is counted at the claim, so the
  induction needs to know for every place of every batch whether its send has
  happened: `SentBeforeRecord`, the first of a batch once its worker has left
  `"batch"`, the others not yet. Exclusivity makes it stable.
- `DeadAfterMaxAttemptsHolds`: `Budget` bounds `attempts` by status, and what a
  worker goes by is what the row says (`ClaimIsExclusive`), so a dead row has
  exactly `MaxOf(1, MaxAttempts)` attempts; the previous theorem turns them
  into sends.
- `Refinement`: service k implements `AtLeastOnce`.
- `StrandedForGood`: once a row is in flight and in no worker's batch, it stays
  so for ever, whatever the workers, the API, an operator and restarts do: the
  general fact behind `k_restart`. `OnlyFailuresStrand` is the other half:
  until a kill or a failed statement no row is stranded.
- `OutcomesAreFinal`: as for q, with no condition; from `ClaimIsExclusive`.

`RateLimiter_proofs` proves, for any buckets, any limit (0 included), any
window and any `MaxDelay`, from `LimiterAssumption` alone:

- `WindowBoundHolds`, `VerdictIsNearlyExactHolds`: both follow from one inductive
  invariant, `Tracks`. The deque need not be in order, so it is not compared with
  the history instant by instant. Instead: an instant is older than one in front
  of it by `MaxDelay` at most (`Skewed`); the history is sorted (`Sorted`); for
  every age within the shortened window, no more requests younger than it were let
  through than the deque still holds at its back (`Covers`); and the deque holds
  nothing that was not let through (`LetThrough`). Because of `Skewed`, popping
  keeps no instant that is expired by more than `MaxDelay`, and `prune` drops
  none that is younger than the window by more than that. One lemma
  for each way the map changes (popping, accepting, dropping a bucket, ageing)
  says that it keeps these.
- `RollingWindowWithoutDelay`: with `MaxDelay = 0` the doc comment of the limiter
  holds as it stands.

`QIngest_proofs` proves, for any clients, requests, keys and finite set of ids:

- `ImplementsLimiter`: ingestion is a refinement of the limiter, which carries
  `WindowBound` (`IngestWindowBound`) and `VerdictIsNearlyExact`
  (`IngestVerdictIsNearlyExact`) over.
- `TypeCorrect`: `TypeOK` is strengthened by the shape of a submission: whose it
  is, and which id it may name.
- `AnswersNameTheRowHolds`: rows are never deleted and a key is inserted only
  while it has no holder; the strengthening says that a handler about to answer
  already names the row that holds the key.
- `SubmittedNeverOvercountsHolds`: by counting: each step that adds to the
  counter takes a submission out of `"created"`, each that adds to that set adds
  a row.
- `Refinement`: ingestion implements `SubmitOnce`.

`GDelivery_proofs` proves `TypeCorrect` with no condition, and under
`LeaseConfig` (no more tasks than permits, an attempt within the visibility
timeout, one requeue request at a time):

- `LeaseOutlivesTaskHolds`: the inductive invariant `Lease` adds to the property
  how old a live task's lease is (none for one that waits, at most
  `DeliveryTimeout` for one that delivers), that a row a requeue request found
  dead-lettered still is, and that a stopped process has no tasks. Without the
  ages a reclaim could take the row from a live task.
- `DeadAfterMaxAttemptsHolds`: `Budget` bounds `attempts` by status; `Tally`
  says which sends the column misses: those of live tasks, and one for each
  crash or lost write.
- `Refinement`: service g implements `AtLeastOnce`.
- `OneRequestRequeuesDeadLetters`, `WithPermitsDeadLetterStaysParked`: the two
  sentences that `g_requeue` and `g_overload` refute hold under `LeaseConfig`.
  Both use the part of `Lease` that keeps what a requeue request has found true.

With no condition on the configuration, it also proves `OnlyFailuresStrand`: a
row is processing without a task to record it only while the process is down or
after a failed statement. So the visibility timeout is needed for failed statements
only: a crash, however timed, is mended by `reset_processing`.

`DDelivery_proofs` proves, for any finite set of payloads, any redeliver
requests and any limits, with no condition on how steps interleave:

- `TypeCorrect`: `TypeOK` is strengthened (`Numbered`) by ids being drawn in
  order, by the tables being finite and by a request under way having read an
  entry; ids stay unique because of the first.
- `NothingIsLostHolds`: the connection mutex lets one move at a time be between
  its two statements (`Mutex`), and what the second statement removes is stored
  by the first (`Copies`): the worker's snapshot, the entry of a request and the
  rows with their ids hold the same payload.
- `DeliveredWasAcknowledgedHolds`: an answer yet to be recorded was given for
  the job in hand (`Answered`).
- `EntryCountsSendsHolds`: `Counts` bounds what rows, snapshots and entries say
  by the sends made; while nothing has failed (`Clean`) the books are exact
  (`Exact`): a batch holds a job once, and a job with an entry is nowhere else
  once its move is over. After failures an entry may say too little by any
  amount up to the limit: a blocked job whose move was interrupted leaves an entry with no attempts
  and is then sent. What is bounded is the POSTs of a job, by the limit and one
  for each failure (`Ceiling`): the books of a row miss one for each failure, and
  the row in hand the present one. It uses `Queued`, below.
- `OnePlaceHolds`, while nothing has failed and redeliver requests do not
  overlap: a payload has one row at most in each table, and in both only while
  a move is under way (`Placed`).
- `Refinement`: service d implements `AtLeastOnce`, job by job, with no
  condition on crashes, failed statements or overlapping requests: a job is
  queued until it is delivered or leaves for the dead letters. Rows are updated
  by id without a claim; what makes it right is `Queued`: the worker, the only
  one to update rows, holds each job of its batch once, and each is still a
  pending row.
- `UnlessInterruptedDeadLetterLeft`: the sentence that `d_move` refutes holds
  until the first crash or failed statement (`Clean`), from `Exact`.

`Destination_proofs` proves, for every IPv4 address and every IPv6 address:

- `BlockedIsDocumented`: the comparisons of `is_blocked_ip` select exactly the
  blocks of its documentation. There is one lemma for each length of prefix
  that occurs in a block, which turns the division of `InBlock` into bounds on
  octets or segments, and one for IPv4-mapped addresses.
- `ValidatedIsPublic`: a destination that passes `validate` has the documented
  form, resolves, and resolves to no documented block, when private addresses
  are not allowed.

`Schedule_proofs` proves, for every base, cap and width of numbers, and up to 20
doublings, which is the most any service makes:

- `SaturatedIsCapped`: k and d compute the capped exponential.
- `ShiftedIsCapped`, `ShiftDropsBits`: q does while the base times 2^20 fits; at
  the first base that does not, the last delays are 0 instead of the cap,
  because `checked_shl` refuses long shifts, not lost bits.
- `Jitter20Bounds`: the jitter of k and d stays within a fifth of the delay.

### Assumptions of the theorems

The named assumptions of the modules (`ConfigAssumption`, `LimiterAssumption`),
which TLC evaluates on every run: what the configuration readers return, and
that the sets of ids or payloads are finite. `StableConfig` and `LeaseConfig`
are hypotheses of the theorems that need them. With the default timeouts
`StableConfig` holds as long as no destination is accepted and rejected later,
`LeaseConfig` as long as no more than 64 tasks are alive and requeue requests do
not overlap.

### What is only model-checked

Liveness (`AcceptedIsSettled` of q, k and g, `EveryJobIsSettled`,
`EveryClientIsAnswered`): TLAPS proves nothing about fairness with these
backends. Every invariant and every refinement that a passing run checks is also
proved. The counterexamples are runs, not theorems. For four of
them a theorem gives a condition under which the claim holds: one worker
(`q_sends`), requests that do not overlap (`g_requeue`), enough permits
(`g_overload`), no failure (`d_move`). For `q_restart` and `k_restart`, whose
claims are liveness, the theorem says that the row stays where it is.

## What is not modelled, and why

- Signing, TLS, body sizes, JSON, and in k, g and d authentication and the
  classification of URLs and addresses: stateless functions of the request.
  Their verdict at delivery time is a free choice where it matters (`Reject` in
  q, `Block` in d, `Answer` in g). In `QIngest` a signature is valid or not and
  a body parses or not.
- The `QDelivery` and `QIngest` views of a submission are not composed: the
  pipeline takes any accepted row and reads neither its key nor its client.
- Configuration parsing. A value that is a multiple of 2^32 becomes 0 in two
  places; `SendBound` and the limiter are stated so that they cover 0.
- Numbers as columns: attempts and times have no width; `Schedule_proofs` says
  where the backoff of q, k and d agrees with the one the models use. g computes
  it in floating point, exact for the values in use.
- Listing, statistics, health and metrics endpoints: nothing reads what they
  produce.
- `k/PLAN.md`, `d/PLAN.md`, `q/PLAN.md`, the recorded session page under `k/`,
  the Dockerfile and the scripts.

## Plan

Done: the four pipelines and their runs, in the order q (the most concurrent),
k, g, d; ingestion of q; every safety property and every refinement proved; the
backoff widths of q, k and d; the blocks of q's destination check.

Next, in this order:

1. Proofs: that outcomes are final in g under `LeaseConfig`, and that two answers
   under one key name one id, as a consequence of `SubmitOnce` itself.
2. The value-level code that is now a constant: g's backoff in floating point,
   and configuration parsing.
3. Authentication and address classification of k, g and d, as `Destination`
   does for q.
4. The composition of `QIngest` and `QDelivery`, if a later version of the code
   lets one read what the other writes.
