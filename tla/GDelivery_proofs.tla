-------------------------- MODULE GDelivery_proofs --------------------------
(***************************************************************************)
(* Proofs about service g, for any number of jobs and requeue requests and *)
(* any configuration that keeps its leases longer than its tasks.          *)
(***************************************************************************)
EXTENDS GDelivery, FiniteSetTheorems, TLAPS

(***************************************************************************)
(* Type correctness                                                        *)
(***************************************************************************)

\* The due jobs of C turn processing, and each has a task of S of its own that
\* waits with it and with the attempts it has.
Spawns(C, S, id) ==
    /\ C \subseteq Due
    /\ S \subseteq Free
    /\ id \in [S -> C]
    /\ \A j \in C : \E t \in S : id[t] = j
    /\ \A t, u \in S : id[t] = id[u] => t = u
    /\ status' = [j \in Jobs |-> IF j \in C THEN "processing" ELSE status[j]]
    /\ updated_at' = [j \in Jobs |-> IF j \in C THEN now ELSE updated_at[j]]
    /\ pc' = [t \in Tasks |-> IF t \in S THEN "waiting" ELSE pc[t]]
    /\ job' = [t \in Tasks |->
                  IF t \in S THEN [id |-> id[t], attempts |-> attempts[id[t]]] ELSE job[t]]

LEMMA ClaimEffect ==
    ASSUME Claim
    PROVE  \E C, S, id : Spawns(C, S, id)
<1>1. PICK s \in OldestDue(Due, next_attempt_at, BatchSize) :
        LET claimed == {s[i] : i \in DOMAIN s}
        IN  /\ status' = [j \in Jobs |-> IF j \in claimed THEN "processing" ELSE status[j]]
            /\ updated_at' = [j \in Jobs |-> IF j \in claimed THEN now ELSE updated_at[j]]
            /\ \E spawned \in SUBSET Free : \E id \in [spawned -> claimed] :
                  /\ \A j \in claimed : \E t \in spawned : id[t] = j
                  /\ \A t, u \in spawned : id[t] = id[u] => t = u
                  /\ pc' = [t \in Tasks |-> IF t \in spawned THEN "waiting" ELSE pc[t]]
                  /\ job' = [t \in Tasks |->
                                IF t \in spawned
                                THEN [id |-> id[t], attempts |-> attempts[id[t]]]
                                ELSE job[t]]
  BY DEF Claim
<1> DEFINE C == {s[i] : i \in DOMAIN s}
<1>2. C \subseteq Due
  BY DEF OldestDue
<1>3. PICK S \in SUBSET Free : \E id \in [S -> C] :
        /\ \A j \in C : \E t \in S : id[t] = j
        /\ \A t, u \in S : id[t] = id[u] => t = u
        /\ pc' = [t \in Tasks |-> IF t \in S THEN "waiting" ELSE pc[t]]
        /\ job' = [t \in Tasks |->
                      IF t \in S THEN [id |-> id[t], attempts |-> attempts[id[t]]] ELSE job[t]]
  BY <1>1
<1>4. PICK id \in [S -> C] :
        /\ \A j \in C : \E t \in S : id[t] = j
        /\ \A t, u \in S : id[t] = id[u] => t = u
        /\ pc' = [t \in Tasks |-> IF t \in S THEN "waiting" ELSE pc[t]]
        /\ job' = [t \in Tasks |->
                      IF t \in S THEN [id |-> id[t], attempts |-> attempts[id[t]]] ELSE job[t]]
  BY <1>3
<1>5. Spawns(C, S, id)
  BY <1>1, <1>2, <1>3, <1>4 DEF Spawns
<1> QED
  BY <1>5

\* What a live task holds.
LEMMA JobType ==
    ASSUME TypeOK, NEW t \in Tasks, Live(t)
    PROVE  job[t] \in ClaimedJob /\ job[t].id \in Jobs /\ job[t].attempts \in Nat
BY DEF TypeOK, ClaimedJob

\* Every delay of the backoff is a natural number of ticks.
LEMMA BackoffType ==
    ASSUME NEW n, NEW delay \in Backoff(n)
    PROVE  delay \in Nat
BY DEF Backoff

\* A task that ends.
LEMMA FinishEffect ==
    ASSUME TypeOK, NEW t \in Tasks, Finish(t)
    PROVE  /\ pc' \in [Tasks -> {"free", "waiting", "delivering", "ok", "failed"}]
           /\ job' \in [Tasks -> ClaimedJob \union {NoJob}]
           /\ started_at' \in [Tasks -> Nat]
           /\ pc'[t] = "free"
           /\ \A u \in Tasks : u # t =>
                 pc'[u] = pc[u] /\ job'[u] = job[u] /\ started_at'[u] = started_at[u]
           /\ \A u \in Tasks : Live(u)' => job'[u] \in ClaimedJob
BY DEF TypeOK, Finish, Live

\* The final update of a task, whatever its outcome.
LEMMA FinalizeEffect ==
    ASSUME TypeOK, NEW t \in Tasks, Finalize(t)
    PROVE  /\ Live(t)
           /\ pc[t] \in {"ok", "failed"}
           /\ \E s \in DeliveryStatus : Record(t, s)
           /\ next_attempt_at' \in [Jobs -> Nat]
           /\ Finish(t)
           /\ UNCHANGED <<now, up, ticking, checked, tries, acked, requeued, crashes, dberrors>>
<1>1. Live(t) /\ pc[t] \in {"ok", "failed"}
  BY DEF Finalize, Delivered, DeadLettered, RetryScheduled, Live
<1>2. \E s \in DeliveryStatus : Record(t, s)
  BY DEF Finalize, Delivered, DeadLettered, RetryScheduled, DeliveryStatus
<1>3. next_attempt_at' \in [Jobs -> Nat]
  <2>1. CASE UNCHANGED next_attempt_at
    BY <2>1 DEF TypeOK
  <2>2. CASE RetryScheduled(t)
    <3>1. PICK delay \in Backoff(job[t].attempts + 1) :
            next_attempt_at' = [next_attempt_at EXCEPT ![job[t].id] = started_at[t] + delay]
      BY <2>2 DEF RetryScheduled
    <3>2. started_at[t] + delay \in Nat
      BY BackoffType DEF TypeOK
    <3> QED
      BY <3>1, <3>2 DEF TypeOK
  <2> QED
    BY <2>1, <2>2 DEF Finalize, Delivered, DeadLettered
<1> QED
  BY <1>1, <1>2, <1>3 DEF Finalize, loop, history

LEMMA InitType == Init => TypeOK
<1> SUFFICES ASSUME Init PROVE TypeOK
  OBVIOUS
<1>1. \A t \in Tasks : ~Live(t)
  BY DEF Init, Live
<1> QED
  BY <1>1 DEF Init, TypeOK

LEMMA TypeStep == TypeOK /\ [Next]_vars => TypeOK'
<1> SUFFICES ASSUME TypeOK, [Next]_vars PROVE TypeOK'
  OBVIOUS
<1>1. CASE Reclaim
  BY <1>1 DEF Reclaim, TypeOK, DeliveryStatus, tasks, history, Live
<1>2. CASE Claim
  <2>1. PICK C, S, id : Spawns(C, S, id)
    BY <1>2, ClaimEffect
  <2>2. \A t \in S : [id |-> id[t], attempts |-> attempts[id[t]]] \in ClaimedJob
    BY <2>1 DEF Spawns, Due, ClaimedJob, TypeOK
  <2>3. /\ job' \in [Tasks -> ClaimedJob \union {NoJob}]
        /\ \A t \in Tasks : Live(t)' => job'[t] \in ClaimedJob
    BY <2>1, <2>2 DEF Spawns, TypeOK, Live
  <2>4. status' \in [Jobs -> DeliveryStatus \union {"absent"}] /\ updated_at' \in [Jobs -> Nat]
    BY <2>1 DEF Spawns, TypeOK, DeliveryStatus
  <2>5. pc' \in [Tasks -> {"free", "waiting", "delivering", "ok", "failed"}]
    BY <2>1 DEF Spawns, TypeOK
  <2> QED
    BY <1>2, <2>3, <2>4, <2>5 DEF Claim, TypeOK, history
<1>3. ASSUME NEW t \in Tasks, Start(t) PROVE TypeOK'
  BY <1>3, JobType DEF Start, TypeOK, rows, loop, Live
<1>4. ASSUME NEW t \in Tasks, NEW outcome \in {"ok", "failed"}, Answer(t, outcome)
      PROVE  TypeOK'
  BY <1>4, JobType DEF Answer, TypeOK, rows, loop, Live
<1>5. ASSUME NEW t \in Tasks, Finalize(t) PROVE TypeOK'
  <2>1. PICK s \in DeliveryStatus : Record(t, s)
    BY <1>5, FinalizeEffect
  <2>2. job[t].id \in Jobs /\ job[t].attempts + 1 \in Nat /\ started_at[t] \in Nat
    BY <1>5, FinalizeEffect, JobType DEF TypeOK
  <2>3. /\ status' \in [Jobs -> DeliveryStatus \union {"absent"}]
        /\ attempts' \in [Jobs -> Nat]
        /\ updated_at' \in [Jobs -> Nat]
    BY <2>1, <2>2 DEF Record, TypeOK
  <2> QED
    BY <1>5, <2>3, FinalizeEffect, FinishEffect DEF TypeOK
<1>6. CASE DbError
  <2>1. CASE ticking' = FALSE /\ UNCHANGED tasks
    <3>1. ticking' \in BOOLEAN /\ up' \in BOOLEAN
      BY <1>6, <2>1 DEF DbError, TypeOK
    <3> QED
      BY <1>6, <2>1, <3>1 DEF DbError, TypeOK, rows, tasks, Live
  <2>2. CASE UNCHANGED ticking /\ \E t \in Tasks : Finish(t)
    BY <1>6, <2>2, FinishEffect DEF DbError, TypeOK, rows
  <2> QED
    BY <1>6, <2>1, <2>2 DEF DbError
<1>7. ASSUME NEW j \in Jobs, create_webhook(j) PROVE TypeOK'
  BY <1>7 DEF create_webhook, TypeOK, DeliveryStatus, loop, tasks, history, Live
<1>8. ASSUME NEW h \in Handlers, NEW j \in Jobs, FindDeadLetter(h, j) PROVE TypeOK'
  BY <1>8 DEF FindDeadLetter, TypeOK, rows, loop, tasks, history, Live
<1>9. ASSUME NEW h \in Handlers, Requeue(h) PROVE TypeOK'
  BY <1>9 DEF Requeue, TypeOK, DeliveryStatus, loop, tasks, Live
<1>10. CASE Crash
  <2>1. \A t \in Tasks : ~Live(t)'
    BY <1>10 DEF Crash, Live
  <2>2. up' \in BOOLEAN /\ ticking' \in BOOLEAN
    BY <1>10 DEF Crash
  <2> QED
    BY <1>10, <2>1, <2>2 DEF Crash, TypeOK, rows
<1>11. CASE Restart
  BY <1>11 DEF Restart, reset_processing, TypeOK, DeliveryStatus, tasks, history, Live
<1>12. CASE Tick
  BY <1>12 DEF Tick, TypeOK, rows, loop, tasks, history, Live
<1>13. CASE UNCHANGED vars
  BY <1>13 DEF vars, TypeOK, rows, loop, tasks, history, Live
<1> QED
  BY <1>1, <1>2, <1>3, <1>4, <1>5, <1>6, <1>7, <1>8, <1>9, <1>10, <1>11, <1>12, <1>13
     DEF Next, TaskStep

\* Columns and locals keep their types, and a live task knows its job.
THEOREM TypeCorrect == Spec => []TypeOK
BY InitType, TypeStep, PTL DEF Spec

(***************************************************************************)
(* A lease outlives its task                                               *)
(***************************************************************************)

\* What nothing in the code couples: every spawned task finds a permit, an
\* attempt fits into the visibility timeout, and requeues do not overlap.
LeaseConfig ==
    /\ Cardinality(Tasks) <= MaxConcurrent
    /\ DeliveryTimeout <= Visibility
    /\ \A g, h \in Handlers : g = h

\* LeaseOutlivesTask with the reasons for it: a waiting task has been spawned
\* in this instant, the lease of a delivering one began with its attempt, a
\* row found dead-lettered still is, and a stopped process has no tasks.
Lease ==
    /\ LeaseOutlivesTask
    /\ \A t \in Tasks : pc[t] = "waiting" => updated_at[job[t].id] = now
    /\ \A t \in Delivering : /\ updated_at[job[t].id] = started_at[t]
                              /\ now - started_at[t] <= DeliveryTimeout
    /\ \A h \in Handlers : checked[h] # NoId => status[checked[h]] = "dead_lettered"
    /\ ~up => \A t \in Tasks : ~Live(t)

\* With a permit for every task, nobody waits for one.
LEMMA WaitingHasPermit ==
    ASSUME LeaseConfig, NEW t \in Tasks, pc[t] = "waiting"
    PROVE  PermitFree
<1>1. IsFiniteSet(Tasks) /\ Cardinality(Tasks) \in Nat /\ MaxConcurrent \in Nat
  BY ConfigAssumption, FS_CardinalityType DEF Config
<1>2. IsFiniteSet(Tasks \ {t}) /\ Cardinality(Tasks \ {t}) = Cardinality(Tasks) - 1
  BY <1>1, FS_RemoveElement
<1>3. Delivering \in SUBSET (Tasks \ {t})
  BY DEF Delivering
<1>4. Cardinality(Delivering) \in Nat /\ Cardinality(Delivering) <= Cardinality(Tasks \ {t})
  BY <1>2, <1>3, FS_Subset, FS_CardinalityType
<1> QED
  BY <1>1, <1>2, <1>4 DEF LeaseConfig, PermitFree

\* A live task's lease has not run out.
LEMMA NotStale ==
    ASSUME LeaseConfig, TypeOK, Lease, NEW t \in Tasks, Live(t)
    PROVE  ~Stale(job[t].id)
<1>1. updated_at[job[t].id] \in Nat /\ started_at[t] \in Nat /\ now \in Nat
  BY JobType DEF TypeOK
<1>2. {DeliveryTimeout, Visibility} \subseteq Nat /\ DeliveryTimeout <= Visibility
  BY ConfigAssumption DEF Config, LeaseConfig
<1>3. CASE pc[t] = "waiting"
  BY <1>1, <1>2, <1>3 DEF Lease, Stale
<1>4. CASE t \in Delivering
  BY <1>1, <1>2, <1>4 DEF Lease, Stale
<1> QED
  BY <1>3, <1>4 DEF TypeOK, Live, Delivering

\* A step that spawns nothing and leaves alone the rows of the tasks that
\* stay, the rows found dead-lettered, and the clock.
LEMMA LeaseFrame ==
    ASSUME TypeOK, Lease, now' = now,
           up' = up \/ \A t \in Tasks : ~Live(t)',
           \A t \in Tasks : Live(t)' =>
              /\ Live(t)
              /\ pc'[t] = "waiting" => pc[t] = "waiting"
              /\ pc'[t] # "waiting" => pc[t] # "waiting"
              /\ job'[t] = job[t]
              /\ started_at'[t] = started_at[t]
              /\ status'[job[t].id] = status[job[t].id]
              /\ attempts'[job[t].id] = attempts[job[t].id]
              /\ updated_at'[job[t].id] = updated_at[job[t].id],
           \A h \in Handlers : checked'[h] # NoId => status'[checked'[h]] = "dead_lettered",
           pc' \in [Tasks -> {"free", "waiting", "delivering", "ok", "failed"}]
    PROVE  Lease'
<1>1. LeaseOutlivesTask'
  BY DEF Lease, LeaseOutlivesTask
<1>2. \A t \in Tasks : pc'[t] = "waiting" => updated_at'[job'[t].id] = now'
  BY DEF Lease, Live
<1>3. \A t \in Delivering' : Live(t)' /\ t \in Delivering
  BY DEF Delivering, Live, TypeOK
<1>4. \A t \in Delivering' : /\ updated_at'[job'[t].id] = started_at'[t]
                             /\ now' - started_at'[t] <= DeliveryTimeout
  BY <1>3 DEF Lease, Delivering
<1> QED
  BY <1>1, <1>2, <1>4 DEF Lease

LEMMA LeaseStep ==
    ASSUME LeaseConfig, TypeOK, Lease, TypeOK', [Next]_vars
    PROVE  Lease'
<1>0. ASSUME NEW t \in Tasks, Live(t)
      PROVE  job[t].id \in Jobs /\ status[job[t].id] = "processing"
  BY <1>0, JobType DEF Lease, LeaseOutlivesTask
<1>a. pc' \in [Tasks -> {"free", "waiting", "delivering", "ok", "failed"}]
  BY DEF TypeOK
\* A row found dead-lettered is no task's.
<1>b. ASSUME NEW h \in Handlers, checked[h] # NoId
      PROVE  checked[h] \in Jobs /\ status[checked[h]] = "dead_lettered"
  BY <1>b DEF Lease, TypeOK
<1>c. ASSUME UNCHANGED <<now, up, checked, rows, tasks>>
      PROVE  Lease'
  BY <1>a, <1>b, <1>c, LeaseFrame DEF rows, tasks, Live
<1>1. CASE Reclaim
  <2>1. ASSUME NEW j \in Jobs, ~Stale(j)
        PROVE  status'[j] = status[j] /\ updated_at'[j] = updated_at[j]
    BY <1>1, <2>1 DEF Reclaim
  <2>2. \A h \in Handlers : checked[h] # NoId => status'[checked[h]] = "dead_lettered"
    BY <1>b, <2>1 DEF Stale
  <2> QED
    BY <1>0, <1>1, <1>a, <2>1, <2>2, NotStale, LeaseFrame DEF Reclaim, tasks, Live
<1>2. CASE Claim
  <2>1. PICK C, S, id : Spawns(C, S, id)
    BY <1>2, ClaimEffect
  <2>2. /\ now' = now /\ up' = up /\ up /\ checked' = checked
        /\ attempts' = attempts /\ started_at' = started_at
    BY <1>2 DEF Claim, history
  <2>3. \A j \in C : /\ j \in Jobs /\ status[j] = "pending"
                     /\ status'[j] = "processing" /\ updated_at'[j] = now
    BY <2>1 DEF Spawns, Due
  <2>4. \A j \in Jobs : j \notin C => status'[j] = status[j] /\ updated_at'[j] = updated_at[j]
    BY <2>1 DEF Spawns
  <2>5. \A t \in S : /\ t \in Tasks /\ ~Live(t) /\ pc'[t] = "waiting" /\ id[t] \in C
                     /\ job'[t].id = id[t] /\ job'[t].attempts = attempts[id[t]]
    BY <2>1 DEF Spawns, Free, Live
  <2>6. \A t \in Tasks : t \notin S => pc'[t] = pc[t] /\ job'[t] = job[t]
    BY <2>1 DEF Spawns
  <2>7. ASSUME NEW t \in Tasks, Live(t)
        PROVE  job[t].id \notin C /\ t \notin S
    BY <1>0, <2>3, <2>5, <2>7
  <2>8. ASSUME NEW t \in Tasks, Live(t)'
        PROVE  /\ status'[job'[t].id] = "processing"
               /\ attempts'[job'[t].id] = job'[t].attempts
    <3>1. CASE t \in S
      BY <2>2, <2>3, <2>5, <3>1
    <3>2. CASE t \notin S
      <4>1. Live(t) /\ job'[t] = job[t]
        BY <2>6, <2>8, <3>2 DEF Live
      <4> QED
        BY <1>0, <2>2, <2>4, <2>7, <4>1 DEF Lease, LeaseOutlivesTask
    <3> QED
      BY <3>1, <3>2
  <2>9. ASSUME NEW t \in Tasks, NEW u \in Tasks, Live(t)', Live(u)', job'[t].id = job'[u].id
        PROVE  t = u
    <3>1. \A v \in Tasks : Live(v)' /\ v \notin S => Live(v) /\ job'[v] = job[v]
      BY <2>6 DEF Live
    <3>2. CASE t \in S /\ u \in S
      BY <2>1, <2>5, <2>9, <3>2 DEF Spawns
    <3>3. CASE t \notin S /\ u \notin S
      BY <2>9, <3>1, <3>3 DEF Lease, LeaseOutlivesTask
    <3>4. CASE t \in S <=> u \notin S
      BY <2>5, <2>7, <2>9, <3>1, <3>4
    <3> QED
      BY <3>2, <3>3, <3>4
  <2>10. LeaseOutlivesTask'
    BY <2>8, <2>9 DEF LeaseOutlivesTask
  <2>11. ASSUME NEW t \in Tasks, pc'[t] = "waiting"
         PROVE  updated_at'[job'[t].id] = now'
    <3>1. CASE t \in S
      BY <2>2, <2>3, <2>5, <3>1
    <3>2. CASE t \notin S
      <4>1. Live(t) /\ job'[t] = job[t] /\ pc[t] = "waiting"
        BY <2>6, <2>11, <3>2 DEF Live
      <4> QED
        BY <1>0, <2>2, <2>4, <2>7, <4>1 DEF Lease
    <3> QED
      BY <3>1, <3>2
  <2>12. ASSUME NEW t \in Delivering'
         PROVE  /\ updated_at'[job'[t].id] = started_at'[t]
                /\ now' - started_at'[t] <= DeliveryTimeout
    <3>1. t \in Tasks /\ t \in Delivering /\ Live(t) /\ job'[t] = job[t]
      BY <2>5, <2>6 DEF Delivering, Live
    <3> QED
      BY <1>0, <2>2, <2>4, <2>7, <3>1 DEF Lease
  <2>13. \A h \in Handlers : checked'[h] # NoId => status'[checked'[h]] = "dead_lettered"
    BY <1>b, <2>2, <2>3, <2>4
  <2> QED
    BY <2>2, <2>10, <2>11, <2>12, <2>13 DEF Lease
<1>3. ASSUME NEW t \in Tasks, Start(t) PROVE Lease'
  <2>1. /\ pc[t] = "waiting" /\ pc' = [pc EXCEPT ![t] = "delivering"]
        /\ started_at' = [started_at EXCEPT ![t] = now]
        /\ UNCHANGED <<now, rows, up, job, checked>>
    BY <1>3 DEF Start, loop
  <2>2. \A u \in Tasks : Live(u)' => Live(u)
    BY <2>1 DEF Live
  <2>3. LeaseOutlivesTask'
    BY <2>1, <2>2 DEF Lease, LeaseOutlivesTask, rows
  <2>4. \A u \in Tasks : pc'[u] = "waiting" => pc[u] = "waiting"
    BY <2>1 DEF TypeOK
  <2>5. ASSUME NEW u \in Delivering'
        PROVE  /\ updated_at'[job'[u].id] = started_at'[u]
               /\ now' - started_at'[u] <= DeliveryTimeout
    <3>1. CASE u = t
      <4>1. started_at'[u] = now /\ updated_at'[job'[u].id] = now /\ now' = now
        BY <2>1, <3>1 DEF TypeOK, Lease, rows
      <4> QED
        BY <4>1, ConfigAssumption DEF Config, TypeOK
    <3>2. CASE u # t
      <4>1. u \in Delivering /\ started_at'[u] = started_at[u]
        BY <2>1, <3>2 DEF Delivering, TypeOK
      <4> QED
        BY <2>1, <4>1 DEF Lease, rows
    <3> QED
      BY <3>1, <3>2
  <2> QED
    BY <2>1, <2>2, <2>3, <2>4, <2>5 DEF Lease, rows
<1>4. ASSUME NEW t \in Tasks, NEW outcome \in {"ok", "failed"}, Answer(t, outcome)
      PROVE  Lease'
  BY <1>4, <1>a, <1>b, LeaseFrame DEF Answer, rows, loop, Live, TypeOK
<1>5. ASSUME NEW t \in Tasks, Finalize(t) PROVE Lease'
  <2>1. PICK s \in DeliveryStatus : Record(t, s)
    BY <1>5, FinalizeEffect
  <2>2. Live(t) /\ now' = now /\ up' = up /\ checked' = checked
    BY <1>5, FinalizeEffect
  <2>3. /\ pc'[t] = "free"
        /\ \A u \in Tasks : u # t =>
              pc'[u] = pc[u] /\ job'[u] = job[u] /\ started_at'[u] = started_at[u]
    BY <1>5, FinalizeEffect, FinishEffect
  <2>4. \A j \in Jobs : j # job[t].id =>
          status'[j] = status[j] /\ attempts'[j] = attempts[j] /\ updated_at'[j] = updated_at[j]
    BY <2>1 DEF Record, TypeOK
  <2>5. ASSUME NEW u \in Tasks, Live(u)'
        PROVE  u # t /\ Live(u) /\ job[u].id # job[t].id
    BY <2>2, <2>3, <2>5 DEF Live, Lease, LeaseOutlivesTask
  <2>6. \A h \in Handlers : checked'[h] # NoId => status'[checked'[h]] = "dead_lettered"
    BY <1>0, <1>b, <2>2, <2>4
  <2> QED
    BY <1>0, <1>a, <2>2, <2>3, <2>4, <2>5, <2>6, LeaseFrame
<1>6. CASE DbError
  <2>1. UNCHANGED <<now, rows, up, checked>>
    BY <1>6 DEF DbError
  <2>2. CASE UNCHANGED tasks
    BY <1>c, <2>1, <2>2
  <2>3. ASSUME NEW t \in Tasks, Finish(t) PROVE Lease'
    <3>1. \A u \in Tasks : Live(u)' =>
            Live(u) /\ pc'[u] = pc[u] /\ job'[u] = job[u] /\ started_at'[u] = started_at[u]
      BY <2>3, FinishEffect DEF Live
    <3> QED
      BY <1>a, <1>b, <2>1, <3>1, LeaseFrame DEF rows
  <2> QED
    BY <1>6, <2>2, <2>3 DEF DbError
<1>7. ASSUME NEW j \in Jobs, create_webhook(j) PROVE Lease'
  <2>1. \A i \in Jobs : i # j => status'[i] = status[i] /\ updated_at'[i] = updated_at[i]
    BY <1>7 DEF create_webhook, TypeOK
  <2>2. /\ status[j] = "absent"
        /\ UNCHANGED <<now, attempts, up, pc, job, started_at, checked>>
    BY <1>7 DEF create_webhook, loop, tasks
  <2>3. \A t \in Tasks : Live(t) => job[t].id \in Jobs /\ job[t].id # j
    BY <1>0, <2>2
  <2>4. \A h \in Handlers : checked'[h] # NoId => status'[checked'[h]] = "dead_lettered"
    BY <1>b, <2>1, <2>2
  <2> QED
    BY <1>a, <2>1, <2>2, <2>3, <2>4, LeaseFrame DEF Live
<1>8. ASSUME NEW h \in Handlers, NEW j \in Jobs, FindDeadLetter(h, j) PROVE Lease'
  <2>1. \A g \in Handlers : checked'[g] # NoId => status[checked'[g]] = "dead_lettered"
    BY <1>8, <1>b DEF FindDeadLetter, TypeOK
  <2> QED
    BY <1>8, <1>a, <2>1, LeaseFrame DEF FindDeadLetter, rows, loop, tasks, Live
<1>9. ASSUME NEW h \in Handlers, Requeue(h) PROVE Lease'
  <2> DEFINE j == checked[h]
  <2>1. j \in Jobs /\ status[j] = "dead_lettered"
    BY <1>9, <1>b DEF Requeue
  <2>2. \A i \in Jobs : i # j =>
          status'[i] = status[i] /\ attempts'[i] = attempts[i] /\ updated_at'[i] = updated_at[i]
    BY <1>9 DEF Requeue, TypeOK
  <2>3. \A g \in Handlers : checked'[g] = NoId
    BY <1>9 DEF Requeue, LeaseConfig, TypeOK
  <2>4. \A t \in Tasks : Live(t) => job[t].id \in Jobs /\ job[t].id # j
    BY <1>0, <2>1
  <2> HIDE DEF j
  <2> QED
    BY <1>9, <1>a, <2>2, <2>3, <2>4, LeaseFrame DEF Requeue, loop, tasks, Live
<1>10. CASE Crash
  <2>1. \A t \in Tasks : ~Live(t)'
    BY <1>10 DEF Crash, Live
  <2>2. now' = now /\ \A h \in Handlers : checked'[h] = NoId
    BY <1>10 DEF Crash
  <2> QED
    BY <1>a, <2>1, <2>2, LeaseFrame
<1>11. CASE Restart
  <2>1. \A t \in Tasks : ~Live(t)'
    BY <1>11 DEF Restart, tasks, Lease, Live
  <2>2. \A h \in Handlers : checked'[h] # NoId => status'[checked'[h]] = "dead_lettered"
    BY <1>11, <1>b DEF Restart, reset_processing
  <2> QED
    BY <1>11, <1>a, <2>1, <2>2, LeaseFrame DEF Restart
<1>12. CASE Tick
  <2>1. UNCHANGED <<rows, up, tasks, checked>> /\ now' = now + 1
    BY <1>12 DEF Tick, loop
  <2>2. \A t \in Tasks : pc[t] # "waiting"
    BY <1>12, WaitingHasPermit DEF Tick
  <2>3. LeaseOutlivesTask'
    BY <2>1 DEF Lease, LeaseOutlivesTask, Live, rows, tasks
  <2>4. ASSUME NEW t \in Delivering'
        PROVE  /\ updated_at'[job'[t].id] = started_at'[t]
               /\ now' - started_at'[t] <= DeliveryTimeout
    <3>1. t \in Tasks /\ t \in Delivering
      BY <2>1 DEF Delivering, tasks
    <3>2. now - started_at[t] < DeliveryTimeout
      BY <1>12, <3>1 DEF Tick
    <3>3. started_at[t] \in Nat /\ now \in Nat /\ DeliveryTimeout \in Nat
      BY <3>1, ConfigAssumption DEF TypeOK, Config
    <3> QED
      BY <2>1, <3>1, <3>2, <3>3 DEF Lease, rows, tasks
  <2> QED
    BY <2>1, <2>2, <2>3, <2>4 DEF Lease, rows, tasks, Live
<1>13. CASE UNCHANGED vars
  BY <1>c, <1>13 DEF vars, loop
<1> QED
  BY <1>1, <1>2, <1>3, <1>4, <1>5, <1>6, <1>7, <1>8, <1>9, <1>10, <1>11, <1>12, <1>13
     DEF Next, TaskStep

LEMMA LeaseHolds ==
    ASSUME LeaseConfig
    PROVE  Spec => [](TypeOK /\ Lease)
<1>1. Init => Lease
  BY DEF Init, Lease, LeaseOutlivesTask, Live, Delivering, NoId
<1>2. LeaseConfig /\ TypeOK /\ Lease /\ TypeOK' /\ [Next]_vars => Lease'
  BY LeaseStep
<1> QED
  BY <1>1, <1>2, TypeCorrect, PTL DEF Spec

\* The loop never takes a row from a live task, and no two tasks ever work on
\* one delivery, through crashes, lost writes and requeues.
THEOREM LeaseOutlivesTaskHolds ==
    ASSUME LeaseConfig
    PROVE  Spec => []LeaseOutlivesTask
<1>1. Lease => LeaseOutlivesTask
  BY DEF Lease
<1> QED
  BY <1>1, LeaseHolds, PTL

(***************************************************************************)
(* A dead-lettered delivery had all its attempts                           *)
(***************************************************************************)

\* MAX_ATTEMPTS as it works out: the first attempt is always made.
Allowed == MaxOf(1, MaxAttempts)

\* What the attempts of a row may be, by its status.
Budget ==
    \A j \in Jobs :
        /\ status[j] \in {"pending", "processing"} => attempts[j] < Allowed
        /\ status[j] = "dead_lettered" => attempts[j] = Allowed
        /\ status[j] = "absent" => attempts[j] = 0

\* The attempts begun, beside the counted ones and one under way, are those
\* that a crash or a lost write interrupted.
Uncounted(j, open) == tries[j] - attempts[j] - open \in 0 .. crashes + dberrors

Tally ==
    /\ \A j \in Jobs : (\A t \in Delivering : job[t].id # j) => Uncounted(j, 0)
    /\ \A t \in Delivering : Uncounted(job[t].id, 1)

LEMMA AllowedType == Allowed \in Nat \ {0}
BY ConfigAssumption DEF Config, Allowed, MaxOf

\* The final update, when the lease holds: the row's own attempts plus one.
LEMMA CountedUpdate ==
    ASSUME TypeOK, Lease, NEW t \in Tasks, NEW s, Live(t), Record(t, s)
    PROVE  /\ job[t].id \in Jobs
           /\ status[job[t].id] = "processing"
           /\ job[t].attempts = attempts[job[t].id]
           /\ status' = [status EXCEPT ![job[t].id] = s]
           /\ attempts' = [attempts EXCEPT ![job[t].id] = attempts[job[t].id] + 1]
BY JobType DEF Lease, LeaseOutlivesTask, Record

LEMMA BudgetStep ==
    ASSUME TypeOK, Lease, Budget, [Next]_vars
    PROVE  Budget'
<1>0. ASSUME UNCHANGED <<status, attempts>> PROVE Budget'
  BY <1>0 DEF Budget
<1>1. CASE Reclaim
  BY <1>1 DEF Reclaim, Stale, Budget
<1>2. CASE Claim
  <2>1. PICK C, S, id : Spawns(C, S, id)
    BY <1>2, ClaimEffect
  <2> QED
    BY <1>2, <2>1 DEF Claim, Spawns, Due, Budget
<1>3. ASSUME NEW t \in Tasks, Finalize(t) PROVE Budget'
  <2> DEFINE j == job[t].id
  <2>1. Live(t)
    BY <1>3, FinalizeEffect
  <2>2. j \in Jobs /\ attempts[j] \in Nat /\ status[j] = "processing" /\ job[t].attempts = attempts[j]
    BY <2>1, JobType DEF TypeOK, Lease, LeaseOutlivesTask
  <2>3. attempts[j] < Allowed
    BY <2>2 DEF Budget
  <2>4. ASSUME NEW s, Record(t, s)
        PROVE  /\ status'[j] = s /\ attempts'[j] = attempts[j] + 1
               /\ \A i \in Jobs : i # j => status'[i] = status[i] /\ attempts'[i] = attempts[i]
    BY <2>2, <2>4 DEF Record, TypeOK
  <2> HIDE DEF j
  <2>5. CASE Delivered(t)
    <3>1. Record(t, "delivered")
      BY <2>5 DEF Delivered
    <3> QED
      BY <2>4, <3>1 DEF Budget
  <2>6. CASE DeadLettered(t)
    <3>1. Record(t, "dead_lettered") /\ Exhausted(t)
      BY <2>6 DEF DeadLettered
    <3>2. attempts[j] + 1 = Allowed
      BY <2>2, <2>3, <3>1, ConfigAssumption DEF Config, Exhausted, Allowed, MaxOf
    <3> QED
      BY <2>4, <3>1, <3>2 DEF Budget
  <2>7. CASE RetryScheduled(t)
    <3>1. Record(t, "pending") /\ ~Exhausted(t)
      BY <2>7 DEF RetryScheduled
    <3>2. attempts[j] + 1 < Allowed
      BY <2>2, <2>3, <3>1, ConfigAssumption DEF Config, Exhausted, Allowed, MaxOf
    <3> QED
      BY <2>4, <3>1, <3>2 DEF Budget
  <2> QED
    BY <1>3, <2>5, <2>6, <2>7 DEF Finalize
<1>4. ASSUME NEW j \in Jobs, create_webhook(j) PROVE Budget'
  BY <1>4, AllowedType DEF create_webhook, Budget, TypeOK
<1>5. ASSUME NEW h \in Handlers, Requeue(h) PROVE Budget'
  BY <1>5, AllowedType DEF Requeue, Budget, TypeOK
<1>6. CASE Restart
  BY <1>6 DEF Restart, reset_processing, Budget
<1>7. ASSUME \/ \E t \in Tasks : Start(t) \/ \E outcome \in {"ok", "failed"} : Answer(t, outcome)
             \/ \E h \in Handlers, j \in Jobs : FindDeadLetter(h, j)
             \/ DbError \/ Crash \/ Tick \/ UNCHANGED vars
      PROVE  UNCHANGED <<status, attempts>>
  BY <1>7 DEF Start, Answer, FindDeadLetter, DbError, Crash, Tick, vars, rows
<1> QED
  BY <1>0, <1>1, <1>2, <1>3, <1>4, <1>5, <1>6, <1>7 DEF Next, TaskStep

\* A step that counts nothing, and after which the same tasks are delivering.
LEMMA TallyFrame ==
    ASSUME Tally, UNCHANGED <<tries, attempts, crashes, dberrors>>,
           Delivering' = Delivering, \A t \in Delivering : job'[t].id = job[t].id
    PROVE  Tally'
BY DEF Tally, Uncounted

\* A crash or a lost write may end attempts that were not counted.
LEMMA TallyLoss ==
    ASSUME TypeOK, Tally, UNCHANGED <<tries, attempts>>,
           TypeOK', crashes' + dberrors' = crashes + dberrors + 1,
           Delivering' \subseteq Delivering, \A t \in Delivering' : job'[t].id = job[t].id
    PROVE  Tally'
<1>1. ASSUME NEW j \in Jobs, \A t \in Delivering' : job'[t].id # j
      PROVE  Uncounted(j, 0)'
  <2>1. Uncounted(j, 0) \/ Uncounted(j, 1)
    <3>1. CASE \E t \in Delivering : job[t].id = j
      BY <3>1, Zenon DEF Tally
    <3>2. CASE \A t \in Delivering : job[t].id # j
      BY <3>2 DEF Tally
    <3> QED
      BY <3>1, <3>2
  <2>2. /\ tries[j] \in Nat /\ attempts[j] \in Nat
        /\ crashes + dberrors \in Nat
        /\ tries'[j] = tries[j] /\ attempts'[j] = attempts[j]
    BY DEF TypeOK
  <2>3. tries[j] - attempts[j] - 0 \in 0 .. crashes + dberrors + 1
    BY <2>1, <2>2 DEF Uncounted
  <2> QED
    BY <2>2, <2>3 DEF Uncounted
<1>2. ASSUME NEW t \in Delivering'
      PROVE  Uncounted(job[t].id, 1)'
  <2> DEFINE j == job[t].id
  <2>1. t \in Delivering /\ job'[t].id = j
    BY <1>2
  <2>2. j \in Jobs
    BY <2>1, JobType DEF Delivering, Live
  <2>3. tries[j] - attempts[j] - 1 \in 0 .. crashes + dberrors
    BY <2>1 DEF Tally, Uncounted
  <2> HIDE DEF j
  <2>4. /\ tries[j] \in Nat /\ attempts[j] \in Nat
        /\ crashes + dberrors \in Nat
        /\ tries'[j] = tries[j] /\ attempts'[j] = attempts[j]
    BY <2>2 DEF TypeOK
  <2>5. tries'[j] - attempts'[j] - 1 \in 0 .. crashes' + dberrors'
    BY <2>3, <2>4
  <2> QED
    BY <2>1, <2>5 DEF Uncounted
<1> QED
  BY <1>1, <1>2 DEF Tally

LEMMA TallyStep ==
    ASSUME TypeOK, TypeOK', Lease, Tally, [Next]_vars
    PROVE  Tally'
<1> DEFINE Bound == crashes + dberrors
<1>0. /\ Bound \in Nat
      /\ \A j \in Jobs : tries[j] \in Nat /\ attempts[j] \in Nat
      /\ \A t \in Delivering : t \in Tasks /\ Live(t) /\ job[t].id \in Jobs
  BY JobType DEF TypeOK, Delivering, Live
<1>a. ASSUME NEW t \in Tasks, NEW u \in Tasks, Live(t), Live(u), job[t].id = job[u].id
      PROVE  t = u
  BY <1>a DEF Lease, LeaseOutlivesTask
<1>b. ASSUME UNCHANGED <<tries, attempts, crashes, dberrors, pc, job>>
      PROVE  Tally'
  BY <1>b DEF Tally, Uncounted, Delivering
<1>1. CASE Claim
  <2>1. PICK C, S, id : Spawns(C, S, id)
    BY <1>1, ClaimEffect
  <2>2. Delivering' = Delivering /\ \A t \in Delivering : job'[t].id = job[t].id
    BY <2>1 DEF Spawns, Delivering, Free, TypeOK
  <2> QED
    BY <1>1, <2>2, TallyFrame DEF Claim, history
<1>2. ASSUME NEW t \in Tasks, Start(t) PROVE Tally'
  <2> DEFINE j == job[t].id
  <2>1. j \in Jobs /\ Live(t) /\ t \notin Delivering
    BY <1>2, JobType DEF Start, Live, Delivering
  <2>2. \A u \in Delivering : job[u].id # j
    BY <1>0, <1>a, <2>1
  <2>3. tries[j] - attempts[j] - 0 \in 0 .. Bound
    BY <2>1, <2>2 DEF Tally, Uncounted
  <2>4. /\ tries' = [tries EXCEPT ![j] = tries[j] + 1]
        /\ UNCHANGED <<attempts, job, crashes, dberrors>>
    BY <1>2 DEF Start, rows
  <2>5. Delivering' = Delivering \union {t}
    BY <1>2 DEF Start, Delivering, TypeOK
  <2> HIDE DEF j, Bound
  <2>6. tries'[j] - attempts'[j] - 1 \in 0 .. Bound
    BY <1>0, <2>1, <2>3, <2>4 DEF TypeOK
  <2>7. \A i \in Jobs : i # j => tries'[i] = tries[i]
    BY <2>4 DEF TypeOK
  <2>8. ASSUME NEW i \in Jobs, \A u \in Delivering' : job[u].id # i
        PROVE  Uncounted(i, 0)'
    <3>1. i # j /\ \A u \in Delivering : job[u].id # i
      BY <2>5, <2>8 DEF j
    <3>2. Uncounted(i, 0)
      BY <3>1 DEF Tally
    <3> QED
      BY <2>4, <2>7, <3>1, <3>2 DEF Uncounted
  <2>9. ASSUME NEW u \in Delivering'
        PROVE  Uncounted(job[u].id, 1)'
    <3>1. CASE u = t
      BY <2>4, <2>6, <3>1 DEF Uncounted, j, Bound
    <3>2. CASE u # t
      <4>1. u \in Delivering
        BY <2>5, <3>2
      <4>2. Uncounted(job[u].id, 1) /\ job[u].id # j /\ job[u].id \in Jobs
        BY <1>0, <2>2, <4>1 DEF Tally
      <4> QED
        BY <2>4, <2>7, <4>2 DEF Uncounted
    <3> QED
      BY <3>1, <3>2
  <2> QED
    BY <2>4, <2>8, <2>9 DEF Tally
<1>3. ASSUME NEW t \in Tasks, NEW outcome \in {"ok", "failed"}, Answer(t, outcome)
      PROVE  Tally'
  <2>1. Delivering' = Delivering /\ job' = job
    BY <1>3 DEF Answer, Delivering, TypeOK
  <2> QED
    BY <1>3, <2>1, TallyFrame DEF Answer, rows
<1>4. ASSUME NEW t \in Tasks, Finalize(t) PROVE Tally'
  <2> DEFINE j == job[t].id
  <2>1. PICK s \in DeliveryStatus : Record(t, s)
    BY <1>4, FinalizeEffect
  <2>2. Live(t) /\ t \in Delivering
    BY <1>4, FinalizeEffect DEF Delivering
  <2>3. j \in Jobs /\ attempts' = [attempts EXCEPT ![j] = attempts[j] + 1]
    BY <2>1, <2>2, CountedUpdate
  <2>4. UNCHANGED <<tries, crashes, dberrors>>
    BY <1>4, FinalizeEffect
  <2>5. /\ pc'[t] = "free"
        /\ \A u \in Tasks : u # t => pc'[u] = pc[u] /\ job'[u] = job[u]
    BY <1>4, FinalizeEffect, FinishEffect
  <2>6. Delivering' = Delivering \ {t} /\ \A u \in Delivering' : job'[u] = job[u]
    BY <2>5 DEF Delivering
  <2>7. tries[j] - attempts[j] - 1 \in 0 .. Bound
    BY <2>2 DEF Tally, Uncounted
  <2>8. \A u \in Delivering' : u \in Delivering /\ job[u].id \in Jobs /\ job[u].id # j
    BY <1>0, <1>a, <2>2, <2>6
  <2> HIDE DEF j, Bound
  <2>9. tries'[j] - attempts'[j] - 0 \in 0 .. Bound
    BY <1>0, <2>3, <2>4, <2>7 DEF TypeOK
  <2>10. \A i \in Jobs : i # j => attempts'[i] = attempts[i]
    BY <2>3 DEF TypeOK
  <2>11. ASSUME NEW i \in Jobs, \A u \in Delivering' : job'[u].id # i
         PROVE  Uncounted(i, 0)'
    <3>1. CASE i = j
      BY <2>4, <2>9, <3>1 DEF Uncounted, Bound
    <3>2. CASE i # j
      <4>1. \A u \in Delivering : job[u].id # i
        BY <2>6, <2>11, <3>2 DEF j
      <4>2. Uncounted(i, 0)
        BY <4>1 DEF Tally
      <4> QED
        BY <2>4, <2>10, <3>2, <4>2 DEF Uncounted
    <3> QED
      BY <3>1, <3>2
  <2>12. ASSUME NEW u \in Delivering'
         PROVE  Uncounted(job[u].id, 1)'
    <3>1. Uncounted(job[u].id, 1)
      BY <2>8 DEF Tally
    <3> QED
      BY <2>4, <2>6, <2>8, <2>10, <3>1 DEF Uncounted
  <2> QED
    BY <2>11, <2>12 DEF Tally
<1>5. CASE DbError
  <2>1. /\ UNCHANGED <<tries, attempts, crashes>>
        /\ dberrors' = dberrors + 1
    BY <1>5 DEF DbError, rows
  <2>2. crashes' + dberrors' = crashes + dberrors + 1
    BY <2>1 DEF TypeOK
  <2>3. Delivering' \subseteq Delivering /\ \A u \in Delivering' : job'[u].id = job[u].id
    <3>1. CASE UNCHANGED tasks
      BY <3>1 DEF tasks, Delivering
    <3>2. ASSUME NEW t \in Tasks, Finish(t)
          PROVE  Delivering' \subseteq Delivering /\ \A u \in Delivering' : job'[u].id = job[u].id
      BY <3>2, FinishEffect DEF Delivering
    <3> QED
      BY <1>5, <3>1, <3>2 DEF DbError
  <2> QED
    BY <2>1, <2>2, <2>3, TallyLoss
<1>6. CASE Crash
  <2>1. UNCHANGED <<tries, attempts>> /\ crashes' = crashes + 1 /\ dberrors' = dberrors
    BY <1>6 DEF Crash, rows
  <2>2. crashes' + dberrors' = crashes + dberrors + 1
    BY <2>1 DEF TypeOK
  <2>3. Delivering' = {}
    BY <1>6 DEF Crash, Delivering
  <2> QED
    BY <2>1, <2>2, <2>3, TallyLoss
<1>7. ASSUME NEW h \in Handlers, Requeue(h) PROVE Tally'
  <2>1. PICK j \in Jobs : j = checked[h] /\ status[j] = "dead_lettered"
    BY <1>7 DEF Requeue, Lease, TypeOK
  <2>2. \A u \in Delivering : job[u].id # j
    BY <1>0, <2>1 DEF Lease, LeaseOutlivesTask
  <2>3. /\ tries' = [tries EXCEPT ![j] = 0] /\ attempts' = [attempts EXCEPT ![j] = 0]
        /\ UNCHANGED <<pc, job, crashes, dberrors>>
    BY <1>7, <2>1 DEF Requeue, tasks
  <2>4. Delivering' = Delivering
    BY <2>3 DEF Delivering
  <2>5. tries'[j] = 0 /\ attempts'[j] = 0
    BY <2>1, <2>3 DEF TypeOK
  <2>6. \A i \in Jobs : i # j => tries'[i] = tries[i] /\ attempts'[i] = attempts[i]
    BY <2>3 DEF TypeOK
  <2>7. Uncounted(j, 0)'
    BY <1>0, <2>3, <2>5 DEF Uncounted
  <2>8. ASSUME NEW i \in Jobs, i # j, \A u \in Delivering : job[u].id # i
        PROVE  Uncounted(i, 0)'
    BY <2>3, <2>6, <2>8 DEF Tally, Uncounted
  <2>9. ASSUME NEW u \in Delivering
        PROVE  Uncounted(job[u].id, 1)'
    BY <1>0, <2>2, <2>3, <2>6 DEF Tally, Uncounted
  <2> QED
    BY <2>3, <2>4, <2>7, <2>8, <2>9 DEF Tally
<1>8. ASSUME \/ Reclaim
             \/ \E j \in Jobs : create_webhook(j)
             \/ \E h \in Handlers, j \in Jobs : FindDeadLetter(h, j)
             \/ Restart \/ Tick \/ UNCHANGED vars
      PROVE  UNCHANGED <<tries, attempts, crashes, dberrors, pc, job>>
  BY <1>8 DEF Reclaim, create_webhook, FindDeadLetter, Restart, reset_processing, Tick, vars,
     rows, tasks, history
<1> QED
  BY <1>b, <1>1, <1>2, <1>3, <1>4, <1>5, <1>6, <1>7, <1>8 DEF Next, TaskStep

\* A delivery is parked by its MAX_ATTEMPTS-th counted attempt, or its first
\* if MAX_ATTEMPTS is not positive, and beside the counted attempts it has
\* had at most one for each crash and each lost write.
THEOREM DeadAfterMaxAttemptsHolds ==
    ASSUME LeaseConfig
    PROVE  Spec => []DeadAfterMaxAttempts
<1>1. Init => Budget /\ Tally
  BY AllowedType DEF Init, Budget, Tally, Delivering, Uncounted
<1>2. TypeOK /\ TypeOK' /\ Lease /\ Budget /\ Tally /\ [Next]_vars => Budget' /\ Tally'
  BY BudgetStep, TallyStep
<1>3. TypeOK /\ Lease /\ Budget /\ Tally => DeadAfterMaxAttempts
  <2> SUFFICES ASSUME TypeOK, Lease, Budget, Tally,
                      NEW j \in Jobs, status[j] = "dead_lettered"
               PROVE  /\ attempts[j] = MaxOf(1, MaxAttempts)
                      /\ tries[j] \in attempts[j] .. attempts[j] + crashes + dberrors
    BY DEF DeadAfterMaxAttempts
  <2>1. attempts[j] = MaxOf(1, MaxAttempts)
    BY DEF Budget, Allowed
  <2>2. \A t \in Delivering : job[t].id # j
    BY DEF Lease, LeaseOutlivesTask, Delivering, Live
  <2>3. Uncounted(j, 0)
    BY <2>2 DEF Tally
  <2> QED
    BY <2>1, <2>3 DEF Uncounted, TypeOK
<1> QED
  BY <1>1, <1>2, <1>3, LeaseHolds, PTL DEF Spec

(***************************************************************************)
(* The service implements AtLeastOnce                                      *)
(***************************************************************************)

\* What is recorded as delivered has been acknowledged, and so is what is
\* about to be recorded.
Acknowledged ==
    /\ \A j \in Jobs : status[j] = "delivered" => acked[j]
    /\ \A t \in Tasks : pc[t] = "ok" => acked[job[t].id]

LEMMA AcknowledgedStep ==
    ASSUME TypeOK, Acknowledged, [Next]_vars
    PROVE  Acknowledged'
<1> USE DEF Acknowledged
<1>0. ASSUME UNCHANGED acked,
             \A j \in Jobs : status'[j] = "delivered" => status[j] = "delivered",
             \A t \in Tasks : pc'[t] = "ok" => pc[t] = "ok" /\ job'[t] = job[t]
      PROVE  Acknowledged'
  BY <1>0
<1>1. CASE Reclaim
  BY <1>1 DEF Reclaim, history, tasks
<1>2. CASE Claim
  <2>1. PICK C, S, id : Spawns(C, S, id)
    BY <1>2, ClaimEffect
  <2> QED
    BY <1>2, <2>1 DEF Claim, history, Spawns
<1>3. ASSUME NEW t \in Tasks, Start(t) PROVE Acknowledged'
  BY <1>0, <1>3 DEF Start, rows, TypeOK
<1>4. ASSUME NEW t \in Tasks, NEW outcome \in {"ok", "failed"}, Answer(t, outcome)
      PROVE  Acknowledged'
  <2>1. PICK j \in Jobs : j = job[t].id
    BY <1>4, JobType DEF Answer, Live
  <2>2. /\ acked' = [acked EXCEPT ![j] = acked[j] \/ outcome = "ok"]
        /\ pc' = [pc EXCEPT ![t] = outcome]
        /\ status' = status /\ job' = job
    BY <1>4, <2>1 DEF Answer, rows
  <2>3. \A i \in Jobs : acked[i] => acked'[i]
    BY <2>2 DEF TypeOK
  <2>4. outcome = "ok" => acked'[j]
    BY <2>2 DEF TypeOK
  <2>5. ASSUME NEW u \in Tasks, pc'[u] = "ok" PROVE acked'[job[u].id]
    <3>1. CASE u = t
      BY <2>1, <2>2, <2>4, <2>5, <3>1 DEF TypeOK
    <3>2. CASE u # t
      <4>1. pc[u] = "ok" /\ job[u].id \in Jobs
        BY <2>2, <2>5, <3>2, JobType DEF TypeOK, Live
      <4> QED
        BY <2>3, <4>1
    <3> QED
      BY <3>1, <3>2
  <2> QED
    BY <2>2, <2>3, <2>5
<1>5. ASSUME NEW t \in Tasks, Finalize(t) PROVE Acknowledged'
  <2>1. PICK j \in Jobs : j = job[t].id
    BY <1>5, FinalizeEffect, JobType
  <2>2. \/ pc[t] = "ok" /\ status' = [status EXCEPT ![j] = "delivered"]
        \/ status' = [status EXCEPT ![j] = "dead_lettered"]
        \/ status' = [status EXCEPT ![j] = "pending"]
    BY <1>5, <2>1 DEF Finalize, Delivered, DeadLettered, RetryScheduled, Record
  <2>3. acked' = acked
    BY <1>5, FinalizeEffect
  <2>4. \A i \in Jobs : status'[i] = "delivered" => acked[i]
    BY <2>1, <2>2 DEF TypeOK
  <2>5. \A u \in Tasks : pc'[u] = "ok" => pc[u] = "ok" /\ job'[u] = job[u]
    BY <1>5, FinalizeEffect, FinishEffect
  <2> QED
    BY <2>3, <2>4, <2>5
<1>6. CASE DbError
  <2>1. UNCHANGED <<acked, status>>
    BY <1>6 DEF DbError, rows
  <2>2. CASE UNCHANGED tasks
    BY <2>1, <2>2 DEF tasks
  <2>3. ASSUME NEW t \in Tasks, Finish(t) PROVE Acknowledged'
    <3>1. \A u \in Tasks : pc'[u] = "ok" => pc[u] = "ok" /\ job'[u] = job[u]
      BY <2>3, FinishEffect
    <3> QED
      BY <2>1, <3>1
  <2> QED
    BY <1>6, <2>2, <2>3 DEF DbError
<1>7. ASSUME NEW j \in Jobs, create_webhook(j) PROVE Acknowledged'
  BY <1>0, <1>7 DEF create_webhook, history, tasks, TypeOK
<1>8. ASSUME NEW h \in Handlers, NEW j \in Jobs, FindDeadLetter(h, j) PROVE Acknowledged'
  BY <1>8 DEF FindDeadLetter, rows, tasks, history
<1>9. ASSUME NEW h \in Handlers, Requeue(h) PROVE Acknowledged'
  <2>1. /\ UNCHANGED <<acked, pc, job>>
        /\ status' = [status EXCEPT ![checked[h]] = "pending"]
    BY <1>9 DEF Requeue, tasks
  <2> QED
    BY <1>0, <2>1 DEF TypeOK
<1>10. CASE Crash
  BY <1>10 DEF Crash, rows
<1>11. CASE Restart
  BY <1>0, <1>11 DEF Restart, reset_processing, tasks, history
<1>12. CASE Tick \/ UNCHANGED vars
  BY <1>12 DEF Tick, vars, rows, tasks, history
<1> QED
  BY <1>1, <1>2, <1>3, <1>4, <1>5, <1>6, <1>7, <1>8, <1>9, <1>10, <1>11, <1>12
     DEF Next, TaskStep

phase == [j \in Jobs |-> Phase(status[j])]

\* Writing the status of one row moves the phase of that job only.
LEMMA PhaseOfOneRow ==
    ASSUME TypeOK, NEW j \in Jobs, NEW s, status' = [status EXCEPT ![j] = s]
    PROVE  phase' = [phase EXCEPT ![j] = Phase(s)]
BY DEF TypeOK, phase

LEMMA AbstractStep ==
    ASSUME TypeOK, Lease, Acknowledged, [Next]_vars
    PROVE  [Abstract!Next]_(Abstract!avars)
<1> USE DEF phase, Abstract!avars
<1> DEFINE Stutter == phase' = phase /\ acked' = acked
<1>a. Stutter => [Abstract!Next]_(Abstract!avars)
  OBVIOUS
\* The job of a live task is queued.
<1>0. ASSUME NEW t \in Tasks, Live(t)
      PROVE  job[t].id \in Jobs /\ phase[job[t].id] = "queued"
  BY <1>0, JobType DEF Lease, LeaseOutlivesTask, Phase
<1>1. CASE Reclaim
  <2>1. \A j \in Jobs : Phase(status'[j]) = Phase(status[j])
    BY <1>1 DEF Reclaim, Stale, Phase
  <2> QED
    BY <1>1, <2>1 DEF Reclaim, history
<1>2. CASE Claim
  <2>1. PICK C, S, id : Spawns(C, S, id)
    BY <1>2, ClaimEffect
  <2>2. \A j \in Jobs : Phase(status'[j]) = Phase(status[j])
    BY <2>1 DEF Spawns, Due, Phase
  <2> QED
    BY <1>2, <2>2 DEF Claim, history
<1>3. ASSUME NEW t \in Tasks, NEW outcome \in {"ok", "failed"}, Answer(t, outcome)
      PROVE  Stutter \/ Abstract!Next
  <2>1. PICK j \in Jobs : j = job[t].id /\ phase[j] = "queued" /\ phase' = phase
    BY <1>0, <1>3 DEF Answer, Live, rows
  <2>2. acked' = [acked EXCEPT ![j] = acked[j] \/ outcome = "ok"]
    BY <1>3, <2>1 DEF Answer
  <2>3. CASE outcome = "ok"
    <3>1. acked' = [acked EXCEPT ![j] = TRUE]
      BY <2>1, <2>2, <2>3, Zenon
    <3>2. Abstract!Acknowledge(j)
      BY <2>1, <3>1 DEF Abstract!Acknowledge
    <3> QED
      BY <2>1, <3>2 DEF Abstract!Next
  <2>4. CASE outcome # "ok"
    <3>1. acked' = acked
      BY <2>1, <2>2, <2>4 DEF TypeOK
    <3> QED
      BY <2>1, <3>1
  <2> QED
    BY <2>3, <2>4
<1>4. ASSUME NEW t \in Tasks, Finalize(t) PROVE Stutter \/ Abstract!Next
  <2>1. PICK j \in Jobs : j = job[t].id /\ phase[j] = "queued"
    BY <1>0, <1>4, FinalizeEffect
  <2>2. acked' = acked
    BY <1>4, FinalizeEffect
  <2>3. \/ pc[t] = "ok" /\ status' = [status EXCEPT ![j] = "delivered"]
        \/ status' = [status EXCEPT ![j] = "dead_lettered"]
        \/ status' = [status EXCEPT ![j] = "pending"]
    BY <1>4, <2>1 DEF Finalize, Delivered, DeadLettered, RetryScheduled, Record
  <2>4. CASE pc[t] = "ok" /\ status' = [status EXCEPT ![j] = "delivered"]
    <3>1. phase' = [phase EXCEPT ![j] = "delivered"]
      BY <2>1, <2>4, PhaseOfOneRow DEF Phase
    <3>2. Abstract!Deliver(j)
      BY <2>1, <2>2, <2>4, <3>1 DEF Acknowledged, Abstract!Deliver, Abstract!Move
    <3> QED
      BY <2>1, <3>2 DEF Abstract!Next
  <2>5. CASE status' = [status EXCEPT ![j] = "dead_lettered"]
    <3>1. phase' = [phase EXCEPT ![j] = "parked"]
      BY <2>1, <2>5, PhaseOfOneRow DEF Phase
    <3>2. Abstract!Park(j)
      BY <2>1, <2>2, <3>1 DEF Abstract!Park, Abstract!Move
    <3> QED
      BY <2>1, <3>2 DEF Abstract!Next
  <2>6. CASE status' = [status EXCEPT ![j] = "pending"]
    <3>1. phase' = [phase EXCEPT ![j] = "queued"]
      BY <2>1, <2>6, PhaseOfOneRow DEF Phase
    <3>2. phase' = phase
      BY <2>1, <3>1
    <3> QED
      BY <2>2, <3>2
  <2> QED
    BY <2>3, <2>4, <2>5, <2>6
<1>5. ASSUME NEW j \in Jobs, create_webhook(j) PROVE Abstract!Next
  <2>1. phase[j] = "absent" /\ phase' = [phase EXCEPT ![j] = "queued"]
    BY <1>5, PhaseOfOneRow DEF create_webhook, Phase
  <2>2. Abstract!Accept(j)
    BY <1>5, <2>1 DEF create_webhook, history, Abstract!Accept, Abstract!Move
  <2> QED
    BY <2>2 DEF Abstract!Next
<1>6. ASSUME NEW h \in Handlers, Requeue(h) PROVE Abstract!Next
  <2>1. PICK j \in Jobs : j = checked[h] /\ status[j] = "dead_lettered"
    BY <1>6 DEF Requeue, Lease, TypeOK
  <2>2. status' = [status EXCEPT ![j] = "pending"] /\ acked' = acked
    BY <1>6, <2>1 DEF Requeue
  <2>3. phase[j] = "parked" /\ phase' = [phase EXCEPT ![j] = "queued"]
    BY <2>1, <2>2, PhaseOfOneRow DEF Phase
  <2>4. Abstract!Requeue(j)
    BY <2>2, <2>3 DEF Abstract!Requeue, Abstract!Move
  <2> QED
    BY <2>4 DEF Abstract!Next
<1>7. CASE Restart
  <2>1. \A j \in Jobs : Phase(status'[j]) = Phase(status[j])
    BY <1>7 DEF Restart, reset_processing, Phase
  <2> QED
    BY <1>7, <2>1 DEF Restart, history
<1>8. ASSUME \/ \E t \in Tasks : Start(t)
             \/ \E h \in Handlers, j \in Jobs : FindDeadLetter(h, j)
             \/ DbError \/ Crash \/ Tick \/ UNCHANGED vars
      PROVE  Stutter
  BY <1>8 DEF Start, FindDeadLetter, DbError, Crash, Tick, vars, rows, history
<1> HIDE DEF phase
<1> QED
  BY <1>a, <1>1, <1>2, <1>3, <1>4, <1>5, <1>6, <1>7, <1>8 DEF Next, TaskStep

\* When leases outlive tasks, service g keeps its promise: an accepted job
\* stays queued until it is delivered, after a 2xx, or parked, and a parked
\* one moves only by an operator's requeue.
THEOREM Refinement ==
    ASSUME LeaseConfig
    PROVE  Spec => ImplementsAtLeastOnce
<1>1. Init => Abstract!Init
  BY DEF Init, Abstract!Init, Phase
<1>2. TypeOK /\ Lease /\ Acknowledged /\ [Next]_vars => [Abstract!Next]_(Abstract!avars)
  BY AbstractStep
<1>3. Init => Acknowledged
  BY DEF Init, Acknowledged
<1>4. TypeOK /\ Acknowledged /\ [Next]_vars => Acknowledged'
  BY AcknowledgedStep
<1>5. Spec => []Acknowledged
  BY <1>3, <1>4, TypeCorrect, PTL DEF Spec
<1> QED
  BY <1>1, <1>2, <1>5, LeaseHolds, PTL DEF Spec, ImplementsAtLeastOnce, Abstract!Spec

(***************************************************************************)
(* Where the documentation is right about dead letters                     *)
(***************************************************************************)

\* With leases that outlive tasks a dead letter is left to the operator, and
\* an operator's requeue finds nothing but dead letters.
LEMMA DeadLetterStep ==
    ASSUME TypeOK, Lease, [Next]_vars, NEW j \in Jobs
    PROVE  /\ requeued'[j] > requeued[j] => status[j] = "dead_lettered"
           /\ status[j] = "dead_lettered" /\ status'[j] # "dead_lettered"
                 => requeued'[j] > requeued[j]
<1> DEFINE Kept == /\ ~(requeued'[j] > requeued[j])
                   /\ status[j] = "dead_lettered" => status'[j] = "dead_lettered"
<1>0. requeued[j] \in Nat
  BY DEF TypeOK
<1>1. CASE Reclaim
  BY <1>0, <1>1 DEF Reclaim, Stale, history
<1>2. CASE Claim
  <2>1. PICK C, S, id : Spawns(C, S, id)
    BY <1>2, ClaimEffect
  <2> QED
    BY <1>0, <1>2, <2>1 DEF Claim, Spawns, Due, history
<1>3. ASSUME NEW t \in Tasks, Finalize(t) PROVE Kept
  <2>1. Live(t) /\ requeued' = requeued
    BY <1>3, FinalizeEffect DEF Finalize, history
  <2>2. PICK i \in Jobs : i = job[t].id /\ status[i] = "processing"
    BY <2>1, JobType DEF Lease, LeaseOutlivesTask
  <2>3. \E new \in DeliveryStatus : status' = [status EXCEPT ![i] = new]
    BY <1>3, <2>2 DEF Finalize, Delivered, DeadLettered, RetryScheduled, Record,
       DeliveryStatus
  <2>4. status[j] = "dead_lettered" => status'[j] = status[j]
    BY <2>2, <2>3 DEF TypeOK
  <2> QED
    BY <1>0, <2>1, <2>4
<1>4. ASSUME NEW i \in Jobs, create_webhook(i) PROVE Kept
  BY <1>0, <1>4 DEF create_webhook, history, TypeOK
<1>5. ASSUME NEW h \in Handlers, Requeue(h)
      PROVE  /\ requeued'[j] > requeued[j] => status[j] = "dead_lettered"
             /\ status[j] = "dead_lettered" /\ status'[j] # "dead_lettered"
                   => requeued'[j] > requeued[j]
  <2>1. PICK i \in Jobs : i = checked[h] /\ status[i] = "dead_lettered"
    BY <1>5 DEF Requeue, Lease, TypeOK
  <2>2. /\ status' = [status EXCEPT ![i] = "pending"]
        /\ requeued' = [requeued EXCEPT ![i] = @ + 1]
    BY <1>5, <2>1 DEF Requeue
  <2>3. CASE j = i
    BY <1>0, <2>1, <2>2, <2>3 DEF TypeOK
  <2>4. CASE j # i
    BY <1>0, <2>2, <2>4 DEF TypeOK
  <2> QED
    BY <2>3, <2>4
<1>6. CASE Restart
  BY <1>0, <1>6 DEF Restart, reset_processing, history
<1>7. ASSUME \/ \E t \in Tasks : Start(t) \/ \E o \in {"ok", "failed"} : Answer(t, o)
             \/ \E h \in Handlers, i \in Jobs : FindDeadLetter(h, i)
             \/ DbError \/ Crash \/ Tick \/ UNCHANGED vars
      PROVE  Kept
  <2>1. UNCHANGED <<status, requeued>>
    BY <1>7 DEF Start, Answer, FindDeadLetter, DbError, Crash, Tick, vars, rows, history
  <2> QED
    BY <1>0, <2>1
<1> QED
  BY <1>1, <1>2, <1>3, <1>4, <1>5, <1>6, <1>7 DEF Next, TaskStep

\* routes.rs is right that "only dead-lettered deliveries can be requeued"
\* when leases outlive tasks and requeue requests do not overlap.
THEOREM OneRequestRequeuesDeadLetters ==
    ASSUME LeaseConfig
    PROVE  Spec => OnlyDeadLettersAreRequeued
<1>1. TypeOK /\ Lease /\ [Next]_vars =>
         [\A j \in Jobs : requeued'[j] > requeued[j] => status[j] = "dead_lettered"]_vars
  BY DeadLetterStep
<1> QED
  BY <1>1, LeaseHolds, PTL DEF Spec, OnlyDeadLettersAreRequeued

\* The README is right that a dead letter stays parked until it is requeued
\* when there is a permit for every task that may be spawned and an attempt
\* fits into the visibility timeout.
THEOREM WithPermitsDeadLetterStaysParked ==
    ASSUME LeaseConfig
    PROVE  Spec => DeadLetterStaysParked
<1>1. TypeOK /\ Lease /\ [Next]_vars =>
         [\A j \in Jobs : status[j] = "dead_lettered" /\ status'[j] # "dead_lettered"
                             => requeued'[j] > requeued[j]]_vars
  BY DeadLetterStep
<1> QED
  BY <1>1, LeaseHolds, PTL DEF Spec, DeadLetterStaysParked

(***************************************************************************)
(* Every claimed row has a task                                            *)
(***************************************************************************)

HasTask(j) == \E t \in Tasks : Live(t) /\ job[t].id = j

\* Until a statement fails, a row is processing only while a task lives that
\* will record it, or after the process has died.
Attended ==
    dberrors = 0 /\ up => \A j \in Jobs : status[j] = "processing" => HasTask(j)

LEMMA AttendedStep ==
    ASSUME TypeOK, Attended, [Next]_vars
    PROVE  Attended'
<1> SUFFICES ASSUME dberrors' = 0, up', NEW j \in Jobs, status'[j] = "processing"
             PROVE  HasTask(j)'
  BY DEF Attended
<1>1. CASE Restart
  BY <1>1 DEF Restart, reset_processing
<1>2. ASSUME up, dberrors = 0, status[j] = "processing" PROVE HasTask(j)
  BY <1>2 DEF Attended
<1>3. ASSUME up, dberrors = 0, status[j] = "processing",
             \A t \in Tasks : Live(t) => Live(t)' /\ job'[t].id = job[t].id
      PROVE  HasTask(j)'
  BY <1>2, <1>3 DEF HasTask
<1>4. CASE Reclaim
  BY <1>3, <1>4 DEF Reclaim, tasks, history, Live
<1>5. CASE Claim
  <2>1. PICK C, S, id : Spawns(C, S, id)
    BY <1>5, ClaimEffect
  <2>2. up /\ dberrors = 0
    BY <1>5 DEF Claim, history
  <2>3. CASE j \in C
    <3>1. PICK t \in S : id[t] = j
      BY <2>1, <2>3 DEF Spawns
    <3>2. t \in Tasks /\ pc'[t] = "waiting" /\ job'[t].id = j
      BY <2>1, <3>1 DEF Spawns, Free
    <3> QED
      BY <3>2 DEF HasTask, Live
  <2>4. CASE j \notin C
    <3>1. status[j] = "processing"
      BY <2>1, <2>4 DEF Spawns
    <3>2. \A t \in Tasks : Live(t) => pc'[t] = pc[t] /\ job'[t] = job[t]
      BY <2>1 DEF Spawns, Free, Live
    <3> QED
      BY <1>3, <2>2, <3>1, <3>2 DEF Live
  <2> QED
    BY <2>3, <2>4
<1>6. ASSUME NEW t \in Tasks, Finalize(t) PROVE HasTask(j)'
  <2>1. /\ up /\ dberrors = 0 /\ Live(t) /\ Finish(t)
        /\ \A u \in Tasks : u # t => pc'[u] = pc[u] /\ job'[u] = job[u]
    BY <1>6, FinalizeEffect, FinishEffect
  <2>2. PICK s \in {"delivered", "dead_lettered", "pending"} :
          status' = [status EXCEPT ![job[t].id] = s]
    BY <1>6 DEF Finalize, Delivered, DeadLettered, RetryScheduled, Record
  <2>3. j # job[t].id /\ status[j] = "processing"
    BY <2>2 DEF TypeOK
  <2>4. PICK u \in Tasks : Live(u) /\ job[u].id = j
    BY <1>2, <2>1, <2>3 DEF HasTask
  <2> QED
    BY <2>1, <2>3, <2>4 DEF HasTask, Live
<1>7. ASSUME NEW t \in Tasks,
             Start(t) \/ \E o \in {"ok", "failed"} : Answer(t, o)
      PROVE  HasTask(j)'
  <2>1. /\ up /\ dberrors = 0 /\ status[j] = "processing" /\ job' = job
        /\ \A u \in Tasks : Live(u) => Live(u)'
    BY <1>7 DEF Start, Answer, rows, loop, TypeOK, Live
  <2> QED
    BY <1>3, <2>1
<1>8. CASE DbError
  BY <1>8 DEF DbError, TypeOK
<1>9. ASSUME NEW i \in Jobs, create_webhook(i) PROVE HasTask(j)'
  BY <1>3, <1>9 DEF create_webhook, loop, tasks, history, TypeOK, Live
<1>10. ASSUME NEW h \in Handlers, Requeue(h) PROVE HasTask(j)'
  <2>1. status[j] = "processing"
    BY <1>10 DEF Requeue, TypeOK
  <2> QED
    BY <1>3, <1>10, <2>1 DEF Requeue, loop, tasks, Live
<1>11. CASE Crash
  BY <1>11 DEF Crash
<1>12. ASSUME \/ \E h \in Handlers, i \in Jobs : FindDeadLetter(h, i)
              \/ Tick \/ UNCHANGED vars
       PROVE  HasTask(j)'
  BY <1>3, <1>12 DEF FindDeadLetter, Tick, vars, rows, loop, tasks, history, Live
<1>13. CASE \E t \in Tasks : TaskStep(t)
  BY <1>6, <1>7, <1>13 DEF TaskStep
<1>14. CASE \E i \in Jobs : create_webhook(i)
  BY <1>9, <1>14
<1>15. CASE \E h \in Handlers : Requeue(h)
  BY <1>10, <1>15
<1> QED
  BY <1>1, <1>4, <1>5, <1>8, <1>11, <1>12, <1>13, <1>14, <1>15 DEF Next

\* No crash, however timed, leaves a row processing with no task to record it
\* once the process is up again: only a failed statement does, and that row
\* waits for the visibility timeout.
THEOREM OnlyFailuresStrand == Spec => []Attended
<1>1. Init => TypeOK /\ Attended
  BY InitType DEF Init, Attended
<1>2. TypeOK /\ Attended /\ [Next]_vars => Attended'
  BY AttendedStep
<1> QED
  BY <1>1, <1>2, TypeCorrect, PTL DEF Spec
=============================================================================
