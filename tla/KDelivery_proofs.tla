-------------------------- MODULE KDelivery_proofs --------------------------
(***************************************************************************)
(* Proofs about service k, for any number of jobs and workers and any      *)
(* configuration.                                                          *)
(***************************************************************************)
EXTENDS KDelivery, FiniteSetTheorems, SequenceTheorems, TLAPS

(***************************************************************************)
(* What a claim returns, and what is left after the first of a batch       *)
(***************************************************************************)

\* The query picks at least one due job, and none twice.
LEMMA OldestDueIsInjective ==
    ASSUME Due # {}, NEW s \in OldestDue(Due, next_attempt_at, ClaimLimit)
    PROVE  /\ s \in Seq(Due)
           /\ Len(s) \in Nat \ {0}
           /\ DOMAIN s = 1..Len(s)
           /\ \A i, k \in 1..Len(s) : s[i] = s[k] => i = k
<1> DEFINE n == MinOf(ClaimLimit, Cardinality(Due))
<1>1. IsFiniteSet(Due)
  BY ConfigAssumption, FS_Subset DEF Config, Due
<1>2. Cardinality(Due) \in Nat \ {0}
  BY <1>1, FS_CardinalityType, FS_EmptySet
<1>3. n \in Nat \ {0}
  BY <1>2, ConfigAssumption DEF Config, MinOf
<1>4. s \in [1..n -> Due] /\ \A i, k \in 1..n : i < k => s[i] # s[k]
  BY DEF OldestDue
<1> HIDE DEF n
<1>5. s \in Seq(Due) /\ Len(s) = n /\ DOMAIN s = 1..n
  BY <1>3, <1>4
<1>6. \A i, k \in 1..n : s[i] = s[k] => i = k
  BY <1>3, <1>4
<1> QED
  BY <1>3, <1>5, <1>6

\* b is a batch that claims the jobs of C, each once and with the attempt
\* to be made counted.
ClaimOf(C, b) ==
    /\ b \in Seq(ClaimedJob)
    /\ b # <<>>
    /\ \A i \in 1..Len(b) : b[i].id \in C /\ b[i].attempts = attempts[b[i].id] + 1
    /\ \A i, k \in 1..Len(b) : b[i].id = b[k].id => i = k

\* A claim turns some due jobs in_flight, counts an attempt of each and gives
\* the worker a batch of exactly these jobs.
LEMMA ClaimEffect ==
    ASSUME TypeOK, NEW w \in Workers, claim_due_jobs(w)
    PROVE  \E C \in SUBSET Due, b \in Seq(ClaimedJob) :
              /\ ClaimOf(C, b)
              /\ status' = [j \in Jobs |-> IF j \in C THEN "in_flight" ELSE status[j]]
              /\ attempts' = [j \in Jobs |-> IF j \in C THEN attempts[j] + 1 ELSE attempts[j]]
              /\ batch' = [batch EXCEPT ![w] = b]
<1> DEFINE Members(s) == {s[i] : i \in DOMAIN s}
           Batch(s) == [i \in DOMAIN s |-> [id |-> s[i], attempts |-> attempts[s[i]] + 1]]
<1>1. PICK s \in OldestDue(Due, next_attempt_at, ClaimLimit) :
        /\ status' = [j \in Jobs |-> IF j \in Members(s) THEN "in_flight" ELSE status[j]]
        /\ attempts' = [j \in Jobs |->
                           IF j \in Members(s) THEN attempts[j] + 1 ELSE attempts[j]]
        /\ batch' = [batch EXCEPT ![w] = Batch(s)]
  BY DEF claim_due_jobs
<1>2. /\ s \in Seq(Due)
      /\ Len(s) \in Nat \ {0}
      /\ DOMAIN s = 1..Len(s)
      /\ \A i, k \in 1..Len(s) : s[i] = s[k] => i = k
  BY OldestDueIsInjective DEF claim_due_jobs
<1> DEFINE C == Members(s)
           b == Batch(s)
<1>3. \A i \in 1..Len(s) : s[i] \in Due /\ s[i] \in Jobs /\ s[i] \in C
  BY <1>2 DEF Due
<1>4. \A i \in 1..Len(s) : /\ b[i] = [id |-> s[i], attempts |-> attempts[s[i]] + 1]
                            /\ b[i].id = s[i]
                            /\ b[i].attempts = attempts[s[i]] + 1
  BY <1>2
<1>5. \A i \in 1..Len(s) : b[i] \in ClaimedJob
  BY <1>3, <1>4 DEF TypeOK, ClaimedJob
<1>6. b \in Seq(ClaimedJob) /\ Len(b) = Len(s)
  <2>1. b = [i \in 1..Len(s) |-> b[i]]
    BY <1>2
  <2> HIDE DEF b
  <2> QED
    BY <1>2, <1>5, <2>1
<1>7. C \in SUBSET Due
  BY <1>2, <1>3
<1>8. ClaimOf(C, b)
  <2> HIDE DEF b, C
  <2>1. b # <<>>
    BY <1>2, <1>6
  <2>2. \A i \in 1..Len(b) : b[i].id = s[i] /\ b[i].attempts = attempts[s[i]] + 1
    BY <1>4, <1>6
  <2>3. \A i \in 1..Len(b) : b[i].id \in C /\ b[i].attempts = attempts[b[i].id] + 1
    BY <1>3, <1>6, <2>2
  <2>4. \A i, k \in 1..Len(b) : b[i].id = b[k].id => i = k
    BY <1>2, <1>6, <2>2
  <2> QED
    BY <1>6, <2>1, <2>3, <2>4 DEF ClaimOf
<1> QED
  BY <1>1, <1>6, <1>7, <1>8

\* The first of a batch and the rest of it.
LEMMA BatchHead ==
    ASSUME TypeOK, NEW w \in Workers, pc[w] \in Busy
    PROVE  /\ batch[w] \in Seq(ClaimedJob)
           /\ Len(batch[w]) \in Nat \ {0}
           /\ Head(batch[w]) = batch[w][1]
           /\ Head(batch[w]) \in ClaimedJob
           /\ Head(batch[w]).id \in Jobs
<1>1. batch[w] \in Seq(ClaimedJob) /\ batch[w] # <<>>
  BY DEF TypeOK
<1>2. Head(batch[w]) = batch[w][1] /\ Len(batch[w]) \in Nat \ {0}
  BY <1>1
<1>3. Head(batch[w]) \in ClaimedJob
  BY <1>1, HeadTailProperties
<1> QED
  BY <1>1, <1>2, <1>3 DEF ClaimedJob

LEMMA NextJobEffect ==
    ASSUME TypeOK, NEW w \in Workers, pc[w] \in Busy, NextJob(w)
    PROVE  /\ batch' \in [Workers -> Seq(ClaimedJob)]
           /\ pc' \in [Workers -> Busy \union {"stopped", "loop", "claiming"}]
           /\ pc'[w] = (IF Len(batch[w]) = 1 THEN "loop" ELSE "batch")
           /\ \A v \in Workers : v # w => pc'[v] = pc[v] /\ batch'[v] = batch[v]
           /\ Len(batch'[w]) = Len(batch[w]) - 1
           /\ \A i \in 1..Len(batch'[w]) : batch'[w][i] = batch[w][i + 1]
           /\ pc'[w] \in Busy <=> batch'[w] # <<>>
<1>1. batch[w] \in Seq(ClaimedJob) /\ batch[w] # <<>> /\ Len(batch[w]) \in Nat \ {0}
  BY BatchHead DEF TypeOK
<1> DEFINE t == Tail(batch[w])
<1>2. /\ t \in Seq(ClaimedJob)
      /\ Len(t) = Len(batch[w]) - 1
      /\ \A i \in 1..Len(t) : t[i] = batch[w][i + 1]
  BY <1>1, HeadTailProperties
<1>3. batch' = [batch EXCEPT ![w] = t]
  BY DEF NextJob
<1> HIDE DEF t
<1>4. batch' \in [Workers -> Seq(ClaimedJob)] /\ batch'[w] = t
  BY <1>2, <1>3 DEF TypeOK
<1>5. pc' = [pc EXCEPT ![w] = IF Len(batch[w]) = 1 THEN "loop" ELSE "batch"]
  BY DEF NextJob
<1>6. t # <<>> <=> Len(batch[w]) # 1
  <2>1. t = <<>> <=> Len(t) = 0
    BY <1>2, EmptySeq
  <2> QED
    BY <1>1, <1>2, <2>1
<1>7. pc'[w] \in Busy <=> Len(batch[w]) # 1
  BY <1>5 DEF TypeOK, Busy
<1>8. pc' \in [Workers -> Busy \union {"stopped", "loop", "claiming"}]
  BY <1>5 DEF TypeOK, Busy
<1>9. \A v \in Workers : v # w => pc'[v] = pc[v] /\ batch'[v] = batch[v]
  BY <1>3, <1>5 DEF TypeOK
<1> QED
  BY <1>2, <1>4, <1>5, <1>6, <1>7, <1>8, <1>9 DEF TypeOK

(***************************************************************************)
(* Type correctness                                                        *)
(***************************************************************************)

\* Every delay of the backoff is a natural number of ticks.
LEMMA BackoffType ==
    ASSUME NEW n, NEW delay \in Backoff(n)
    PROVE  delay \in Nat
BY DEF Backoff, Jitter20

\* The three statements that record an outcome keep the columns in their types.
LEMMA OutcomeRowsType ==
    ASSUME TypeOK, NEW j \in Jobs,
           \/ mark_delivered(j)
           \/ mark_dead(j)
           \/ \E at \in Nat : reschedule_job(j, at)
    PROVE  /\ status' \in [Jobs -> JobStatus \union {"absent"}]
           /\ next_attempt_at' \in [Jobs -> Nat]
           /\ \E s \in JobStatus : status' = [status EXCEPT ![j] = s]
<1>1. PICK s \in JobStatus : status' = [status EXCEPT ![j] = s]
  BY DEF mark_delivered, mark_dead, reschedule_job, JobStatus
<1>2. status' \in [Jobs -> JobStatus \union {"absent"}]
  BY <1>1 DEF TypeOK
<1>3. next_attempt_at' \in [Jobs -> Nat]
  BY DEF TypeOK, mark_delivered, mark_dead, reschedule_job
<1> QED
  BY <1>1, <1>2, <1>3

\* Recording is one of the three statements on the first job of the batch.
LEMMA HandleOneEffect ==
    ASSUME TypeOK, NEW w \in Workers, handle_one(w)
    PROVE  LET j == Head(batch[w]).id
           IN  /\ \/ mark_delivered(j)
                  \/ mark_dead(j)
                  \/ \E at \in Nat : reschedule_job(j, at)
               /\ j \in Jobs
               /\ pc[w] \in Busy
               /\ NextJob(w)
<1>1. pc[w] \in Busy
  BY DEF handle_one, Busy
<1>2. Head(batch[w]) \in ClaimedJob /\ Head(batch[w]).id \in Jobs
  BY <1>1, BatchHead
<1>3. \A delay \in Backoff(Head(batch[w]).attempts) : now + delay \in Nat
  BY BackoffType DEF TypeOK
<1> QED
  BY <1>1, <1>2, <1>3 DEF handle_one

LEMMA InitType == Init => TypeOK
<1> SUFFICES ASSUME Init PROVE TypeOK
  OBVIOUS
<1>1. batch \in [Workers -> Seq(ClaimedJob)]
  BY DEF Init
<1>2. \A w \in Workers : pc[w] \notin Busy /\ batch[w] = <<>>
  BY DEF Init, Busy
<1> QED
  BY <1>1, <1>2 DEF Init, TypeOK

LEMMA NextType == TypeOK /\ [Next]_vars => TypeOK'
<1> SUFFICES ASSUME TypeOK, [Next]_vars PROVE TypeOK'
  OBVIOUS
<1> USE ConfigAssumption DEF Config
<1>0. ASSUME NEW w \in Workers, pc[w] # "stopped" PROVE process # "down"
  BY <1>0 DEF TypeOK
<1>1. ASSUME NEW w \in Workers, CheckShutdown(w) PROVE TypeOK'
  BY <1>1 DEF TypeOK, Busy, CheckShutdown, rows, history
<1>2. ASSUME NEW w \in Workers, claim_due_jobs(w) PROVE TypeOK'
  <2>1. PICK C \in SUBSET Due, b \in Seq(ClaimedJob) :
          /\ ClaimOf(C, b)
          /\ status' = [j \in Jobs |-> IF j \in C THEN "in_flight" ELSE status[j]]
          /\ attempts' = [j \in Jobs |-> IF j \in C THEN attempts[j] + 1 ELSE attempts[j]]
          /\ batch' = [batch EXCEPT ![w] = b]
    BY <1>2, ClaimEffect
  <2>2. status' \in [Jobs -> JobStatus \union {"absent"}] /\ attempts' \in [Jobs -> Nat]
    BY <2>1 DEF TypeOK, JobStatus
  <2>3. batch' \in [Workers -> Seq(ClaimedJob)] /\ batch'[w] # <<>>
    BY <2>1 DEF TypeOK, ClaimOf
  <2>4. pc' = [pc EXCEPT ![w] = "batch"]
    BY <1>2 DEF claim_due_jobs
  <2>5. \A v \in Workers : pc'[v] \in Busy <=> batch'[v] # <<>>
    BY <2>1, <2>3, <2>4 DEF TypeOK, Busy
  <2> QED
    BY <1>2, <2>2, <2>3, <2>4, <2>5 DEF TypeOK, Busy, claim_due_jobs, history
<1>3. ASSUME NEW w \in Workers, NothingDue(w) PROVE TypeOK'
  BY <1>3 DEF TypeOK, Busy, NothingDue, rows, history
<1>4. ASSUME NEW w \in Workers, Send(w) PROVE TypeOK'
  <2>1. pc[w] = "batch" /\ pc' = [pc EXCEPT ![w] = "sending"]
    BY <1>4 DEF Send
  <2>2. Head(batch[w]).id \in Jobs
    BY <2>1, BatchHead DEF Busy
  <2>3. sends' \in [Jobs -> Nat]
    BY <1>4, <2>2 DEF TypeOK, Send
  <2>4. \A v \in Workers : pc'[v] \in Busy <=> batch[v] # <<>>
    BY <2>1 DEF TypeOK, Busy
  <2>5. pc' \in [Workers -> Busy \union {"stopped", "loop", "claiming"}]
    BY <2>1 DEF TypeOK, Busy
  <2> QED
    BY <1>0, <1>4, <2>1, <2>3, <2>4, <2>5 DEF TypeOK, Send, rows
<1>5. ASSUME NEW w \in Workers, NEW outcome \in {"ok", "failed"}, Answer(w, outcome)
      PROVE  TypeOK'
  BY <1>5, BatchHead DEF TypeOK, Busy, Answer, rows
<1>6. ASSUME NEW w \in Workers, handle_one(w) PROVE TypeOK'
  <2>1. /\ status' \in [Jobs -> JobStatus \union {"absent"}]
        /\ next_attempt_at' \in [Jobs -> Nat]
    BY <1>6, HandleOneEffect, OutcomeRowsType
  <2>2. pc[w] \in Busy /\ NextJob(w)
    BY <1>6, HandleOneEffect
  <2>3. \A v \in Workers : pc'[v] \in Busy <=> batch'[v] # <<>>
    BY <2>2, NextJobEffect DEF TypeOK
  <2> QED
    BY <1>6, <2>1, <2>2, <2>3, NextJobEffect DEF TypeOK, handle_one, NextJob, history
<1>7. ASSUME NEW w \in Workers, DbError(w) PROVE TypeOK'
  <2>1. pc[w] # "stopped" /\ process' = process
    BY <1>7 DEF DbError, NextJob
  <2>2. process' # "down"
    BY <1>0, <2>1
  <2>3. /\ pc' \in [Workers -> Busy \union {"stopped", "loop", "claiming"}]
        /\ batch' \in [Workers -> Seq(ClaimedJob)]
        /\ \A v \in Workers : pc'[v] \in Busy <=> batch'[v] # <<>>
    <3>1. CASE pc[w] = "claiming" /\ pc' = [pc EXCEPT ![w] = "loop"] /\ batch' = batch
      BY <3>1 DEF TypeOK, Busy
    <3>2. CASE pc[w] \in {"ok", "failed"} /\ NextJob(w)
      <4>1. pc[w] \in Busy
        BY <3>2 DEF Busy
      <4> QED
        BY <3>2, <4>1, NextJobEffect DEF TypeOK
    <3> QED
      BY <1>7, <3>1, <3>2 DEF DbError
  <2> QED
    BY <1>7, <2>1, <2>2, <2>3 DEF TypeOK, DbError, rows
<1>8. ASSUME NEW j \in Jobs, post_webhook(j) PROVE TypeOK'
  BY <1>8 DEF TypeOK, JobStatus, post_webhook, insert_job, tasks, history
<1>9. ASSUME NEW j \in Jobs, retry_dlq(j) PROVE TypeOK'
  BY <1>9 DEF TypeOK, JobStatus, retry_dlq, requeue_dead, tasks
<1>10. CASE Shutdown
  BY <1>10 DEF TypeOK, Shutdown, rows, history
<1>11. CASE Exit
  BY <1>11 DEF TypeOK, Exit, rows, history
<1>12. CASE Kill
  BY <1>12 DEF TypeOK, Busy, Kill, rows
<1>13. CASE Restart
  <2>1. \A v \in Workers : batch[v] = <<>>
    BY <1>13 DEF TypeOK, Busy, Restart
  <2> QED
    BY <1>13, <2>1 DEF TypeOK, Busy, Restart, rows, history
<1>14. CASE Tick
  BY <1>14 DEF TypeOK, Tick, rows, tasks, history
<1>15. CASE UNCHANGED vars
  BY <1>15 DEF TypeOK, vars, rows, tasks, history
<1> QED
  BY <1>1, <1>2, <1>3, <1>4, <1>5, <1>6, <1>7, <1>8, <1>9, <1>10, <1>11, <1>12,
     <1>13, <1>14, <1>15 DEF Next, WorkerStep

\* Every reachable state of service k has the declared types, and a worker
\* has a job in hand exactly from its claim to its last record.
THEOREM TypeCorrect == Spec => []TypeOK
BY InitType, NextType, PTL DEF Spec

(***************************************************************************)
(* A claimed job belongs to one worker                                     *)
(***************************************************************************)

\* Every place of a batch holds a claimed job.
LEMMA SlotType ==
    ASSUME TypeOK, NEW w \in Workers, NEW i \in 1..Len(batch[w])
    PROVE  batch[w][i].id \in Jobs /\ batch[w][i].attempts \in Nat \ {0}
<1>1. batch[w] \in Seq(ClaimedJob)
  BY DEF TypeOK
<1>2. batch[w][i] \in ClaimedJob
  BY <1>1
<1> QED
  BY <1>2 DEF ClaimedJob

\* A step that leaves the batches alone, and the in_flight rows as they are.
LEMMA ExclusiveFrame ==
    ASSUME TypeOK, ClaimIsExclusive, batch' = batch,
           \A j \in Jobs : status[j] = "in_flight" =>
              status'[j] = "in_flight" /\ attempts'[j] = attempts[j]
    PROVE  ClaimIsExclusive'
BY SlotType DEF ClaimIsExclusive

\* A worker done with the first of its batch may have rewritten that row, and
\* none of those in anybody's hands.
LEMMA ExclusiveNextJob ==
    ASSUME TypeOK, ClaimIsExclusive,
           NEW w \in Workers, pc[w] \in Busy, NextJob(w), attempts' = attempts,
           \A j \in Jobs : j # Head(batch[w]).id => status'[j] = status[j]
    PROVE  ClaimIsExclusive'
<1> DEFINE Old(v, i) == IF v = w THEN i + 1 ELSE i
<1>1. ASSUME NEW v \in Workers, NEW i \in 1..Len(batch'[v])
      PROVE  /\ Old(v, i) \in 1..Len(batch[v])
             /\ batch'[v][i] = batch[v][Old(v, i)]
             /\ ~(v = w /\ Old(v, i) = 1)
  <2>1. CASE v = w
    <3>1. Len(batch'[w]) = Len(batch[w]) - 1 /\ Len(batch[w]) \in Nat \ {0}
      BY NextJobEffect, BatchHead
    <3>2. batch'[w][i] = batch[w][i + 1]
      BY <2>1, NextJobEffect
    <3> QED
      BY <2>1, <3>1, <3>2
  <2>2. CASE v # w
    BY <2>2, NextJobEffect
  <2> QED
    BY <2>1, <2>2
<1>2. Head(batch[w]) = batch[w][1] /\ 1 \in 1..Len(batch[w])
  BY BatchHead
<1> HIDE DEF Old
<1>3. ASSUME NEW v \in Workers, NEW i \in 1..Len(batch'[v])
      PROVE  /\ status'[batch'[v][i].id] = "in_flight"
             /\ attempts'[batch'[v][i].id] = batch'[v][i].attempts
  <2>1. batch[v][Old(v, i)].id # Head(batch[w]).id
    BY <1>1, <1>2 DEF ClaimIsExclusive
  <2>2. batch[v][Old(v, i)].id \in Jobs
    BY <1>1, SlotType
  <2> QED
    BY <1>1, <2>1, <2>2 DEF ClaimIsExclusive
<1>4. ASSUME NEW v \in Workers, NEW i \in 1..Len(batch'[v]),
             NEW u \in Workers, NEW k \in 1..Len(batch'[u]),
             batch'[u][k].id = batch'[v][i].id
      PROVE  u = v /\ k = i
  <2> DEFINE x == Old(v, i)
             y == Old(u, k)
  <2>1. x \in 1..Len(batch[v]) /\ batch'[v][i] = batch[v][x]
    BY <1>1
  <2>2. y \in 1..Len(batch[u]) /\ batch'[u][k] = batch[u][y]
    BY <1>1
  <2> HIDE DEF x, y
  <2>3. batch[u][y].id = batch[v][x].id
    BY <1>4, <2>1, <2>2
  <2>4. u = v /\ y = x
    BY <2>1, <2>2, <2>3 DEF ClaimIsExclusive
  <2>5. u = v /\ Old(u, k) = Old(v, i)
    BY <2>4 DEF x, y
  <2>6. i \in Int /\ k \in Int
    OBVIOUS
  <2>7. k = i
    BY <2>5, <2>6 DEF Old
  <2> QED
    BY <2>5, <2>7
<1> QED
  BY <1>3, <1>4 DEF ClaimIsExclusive

LEMMA ExclusiveClaim ==
    ASSUME TypeOK, ClaimIsExclusive, NEW w \in Workers, claim_due_jobs(w)
    PROVE  ClaimIsExclusive'
<1>1. PICK C \in SUBSET Due, b \in Seq(ClaimedJob) :
        /\ ClaimOf(C, b)
        /\ status' = [j \in Jobs |-> IF j \in C THEN "in_flight" ELSE status[j]]
        /\ attempts' = [j \in Jobs |-> IF j \in C THEN attempts[j] + 1 ELSE attempts[j]]
        /\ batch' = [batch EXCEPT ![w] = b]
  BY ClaimEffect
<1>2. batch'[w] = b /\ \A v \in Workers : v # w => batch'[v] = batch[v]
  BY <1>1 DEF TypeOK
<1>3. \A j \in C : j \in Jobs /\ status[j] = "pending"
  BY DEF Due
\* The jobs the worker takes.
<1>4. ASSUME NEW i \in 1..Len(b)
      PROVE  /\ b[i].id \in C
             /\ status'[b[i].id] = "in_flight"
             /\ attempts'[b[i].id] = b[i].attempts
  BY <1>1, <1>3 DEF ClaimOf
\* The jobs the others have.
<1>5. ASSUME NEW v \in Workers, v # w, NEW i \in 1..Len(batch[v])
      PROVE  /\ batch[v][i].id \notin C
             /\ status'[batch[v][i].id] = "in_flight"
             /\ attempts'[batch[v][i].id] = batch[v][i].attempts
  BY <1>1, <1>3, SlotType DEF ClaimIsExclusive
<1>6. ASSUME NEW v \in Workers, NEW i \in 1..Len(batch'[v])
      PROVE  /\ status'[batch'[v][i].id] = "in_flight"
             /\ attempts'[batch'[v][i].id] = batch'[v][i].attempts
  BY <1>2, <1>4, <1>5
<1>7. ASSUME NEW v \in Workers, NEW i \in 1..Len(batch'[v]),
             NEW u \in Workers, NEW k \in 1..Len(batch'[u]),
             batch'[u][k].id = batch'[v][i].id
      PROVE  u = v /\ k = i
  <2>1. CASE u = w /\ v = w
    BY <1>1, <1>2, <1>7, <2>1 DEF ClaimOf
  <2>2. CASE u # w /\ v # w
    BY <1>2, <1>7, <2>2 DEF ClaimIsExclusive
  <2>3. CASE u = w /\ v # w
    BY <1>2, <1>4, <1>5, <1>7, <2>3
  <2>4. CASE u # w /\ v = w
    BY <1>2, <1>4, <1>5, <1>7, <2>4
  <2> QED
    BY <2>1, <2>2, <2>3, <2>4
<1> QED
  BY <1>6, <1>7 DEF ClaimIsExclusive

LEMMA ExclusiveStep == TypeOK /\ ClaimIsExclusive /\ [Next]_vars => ClaimIsExclusive'
<1> SUFFICES ASSUME TypeOK, ClaimIsExclusive, [Next]_vars PROVE ClaimIsExclusive'
  OBVIOUS
<1>1. ASSUME NEW w \in Workers, CheckShutdown(w) PROVE ClaimIsExclusive'
  BY <1>1, ExclusiveFrame DEF CheckShutdown, rows
<1>2. ASSUME NEW w \in Workers, claim_due_jobs(w) PROVE ClaimIsExclusive'
  BY <1>2, ExclusiveClaim
<1>3. ASSUME NEW w \in Workers, NothingDue(w) PROVE ClaimIsExclusive'
  BY <1>3, ExclusiveFrame DEF NothingDue, rows
<1>4. ASSUME NEW w \in Workers, Send(w) PROVE ClaimIsExclusive'
  BY <1>4, ExclusiveFrame DEF Send, rows
<1>5. ASSUME NEW w \in Workers, NEW outcome \in {"ok", "failed"}, Answer(w, outcome)
      PROVE  ClaimIsExclusive'
  BY <1>5, ExclusiveFrame DEF Answer, rows
<1>6. ASSUME NEW w \in Workers, handle_one(w) PROVE ClaimIsExclusive'
  <2>1. PICK s \in JobStatus : status' = [status EXCEPT ![Head(batch[w]).id] = s]
    BY <1>6, HandleOneEffect, OutcomeRowsType
  <2>2. \A j \in Jobs : j # Head(batch[w]).id => status'[j] = status[j]
    BY <2>1 DEF TypeOK
  <2>3. attempts' = attempts
    BY <1>6 DEF handle_one
  <2> QED
    BY <1>6, <2>2, <2>3, HandleOneEffect, ExclusiveNextJob
<1>7. ASSUME NEW w \in Workers, DbError(w) PROVE ClaimIsExclusive'
  <2>1. CASE UNCHANGED batch
    BY <1>7, <2>1, ExclusiveFrame DEF DbError, rows
  <2>2. CASE pc[w] \in {"ok", "failed"} /\ NextJob(w)
    BY <1>7, <2>2, ExclusiveNextJob DEF DbError, rows, Busy
  <2> QED
    BY <1>7, <2>1, <2>2 DEF DbError
<1>8. ASSUME NEW j \in Jobs, post_webhook(j) PROVE ClaimIsExclusive'
  BY <1>8, ExclusiveFrame DEF TypeOK, post_webhook, insert_job, tasks
<1>9. ASSUME NEW j \in Jobs, retry_dlq(j) PROVE ClaimIsExclusive'
  BY <1>9, ExclusiveFrame DEF TypeOK, retry_dlq, requeue_dead, tasks
<1>10. CASE Shutdown
  BY <1>10, ExclusiveFrame DEF Shutdown, rows
<1>11. CASE Exit
  BY <1>11, ExclusiveFrame DEF Exit, rows
<1>12. CASE Kill
  BY <1>12, EmptySeq DEF Kill, ClaimIsExclusive
<1>13. CASE Restart
  BY <1>13, ExclusiveFrame DEF Restart, rows
<1>14. CASE Tick
  BY <1>14, ExclusiveFrame DEF Tick, rows, tasks
<1>15. CASE UNCHANGED vars
  BY <1>15, ExclusiveFrame DEF vars, rows, tasks
<1> QED
  BY <1>1, <1>2, <1>3, <1>4, <1>5, <1>6, <1>7, <1>8, <1>9, <1>10, <1>11, <1>12,
     <1>13, <1>14, <1>15 DEF Next, WorkerStep

\* A claimed job waits in one place of one worker's batch, and its row stays
\* in_flight with the attempts the worker goes by until that worker records
\* it: this is what makes the updates by id alone safe, with any number of
\* workers and through kills, restarts and lost writes.
THEOREM ClaimIsExclusiveHolds == Spec => []ClaimIsExclusive
<1>1. Init => ClaimIsExclusive
  BY EmptySeq DEF Init, ClaimIsExclusive
<1> QED
  BY <1>1, ExclusiveStep, TypeCorrect, PTL DEF Spec

(***************************************************************************)
(* attempts counts the sends                                               *)
(***************************************************************************)

\* How far the sends of a job in somebody's hands have got: the first of a
\* batch has been sent once its worker has left "batch", the rest has not.
SentBeforeRecord ==
    \A w \in Workers : \A i \in 1..Len(batch[w]) :
        LET j == batch[w][i].id
        IN  sends[j] = IF i = 1 /\ pc[w] # "batch" THEN attempts[j] ELSE attempts[j] - 1

Accounting == AttemptsCountSends /\ SentBeforeRecord

\* A step that sends nothing and records nothing.
LEMMA AccountingFrame ==
    ASSUME TypeOK, ClaimIsExclusive, Accounting, batch' = batch,
           \A w \in Workers : pc[w] \in Busy => (pc'[w] = "batch" <=> pc[w] = "batch"),
           \A j \in Jobs :
              IF status[j] = "in_flight"
              THEN status'[j] = "in_flight" /\ attempts'[j] = attempts[j] /\ sends'[j] = sends[j]
              ELSE sends'[j] = attempts'[j]
    PROVE  Accounting'
<1>1. AttemptsCountSends'
  BY DEF Accounting, AttemptsCountSends
<1>2. SentBeforeRecord'
  <2> SUFFICES ASSUME NEW w \in Workers, NEW i \in 1..Len(batch[w])
               PROVE  LET j == batch[w][i].id
                      IN  sends'[j] = IF i = 1 /\ pc'[w] # "batch"
                                      THEN attempts'[j] ELSE attempts'[j] - 1
    BY DEF SentBeforeRecord
  <2> DEFINE j == batch[w][i].id
  <2>1. j \in Jobs /\ status[j] = "in_flight"
    BY SlotType DEF ClaimIsExclusive
  <2>2. pc[w] \in Busy
    <3>1. batch[w] # <<>>
      BY EmptySeq
    <3> QED
      BY <3>1 DEF TypeOK
  <2>3. sends[j] = IF i = 1 /\ pc[w] # "batch" THEN attempts[j] ELSE attempts[j] - 1
    BY DEF Accounting, SentBeforeRecord
  <2> QED
    BY <2>1, <2>2, <2>3
<1> QED
  BY <1>1, <1>2 DEF Accounting

\* Once the first of the batch is answered, all its attempts were sent.
LEMMA AccountingNextJob ==
    ASSUME TypeOK, ClaimIsExclusive, Accounting,
           NEW w \in Workers, pc[w] \in {"ok", "failed"}, NextJob(w),
           attempts' = attempts, sends' = sends,
           \A j \in Jobs : j # Head(batch[w]).id => status'[j] = status[j]
    PROVE  Accounting'
<1>1. pc[w] \in Busy /\ pc[w] # "batch"
  BY DEF Busy
<1>2. Head(batch[w]) = batch[w][1] /\ 1 \in 1..Len(batch[w])
  BY <1>1, BatchHead
<1>3. sends[Head(batch[w]).id] = attempts[Head(batch[w]).id]
  BY <1>1, <1>2 DEF Accounting, SentBeforeRecord
<1>4. AttemptsCountSends'
  BY <1>3 DEF Accounting, AttemptsCountSends
<1>5. ASSUME NEW v \in Workers, NEW i \in 1..Len(batch'[v])
      PROVE  LET j == batch'[v][i].id
             IN  sends[j] = IF i = 1 /\ pc'[v] # "batch" THEN attempts[j] ELSE attempts[j] - 1
  <2>1. CASE v = w
    <3>1. Len(batch'[w]) = Len(batch[w]) - 1 /\ Len(batch[w]) \in Nat \ {0}
      BY <1>1, NextJobEffect, BatchHead
    <3>2. batch'[w][i] = batch[w][i + 1]
      BY <1>1, <2>1, NextJobEffect
    <3>3. i + 1 \in 1..Len(batch[w]) /\ i + 1 # 1
      BY <2>1, <3>1
    <3>4. pc'[w] = "batch"
      BY <1>1, <2>1, <3>1, <3>3, NextJobEffect
    <3>5. sends[batch[w][i + 1].id] = attempts[batch[w][i + 1].id] - 1
      BY <3>3 DEF Accounting, SentBeforeRecord
    <3> QED
      BY <2>1, <3>2, <3>4, <3>5
  <2>2. CASE v # w
    BY <1>1, <2>2, NextJobEffect DEF Accounting, SentBeforeRecord
  <2> QED
    BY <2>1, <2>2
<1> QED
  BY <1>4, <1>5 DEF Accounting, SentBeforeRecord

LEMMA AccountingSend ==
    ASSUME TypeOK, ClaimIsExclusive, Accounting, NEW w \in Workers, Send(w)
    PROVE  Accounting'
<1> DEFINE h == Head(batch[w]).id
<1>1. pc[w] = "batch" /\ pc' = [pc EXCEPT ![w] = "sending"]
  BY DEF Send
<1>2. h = batch[w][1].id /\ 1 \in 1..Len(batch[w]) /\ h \in Jobs
  BY <1>1, BatchHead DEF Busy
<1>3. status[h] = "in_flight" /\ sends[h] = attempts[h] - 1
  BY <1>1, <1>2 DEF ClaimIsExclusive, Accounting, SentBeforeRecord
<1>4. /\ sends'[h] = sends[h] + 1
      /\ \A j \in Jobs : j # h => sends'[j] = sends[j]
      /\ attempts' = attempts /\ status' = status /\ batch' = batch
  BY <1>2 DEF Send, TypeOK, rows
<1>5. sends'[h] = attempts[h]
  BY <1>2, <1>3, <1>4 DEF TypeOK
<1>6. \A v \in Workers : \A i \in 1..Len(batch[v]) :
         batch[v][i].id = h => v = w /\ i = 1
  BY <1>2 DEF ClaimIsExclusive
<1> HIDE DEF h
<1>7. AttemptsCountSends'
  BY <1>4, <1>5 DEF Accounting, AttemptsCountSends
<1>8. ASSUME NEW v \in Workers, NEW i \in 1..Len(batch[v])
      PROVE  LET j == batch[v][i].id
             IN  sends'[j] = IF i = 1 /\ pc'[v] # "batch" THEN attempts[j] ELSE attempts[j] - 1
  <2> DEFINE j == batch[v][i].id
  <2>1. j \in Jobs
    BY SlotType
  <2>2. CASE v = w /\ i = 1
    BY <1>1, <1>2, <1>5, <2>2 DEF TypeOK
  <2>3. CASE ~(v = w /\ i = 1)
    <3>1. sends'[j] = sends[j]
      BY <1>4, <1>6, <2>1, <2>3
    <3>2. i = 1 => pc'[v] = pc[v]
      BY <1>1, <2>3 DEF TypeOK
    <3>3. sends[j] = IF i = 1 /\ pc[v] # "batch" THEN attempts[j] ELSE attempts[j] - 1
      BY DEF Accounting, SentBeforeRecord
    <3> QED
      BY <3>1, <3>2, <3>3
  <2> QED
    BY <2>2, <2>3
<1> QED
  BY <1>4, <1>7, <1>8 DEF Accounting, SentBeforeRecord

LEMMA AccountingClaim ==
    ASSUME TypeOK, ClaimIsExclusive, Accounting, NEW w \in Workers, claim_due_jobs(w)
    PROVE  Accounting'
<1>1. PICK C \in SUBSET Due, b \in Seq(ClaimedJob) :
        /\ ClaimOf(C, b)
        /\ status' = [j \in Jobs |-> IF j \in C THEN "in_flight" ELSE status[j]]
        /\ attempts' = [j \in Jobs |-> IF j \in C THEN attempts[j] + 1 ELSE attempts[j]]
        /\ batch' = [batch EXCEPT ![w] = b]
  BY ClaimEffect
<1>2. sends' = sends /\ pc' = [pc EXCEPT ![w] = "batch"]
  BY DEF claim_due_jobs, history
<1>3. \A j \in C : j \in Jobs /\ status[j] = "pending" /\ sends[j] = attempts[j]
  BY DEF Due, Accounting, AttemptsCountSends
<1>4. \A j \in C : /\ status'[j] = "in_flight"
                   /\ sends'[j] = attempts'[j] - 1
  BY <1>1, <1>2, <1>3 DEF TypeOK
<1>5. \A j \in Jobs \ C : /\ status'[j] = status[j] /\ attempts'[j] = attempts[j]
                          /\ sends'[j] = sends[j]
  BY <1>1, <1>2
<1>6. AttemptsCountSends'
  BY <1>4, <1>5 DEF Accounting, AttemptsCountSends
<1>7. ASSUME NEW v \in Workers, NEW i \in 1..Len(batch'[v])
      PROVE  LET j == batch'[v][i].id
             IN  sends'[j] = IF i = 1 /\ pc'[v] # "batch" THEN attempts'[j] ELSE attempts'[j] - 1
  <2>1. CASE v = w
    <3>1. batch'[v] = b /\ pc'[v] = "batch"
      BY <1>1, <1>2, <2>1 DEF TypeOK
    <3>2. b[i].id \in C
      BY <1>1, <3>1 DEF ClaimOf
    <3> QED
      BY <1>4, <3>1, <3>2
  <2>2. CASE v # w
    <3>1. batch'[v] = batch[v] /\ pc'[v] = pc[v]
      BY <1>1, <1>2, <2>2 DEF TypeOK
    <3>2. status[batch[v][i].id] = "in_flight" /\ batch[v][i].id \in Jobs
      BY <3>1, SlotType DEF ClaimIsExclusive
    <3>3. batch[v][i].id \notin C
      BY <1>3, <3>2
    <3> QED
      BY <1>5, <3>1, <3>2, <3>3 DEF Accounting, SentBeforeRecord
  <2> QED
    BY <2>1, <2>2
<1> QED
  BY <1>6, <1>7 DEF Accounting, SentBeforeRecord

LEMMA AccountingStep ==
    TypeOK /\ ClaimIsExclusive /\ Accounting /\ [Next]_vars => Accounting'
<1> SUFFICES ASSUME TypeOK, ClaimIsExclusive, Accounting, [Next]_vars PROVE Accounting'
  OBVIOUS
\* A row nobody has in flight was sent as often as it was attempted.
<1>0. \A j \in Jobs : status[j] # "in_flight" => sends[j] = attempts[j]
  BY DEF Accounting, AttemptsCountSends
<1>1. ASSUME NEW w \in Workers, CheckShutdown(w) PROVE Accounting'
  BY <1>0, <1>1, AccountingFrame DEF CheckShutdown, rows, history, Busy, TypeOK
<1>2. ASSUME NEW w \in Workers, claim_due_jobs(w) PROVE Accounting'
  BY <1>2, AccountingClaim
<1>3. ASSUME NEW w \in Workers, NothingDue(w) PROVE Accounting'
  BY <1>0, <1>3, AccountingFrame DEF NothingDue, rows, history, Busy, TypeOK
<1>4. ASSUME NEW w \in Workers, Send(w) PROVE Accounting'
  BY <1>4, AccountingSend
<1>5. ASSUME NEW w \in Workers, NEW outcome \in {"ok", "failed"}, Answer(w, outcome)
      PROVE  Accounting'
  BY <1>0, <1>5, AccountingFrame DEF Answer, rows, Busy, TypeOK
<1>6. ASSUME NEW w \in Workers, handle_one(w) PROVE Accounting'
  <2>1. PICK s \in JobStatus : status' = [status EXCEPT ![Head(batch[w]).id] = s]
    BY <1>6, HandleOneEffect, OutcomeRowsType
  <2>2. \A j \in Jobs : j # Head(batch[w]).id => status'[j] = status[j]
    BY <2>1 DEF TypeOK
  <2>3. attempts' = attempts /\ sends' = sends /\ pc[w] \in {"ok", "failed"} /\ NextJob(w)
    BY <1>6 DEF handle_one, history
  <2> QED
    BY <2>2, <2>3, AccountingNextJob
<1>7. ASSUME NEW w \in Workers, DbError(w) PROVE Accounting'
  <2>1. CASE pc[w] = "claiming" /\ pc' = [pc EXCEPT ![w] = "loop"] /\ batch' = batch
    BY <1>0, <1>7, <2>1, AccountingFrame DEF DbError, rows, Busy, TypeOK
  <2>2. CASE pc[w] \in {"ok", "failed"} /\ NextJob(w)
    BY <1>7, <2>2, AccountingNextJob DEF DbError, rows
  <2> QED
    BY <1>7, <2>1, <2>2 DEF DbError
<1>8. ASSUME NEW j \in Jobs, post_webhook(j) PROVE Accounting'
  BY <1>0, <1>8, AccountingFrame DEF TypeOK, post_webhook, insert_job, tasks, history
<1>9. ASSUME NEW j \in Jobs, retry_dlq(j) PROVE Accounting'
  BY <1>0, <1>9, AccountingFrame DEF TypeOK, retry_dlq, requeue_dead, tasks
<1>10. CASE Shutdown
  BY <1>0, <1>10, AccountingFrame DEF Shutdown, rows, history
<1>11. CASE Exit
  BY <1>0, <1>11, AccountingFrame DEF Exit, rows, history
<1>12. CASE Kill
  BY <1>12, EmptySeq DEF Kill, rows, Accounting, AttemptsCountSends, SentBeforeRecord
<1>13. CASE Restart
  <2>1. \A w \in Workers : pc[w] \notin Busy
    BY <1>13 DEF Restart, TypeOK, Busy
  <2> QED
    BY <1>0, <1>13, <2>1, AccountingFrame DEF Restart, rows, history
<1>14. CASE Tick
  BY <1>0, <1>14, AccountingFrame DEF Tick, rows, tasks, history
<1>15. CASE UNCHANGED vars
  BY <1>0, <1>15, AccountingFrame DEF vars, rows, tasks, history
<1> QED
  BY <1>1, <1>2, <1>3, <1>4, <1>5, <1>6, <1>7, <1>8, <1>9, <1>10, <1>11, <1>12,
     <1>13, <1>14, <1>15 DEF Next, WorkerStep

LEMMA AccountingHolds == Spec => []Accounting
<1>1. Init => Accounting
  BY EmptySeq DEF Init, Accounting, AttemptsCountSends, SentBeforeRecord
<1> QED
  BY <1>1, AccountingStep, TypeCorrect, ClaimIsExclusiveHolds, PTL DEF Spec

\* Although an attempt is counted before it is made, and the record of it may
\* be lost, `attempts` is the number of POSTs of this life of the job, except
\* while it is in_flight, where the last may be missing.
THEOREM AttemptsCountSendsHolds == Spec => []AttemptsCountSends
<1>1. Accounting => AttemptsCountSends
  BY DEF Accounting
<1> QED
  BY <1>1, AccountingHolds, PTL

(***************************************************************************)
(* A dead job had all its attempts                                         *)
(***************************************************************************)

\* MAX_ATTEMPTS as it works out: the first attempt is always made.
Allowed == MaxOf(1, MaxAttempts)

\* What the attempts of a row may be, by its status.
Budget ==
    \A j \in Jobs :
        /\ status[j] = "pending" => attempts[j] < Allowed
        /\ status[j] = "in_flight" => attempts[j] <= Allowed
        /\ status[j] = "dead" => attempts[j] = Allowed
        /\ status[j] = "absent" => attempts[j] = 0

LEMMA AllowedType == Allowed \in Nat \ {0}
BY ConfigAssumption DEF Config, Allowed, MaxOf

LEMMA BudgetStep == TypeOK /\ ClaimIsExclusive /\ Budget /\ [Next]_vars => Budget'
<1> SUFFICES ASSUME TypeOK, ClaimIsExclusive, Budget, [Next]_vars PROVE Budget'
  OBVIOUS
<1>0. UNCHANGED <<status, attempts>> => Budget'
  BY DEF Budget
<1>1. ASSUME NEW w \in Workers, claim_due_jobs(w) PROVE Budget'
  <2>1. PICK C \in SUBSET Due :
          /\ status' = [j \in Jobs |-> IF j \in C THEN "in_flight" ELSE status[j]]
          /\ attempts' = [j \in Jobs |-> IF j \in C THEN attempts[j] + 1 ELSE attempts[j]]
    BY <1>1, ClaimEffect
  <2> QED
    BY <2>1, AllowedType DEF Budget, Due, TypeOK
<1>2. ASSUME NEW w \in Workers, handle_one(w) PROVE Budget'
  <2> DEFINE job == Head(batch[w])
  <2>1. pc[w] \in Busy /\ job.id \in Jobs /\ attempts' = attempts
    BY <1>2, HandleOneEffect DEF handle_one
  <2>2. job = batch[w][1] /\ 1 \in 1..Len(batch[w])
    BY <2>1, BatchHead
  <2>3. attempts[job.id] = job.attempts /\ status[job.id] = "in_flight"
    BY <2>2 DEF ClaimIsExclusive
  <2>4. job.attempts \in Nat \ {0} /\ job.attempts <= Allowed
    BY <2>1, <2>3, BatchHead DEF ClaimedJob, Budget
  <2> HIDE DEF job
  <2>5. CASE mark_delivered(job.id)
    BY <2>1, <2>5 DEF mark_delivered, Budget, TypeOK
  <2>6. CASE Exhausted(job) /\ mark_dead(job.id)
    <3>1. attempts[job.id] = Allowed
      BY <2>3, <2>4, <2>6, ConfigAssumption DEF Config, Exhausted, Allowed, MaxOf
    <3> QED
      BY <2>1, <2>6, <3>1 DEF mark_dead, Budget, TypeOK
  <2>7. CASE ~Exhausted(job) /\ \E at \in Nat : reschedule_job(job.id, at)
    <3>1. attempts[job.id] < Allowed
      BY <2>3, <2>4, <2>7, ConfigAssumption DEF Config, Exhausted, Allowed, MaxOf
    <3>2. status' = [status EXCEPT ![job.id] = "pending"]
      BY <2>7 DEF reschedule_job
    <3> QED
      BY <2>1, <3>1, <3>2 DEF Budget, TypeOK
  <2>8. \A delay \in Backoff(job.attempts) : now + delay \in Nat
    BY BackoffType DEF TypeOK
  <2> QED
    BY <1>2, <2>5, <2>6, <2>7, <2>8 DEF handle_one, job
<1>3. ASSUME NEW j \in Jobs, post_webhook(j) PROVE Budget'
  BY <1>3, AllowedType DEF Budget, post_webhook, insert_job, TypeOK
<1>4. ASSUME NEW j \in Jobs, retry_dlq(j) PROVE Budget'
  BY <1>4, AllowedType DEF Budget, retry_dlq, requeue_dead, TypeOK
<1>5. ASSUME NEW w \in Workers,
             \/ CheckShutdown(w) \/ NothingDue(w) \/ Send(w) \/ DbError(w)
             \/ \E outcome \in {"ok", "failed"} : Answer(w, outcome)
      PROVE  Budget'
  BY <1>0, <1>5 DEF CheckShutdown, NothingDue, Send, DbError, Answer, rows
<1>6. CASE Shutdown \/ Exit \/ Kill \/ Restart \/ Tick \/ UNCHANGED vars
  BY <1>0, <1>6 DEF Shutdown, Exit, Kill, Restart, Tick, vars, rows
<1> QED
  BY <1>1, <1>2, <1>3, <1>4, <1>5, <1>6 DEF Next, WorkerStep

\* Through kills, lost writes and requeues a job is dead only after exactly
\* MAX_ATTEMPTS POSTs of its present life, or one if MAX_ATTEMPTS is not
\* positive.
THEOREM DeadAfterMaxAttemptsHolds == Spec => []DeadAfterMaxAttempts
<1>1. Init => Budget
  BY AllowedType DEF Init, Budget
<1>2. AttemptsCountSends /\ Budget => DeadAfterMaxAttempts
  BY DEF AttemptsCountSends, Budget, DeadAfterMaxAttempts, Allowed
<1> QED
  BY <1>1, <1>2, BudgetStep, AttemptsCountSendsHolds, ClaimIsExclusiveHolds,
     TypeCorrect, PTL DEF Spec

(***************************************************************************)
(* The queue implements AtLeastOnce                                        *)
(***************************************************************************)

\* What is recorded as delivered has been acknowledged, and so is what is
\* about to be recorded.
Acknowledged ==
    /\ \A j \in Jobs : status[j] = "delivered" => acked[j]
    /\ \A w \in Workers : pc[w] = "ok" => acked[Head(batch[w]).id]

LEMMA AcknowledgedStep == TypeOK /\ Acknowledged /\ [Next]_vars => Acknowledged'
<1> SUFFICES ASSUME TypeOK, Acknowledged, [Next]_vars PROVE Acknowledged'
  OBVIOUS
<1> USE DEF Acknowledged
\* A worker that moves on to its next job is not at an answer.
<1>0. ASSUME NEW w \in Workers, pc[w] \in {"ok", "failed"}, NextJob(w), acked' = acked
      PROVE  \A v \in Workers : pc'[v] = "ok" => acked'[Head(batch'[v]).id]
  <2>1. \A v \in Workers : v # w => pc'[v] = pc[v] /\ batch'[v] = batch[v]
    BY <1>0, NextJobEffect DEF Busy
  <2>2. pc'[w] # "ok"
    BY <1>0 DEF NextJob, TypeOK
  <2> QED
    BY <1>0, <2>1, <2>2
<1>1. ASSUME NEW w \in Workers, CheckShutdown(w) PROVE Acknowledged'
  BY <1>1 DEF CheckShutdown, rows, history, TypeOK
<1>2. ASSUME NEW w \in Workers, claim_due_jobs(w) PROVE Acknowledged'
  <2>1. PICK C \in SUBSET Due, b \in Seq(ClaimedJob) :
          /\ ClaimOf(C, b)
          /\ status' = [j \in Jobs |-> IF j \in C THEN "in_flight" ELSE status[j]]
          /\ attempts' = [j \in Jobs |-> IF j \in C THEN attempts[j] + 1 ELSE attempts[j]]
          /\ batch' = [batch EXCEPT ![w] = b]
    BY <1>2, ClaimEffect
  <2>2. acked' = acked /\ pc' = [pc EXCEPT ![w] = "batch"]
    BY <1>2 DEF claim_due_jobs, history
  <2> QED
    BY <2>1, <2>2 DEF TypeOK
<1>3. ASSUME NEW w \in Workers, NothingDue(w) PROVE Acknowledged'
  BY <1>3 DEF NothingDue, rows, history, TypeOK
<1>4. ASSUME NEW w \in Workers, Send(w) PROVE Acknowledged'
  BY <1>4 DEF Send, rows, TypeOK
<1>5. ASSUME NEW w \in Workers, NEW outcome \in {"ok", "failed"}, Answer(w, outcome)
      PROVE  Acknowledged'
  <2> DEFINE h == Head(batch[w]).id
  <2>1. /\ acked' = [acked EXCEPT ![h] = acked[h] \/ outcome = "ok"]
        /\ pc' = [pc EXCEPT ![w] = outcome]
        /\ status' = status /\ batch' = batch
    BY <1>5 DEF Answer, rows
  <2>2. h \in Jobs
    BY <1>5, BatchHead DEF Answer, Busy
  <2>3. \A j \in Jobs : acked[j] => acked'[j]
    BY <2>1, <2>2 DEF TypeOK
  <2>4. \A v \in Workers : pc[v] = "ok" => Head(batch[v]).id \in Jobs
    BY BatchHead DEF Busy
  <2>5. outcome = "ok" => acked'[h]
    BY <2>1, <2>2 DEF TypeOK
  <2>6. ASSUME NEW v \in Workers, pc'[v] = "ok" PROVE acked'[Head(batch[v]).id]
    <3>1. CASE v = w
      BY <2>1, <2>5, <2>6, <3>1 DEF TypeOK
    <3>2. CASE v # w
      BY <2>1, <2>3, <2>4, <2>6, <3>2 DEF TypeOK
    <3> QED
      BY <3>1, <3>2
  <2> QED
    BY <2>1, <2>3, <2>6
<1>6. ASSUME NEW w \in Workers, handle_one(w) PROVE Acknowledged'
  <2> DEFINE h == Head(batch[w]).id
  <2>1. acked' = acked /\ pc[w] \in {"ok", "failed"} /\ NextJob(w)
    BY <1>6 DEF handle_one, history
  <2>2. \/ pc[w] = "ok" /\ status' = [status EXCEPT ![h] = "delivered"]
        \/ status' = [status EXCEPT ![h] = "dead"]
        \/ status' = [status EXCEPT ![h] = "pending"]
    BY <1>6 DEF handle_one, mark_delivered, mark_dead, reschedule_job
  <2>3. pc[w] = "ok" => acked[h]
    OBVIOUS
  <2> HIDE DEF h
  <2>4. \A j \in Jobs : status'[j] = "delivered" => acked[j]
    BY <2>2, <2>3 DEF TypeOK
  <2> QED
    BY <1>0, <2>1, <2>4
<1>7. ASSUME NEW w \in Workers, DbError(w) PROVE Acknowledged'
  <2>1. CASE pc[w] = "claiming" /\ pc' = [pc EXCEPT ![w] = "loop"] /\ batch' = batch
    BY <1>7, <2>1 DEF DbError, rows, TypeOK
  <2>2. CASE pc[w] \in {"ok", "failed"} /\ NextJob(w)
    BY <1>0, <1>7, <2>2 DEF DbError, rows
  <2> QED
    BY <1>7, <2>1, <2>2 DEF DbError
<1>8. ASSUME NEW j \in Jobs, post_webhook(j) PROVE Acknowledged'
  BY <1>8 DEF post_webhook, insert_job, tasks, history, TypeOK
<1>9. ASSUME NEW j \in Jobs, retry_dlq(j) PROVE Acknowledged'
  BY <1>9 DEF retry_dlq, requeue_dead, tasks, TypeOK
<1>10. CASE Shutdown \/ Exit
  BY <1>10 DEF Shutdown, Exit, rows, history
<1>11. CASE Kill
  BY <1>11 DEF Kill, rows
<1>12. CASE Restart
  BY <1>12 DEF Restart, rows, history
<1>13. CASE Tick \/ UNCHANGED vars
  BY <1>13 DEF Tick, vars, rows, tasks, history
<1> QED
  BY <1>1, <1>2, <1>3, <1>4, <1>5, <1>6, <1>7, <1>8, <1>9, <1>10, <1>11, <1>12,
     <1>13 DEF Next, WorkerStep

phase == [j \in Jobs |-> Phase(status[j])]

\* Writing the status of one row moves the phase of that job only.
LEMMA PhaseOfOneRow ==
    ASSUME TypeOK, NEW j \in Jobs, NEW s, status' = [status EXCEPT ![j] = s]
    PROVE  phase' = [phase EXCEPT ![j] = Phase(s)]
BY DEF TypeOK, phase

LEMMA AbstractStep ==
    ASSUME TypeOK, ClaimIsExclusive, Acknowledged, [Next]_vars
    PROVE  [Abstract!Next]_(Abstract!avars)
<1> USE DEF phase, Abstract!avars
<1> DEFINE Stutter == phase' = phase /\ acked' = acked
<1>a. Stutter => [Abstract!Next]_(Abstract!avars)
  OBVIOUS
\* The job in a worker's hands is queued.
<1>0. ASSUME NEW w \in Workers, pc[w] \in Busy
      PROVE  /\ Head(batch[w]).id \in Jobs
             /\ phase[Head(batch[w]).id] = "queued"
  <2>1. Head(batch[w]) = batch[w][1] /\ 1 \in 1..Len(batch[w]) /\ Head(batch[w]).id \in Jobs
    BY <1>0, BatchHead
  <2>2. status[Head(batch[w]).id] = "in_flight"
    BY <2>1 DEF ClaimIsExclusive
  <2> QED
    BY <2>1, <2>2 DEF Phase
<1>1. ASSUME NEW w \in Workers, claim_due_jobs(w) PROVE Stutter
  <2>1. PICK C \in SUBSET Due :
          status' = [j \in Jobs |-> IF j \in C THEN "in_flight" ELSE status[j]]
    BY <1>1, ClaimEffect
  <2>2. \A j \in Jobs : Phase(status'[j]) = Phase(status[j])
    BY <2>1 DEF Due, Phase
  <2> QED
    BY <1>1, <2>2 DEF claim_due_jobs, history
<1>2. ASSUME NEW w \in Workers, NEW outcome \in {"ok", "failed"}, Answer(w, outcome)
      PROVE  Stutter \/ Abstract!Next
  <2> DEFINE h == Head(batch[w]).id
  <2>1. h \in Jobs /\ phase[h] = "queued" /\ phase' = phase
    BY <1>0, <1>2 DEF Answer, Busy, rows
  <2>2. acked' = [acked EXCEPT ![h] = acked[h] \/ outcome = "ok"]
    BY <1>2 DEF Answer
  <2> HIDE DEF h
  <2>3. CASE outcome = "ok"
    <3>1. acked' = [acked EXCEPT ![h] = TRUE]
      BY <2>1, <2>2, <2>3, Zenon
    <3>2. Abstract!Acknowledge(h)
      BY <2>1, <3>1 DEF Abstract!Acknowledge
    <3> QED
      BY <2>1, <3>2 DEF Abstract!Next
  <2>4. CASE outcome # "ok"
    <3>1. acked' = acked
      BY <2>1, <2>2, <2>4 DEF TypeOK
    <3> QED
      BY <2>1, <3>1
  <2> QED
    BY <2>3, <2>4
<1>3. ASSUME NEW w \in Workers, handle_one(w) PROVE Stutter \/ Abstract!Next
  <2> DEFINE h == Head(batch[w]).id
  <2>1. h \in Jobs /\ phase[h] = "queued" /\ acked' = acked
    BY <1>0, <1>3, HandleOneEffect DEF handle_one, history
  <2>2. pc[w] = "ok" => acked[h]
    BY DEF Acknowledged
  <2>3. \/ pc[w] = "ok" /\ status' = [status EXCEPT ![h] = "delivered"]
        \/ status' = [status EXCEPT ![h] = "dead"]
        \/ status' = [status EXCEPT ![h] = "pending"]
    BY <1>3 DEF handle_one, mark_delivered, mark_dead, reschedule_job
  <2> HIDE DEF h
  <2>4. CASE pc[w] = "ok" /\ status' = [status EXCEPT ![h] = "delivered"]
    <3>1. phase' = [phase EXCEPT ![h] = "delivered"]
      BY <2>1, <2>4, PhaseOfOneRow DEF Phase
    <3>2. Abstract!Deliver(h)
      BY <2>1, <2>2, <2>4, <3>1 DEF Abstract!Deliver, Abstract!Move
    <3> QED
      BY <2>1, <3>2 DEF Abstract!Next
  <2>5. CASE status' = [status EXCEPT ![h] = "dead"]
    <3>1. phase' = [phase EXCEPT ![h] = "parked"]
      BY <2>1, <2>5, PhaseOfOneRow DEF Phase
    <3>2. Abstract!Park(h)
      BY <2>1, <3>1 DEF Abstract!Park, Abstract!Move
    <3> QED
      BY <2>1, <3>2 DEF Abstract!Next
  <2>6. CASE status' = [status EXCEPT ![h] = "pending"]
    <3>1. phase' = [phase EXCEPT ![h] = "queued"]
      BY <2>1, <2>6, PhaseOfOneRow DEF Phase
    <3>2. phase' = phase
      BY <2>1, <3>1
    <3> QED
      BY <2>1, <3>2
  <2> QED
    BY <2>3, <2>4, <2>5, <2>6
<1>4. ASSUME NEW j \in Jobs, post_webhook(j) PROVE Abstract!Next
  <2>1. phase[j] = "absent" /\ phase' = [phase EXCEPT ![j] = "queued"]
    BY <1>4, PhaseOfOneRow DEF post_webhook, insert_job, Phase
  <2>2. Abstract!Accept(j)
    BY <1>4, <2>1 DEF post_webhook, history, Abstract!Accept, Abstract!Move
  <2> QED
    BY <2>2 DEF Abstract!Next
<1>5. ASSUME NEW j \in Jobs, retry_dlq(j) PROVE Abstract!Next
  <2>1. phase[j] = "parked" /\ phase' = [phase EXCEPT ![j] = "queued"]
    BY <1>5, PhaseOfOneRow DEF retry_dlq, requeue_dead, Phase
  <2>2. Abstract!Requeue(j)
    BY <1>5, <2>1 DEF retry_dlq, Abstract!Requeue, Abstract!Move
  <2> QED
    BY <2>2 DEF Abstract!Next
<1>6. ASSUME NEW w \in Workers, CheckShutdown(w) \/ NothingDue(w) \/ Send(w) \/ DbError(w)
      PROVE  Stutter
  BY <1>6 DEF CheckShutdown, NothingDue, Send, DbError, rows, history
<1>7. CASE Shutdown \/ Exit \/ Kill \/ Restart \/ Tick \/ UNCHANGED vars
  BY <1>7 DEF Shutdown, Exit, Kill, Restart, Tick, vars, rows, history
<1> HIDE DEF phase
<1> QED
  BY <1>a, <1>1, <1>2, <1>3, <1>4, <1>5, <1>6, <1>7 DEF Next, WorkerStep

\* Without any condition on the configuration service k keeps its promise: an
\* accepted job stays queued until it is delivered, after a 2xx, or parked,
\* and a parked one moves only by an operator's retry.
THEOREM Refinement == Spec => ImplementsAtLeastOnce
<1>1. Init => Abstract!Init
  BY DEF Init, Abstract!Init, Phase
<1>2. TypeOK /\ ClaimIsExclusive /\ Acknowledged /\ [Next]_vars
         => [Abstract!Next]_(Abstract!avars)
  BY AbstractStep
<1>3. Init => Acknowledged
  BY DEF Init, Acknowledged
<1>4. Spec => []Acknowledged
  BY <1>3, AcknowledgedStep, TypeCorrect, PTL DEF Spec
<1> QED
  BY <1>1, <1>2, <1>4, TypeCorrect, ClaimIsExclusiveHolds, PTL
     DEF Spec, ImplementsAtLeastOnce, Abstract!Spec

(***************************************************************************)
(* Stranded jobs                                                           *)
(***************************************************************************)

InHand(j) == \E w \in Workers : \E i \in 1..Len(batch[w]) : batch[w][i].id = j

\* The row says in_flight, and no worker has the job.
Stranded(j) == status[j] = "in_flight" /\ ~InHand(j)

\* A step that takes no job out of a batch.
LEMMA StillInHand ==
    ASSUME NEW j, InHand(j), batch' = batch
    PROVE  InHand(j)'
BY DEF InHand

\* A worker done with the first of its batch lets go of that job alone, and
\* takes no other.
LEMMA InHandNextJob ==
    ASSUME TypeOK, NEW w \in Workers, pc[w] \in Busy, NextJob(w), NEW j \in Jobs
    PROVE  /\ InHand(j)' => InHand(j)
           /\ InHand(j) /\ j # Head(batch[w]).id => InHand(j)'
<1> DEFINE h == Head(batch[w]).id
<1>1. /\ Len(batch[w]) \in Nat \ {0} /\ Len(batch'[w]) = Len(batch[w]) - 1
      /\ \A i \in 1..Len(batch'[w]) : batch'[w][i] = batch[w][i + 1]
      /\ \A v \in Workers : v # w => batch'[v] = batch[v]
      /\ h = batch[w][1].id
  BY BatchHead, NextJobEffect
<1> HIDE DEF h
<1>2. ASSUME NEW v \in Workers, NEW i \in 1..Len(batch'[v]), batch'[v][i].id = j
      PROVE  InHand(j)
  <2>1. CASE v = w
    <3>1. i + 1 \in 1..Len(batch[w]) /\ batch[w][i + 1].id = j
      BY <1>1, <1>2, <2>1
    <3> QED
      BY <3>1 DEF InHand
  <2>2. CASE v # w
    BY <1>1, <1>2, <2>2 DEF InHand
  <2> QED
    BY <2>1, <2>2
<1>3. ASSUME NEW v \in Workers, NEW i \in 1..Len(batch[v]), batch[v][i].id = j, j # h
      PROVE  \E k \in 1..Len(batch'[v]) : batch'[v][k].id = j
  <2>1. CASE v = w
    <3>1. i # 1
      BY <1>1, <1>3, <2>1
    <3>2. i - 1 \in 1..Len(batch'[w])
      BY <1>1, <2>1, <3>1
    <3>3. batch'[w][i - 1] = batch[w][i]
      <4>1. batch'[w][i - 1] = batch[w][(i - 1) + 1]
        BY <1>1, <3>2
      <4>2. (i - 1) + 1 = i
        OBVIOUS
      <4> QED
        BY <4>1, <4>2
    <3> QED
      BY <1>3, <2>1, <3>2, <3>3
  <2>2. CASE v # w
    BY <1>1, <1>3, <2>2
  <2> QED
    BY <2>1, <2>2
<1> QED
  BY <1>2, <1>3 DEF InHand, h

\* What recording a job does to the others.
LEMMA RecordedJob ==
    ASSUME TypeOK, NEW w \in Workers, handle_one(w)
    PROVE  /\ pc[w] \in Busy /\ NextJob(w)
           /\ status'[Head(batch[w]).id] # "in_flight"
           /\ \A j \in Jobs : j # Head(batch[w]).id => status'[j] = status[j]
<1> DEFINE h == Head(batch[w]).id
<1>1. /\ h \in Jobs /\ pc[w] \in Busy /\ NextJob(w)
      /\ mark_delivered(h) \/ mark_dead(h) \/ \E at \in Nat : reschedule_job(h, at)
  BY HandleOneEffect
<1> HIDE DEF h
<1>2. \E s \in {"delivered", "dead", "pending"} : status' = [status EXCEPT ![h] = s]
  BY <1>1 DEF mark_delivered, mark_dead, reschedule_job
<1>3. status'[h] # "in_flight" /\ \A j \in Jobs : j # h => status'[j] = status[j]
  BY <1>1, <1>2 DEF TypeOK
<1> QED
  BY <1>1, <1>3 DEF h

LEMMA StrandedStep ==
    ASSUME TypeOK, ClaimIsExclusive, [Next]_vars, NEW j \in Jobs, Stranded(j)
    PROVE  Stranded(j)'
<1> USE DEF Stranded
<1>0. ASSUME status'[j] = status[j], batch' = batch PROVE Stranded(j)'
  BY <1>0 DEF InHand
<1>1. ASSUME NEW w \in Workers, claim_due_jobs(w) PROVE Stranded(j)'
  <2>1. PICK C \in SUBSET Due, b \in Seq(ClaimedJob) :
          /\ ClaimOf(C, b)
          /\ status' = [i \in Jobs |-> IF i \in C THEN "in_flight" ELSE status[i]]
          /\ batch' = [batch EXCEPT ![w] = b]
    BY <1>1, ClaimEffect
  <2>2. j \notin C
    BY DEF Due
  <2>3. \A i \in 1..Len(b) : b[i].id # j
    BY <2>1, <2>2 DEF ClaimOf
  <2>4. batch'[w] = b /\ \A v \in Workers : v # w => batch'[v] = batch[v]
    BY <2>1 DEF TypeOK
  <2> QED
    BY <2>1, <2>2, <2>3, <2>4 DEF InHand
<1>2. ASSUME NEW w \in Workers, handle_one(w) PROVE Stranded(j)'
  <2>1. Head(batch[w]) = batch[w][1] /\ 1 \in 1..Len(batch[w])
    BY <1>2, RecordedJob, BatchHead
  <2>2. j # Head(batch[w]).id
    BY <2>1 DEF InHand
  <2> QED
    BY <1>2, <2>2, RecordedJob, InHandNextJob
<1>3. ASSUME NEW w \in Workers, DbError(w) PROVE Stranded(j)'
  <2>1. status' = status
    BY <1>3 DEF DbError, rows
  <2>2. CASE UNCHANGED batch
    BY <1>0, <2>1, <2>2
  <2>3. CASE pc[w] \in {"ok", "failed"} /\ NextJob(w)
    BY <2>1, <2>3, InHandNextJob DEF Busy
  <2> QED
    BY <1>3, <2>2, <2>3 DEF DbError
<1>4. ASSUME NEW i \in Jobs, post_webhook(i) \/ retry_dlq(i) PROVE Stranded(j)'
  <2>1. i # j /\ status' = [status EXCEPT ![i] = "pending"] /\ batch' = batch
    BY <1>4 DEF post_webhook, retry_dlq, insert_job, requeue_dead, tasks
  <2>2. status'[j] = status[j]
    BY <2>1 DEF TypeOK
  <2> QED
    BY <1>0, <2>1, <2>2
<1>5. CASE Kill
  BY <1>5, EmptySeq DEF Kill, rows, InHand
<1>6. ASSUME \/ \E w \in Workers : \/ CheckShutdown(w) \/ NothingDue(w) \/ Send(w)
                                    \/ \E outcome \in {"ok", "failed"} : Answer(w, outcome)
             \/ Shutdown \/ Exit \/ Restart \/ Tick \/ UNCHANGED vars
      PROVE  Stranded(j)'
  <2>1. status' = status /\ batch' = batch
    BY <1>6 DEF CheckShutdown, NothingDue, Send, Answer, Shutdown, Exit, Restart, Tick, vars,
       rows, tasks
  <2> QED
    BY <1>0, <2>1
<1> QED
  BY <1>1, <1>2, <1>3, <1>4, <1>5, <1>6 DEF Next, WorkerStep

\* What becomes of the job of a process that died between the claim and the
\* record, or of a record that failed: nothing, ever.  No action of the workers,
\* of the API or of a restart touches the row again, for any configuration.
THEOREM StrandedForGood ==
    ASSUME NEW j \in Jobs
    PROVE  Spec => [](Stranded(j) => []Stranded(j))
<1>1. TypeOK /\ ClaimIsExclusive /\ [Next]_vars /\ Stranded(j) => Stranded(j)'
  BY StrandedStep
<1> QED
  BY <1>1, TypeCorrect, ClaimIsExclusiveHolds, PTL DEF Spec

\* Until the process is killed or a record fails, a row in flight is in hand.
Attended == kills = 0 /\ dberrors = 0 => \A j \in Jobs : ~Stranded(j)

LEMMA AttendedStep ==
    ASSUME TypeOK, Attended, [Next]_vars
    PROVE  Attended'
<1> USE DEF Attended, Stranded
<1>0. ASSUME UNCHANGED <<kills, dberrors, batch>>,
             \A j \in Jobs : status'[j] = "in_flight" => status[j] = "in_flight"
      PROVE  Attended'
  BY <1>0, StillInHand
<1>1. ASSUME NEW w \in Workers, claim_due_jobs(w) PROVE Attended'
  <2>1. PICK s \in OldestDue(Due, next_attempt_at, ClaimLimit) :
          /\ status' = [j \in Jobs |-> IF j \in {s[i] : i \in DOMAIN s}
                                       THEN "in_flight" ELSE status[j]]
          /\ batch' = [batch EXCEPT ![w] =
                [i \in DOMAIN s |-> [id |-> s[i], attempts |-> attempts[s[i]] + 1]]]
    BY <1>1 DEF claim_due_jobs
  <2> DEFINE b == [i \in DOMAIN s |-> [id |-> s[i], attempts |-> attempts[s[i]] + 1]]
  <2>2. DOMAIN s = 1..Len(b) /\ \A i \in DOMAIN s : b[i].id = s[i]
    <3>1. \E n \in Nat : DOMAIN s = 1..n
      BY <1>1, OldestDueIsInjective DEF claim_due_jobs
    <3> QED
      BY <3>1
  <2>3. batch[w] = <<>> /\ batch'[w] = b /\ \A v \in Workers : v # w => batch'[v] = batch[v]
    BY <1>1, <2>1 DEF claim_due_jobs, TypeOK, Busy
  <2> HIDE DEF b
  <2>4. ASSUME NEW j \in Jobs, j \in {s[i] : i \in DOMAIN s} PROVE InHand(j)'
    BY <2>2, <2>3, <2>4 DEF InHand
  <2>5. ASSUME NEW j \in Jobs, InHand(j) PROVE InHand(j)'
    BY <2>3, <2>5, EmptySeq DEF InHand
  <2>6. UNCHANGED <<kills, dberrors>>
    BY <1>1 DEF claim_due_jobs, history
  <2> QED
    BY <2>1, <2>4, <2>5, <2>6
<1>2. ASSUME NEW w \in Workers, handle_one(w) PROVE Attended'
  <2>1. \A j \in Jobs : status'[j] = "in_flight" =>
           j # Head(batch[w]).id /\ status[j] = "in_flight"
    BY <1>2, RecordedJob
  <2>2. \A j \in Jobs : InHand(j) /\ j # Head(batch[w]).id => InHand(j)'
    BY <1>2, RecordedJob, InHandNextJob
  <2>3. UNCHANGED <<kills, dberrors>>
    BY <1>2 DEF handle_one, history
  <2> QED
    BY <2>1, <2>2, <2>3
<1>3. ASSUME Kill \/ \E w \in Workers : DbError(w) PROVE Attended'
  <2>1. kills' + dberrors' > 0 /\ kills' \in Nat /\ dberrors' \in Nat
    BY <1>3 DEF Kill, DbError, TypeOK
  <2> QED
    BY <2>1
<1>4. ASSUME NEW i \in Jobs, post_webhook(i) \/ retry_dlq(i) PROVE Attended'
  <2>1. /\ UNCHANGED <<kills, dberrors, batch>>
        /\ \A j \in Jobs : status'[j] = "in_flight" => status[j] = "in_flight"
    BY <1>4 DEF post_webhook, retry_dlq, insert_job, requeue_dead, tasks, history, TypeOK
  <2> QED
    BY <1>0, <2>1
<1>5. ASSUME \/ \E w \in Workers : \/ CheckShutdown(w) \/ NothingDue(w) \/ Send(w)
                                    \/ \E outcome \in {"ok", "failed"} : Answer(w, outcome)
             \/ Shutdown \/ Exit \/ Restart \/ Tick \/ UNCHANGED vars
      PROVE  Attended'
  <2>1. UNCHANGED <<kills, dberrors, batch, status>>
    BY <1>5 DEF CheckShutdown, NothingDue, Send, Answer, Shutdown, Exit, Restart, Tick, vars,
       rows, tasks, history
  <2> QED
    BY <1>0, <2>1
<1> QED
  BY <1>1, <1>2, <1>3, <1>4, <1>5 DEF Next, WorkerStep

\* Nothing but a kill or a failed record strands a job: until then every row in
\* flight waits in the batch of a worker, through graceful restarts too.
THEOREM OnlyFailuresStrand == Spec => [](kills = 0 /\ dberrors = 0 => \A j \in Jobs : ~Stranded(j))
<1>1. Init => Attended
  BY DEF Init, Attended, Stranded
<1>2. TypeOK /\ Attended /\ [Next]_vars => Attended'
  BY AttendedStep
<1> QED
  BY <1>1, <1>2, TypeCorrect, PTL DEF Spec, Attended

(***************************************************************************)
(* Outcomes                                                                *)
(***************************************************************************)

\* What no step may do to an outcome: take back a delivery, or move a dead job
\* without an operator's retry that is counted.
OutcomesKept ==
    \A j \in Jobs :
        /\ status[j] = "delivered" => status'[j] = "delivered"
        /\ status[j] = "dead" /\ status'[j] # "dead" =>
              status'[j] = "pending" /\ requeued'[j] = requeued[j] + 1

LEMMA OutcomesStep ==
    ASSUME TypeOK, ClaimIsExclusive, [Next]_vars
    PROVE  OutcomesKept
<1>0. ASSUME \A j \in Jobs : status[j] \in {"delivered", "dead"} => status'[j] = status[j]
      PROVE  OutcomesKept
  BY <1>0 DEF OutcomesKept
<1>1. ASSUME NEW w \in Workers, claim_due_jobs(w) PROVE OutcomesKept
  <2>1. PICK C \in SUBSET Due :
          status' = [j \in Jobs |-> IF j \in C THEN "in_flight" ELSE status[j]]
    BY <1>1, ClaimEffect
  <2> QED
    BY <1>0, <2>1 DEF Due
<1>2. ASSUME NEW w \in Workers, handle_one(w) PROVE OutcomesKept
  <2>1. Head(batch[w]) = batch[w][1] /\ 1 \in 1..Len(batch[w])
    BY <1>2, RecordedJob, BatchHead
  <2>2. status[Head(batch[w]).id] = "in_flight"
    BY <2>1 DEF ClaimIsExclusive
  <2> QED
    BY <1>0, <1>2, <2>2, RecordedJob
<1>3. ASSUME NEW i \in Jobs, post_webhook(i) PROVE OutcomesKept
  BY <1>0, <1>3 DEF post_webhook, insert_job, TypeOK
<1>4. ASSUME NEW i \in Jobs, retry_dlq(i) PROVE OutcomesKept
  BY <1>4 DEF retry_dlq, requeue_dead, TypeOK, OutcomesKept
<1>5. ASSUME \/ \E w \in Workers : \/ CheckShutdown(w) \/ NothingDue(w) \/ Send(w)
                                    \/ \E outcome \in {"ok", "failed"} : Answer(w, outcome)
                                    \/ DbError(w)
             \/ Shutdown \/ Exit \/ Kill \/ Restart \/ Tick \/ UNCHANGED vars
      PROVE  OutcomesKept
  <2>1. status' = status
    BY <1>5 DEF CheckShutdown, NothingDue, Send, Answer, DbError, Shutdown, Exit, Kill,
       Restart, Tick, vars, rows
  <2> QED
    BY <1>0, <2>1
<1> QED
  BY <1>1, <1>2, <1>3, <1>4, <1>5 DEF Next, WorkerStep

\* The updates by id alone never overwrite an outcome, for any configuration.
THEOREM OutcomesAreFinal == Spec => [][OutcomesKept]_vars
<1>1. TypeOK /\ ClaimIsExclusive /\ [Next]_vars => [OutcomesKept]_vars
  BY OutcomesStep
<1> QED
  BY <1>1, TypeCorrect, ClaimIsExclusiveHolds, PTL DEF Spec
=============================================================================
