-------------------------- MODULE QDelivery_proofs --------------------------
(***************************************************************************)
(* Proofs about the delivery pipeline of service q, for any number of      *)
(* deliveries and workers and any configuration.                           *)
(***************************************************************************)
EXTENDS QDelivery, FiniteSetTheorems, SequenceTheorems, TLAPS

(***************************************************************************)
(* Type correctness                                                        *)
(***************************************************************************)

\* An UPDATE of one row keeps the columns in their types.
LEMMA SetStatusType ==
    ASSUME now \in Nat, RowsOK, NEW d \in Ids, NEW s \in DeliveryStatus, SetStatus(d, s)
    PROVE  /\ status' \in [Ids -> DeliveryStatus \union {"absent"}]
           /\ updated_at' \in [Ids -> Nat]
BY DEF RowsOK, SetStatus

\* The three statements that record an outcome keep the columns in their types.
LEMMA OutcomeRowsType ==
    ASSUME now \in Nat, RowsOK, NEW d \in Ids,
           \/ mark_delivered(d)
           \/ dead_letter(d)
           \/ \E next \in Nat : schedule_retry(d, next)
    PROVE  RowsOK'
<1>1. CASE mark_delivered(d)
  <2>1. SetStatus(d, "delivered") /\ "delivered" \in DeliveryStatus
    BY <1>1 DEF mark_delivered, DeliveryStatus
  <2>2. attempts' \in [Ids -> Nat]
    BY <1>1 DEF RowsOK, mark_delivered
  <2> QED
    BY <1>1, <2>1, <2>2, SetStatusType DEF RowsOK, mark_delivered
<1>2. CASE dead_letter(d)
  <2>1. SetStatus(d, "dead_letter") /\ "dead_letter" \in DeliveryStatus
    BY <1>2 DEF dead_letter, DeliveryStatus
  <2>2. dead_letters' \in [Ids -> Nat]
    BY <1>2 DEF RowsOK, dead_letter
  <2> QED
    BY <1>2, <2>1, <2>2, SetStatusType DEF RowsOK, dead_letter
<1>3. ASSUME NEW next \in Nat, schedule_retry(d, next) PROVE RowsOK'
  <2>1. SetStatus(d, "pending") /\ "pending" \in DeliveryStatus
    BY <1>3 DEF schedule_retry, DeliveryStatus
  <2>2. attempts' \in [Ids -> Nat] /\ next_retry_at' \in [Ids -> Nat]
    BY <1>3 DEF RowsOK, schedule_retry
  <2> QED
    BY <1>3, <2>1, <2>2, SetStatusType DEF RowsOK, schedule_retry
<1> QED
  BY <1>1, <1>2, <1>3

\* A backoff delay is a natural number of ticks.
LEMMA RetryDelayType ==
    ASSUME NEW a, NEW delay \in RetryDelays(a)
    PROVE  delay \in Nat
BY DEF RetryDelays

\* A batch returned by list_due is a sequence of ids.
LEMMA ListDueType ==
    ASSUME NEW s \in list_due
    PROVE  s \in Seq(Ids)
<1>1. Due \subseteq Ids
  BY DEF Due
<1>2. Cardinality(Due) \in Nat
  BY <1>1, ConfigAssumption, FS_Subset, FS_CardinalityType DEF Config
<1> DEFINE n == MinOf(BatchLimit, Cardinality(Due))
<1>3. n \in Nat
  BY <1>2, ConfigAssumption DEF Config, MinOf
<1>4. s \in [1..n -> Due]
  BY DEF list_due, OldestDue
<1>5. s \in [1..n -> Ids]
  BY <1>1, <1>4
<1> HIDE DEF n
<1> QED
  BY <1>3, <1>5

\* Releasing the claimed snapshot keeps the locals of the workers typed.
LEMMA ReleaseType ==
    ASSUME TasksOK, NEW w \in Workers, Release(w)
    PROVE  TasksOK'
BY DEF TasksOK, Release

\* What a worker has at the head of its batch is a snapshot of a row.
LEMMA HeadType ==
    ASSUME TasksOK, NEW w \in Workers, batch[w] # <<>>
    PROVE  /\ Head(batch[w]) \in Snapshot
           /\ Head(batch[w]).id \in Ids
           /\ Tail(batch[w]) \in Seq(Snapshot)
<1>1. batch[w] \in Seq(Snapshot)
  BY DEF TasksOK
<1>2. Head(batch[w]) \in Snapshot /\ Tail(batch[w]) \in Seq(Snapshot)
  BY <1>1, HeadTailProperties
<1> QED
  BY <1>2 DEF Snapshot

LEMMA InitType == Init => TypeOK
<1> SUFFICES ASSUME Init PROVE TypeOK
  OBVIOUS
<1>1. RowsOK
  BY DEF Init, RowsOK
<1>2. TasksOK
  BY DEF Init, TasksOK
<1>3. HistoryOK
  BY DEF Init, HistoryOK
<1> QED
  BY <1>1, <1>2, <1>3 DEF Init, TypeOK

LEMMA NextType == TypeOK /\ [Next]_vars => TypeOK'
<1> SUFFICES ASSUME TypeOK, [Next]_vars PROVE TypeOK'
  OBVIOUS
<1> USE ConfigAssumption DEF Config
<1> USE DEF TypeOK
<1>1. ASSUME NEW w \in Workers, Boot(w) PROVE TypeOK'
  <2>1. RowsOK'
    BY <1>1 DEF RowsOK, Boot, DeliveryStatus, reset_stale_in_flight
  <2>2. TasksOK' /\ HistoryOK'
    BY <1>1 DEF TasksOK, HistoryOK, Boot, history, reset_stale_in_flight
  <2> QED
    BY <1>1, <2>1, <2>2 DEF Boot, TasksOK, reset_stale_in_flight
<1>2. ASSUME NEW w \in Workers, Poll(w) PROVE TypeOK'
  <2>1. PICK s \in list_due :
          batch' = [batch EXCEPT ![w] =
                       [i \in DOMAIN s |-> [id |-> s[i], attempts |-> attempts[s[i]]]]]
    BY <1>2 DEF Poll
  <2> DEFINE snapshots == [i \in DOMAIN s |-> [id |-> s[i], attempts |-> attempts[s[i]]]]
  <2>2. s \in Seq(Ids)
    BY <2>1, ListDueType
  <2>3. ASSUME NEW i \in 1..Len(s) PROVE snapshots[i] \in Snapshot
    <3>1. s[i] \in Ids /\ i \in DOMAIN s
      BY <2>2
    <3>2. attempts[s[i]] \in Nat
      BY <3>1 DEF RowsOK
    <3>3. snapshots[i] = [id |-> s[i], attempts |-> attempts[s[i]]]
      BY <3>1
    <3> QED
      BY <3>1, <3>2, <3>3 DEF Snapshot
  <2>4. snapshots \in [1..Len(s) -> Snapshot] /\ Len(s) \in Nat
    <3>1. DOMAIN s = 1..Len(s) /\ Len(s) \in Nat
      BY <2>2, LenProperties
    <3>2. snapshots = [i \in 1..Len(s) |-> snapshots[i]]
      BY <3>1
    <3> HIDE DEF snapshots
    <3> QED
      BY <2>3, <3>1, <3>2
  <2>5. snapshots \in Seq(Snapshot)
    BY <2>4
  <2> HIDE DEF snapshots
  <2>6. batch' = [batch EXCEPT ![w] = snapshots]
    BY <2>1 DEF snapshots
  <2>7. TasksOK'
    BY <1>2, <2>5, <2>6 DEF TasksOK, Poll
  <2> QED
    BY <1>2, <2>7 DEF Poll, rows, history, RowsOK, HistoryOK
<1>3. ASSUME NEW w \in Workers, Stop(w) PROVE TypeOK'
  BY <1>3 DEF Stop, rows, history, RowsOK, TasksOK, HistoryOK
<1>4. ASSUME NEW w \in Workers, Reject(w) PROVE TypeOK'
  <2>1. RowsOK'
    BY <1>4, HeadType, OutcomeRowsType DEF Reject
  <2>2. TasksOK' /\ HistoryOK'
    BY <1>4, HeadType DEF TasksOK, HistoryOK, Reject, history
  <2> QED
    BY <1>4, <2>1, <2>2 DEF Reject
<1>5. ASSUME NEW w \in Workers, Claim(w) PROVE TypeOK'
  <2>1. /\ Head(batch[w]) \in Snapshot
        /\ Head(batch[w]).id \in Ids
        /\ Tail(batch[w]) \in Seq(Snapshot)
    BY <1>5, HeadType DEF Claim, claim, Send
  <2>2. RowsOK'
    BY <1>5, <2>1, SetStatusType DEF RowsOK, Claim, DeliveryStatus, claim, Send
  <2>3. TasksOK'
    BY <1>5, <2>1 DEF TasksOK, Claim, claim, Send
  <2>4. HistoryOK'
    BY <1>5, <2>1 DEF HistoryOK, Claim, claim, Send
  <2> QED
    BY <1>5, <2>1, <2>2, <2>3, <2>4 DEF Claim, TasksOK, claim, Send
<1>6. ASSUME NEW w \in Workers, LoseClaim(w) PROVE TypeOK'
  <2>1. TasksOK'
    BY <1>6, HeadType DEF TasksOK, LoseClaim
  <2> QED
    BY <1>6, <2>1 DEF LoseClaim, rows, history, RowsOK, HistoryOK
<1>7. ASSUME NEW w \in Workers, NEW o \in Outcome, Answer(w, o) PROVE TypeOK'
  <2>1. TasksOK' /\ RowsOK'
    BY <1>7 DEF TasksOK, RowsOK, Answer, rows
  <2>2. HistoryOK'
    BY <1>7 DEF HistoryOK, Answer
  <2> QED
    BY <1>7, <2>1, <2>2 DEF Answer, TasksOK
<1>8. ASSUME NEW w \in Workers, Record(w) PROVE TypeOK'
  <2> DEFINE d == job[w].id
             attempt == job[w].attempts + 1
  <2>1. d \in Ids
    BY <1>8 DEF Record, Snapshot
  <2>2. \/ mark_delivered(d)
        \/ dead_letter(d)
        \/ \E next \in Nat : schedule_retry(d, next)
    <3>1. ASSUME NEW delay \in RetryDelays(attempt) PROVE now + delay \in Nat
      BY <3>1, RetryDelayType
    <3> QED
      BY <1>8, <3>1 DEF Record
  <2>3. RowsOK'
    BY <2>1, <2>2, OutcomeRowsType
  <2>4. Release(w) /\ UNCHANGED <<now, shutdown, history>>
    BY <1>8 DEF Record
  <2>5. TasksOK'
    BY <2>4, ReleaseType
  <2> QED
    BY <2>3, <2>4, <2>5 DEF Release, TasksOK, HistoryOK, history
<1>9. ASSUME NEW w \in Workers, DbError(w) PROVE TypeOK'
  <2>1. TasksOK'
    BY <1>9, HeadType, ReleaseType DEF TasksOK, DbError
  <2>2. RowsOK' /\ HistoryOK'
    BY <1>9 DEF RowsOK, HistoryOK, DbError, rows
  <2> QED
    BY <1>9, <2>1, <2>2 DEF DbError, Release, TasksOK
<1>10. ASSUME NEW d \in Ids, Submit(d) PROVE TypeOK'
  <2>1. RowsOK'
    BY <1>10, SetStatusType DEF RowsOK, Submit, DeliveryStatus, insert
  <2> QED
    BY <1>10, <2>1 DEF Submit, tasks, history, TasksOK, HistoryOK, insert
<1>11. ASSUME NEW d \in Ids, Replay(d) PROVE TypeOK'
  <2>1. RowsOK'
    BY <1>11, SetStatusType DEF RowsOK, Replay, DeliveryStatus, replay_dead_letter
  <2>2. HistoryOK'
    BY <1>11 DEF HistoryOK, Replay, replay_dead_letter
  <2> QED
    BY <1>11, <2>1, <2>2 DEF Replay, tasks, TasksOK, replay_dead_letter
<1>12. ASSUME Shutdown PROVE TypeOK'
  BY <1>12 DEF Shutdown, rows, tasks, history, RowsOK, TasksOK, HistoryOK
<1>13. ASSUME Crash PROVE TypeOK'
  <2>1. TasksOK'
    BY <1>13 DEF Crash, TasksOK
  <2>2. \A w \in Workers : pc'[w] = "down"
    BY <1>13, Zenon DEF Crash
  <2>3. shutdown' \in BOOLEAN /\ now' \in Nat
    BY <1>13 DEF Crash
  <2>4. RowsOK'
    BY <1>13 DEF Crash, rows, RowsOK
  <2>5. HistoryOK'
    BY <1>13 DEF Crash, HistoryOK
  <2> QED
    BY <2>1, <2>2, <2>3, <2>4, <2>5
<1>14. ASSUME Restart PROVE TypeOK'
  BY <1>14 DEF Restart, rows, history, RowsOK, TasksOK, HistoryOK
<1>15. ASSUME Tick PROVE TypeOK'
  BY <1>15 DEF Tick, rows, tasks, history, RowsOK, TasksOK, HistoryOK
<1>16. CASE UNCHANGED vars
  BY <1>16 DEF vars, rows, tasks, history, RowsOK, TasksOK, HistoryOK
<1> QED
  BY <1>1, <1>2, <1>3, <1>4, <1>5, <1>6, <1>7, <1>8, <1>9, <1>10, <1>11, <1>12,
     <1>13, <1>14, <1>15, <1>16 DEF Next, WorkerStep

\* Every reachable state of the pipeline has the declared types.
THEOREM TypeCorrect == Spec => []TypeOK
BY InitType, NextType, PTL DEF Spec

(***************************************************************************)
(* Custody of a claimed row                                                *)
(***************************************************************************)

\* The two conditions under which a claim is exclusive: delivery-time
\* validation does not reject rows behind the back of their sender, and a
\* row is stale only after every send has timed out.
StableConfig == DestinationsMayChange = FALSE /\ RequestTimeout < StaleInFlight

\* A step that takes no new claim and leaves the claimed rows and the clock
\* alone keeps custody.
LEMMA CustodyFrame ==
    ASSUME Custody, now' = now,
           \A v \in Workers : Holding(v)' =>
              /\ Holding(v)
              /\ job'[v] = job[v]
              /\ since'[v] = since[v]
              /\ status'[job[v].id] = status[job[v].id]
              /\ updated_at'[job[v].id] = updated_at[job[v].id]
    PROVE  Custody'
BY DEF Custody

LEMMA CustodyStep ==
    ASSUME StableConfig, TypeOK, Custody, [Next]_vars
    PROVE  Custody'
<1> USE ConfigAssumption DEF Config, StableConfig
\* A held row names an existing id, and is neither pending nor settled.
<1>0. ASSUME NEW v \in Workers, Holding(v)
      PROVE  job[v].id \in Ids /\ status[job[v].id] = "in_flight"
  BY <1>0 DEF TypeOK, Holding, Snapshot, Custody
<1>1. ASSUME NEW w \in Workers, Boot(w) PROVE Custody'
  <2>1. now' = now
    BY <1>1 DEF Boot, reset_stale_in_flight
  <2>2. ASSUME NEW v \in Workers, Holding(v)'
        PROVE  /\ Holding(v)
               /\ job'[v] = job[v]
               /\ since'[v] = since[v]
               /\ status'[job[v].id] = status[job[v].id]
               /\ updated_at'[job[v].id] = updated_at[job[v].id]
    <3>1. Holding(v) /\ job'[v] = job[v] /\ since'[v] = since[v]
      BY <1>1, <2>2 DEF Boot, Holding, TypeOK, TasksOK, reset_stale_in_flight
    <3>2. updated_at[job[v].id] = since[v] /\ now <= since[v] + RequestTimeout
      BY <3>1 DEF Custody
    <3>3. since[v] \in Nat /\ now \in Nat
      BY DEF TypeOK, TasksOK
    <3>4. ~(updated_at[job[v].id] <= now - StaleInFlight)
      BY <3>2, <3>3
    <3> QED
      BY <1>0, <1>1, <3>1, <3>4 DEF Boot, reset_stale_in_flight
  <2> QED
    BY <2>1, <2>2, CustodyFrame
<1>2. ASSUME NEW w \in Workers, Poll(w) PROVE Custody'
  BY <1>2, CustodyFrame DEF Poll, rows, Holding
<1>3. ASSUME NEW w \in Workers, Stop(w) PROVE Custody'
  BY <1>3, CustodyFrame DEF Stop, rows, Holding, TypeOK, TasksOK
<1>4. ASSUME NEW w \in Workers, Reject(w) PROVE Custody'
  BY <1>4 DEF Reject
<1>5. ASSUME NEW w \in Workers, Claim(w) PROVE Custody'
  <2> DEFINE d == Head(batch[w]).id
  <2>1. d \in Ids
    BY <1>5, HeadType DEF Claim, TypeOK, claim, Send
  <2>2. /\ status[d] = "pending"
        /\ status' = [status EXCEPT ![d] = "in_flight"]
        /\ updated_at' = [updated_at EXCEPT ![d] = now]
        /\ pc[w] = "loop"
        /\ pc' = [pc EXCEPT ![w] = "sending"]
        /\ job' = [job EXCEPT ![w] = Head(batch[w])]
        /\ since' = [since EXCEPT ![w] = now]
        /\ now' = now
    BY <1>5 DEF Claim, SetStatus, claim, Send
  <2> HIDE DEF d
  <2>3. /\ job'[w].id = d
        /\ since'[w] = now
        /\ status'[d] = "in_flight"
        /\ updated_at'[d] = now
    BY <2>1, <2>2 DEF TypeOK, TasksOK, RowsOK, d
  <2>4. ASSUME NEW v \in Workers, v # w, Holding(v)'
        PROVE  /\ Holding(v) /\ job'[v] = job[v] /\ since'[v] = since[v]
               /\ job[v].id # d
               /\ status'[job[v].id] = status[job[v].id]
               /\ updated_at'[job[v].id] = updated_at[job[v].id]
    <3>1. Holding(v) /\ job'[v] = job[v] /\ since'[v] = since[v]
      BY <2>2, <2>4 DEF Holding, TypeOK, TasksOK
    <3>2. job[v].id # d
      BY <1>0, <2>2, <3>1
    <3> QED
      BY <1>0, <2>2, <3>1, <3>2 DEF TypeOK, RowsOK
  <2>5. now \in Nat
    BY DEF TypeOK
  <2>6. ASSUME NEW v \in Workers, Holding(v)'
        PROVE  /\ status'[job'[v].id] = "in_flight"
               /\ updated_at'[job'[v].id] = since'[v]
               /\ since'[v] <= now'
               /\ now' <= since'[v] + RequestTimeout
    <3>1. CASE v = w
      BY <2>2, <2>3, <2>5, <3>1
    <3>2. CASE v # w
      BY <2>2, <2>4, <2>6, <3>2 DEF Custody
    <3> QED
      BY <3>1, <3>2
  <2>7. ASSUME NEW u \in Workers, NEW v \in Workers, Holding(u)', Holding(v)',
               job'[u].id = job'[v].id
        PROVE  u = v
    <3>1. CASE u # w /\ v # w
      BY <2>4, <2>7, <3>1 DEF Custody
    <3>2. CASE u = w /\ v # w
      BY <2>3, <2>4, <2>7, <3>2
    <3>3. CASE u # w /\ v = w
      BY <2>3, <2>4, <2>7, <3>3
    <3> QED
      BY <3>1, <3>2, <3>3
  <2> QED
    BY <2>6, <2>7 DEF Custody
<1>6. ASSUME NEW w \in Workers, LoseClaim(w) PROVE Custody'
  BY <1>6, CustodyFrame DEF LoseClaim, rows, Holding
<1>7. ASSUME NEW w \in Workers, NEW o \in Outcome, Answer(w, o) PROVE Custody'
  BY <1>7, CustodyFrame DEF Answer, rows, Holding, TypeOK, TasksOK
<1>8. ASSUME NEW w \in Workers, Record(w) PROVE Custody'
  <2> DEFINE d == job[w].id
  <2>1. Holding(w) /\ Release(w) /\ now' = now
    BY <1>8 DEF Record, Holding
  <2>2. \E s \in DeliveryStatus : SetStatus(d, s)
    BY <1>8 DEF Record, mark_delivered, dead_letter, schedule_retry, DeliveryStatus
  <2>3. ASSUME NEW v \in Workers, Holding(v)'
        PROVE  /\ Holding(v)
               /\ job'[v] = job[v]
               /\ since'[v] = since[v]
               /\ status'[job[v].id] = status[job[v].id]
               /\ updated_at'[job[v].id] = updated_at[job[v].id]
    <3>1. v # w /\ Holding(v) /\ job'[v] = job[v] /\ since'[v] = since[v]
      BY <2>1, <2>3 DEF Release, Holding, TypeOK, TasksOK
    <3>2. job[v].id # d
      BY <2>1, <3>1 DEF Custody
    <3> QED
      BY <1>0, <2>2, <3>1, <3>2 DEF SetStatus, TypeOK, RowsOK
  <2> QED
    BY <2>1, <2>3, CustodyFrame
<1>9. ASSUME NEW w \in Workers, DbError(w) PROVE Custody'
  BY <1>9, CustodyFrame DEF DbError, Release, rows, Holding, TypeOK, TasksOK
<1>10. ASSUME NEW d \in Ids, Submit(d) PROVE Custody'
  BY <1>0, <1>10, CustodyFrame DEF Submit, SetStatus, tasks, Holding, TypeOK, RowsOK, insert
<1>11. ASSUME NEW d \in Ids, Replay(d) PROVE Custody'
  BY <1>0, <1>11, CustodyFrame
     DEF Replay, replay_dead_letter, SetStatus, tasks, Holding, TypeOK, RowsOK
<1>12. ASSUME Shutdown PROVE Custody'
  BY <1>12, CustodyFrame DEF Shutdown, rows, tasks, Holding
<1>13. ASSUME Crash PROVE Custody'
  BY <1>13 DEF Crash, Custody, Holding
<1>14. ASSUME Restart PROVE Custody'
  BY <1>14 DEF Restart, Custody, Holding
<1>15. ASSUME Tick PROVE Custody'
  <2>1. ASSUME NEW v \in Workers, Holding(v)
        PROVE  since[v] <= now' /\ now' <= since[v] + RequestTimeout
    BY <1>15, <2>1 DEF Tick, Holding, Custody, TypeOK, TasksOK
  <2>2. /\ status' = status /\ updated_at' = updated_at
        /\ pc' = pc /\ job' = job /\ since' = since
    BY <1>15 DEF Tick, rows, tasks
  <2> QED
    BY <2>1, <2>2 DEF Custody, Holding
<1>16. CASE UNCHANGED vars
  BY <1>16, CustodyFrame DEF vars, rows, tasks, Holding
<1> QED
  BY <1>1, <1>2, <1>3, <1>4, <1>5, <1>6, <1>7, <1>8, <1>9, <1>10, <1>11, <1>12,
     <1>13, <1>14, <1>15, <1>16 DEF Next, WorkerStep

\* With a stable configuration no row is ever sent by two workers at a time,
\* and a row being sent is in_flight since its sender's claim: the claim of
\* db.rs and the stale reset of worker.rs are exclusive for any number of
\* workers.
THEOREM CustodyHolds ==
    ASSUME StableConfig
    PROVE  Spec => []Custody
<1>1. Init => Custody
  BY DEF Init, Custody, Holding
<1>2. TypeOK /\ Custody /\ [Next]_vars => Custody'
  BY CustodyStep
<1> QED
  BY <1>1, <1>2, TypeCorrect, PTL DEF Spec

(***************************************************************************)
(* The queue implements AtLeastOnce                                        *)
(***************************************************************************)

\* What is recorded as delivered has been acknowledged, and so is what is
\* about to be recorded.
Acknowledged ==
    /\ DeliveredWasAcknowledged
    /\ \A w \in Workers :
          pc[w] = "answered" /\ outcome[w] = "Delivered" => acked[job[w].id]

LEMMA AcknowledgedStep ==
    ASSUME TypeOK, Acknowledged, [Next]_vars
    PROVE  Acknowledged'
<1> USE DEF Acknowledged, DeliveredWasAcknowledged
<1>1. ASSUME NEW w \in Workers, Boot(w) PROVE Acknowledged'
  BY <1>1 DEF Boot, history, TypeOK, TasksOK, reset_stale_in_flight
<1>2. ASSUME NEW w \in Workers, Poll(w) PROVE Acknowledged'
  BY <1>2 DEF Poll, rows, history
<1>3. ASSUME NEW w \in Workers, Stop(w) PROVE Acknowledged'
  BY <1>3 DEF Stop, rows, history, TypeOK, TasksOK
<1>4. ASSUME NEW w \in Workers, Reject(w) PROVE Acknowledged'
  <2>1. status' = [status EXCEPT ![Head(batch[w]).id] = "dead_letter"]
    BY <1>4 DEF Reject, dead_letter, SetStatus
  <2> QED
    BY <1>4, <2>1 DEF Reject, history, TypeOK, RowsOK
<1>5. ASSUME NEW w \in Workers, Claim(w) PROVE Acknowledged'
  <2>1. status' = [status EXCEPT ![Head(batch[w]).id] = "in_flight"]
    BY <1>5 DEF Claim, SetStatus, claim, Send
  <2> QED
    BY <1>5, <2>1 DEF Claim, TypeOK, RowsOK, TasksOK, claim, Send
<1>6. ASSUME NEW w \in Workers, LoseClaim(w) PROVE Acknowledged'
  BY <1>6 DEF LoseClaim, rows, history
<1>7. ASSUME NEW w \in Workers, NEW o \in Outcome, Answer(w, o) PROVE Acknowledged'
  <2>1. job[w].id \in Ids
    BY <1>7 DEF Answer, TypeOK, Snapshot
  <2>2. \A d \in Ids : acked[d] => acked'[d]
    BY <1>7 DEF Answer, TypeOK, HistoryOK
  <2>3. o = "Delivered" => acked'[job[w].id]
    BY <1>7, <2>1 DEF Answer, TypeOK, HistoryOK
  <2>4. \A v \in Workers : pc[v] = "answered" => job[v].id \in Ids
    BY DEF TypeOK, Snapshot
  <2>5. \A d \in Ids : status'[d] = "delivered" => acked'[d]
    BY <1>7, <2>2 DEF Answer, rows
  <2>6. ASSUME NEW v \in Workers, pc'[v] = "answered", outcome'[v] = "Delivered"
        PROVE  acked'[job'[v].id]
    <3>1. job' = job
      BY <1>7 DEF Answer
    <3>2. CASE v = w
      BY <1>7, <2>3, <2>6, <3>1, <3>2 DEF Answer, TypeOK, TasksOK
    <3>3. CASE v # w
      <4>1. pc[v] = "answered" /\ outcome[v] = "Delivered"
        BY <1>7, <2>6, <3>3 DEF Answer, TypeOK, TasksOK
      <4> QED
        BY <2>2, <2>4, <3>1, <4>1
    <3> QED
      BY <3>2, <3>3
  <2> QED
    BY <2>5, <2>6
<1>8. ASSUME NEW w \in Workers, Record(w) PROVE Acknowledged'
  <2> DEFINE d == job[w].id
  <2>1. acked' = acked /\ Release(w)
    BY <1>8 DEF Record, history
  <2>2. \/ outcome[w] = "Delivered" /\ status' = [status EXCEPT ![d] = "delivered"]
        \/ status' = [status EXCEPT ![d] = "dead_letter"]
        \/ status' = [status EXCEPT ![d] = "pending"]
    BY <1>8 DEF Record, mark_delivered, dead_letter, schedule_retry, SetStatus
  <2>3. pc[w] = "answered"
    BY <1>8 DEF Record
  <2> QED
    BY <2>1, <2>2, <2>3 DEF Release, TypeOK, RowsOK, TasksOK
<1>9. ASSUME NEW w \in Workers, DbError(w) PROVE Acknowledged'
  BY <1>9 DEF DbError, Release, rows, TypeOK, TasksOK
<1>10. ASSUME NEW d \in Ids, Submit(d) PROVE Acknowledged'
  BY <1>10 DEF Submit, SetStatus, tasks, history, TypeOK, RowsOK, insert
<1>11. ASSUME NEW d \in Ids, Replay(d) PROVE Acknowledged'
  BY <1>11 DEF Replay, SetStatus, tasks, TypeOK, RowsOK, replay_dead_letter
<1>12. ASSUME Shutdown PROVE Acknowledged'
  BY <1>12 DEF Shutdown, rows, tasks, history
<1>13. ASSUME Crash PROVE Acknowledged'
  BY <1>13 DEF Crash, rows
<1>14. ASSUME Restart PROVE Acknowledged'
  BY <1>14 DEF Restart, rows, history
<1>15. ASSUME Tick PROVE Acknowledged'
  BY <1>15 DEF Tick, rows, tasks, history
<1>16. CASE UNCHANGED vars
  BY <1>16 DEF vars, rows, tasks, history
<1> QED
  BY <1>1, <1>2, <1>3, <1>4, <1>5, <1>6, <1>7, <1>8, <1>9, <1>10, <1>11, <1>12,
     <1>13, <1>14, <1>15, <1>16 DEF Next, WorkerStep

\* Whatever the configuration, no row is shown as delivered without a 2xx
\* answer of the destination, although mark_delivered checks nothing.
THEOREM DeliveredIsAcknowledged == Spec => []DeliveredWasAcknowledged
<1>1. Init => Acknowledged
  BY DEF Init, Acknowledged, DeliveredWasAcknowledged
<1>2. TypeOK /\ Acknowledged /\ [Next]_vars => Acknowledged'
  BY AcknowledgedStep
<1>3. Acknowledged => DeliveredWasAcknowledged
  BY DEF Acknowledged
<1> QED
  BY <1>1, <1>2, <1>3, TypeCorrect, PTL DEF Spec

phase == [d \in Ids |-> Phase(status[d])]

\* Writing the status of one row moves the phase of that job only.
LEMMA PhaseOfSetStatus ==
    ASSUME TypeOK, NEW d \in Ids, NEW s, SetStatus(d, s)
    PROVE  phase' = [phase EXCEPT ![d] = Phase(s)]
BY DEF TypeOK, RowsOK, SetStatus, phase

LEMMA AbstractStep ==
    ASSUME StableConfig, TypeOK, Custody, Acknowledged, [Next]_vars
    PROVE  [Abstract!Next]_(Abstract!avars)
<1> USE DEF phase, Abstract!avars
<1> DEFINE Stutter == phase' = phase /\ acked' = acked
<1>a. Stutter => [Abstract!Next]_(Abstract!avars)
  OBVIOUS
<1>1. ASSUME NEW w \in Workers, Boot(w) PROVE Stutter
  <2>1. \A d \in Ids : Phase(status'[d]) = Phase(status[d])
    BY <1>1 DEF Boot, Phase, reset_stale_in_flight
  <2> QED
    BY <1>1, <2>1 DEF Boot, history, reset_stale_in_flight
<1>2. ASSUME NEW w \in Workers, Poll(w) PROVE Stutter
  BY <1>2 DEF Poll, rows, history
<1>3. ASSUME NEW w \in Workers, Stop(w) PROVE Stutter
  BY <1>3 DEF Stop, rows, history
<1>4. ASSUME NEW w \in Workers, Reject(w) PROVE Stutter
  BY <1>4 DEF Reject, StableConfig
<1>5. ASSUME NEW w \in Workers, Claim(w) PROVE Stutter
  <2> DEFINE d == Head(batch[w]).id
  <2>1. d \in Ids /\ status[d] = "pending" /\ SetStatus(d, "in_flight") /\ acked' = acked
    BY <1>5, HeadType DEF Claim, TypeOK, claim, Send
  <2> HIDE DEF d
  <2>2. phase' = [phase EXCEPT ![d] = Phase("in_flight")]
    BY <2>1, PhaseOfSetStatus
  <2>3. Phase("in_flight") = phase[d]
    BY <2>1 DEF Phase
  <2>4. phase' = phase
    BY <2>2, <2>3
  <2> QED
    BY <2>1, <2>4
<1>6. ASSUME NEW w \in Workers, LoseClaim(w) PROVE Stutter
  BY <1>6 DEF LoseClaim, rows, history
<1>7. ASSUME NEW w \in Workers, NEW o \in Outcome, Answer(w, o)
      PROVE  Stutter \/ Abstract!Next
  <2> DEFINE d == job[w].id
  <2>1. d \in Ids /\ status[d] = "in_flight"
    BY <1>7 DEF Answer, TypeOK, Snapshot, Custody, Holding
  <2>2. phase' = phase
    BY <1>7 DEF Answer, rows
  <2>3. CASE o = "Delivered"
    <3>1. acked' = [acked EXCEPT ![d] = TRUE]
      BY <1>7, <2>1, <2>3, Zenon DEF Answer, TypeOK, HistoryOK
    <3>2. phase[d] = "queued"
      BY <2>1 DEF Phase
    <3>3. Abstract!Acknowledge(d)
      BY <2>2, <3>1, <3>2 DEF Abstract!Acknowledge
    <3> QED
      BY <2>1, <3>3 DEF Abstract!Next
  <2>4. CASE o # "Delivered"
    <3>1. acked' = acked
      BY <1>7, <2>1, <2>4 DEF Answer, TypeOK, HistoryOK
    <3> QED
      BY <2>2, <3>1
  <2> QED
    BY <2>3, <2>4
<1>8. ASSUME NEW w \in Workers, Record(w) PROVE Stutter \/ Abstract!Next
  <2> DEFINE d == job[w].id
  <2>1. d \in Ids /\ status[d] = "in_flight" /\ acked' = acked
    BY <1>8 DEF Record, TypeOK, Snapshot, Custody, Holding, history
  <2>2. phase[d] = "queued"
    BY <2>1 DEF Phase
  <2>3. CASE outcome[w] = "Delivered" /\ SetStatus(d, "delivered")
    <3>1. phase' = [phase EXCEPT ![d] = "delivered"]
      BY <2>1, <2>3, PhaseOfSetStatus DEF Phase
    <3>2. acked[d]
      BY <1>8, <2>3 DEF Record, Acknowledged
    <3>3. Abstract!Deliver(d)
      BY <2>1, <2>2, <3>1, <3>2 DEF Abstract!Deliver, Abstract!Move
    <3> QED
      BY <2>1, <3>3 DEF Abstract!Next
  <2>4. CASE SetStatus(d, "dead_letter")
    <3>1. phase' = [phase EXCEPT ![d] = "parked"]
      BY <2>1, <2>4, PhaseOfSetStatus DEF Phase
    <3>2. Abstract!Park(d)
      BY <2>1, <2>2, <3>1 DEF Abstract!Park, Abstract!Move
    <3> QED
      BY <2>1, <3>2 DEF Abstract!Next
  <2>5. CASE SetStatus(d, "pending")
    <3>1. phase' = [phase EXCEPT ![d] = "queued"]
      BY <2>1, <2>5, PhaseOfSetStatus DEF Phase
    <3>2. phase' = phase
      BY <2>2, <3>1
    <3> QED
      BY <2>1, <3>2
  <2> QED
    BY <1>8, <2>3, <2>4, <2>5 DEF Record, mark_delivered, dead_letter, schedule_retry
<1>9. ASSUME NEW w \in Workers, DbError(w) PROVE Stutter
  BY <1>9 DEF DbError, rows
<1>10. ASSUME NEW d \in Ids, Submit(d) PROVE Abstract!Next
  <2>1. phase[d] = "absent" /\ phase' = [phase EXCEPT ![d] = "queued"]
    BY <1>10, PhaseOfSetStatus DEF Submit, Phase, insert
  <2>2. Abstract!Accept(d)
    BY <1>10, <2>1 DEF Submit, history, Abstract!Accept, Abstract!Move, insert
  <2> QED
    BY <2>2 DEF Abstract!Next
<1>11. ASSUME NEW d \in Ids, Replay(d) PROVE Abstract!Next
  <2>1. phase[d] = "parked" /\ phase' = [phase EXCEPT ![d] = "queued"]
    BY <1>11, PhaseOfSetStatus DEF Replay, Phase, replay_dead_letter
  <2>2. Abstract!Requeue(d)
    BY <1>11, <2>1 DEF Replay, Abstract!Requeue, Abstract!Move, replay_dead_letter
  <2> QED
    BY <2>2 DEF Abstract!Next
<1>12. ASSUME Shutdown PROVE Stutter
  BY <1>12 DEF Shutdown, rows, history
<1>13. ASSUME Crash PROVE Stutter
  BY <1>13 DEF Crash, rows
<1>14. ASSUME Restart PROVE Stutter
  BY <1>14 DEF Restart, rows, history
<1>15. ASSUME Tick PROVE Stutter
  BY <1>15 DEF Tick, rows, history
<1>16. CASE UNCHANGED vars
  BY <1>16 DEF vars, rows, history
<1> HIDE DEF phase
<1> QED
  BY <1>a, <1>1, <1>2, <1>3, <1>4, <1>5, <1>6, <1>7, <1>8, <1>9, <1>10, <1>11, <1>12,
     <1>13, <1>14, <1>15, <1>16 DEF Next, WorkerStep

\* With a stable configuration the pipeline keeps the promise of the service:
\* an accepted row stays queued until it is delivered or parked, a delivered
\* row was acknowledged and never moves again, and a parked row moves only by
\* replay, through every interleaving, crash, restart and database error.
THEOREM Refinement ==
    ASSUME StableConfig
    PROVE  Spec => ImplementsAtLeastOnce
<1>1. Init => Abstract!Init
  BY DEF Init, Abstract!Init, Phase
<1>2. StableConfig /\ TypeOK /\ Custody /\ Acknowledged /\ [Next]_vars
         => [Abstract!Next]_(Abstract!avars)
  BY AbstractStep
<1>3. Init => Acknowledged
  BY DEF Init, Acknowledged, DeliveredWasAcknowledged
<1>4. TypeOK /\ Acknowledged /\ [Next]_vars => Acknowledged'
  BY AcknowledgedStep
<1>5. Spec => []Acknowledged
  BY <1>3, <1>4, TypeCorrect, PTL DEF Spec
<1>6. Spec => []Custody
  BY CustodyHolds
<1> QED
  BY <1>1, <1>2, <1>5, <1>6, TypeCorrect, PTL DEF Spec, ImplementsAtLeastOnce, Abstract!Spec

(***************************************************************************)
(* Dead letter entries                                                     *)
(***************************************************************************)

\* What one step may do to a row, its entries and its replays.
Dies(d) ==
    /\ status'[d] = "dead_letter"
    /\ dead_letters'[d] = dead_letters[d] + 1
    /\ replayed'[d] = replayed[d]

Revives(d) ==
    /\ status[d] = "dead_letter"
    /\ status'[d] = "pending"
    /\ dead_letters'[d] = dead_letters[d]
    /\ replayed'[d] = replayed[d] + 1

Moves(d) ==
    /\ status'[d] # "dead_letter"
    /\ dead_letters'[d] = dead_letters[d]
    /\ replayed'[d] = replayed[d]

Stays(d) ==
    /\ status'[d] = status[d]
    /\ dead_letters'[d] = dead_letters[d]
    /\ replayed'[d] = replayed[d]

\* The statements that record an outcome, applied to a row of this table.
LEMMA RecordedRow ==
    ASSUME TypeOK, NEW w \in Workers, Record(w)
    PROVE  LET d == job[w].id
               attempt == job[w].attempts + 1
           IN  /\ d \in Ids /\ Holding(w) /\ Release(w) /\ UNCHANGED <<now, shutdown, history>>
               /\ \/ mark_delivered(d)
                  \/ dead_letter(d)
                  \/ /\ attempt < MaxAttempts
                     /\ \E next \in Nat : schedule_retry(d, next)
<1> DEFINE d == job[w].id
           attempt == job[w].attempts + 1
<1>1. d \in Ids
  BY DEF Record, TypeOK, Snapshot
<1>2. ASSUME NEW delay \in RetryDelays(attempt) PROVE now + delay \in Nat
  BY <1>2, RetryDelayType DEF TypeOK
<1>3. \/ mark_delivered(d)
      \/ dead_letter(d)
      \/ attempt < MaxAttempts /\ \E next \in Nat : schedule_retry(d, next)
  BY <1>2 DEF Record
<1>4. Holding(w) /\ Release(w) /\ UNCHANGED <<now, shutdown, history>>
  BY DEF Record, Holding
<1> HIDE DEF d, attempt
<1> QED
  BY <1>1, <1>3, <1>4 DEF d, attempt

LEMMA EntriesStep ==
    ASSUME TypeOK, [Next]_vars, NEW d \in Ids
    PROVE  \/ Stays(d)
           \/ Moves(d) /\ (StableConfig /\ Custody => status[d] # "dead_letter")
           \/ Dies(d) /\ (StableConfig /\ Custody => status[d] = "in_flight")
           \/ Revives(d)
<1> USE DEF Stays, Moves, Dies, Revives
<1> DEFINE Fate == \/ Stays(d)
                   \/ Moves(d) /\ (StableConfig /\ Custody => status[d] # "dead_letter")
                   \/ Dies(d) /\ (StableConfig /\ Custody => status[d] = "in_flight")
                   \/ Revives(d)
<1>1. /\ status \in [Ids -> DeliveryStatus \union {"absent"}]
      /\ dead_letters \in [Ids -> Nat] /\ replayed \in [Ids -> Nat]
  BY DEF TypeOK, RowsOK, HistoryOK
<1>2. ASSUME NEW w \in Workers, Boot(w) PROVE Fate
  <2>1. /\ status'[d] = status[d] \/ (status[d] = "in_flight" /\ status'[d] = "pending")
        /\ dead_letters' = dead_letters /\ replayed' = replayed
    BY <1>2 DEF Boot, reset_stale_in_flight, history
  <2> QED
    BY <2>1
<1>3. ASSUME NEW w \in Workers, Reject(w) PROVE Fate
  <2>1. Head(batch[w]).id \in Ids
    BY <1>3, HeadType DEF Reject, TypeOK
  <2>2. ~StableConfig
    BY <1>3 DEF Reject, StableConfig
  <2> QED
    BY <1>1, <1>3, <2>1, <2>2 DEF Reject, dead_letter, SetStatus, history
<1>4. ASSUME NEW w \in Workers, Claim(w) PROVE Fate
  <2>1. Head(batch[w]).id \in Ids
    BY <1>4, HeadType DEF Claim, Send, TypeOK
  <2> QED
    BY <1>1, <1>4, <2>1 DEF Claim, Send, claim, SetStatus
<1>5. ASSUME NEW w \in Workers, Record(w) PROVE Fate
  <2> DEFINE e == job[w].id
  <2>1. /\ e \in Ids /\ Holding(w) /\ replayed' = replayed
        /\ mark_delivered(e) \/ dead_letter(e) \/ \E next \in Nat : schedule_retry(e, next)
    BY <1>5, RecordedRow DEF history
  <2>2. StableConfig /\ Custody => status[e] = "in_flight"
    BY <2>1 DEF Custody
  <2> HIDE DEF e
  <2>3. \/ /\ dead_letters' = dead_letters
           /\ \E s \in {"delivered", "pending"} : status' = [status EXCEPT ![e] = s]
        \/ /\ dead_letters' = [dead_letters EXCEPT ![e] = @ + 1]
           /\ status' = [status EXCEPT ![e] = "dead_letter"]
    BY <2>1 DEF mark_delivered, dead_letter, schedule_retry, SetStatus
  <2> QED
    BY <1>1, <2>1, <2>2, <2>3
<1>6. ASSUME NEW e \in Ids, Submit(e) PROVE Fate
  BY <1>1, <1>6 DEF Submit, insert, SetStatus, history
<1>7. ASSUME NEW e \in Ids, Replay(e) PROVE Fate
  BY <1>1, <1>7 DEF Replay, replay_dead_letter, SetStatus
<1>8. ASSUME \/ \E w \in Workers : \/ Poll(w) \/ Stop(w) \/ LoseClaim(w) \/ DbError(w)
                                   \/ \E o \in Outcome : Answer(w, o)
             \/ Shutdown \/ Crash \/ Restart \/ Tick \/ UNCHANGED vars
      PROVE  Fate
  <2>1. UNCHANGED <<status, dead_letters, replayed>>
    BY <1>8 DEF Poll, Stop, LoseClaim, DbError, Answer, Shutdown, Crash, Restart, Tick, vars,
       rows, history
  <2> QED
    BY <2>1
<1> QED
  BY <1>2, <1>3, <1>4, <1>5, <1>6, <1>7, <1>8 DEF Next, WorkerStep

\* No entry is ever removed and a replay needs one: entries keep up with
\* replays.
Listed ==
    \A d \in Ids : /\ replayed[d] <= dead_letters[d]
                   /\ status[d] = "dead_letter" => replayed[d] < dead_letters[d]

\* Whatever validation decides and however often a row is overwritten, a
\* dead-lettered row has an entry of its present life.
THEOREM DeadLetterIsListedHolds == Spec => []DeadLetterIsListed
<1>1. Init => Listed
  BY DEF Init, Listed
<1>2. TypeOK /\ Listed /\ [Next]_vars => Listed'
  <2> SUFFICES ASSUME TypeOK, Listed, [Next]_vars, NEW d \in Ids
               PROVE  /\ replayed'[d] <= dead_letters'[d]
                      /\ status'[d] = "dead_letter" => replayed'[d] < dead_letters'[d]
    BY DEF Listed
  <2>1. replayed[d] \in Nat /\ dead_letters[d] \in Nat
    BY DEF TypeOK, RowsOK, HistoryOK
  <2> QED
    BY <2>1, EntriesStep DEF Stays, Moves, Dies, Revives, Listed
<1>3. Listed => DeadLetterIsListed
  BY DEF Listed, DeadLetterIsListed
<1> QED
  BY <1>1, <1>2, <1>3, TypeCorrect, PTL DEF Spec

\* With a stable configuration only the worker that holds a row settles it, so
\* each life of a delivery leaves one entry, for any workers and replays.
THEOREM OneEntryPerDeathHolds ==
    ASSUME StableConfig
    PROVE  Spec => []OneEntryPerDeath
<1>1. Init => OneEntryPerDeath
  BY DEF Init, OneEntryPerDeath
<1>2. StableConfig /\ TypeOK /\ Custody /\ OneEntryPerDeath /\ [Next]_vars => OneEntryPerDeath'
  <2> SUFFICES ASSUME StableConfig, TypeOK, Custody, OneEntryPerDeath, [Next]_vars,
                      NEW d \in Ids
               PROVE  dead_letters'[d] =
                         replayed'[d] + (IF status'[d] = "dead_letter" THEN 1 ELSE 0)
    BY DEF OneEntryPerDeath
  <2>1. replayed[d] \in Nat /\ dead_letters[d] \in Nat
    BY DEF TypeOK, RowsOK, HistoryOK
  <2> QED
    BY <2>1, EntriesStep DEF Stays, Moves, Dies, Revives, OneEntryPerDeath
<1>3. Spec => []Custody
  BY CustodyHolds
<1> QED
  BY <1>1, <1>2, <1>3, TypeCorrect, PTL DEF Spec

(***************************************************************************)
(* Draining                                                                *)
(***************************************************************************)

Held(d) == \E w \in Workers : Holding(w) /\ job[w].id = d

\* Until a worker is killed or loses a statement, a row in flight has one.
Attended ==
    crashes = 0 /\ dberrors = 0 => \A d \in Ids : status[d] = "in_flight" => Held(d)

LEMMA AttendedStep ==
    ASSUME TypeOK, Attended, [Next]_vars
    PROVE  Attended'
<1> USE DEF Attended
<1>1. ASSUME NEW w \in Workers, Boot(w) PROVE Attended'
  <2>1. /\ UNCHANGED <<crashes, dberrors, job>>
        /\ \A d \in Ids : status'[d] = "in_flight" => status[d] = "in_flight"
        /\ \A v \in Workers : Holding(v) => Holding(v)'
    BY <1>1 DEF Boot, reset_stale_in_flight, history, Holding, TypeOK, TasksOK
  <2> QED
    BY <2>1 DEF Held
<1>2. ASSUME NEW w \in Workers, Poll(w) \/ Stop(w) \/ LoseClaim(w)
      PROVE  Attended'
  <2>1. /\ UNCHANGED <<crashes, dberrors, job, status>>
        /\ \A v \in Workers : Holding(v) => Holding(v)'
    BY <1>2 DEF Poll, Stop, LoseClaim, rows, history, Holding, TypeOK, TasksOK
  <2> QED
    BY <2>1 DEF Held
<1>3. ASSUME NEW w \in Workers, Reject(w) PROVE Attended'
  <2>1. /\ UNCHANGED <<crashes, dberrors, job, pc>>
        /\ \A d \in Ids : status'[d] = "in_flight" => status[d] = "in_flight"
    BY <1>3 DEF Reject, dead_letter, SetStatus, history, TypeOK, RowsOK
  <2> QED
    BY <2>1 DEF Held, Holding
<1>4. ASSUME NEW w \in Workers, Claim(w) PROVE Attended'
  <2> DEFINE e == Head(batch[w]).id
  <2>1. /\ UNCHANGED <<crashes, dberrors>> /\ pc[w] = "loop"
        /\ \A d \in Ids : d # e => status'[d] = status[d]
        /\ Holding(w)' /\ job'[w].id = e
        /\ \A v \in Workers : v # w => pc'[v] = pc[v] /\ job'[v] = job[v]
    BY <1>4 DEF Claim, claim, Send, SetStatus, Holding, TypeOK, RowsOK, TasksOK
  <2> HIDE DEF e
  <2> QED
    BY <2>1 DEF Held, Holding
<1>5. ASSUME NEW w \in Workers, NEW o \in Outcome, Answer(w, o) PROVE Attended'
  <2>1. /\ UNCHANGED <<crashes, dberrors, job, status>>
        /\ \A v \in Workers : Holding(v) => Holding(v)'
    BY <1>5 DEF Answer, rows, Holding, TypeOK, TasksOK
  <2> QED
    BY <2>1 DEF Held
<1>6. ASSUME NEW w \in Workers, Record(w) PROVE Attended'
  <2> DEFINE e == job[w].id
  <2>1. /\ UNCHANGED <<crashes, dberrors>>
        /\ e \in Ids /\ Release(w)
        /\ mark_delivered(e) \/ dead_letter(e) \/ \E next \in Nat : schedule_retry(e, next)
    BY <1>6, RecordedRow DEF history
  <2>2. \E s \in {"delivered", "dead_letter", "pending"} : status' = [status EXCEPT ![e] = s]
    BY <2>1 DEF mark_delivered, dead_letter, schedule_retry, SetStatus
  <2>3. \A d \in Ids : status'[d] = "in_flight" => d # e /\ status[d] = "in_flight"
    BY <2>1, <2>2 DEF TypeOK, RowsOK
  <2>4. \A v \in Workers : v # w /\ Holding(v) => Holding(v)' /\ job'[v] = job[v]
    BY <2>1 DEF Release, Holding, TypeOK, TasksOK
  <2> QED
    BY <2>1, <2>3, <2>4 DEF Held
<1>7. ASSUME NEW d \in Ids, Submit(d) \/ Replay(d) PROVE Attended'
  <2>1. /\ UNCHANGED <<crashes, dberrors, job, pc>>
        /\ \A e \in Ids : status'[e] = "in_flight" => status[e] = "in_flight"
    BY <1>7 DEF Submit, Replay, insert, replay_dead_letter, SetStatus, tasks, history, TypeOK,
       RowsOK
  <2> QED
    BY <2>1 DEF Held, Holding
<1>8. ASSUME Crash \/ \E w \in Workers : DbError(w) PROVE Attended'
  <2>1. crashes' + dberrors' > 0 /\ crashes' \in Nat /\ dberrors' \in Nat
    BY <1>8 DEF Crash, DbError, TypeOK, HistoryOK
  <2> QED
    BY <2>1
<1>9. ASSUME Restart PROVE Attended'
  <2>1. /\ UNCHANGED <<crashes, dberrors, status>>
        /\ \A w \in Workers : ~Holding(w)
    BY <1>9 DEF Restart, Up, Holding, rows, history
  <2> QED
    BY <2>1 DEF Held
<1>10. ASSUME Shutdown \/ Tick \/ UNCHANGED vars PROVE Attended'
  <2>1. UNCHANGED <<crashes, dberrors, status, job, pc>>
    BY <1>10 DEF Shutdown, Tick, vars, rows, tasks, history
  <2> QED
    BY <2>1 DEF Held, Holding
<1> QED
  BY <1>1, <1>2, <1>3, <1>4, <1>5, <1>6, <1>7, <1>8, <1>9, <1>10 DEF Next, WorkerStep

\* Whatever the configuration, a graceful shutdown leaves no row in flight.
THEOREM DrainHolds == Spec => []DrainLeavesNothingInFlight
<1>1. Init => Attended
  BY DEF Init, Attended
<1>2. TypeOK /\ Attended /\ [Next]_vars => Attended'
  BY AttendedStep
<1>3. Attended => DrainLeavesNothingInFlight
  BY DEF Attended, DrainLeavesNothingInFlight, Held, Holding, Up
<1> QED
  BY <1>1, <1>2, <1>3, TypeCorrect, PTL DEF Spec

(***************************************************************************)
(* How often a delivery is sent                                            *)
(***************************************************************************)

Allowed == MaxOf(1, MaxAttempts)

\* A snapshot of row d whose failure will be retried.
Retries(s, d) == s.id = d /\ s.attempts + 1 < Allowed

\* The workers that have one: each can put the row back once, whatever the
\* row says by then.
Spare(d) ==
    {w \in Workers : \/ Holding(w) /\ Retries(job[w], d)
                     \/ \E i \in 1..Len(batch[w]) : Retries(batch[w][i], d)}

\* A worker has one snapshot of a row at most.
Distinct ==
    \A w \in Workers :
        /\ \A i, j \in 1..Len(batch[w]) : batch[w][i].id = batch[w][j].id => i = j
        /\ Holding(w) => \A i \in 1..Len(batch[w]) : batch[w][i].id # job[w].id

\* A row counts the sends of its life, short of the one under way and those
\* whose recording was lost; what it counts, with the retries still to come
\* from snapshots, stays below what SendBound allows.
Within(d) ==
    /\ status[d] # "delivered" =>
          attempts[d] + Cardinality(Spare(d)) <= Allowed + Cardinality(Workers) - 2
    /\ status[d] \in {"absent", "pending", "in_flight"} =>
          sends[d] <= attempts[d] + (IF Held(d) THEN 1 ELSE 0) + crashes + dberrors
    /\ sends[d] <= Allowed + Cardinality(Workers) - 1 + crashes + dberrors

LEMMA Numbers ==
    ASSUME TypeOK, NEW d \in Ids
    PROVE  /\ Allowed \in Nat /\ Allowed >= 1
           /\ Cardinality(Workers) \in Nat /\ Cardinality(Workers) >= 1
           /\ Spare(d) \subseteq Workers /\ IsFiniteSet(Spare(d))
           /\ Cardinality(Spare(d)) \in Nat
           /\ Cardinality(Spare(d)) <= Cardinality(Workers)
           /\ attempts[d] \in Nat /\ sends[d] \in Nat
           /\ crashes \in Nat /\ dberrors \in Nat
<1>1. Allowed \in Nat /\ Allowed >= 1
  BY ConfigAssumption DEF Config, Allowed, MaxOf
<1>2. /\ Cardinality(Workers) \in Nat
      /\ Cardinality(Workers) # 0
  BY ConfigAssumption, FS_CardinalityType, FS_EmptySet DEF Config
<1>3. Spare(d) \subseteq Workers
  BY DEF Spare
<1>4. IsFiniteSet(Spare(d)) /\ Cardinality(Spare(d)) <= Cardinality(Workers)
  BY <1>3, ConfigAssumption, FS_Subset DEF Config
<1>5. Cardinality(Spare(d)) \in Nat
  BY <1>4, FS_CardinalityType
<1> QED
  BY <1>1, <1>2, <1>3, <1>4, <1>5 DEF TypeOK, RowsOK, HistoryOK

\* What is left of a batch when its first snapshot is taken.
LEMMA TailOfBatch ==
    ASSUME TypeOK, NEW w \in Workers, batch[w] # <<>>
    PROVE  /\ 1 \in 1..Len(batch[w]) /\ Head(batch[w]) = batch[w][1]
           /\ batch[w][1] \in Snapshot
           /\ \A i \in 1..Len(Tail(batch[w])) :
                 /\ i + 1 \in 1..Len(batch[w]) /\ i + 1 # 1
                 /\ Tail(batch[w])[i] = batch[w][i + 1]
<1>1. batch[w] \in Seq(Snapshot) /\ Len(batch[w]) \in Nat \ {0}
  BY EmptySeq, LenProperties DEF TypeOK, TasksOK
<1>2. /\ Len(Tail(batch[w])) = Len(batch[w]) - 1
      /\ \A i \in 1..Len(Tail(batch[w])) : Tail(batch[w])[i] = batch[w][i + 1]
  BY <1>1, HeadTailProperties
<1>3. \A i \in 1..Len(Tail(batch[w])) : i + 1 \in 1..Len(batch[w]) /\ i + 1 # 1
  BY <1>1, <1>2
<1>4. 1 \in 1..Len(batch[w]) /\ Head(batch[w]) = batch[w][1]
  BY <1>1
<1>5. batch[w][1] \in Snapshot
  BY <1>1, <1>4, ElementOfSeq
<1> QED
  BY <1>2, <1>3, <1>4, <1>5

\* What a poll brings: each row once, with the attempts it has now.
LEMMA PolledBatch ==
    ASSUME TypeOK, NEW w \in Workers, Poll(w)
    PROVE  /\ \A i \in 1..Len(batch'[w]) :
                 /\ batch'[w][i].id \in Ids /\ status[batch'[w][i].id] = "pending"
                 /\ batch'[w][i].attempts = attempts[batch'[w][i].id]
           /\ \A i, j \in 1..Len(batch'[w]) : batch'[w][i].id = batch'[w][j].id => i = j
           /\ \A v \in Workers : v # w => batch'[v] = batch[v]
<1> DEFINE n == MinOf(BatchLimit, Cardinality(Due))
<1>1. PICK s \in list_due :
        batch' = [batch EXCEPT ![w] =
                     [i \in DOMAIN s |-> [id |-> s[i], attempts |-> attempts[s[i]]]]]
  BY DEF Poll
<1>2. s \in [1..n -> Due] /\ \A i, j \in 1..n : i < j => s[i] # s[j]
  BY DEF list_due, OldestDue
<1>3. n \in Nat
  <2>1. Due \subseteq Ids
    BY DEF Due
  <2>2. Cardinality(Due) \in Nat
    BY <2>1, ConfigAssumption, FS_Subset, FS_CardinalityType DEF Config
  <2> QED
    BY <2>2, ConfigAssumption DEF Config, MinOf
<1> HIDE DEF n
<1>4. batch'[w] = [i \in 1..n |-> [id |-> s[i], attempts |-> attempts[s[i]]]]
  BY <1>1, <1>2 DEF TypeOK, TasksOK
<1>5. Len(batch'[w]) = n
  BY <1>3, <1>4
<1>6. \A i \in 1..n : s[i] \in Ids /\ status[s[i]] = "pending"
  BY <1>2 DEF Due
<1>7. \A i, j \in 1..n : s[i] = s[j] => i = j
  BY <1>2, <1>3
<1>8. \A v \in Workers : v # w => batch'[v] = batch[v]
  BY <1>1 DEF TypeOK, TasksOK
<1>9. \A i \in 1..n : /\ batch'[w][i].id = s[i]
                      /\ batch'[w][i].attempts = attempts[s[i]]
  BY <1>4
<1> QED
  BY <1>5, <1>6, <1>7, <1>8, <1>9

\* A step by which the workers come to hold only what they had.
Inherits ==
    \A v \in Workers :
        /\ \A i \in 1..Len(batch'[v]) : \E j \in 1..Len(batch[v]) : batch'[v][i] = batch[v][j]
        /\ Holding(v)' => \/ Holding(v) /\ job'[v] = job[v]
                          \/ \E j \in 1..Len(batch[v]) : job'[v] = batch[v][j]

LEMMA SpareShrinks ==
    ASSUME TypeOK, Inherits, NEW d \in Ids
    PROVE  /\ Spare(d)' \subseteq Spare(d)
           /\ Cardinality(Spare(d)') \in Nat
           /\ Cardinality(Spare(d)') <= Cardinality(Spare(d))
<1>1. Spare(d)' \subseteq Spare(d)
  BY DEF Spare, Inherits, Retries
<1>2. IsFiniteSet(Spare(d))
  BY Numbers
<1>3. IsFiniteSet(Spare(d)') /\ Cardinality(Spare(d)') <= Cardinality(Spare(d))
  BY <1>1, <1>2, FS_Subset
<1> QED
  BY <1>1, <1>3, FS_CardinalityType

\* A step that counts nothing for row d; if it takes the row from its sender,
\* the lost recording is accounted for.
LEMMA WithinFrame ==
    ASSUME TypeOK, NEW d \in Ids, Within(d),
           Cardinality(Spare(d)') \in Nat,
           Cardinality(Spare(d)') <= Cardinality(Spare(d)),
           attempts'[d] = attempts[d], sends'[d] = sends[d],
           \/ status'[d] = status[d]
           \/ status[d] \in {"absent", "in_flight"} /\ status'[d] = "pending",
           crashes' \in Nat, dberrors' \in Nat,
           \/ (Held(d) => Held(d)') /\ crashes' = crashes /\ dberrors' = dberrors
           \/ crashes' + dberrors' = crashes + dberrors + 1
    PROVE  Within(d)'
<1>1. status'[d] # "delivered" =>
         attempts'[d] + Cardinality(Spare(d)') <= Allowed + Cardinality(Workers) - 2
  BY Numbers DEF Within
<1>2. status'[d] \in {"absent", "pending", "in_flight"} =>
         sends'[d] <= attempts'[d] + (IF Held(d)' THEN 1 ELSE 0) + crashes' + dberrors'
  BY Numbers DEF Within
<1>3. sends'[d] <= Allowed + Cardinality(Workers) - 1 + crashes' + dberrors'
  BY Numbers DEF Within
<1> QED
  BY <1>1, <1>2, <1>3 DEF Within

\* A worker goes on with the rest of its batch.
LEMMA RestOfBatch ==
    ASSUME TypeOK, Distinct, NEW w \in Workers, batch[w] # <<>>,
           batch' = [batch EXCEPT ![w] = Tail(@)]
    PROVE  /\ 1 \in 1..Len(batch[w]) /\ Head(batch[w]) = batch[w][1]
           /\ \A i \in 1..Len(batch'[w]) : \E j \in 1..Len(batch[w]) :
                 j # 1 /\ batch'[w][i] = batch[w][j]
           /\ \A i, j \in 1..Len(batch'[w]) : batch'[w][i].id = batch'[w][j].id => i = j
           /\ \A i \in 1..Len(batch'[w]) : batch'[w][i].id # batch[w][1].id
           /\ \A v \in Workers : v # w => batch'[v] = batch[v]
<1> DEFINE t == Tail(batch[w])
<1>1. /\ 1 \in 1..Len(batch[w]) /\ Head(batch[w]) = batch[w][1]
      /\ \A i \in 1..Len(t) : /\ i + 1 \in 1..Len(batch[w]) /\ i + 1 # 1
                              /\ t[i] = batch[w][i + 1]
  BY TailOfBatch
<1>2. batch'[w] = t /\ \A v \in Workers : v # w => batch'[v] = batch[v]
  BY DEF TypeOK, TasksOK
<1> HIDE DEF t
<1> DEFINE u == batch'[w]
<1> HIDE DEF u
<1>3. \A i \in 1..Len(t) : \E j \in 1..Len(batch[w]) : j # 1 /\ t[i] = batch[w][j]
  BY <1>1
<1>4. ASSUME NEW i \in 1..Len(t), NEW j \in 1..Len(t), t[i].id = t[j].id
      PROVE  i = j
  <2> DEFINE m == i + 1
             n == j + 1
  <2>1. m \in 1..Len(batch[w]) /\ n \in 1..Len(batch[w]) /\ batch[w][m].id = batch[w][n].id
    BY <1>1, <1>4
  <2>2. m = n => i = j
    OBVIOUS
  <2> HIDE DEF m, n
  <2> QED
    BY <2>1, <2>2 DEF Distinct
<1>5. \A i \in 1..Len(t) : t[i].id # batch[w][1].id
  BY <1>1, <1>3 DEF Distinct
<1>6. u = t
  BY <1>2 DEF u
<1>7. \A i, j \in 1..Len(u) : u[i].id = u[j].id => i = j
  BY <1>4, <1>6
<1>8. \A i \in 1..Len(u) : /\ u[i].id # batch[w][1].id
                          /\ \E j \in 1..Len(batch[w]) : j # 1 /\ u[i] = batch[w][j]
  BY <1>3, <1>5, <1>6
<1> QED
  BY <1>1, <1>2, <1>7, <1>8 DEF u

LEMMA DistinctStep ==
    ASSUME TypeOK, Distinct, [Next]_vars
    PROVE  Distinct'
<1> USE DEF Distinct
<1>1. ASSUME NEW w \in Workers, Poll(w) PROVE Distinct'
  <2>1. UNCHANGED <<pc, job>> /\ ~Holding(w)
    BY <1>1 DEF Poll, Holding
  <2> QED
    BY <1>1, <2>1, PolledBatch DEF Holding
<1>2. ASSUME NEW w \in Workers, Claim(w) PROVE Distinct'
  <2>1. /\ batch[w] # <<>>
        /\ batch' = [batch EXCEPT ![w] = Tail(@)] /\ job' = [job EXCEPT ![w] = Head(batch[w])]
        /\ pc' = [pc EXCEPT ![w] = "sending"]
    BY <1>2 DEF Claim, Send
  <2>2. /\ job'[w] = Head(batch[w])
        /\ \A v \in Workers : v # w => job'[v] = job[v] /\ (Holding(v)' => Holding(v))
    BY <2>1 DEF TypeOK, TasksOK, Holding
  <2>3. /\ Head(batch[w]) = batch[w][1]
        /\ \A i, j \in 1..Len(batch'[w]) : batch'[w][i].id = batch'[w][j].id => i = j
        /\ \A i \in 1..Len(batch'[w]) : batch'[w][i].id # batch[w][1].id
        /\ \A v \in Workers : v # w => batch'[v] = batch[v]
    BY <2>1, RestOfBatch
  <2>4. ASSUME NEW v \in Workers, v # w
        PROVE  /\ \A i, j \in 1..Len(batch'[v]) : batch'[v][i].id = batch'[v][j].id => i = j
               /\ Holding(v)' => \A i \in 1..Len(batch'[v]) : batch'[v][i].id # job'[v].id
    BY <2>2, <2>3, <2>4
  <2>5. \A i \in 1..Len(batch'[w]) : batch'[w][i].id # job'[w].id
    BY <2>2, <2>3
  <2> QED
    BY <2>3, <2>4, <2>5
<1>3. ASSUME NEW w \in Workers,
             \/ Reject(w) \/ LoseClaim(w)
             \/ DbError(w) /\ batch'[w] # batch[w]
      PROVE  Distinct'
  <2>1. /\ pc[w] = "loop" /\ UNCHANGED <<pc, job>>
        /\ batch[w] # <<>> /\ batch' = [batch EXCEPT ![w] = Tail(@)]
    BY <1>3 DEF Reject, LoseClaim, DbError, Release
  <2> QED
    BY <2>1, RestOfBatch DEF Holding
<1>4. ASSUME NEW w \in Workers,
             \/ Boot(w) \/ Stop(w) \/ Record(w) \/ \E o \in Outcome : Answer(w, o)
             \/ DbError(w) /\ batch'[w] = batch[w]
      PROVE  Distinct'
  <2>1. batch' = batch
    BY <1>4 DEF Boot, Stop, Record, Answer, DbError, Release, reset_stale_in_flight, TypeOK,
       TasksOK
  <2>2. \A v \in Workers : Holding(v)' => Holding(v) /\ job'[v] = job[v]
    BY <1>4 DEF Boot, Stop, Record, Answer, DbError, Release, Holding, reset_stale_in_flight,
       TypeOK, TasksOK
  <2> QED
    BY <2>1, <2>2
<1>5. ASSUME \/ \E d \in Ids : Submit(d) \/ Replay(d)
             \/ Shutdown \/ Tick \/ UNCHANGED vars
      PROVE  Distinct'
  <2>1. UNCHANGED <<pc, batch, job>>
    BY <1>5 DEF Submit, Replay, Shutdown, Tick, vars, tasks
  <2> QED
    BY <2>1 DEF Holding
<1>6. ASSUME Crash PROVE Distinct'
  <2>1. \A v \in Workers : Len(batch'[v]) = 0 /\ ~Holding(v)'
    BY <1>6 DEF Crash, Holding
  <2> QED
    BY <2>1
<1>7. ASSUME Restart PROVE Distinct'
  <2>1. batch' = batch /\ \A v \in Workers : ~Holding(v)'
    BY <1>7 DEF Restart, Holding
  <2> QED
    BY <2>1
<1> QED
  BY <1>1, <1>2, <1>3, <1>4, <1>5, <1>6, <1>7 DEF Next, WorkerStep

LEMMA WithinStep ==
    ASSUME StableConfig, TypeOK, Custody, Distinct, [Next]_vars, NEW d \in Ids, Within(d)
    PROVE  Within(d)'
<1>1. /\ crashes \in Nat /\ dberrors \in Nat
      /\ status \in [Ids -> DeliveryStatus \union {"absent"}]
      /\ attempts \in [Ids -> Nat] /\ sends \in [Ids -> Nat]
  BY DEF TypeOK, RowsOK, HistoryOK
<1>2. ASSUME NEW w \in Workers, Boot(w) PROVE Within(d)'
  <2>1. /\ UNCHANGED <<attempts, sends, crashes, dberrors, batch, job>>
        /\ status'[d] = status[d] \/ (status[d] = "in_flight" /\ status'[d] = "pending")
        /\ \A v \in Workers : Holding(v)' <=> Holding(v)
    BY <1>2 DEF Boot, reset_stale_in_flight, history, Holding, TypeOK, TasksOK
  <2>2. Inherits /\ (Held(d) => Held(d)')
    BY <2>1 DEF Inherits, Held
  <2> QED
    BY <1>1, <2>1, <2>2, SpareShrinks, WithinFrame
<1>3. ASSUME NEW w \in Workers, Poll(w) PROVE Within(d)'
  <2>1. UNCHANGED <<attempts, sends, status, crashes, dberrors, pc, job>> /\ ~Holding(w)
    BY <1>3 DEF Poll, rows, history, Holding
  <2>2. Held(d)' <=> Held(d)
    BY <2>1 DEF Held, Holding
  <2>3. Cardinality(Spare(d)') \in Nat /\ Cardinality(Spare(d)') <= Cardinality(Workers)
    <3>1. Spare(d)' \subseteq Workers
      BY DEF Spare
    <3> QED
      BY <3>1, ConfigAssumption, FS_Subset, FS_CardinalityType DEF Config
  <2>4. CASE attempts[d] + 1 < Allowed
    <3>1. attempts'[d] + Cardinality(Spare(d)') <= Allowed + Cardinality(Workers) - 2
      BY <2>1, <2>3, <2>4, Numbers
    <3> QED
      BY <2>1, <2>2, <3>1 DEF Within
  <2>5. CASE ~(attempts[d] + 1 < Allowed)
    <3>1. \A i \in 1..Len(batch'[w]) : ~Retries(batch'[w][i], d)
      BY <1>3, <2>5, PolledBatch DEF Retries
    <3>2. \A v \in Workers : v # w => batch'[v] = batch[v]
      BY <1>3, PolledBatch
    <3>3. Spare(d)' \subseteq Spare(d)
      BY <2>1, <3>1, <3>2 DEF Spare, Holding, Retries
    <3>4. Cardinality(Spare(d)') <= Cardinality(Spare(d))
      BY <3>3, Numbers, FS_Subset
    <3> QED
      BY <1>1, <2>1, <2>2, <2>3, <3>4, WithinFrame
  <2> QED
    BY <2>4, <2>5
<1>4. ASSUME NEW w \in Workers, Stop(w) \/ \E o \in Outcome : Answer(w, o) PROVE Within(d)'
  <2>1. /\ UNCHANGED <<attempts, sends, status, crashes, dberrors, batch, job>>
        /\ \A v \in Workers : Holding(v)' <=> Holding(v)
    BY <1>4 DEF Stop, Answer, rows, history, Holding, TypeOK, TasksOK
  <2>2. Inherits /\ (Held(d) => Held(d)')
    BY <2>1 DEF Inherits, Held
  <2> QED
    BY <1>1, <2>1, <2>2, SpareShrinks, WithinFrame
<1>5. ASSUME NEW w \in Workers, LoseClaim(w) PROVE Within(d)'
  <2>1. /\ UNCHANGED <<attempts, sends, status, crashes, dberrors, pc, job>>
        /\ batch[w] # <<>> /\ batch' = [batch EXCEPT ![w] = Tail(@)]
    BY <1>5 DEF LoseClaim, rows, history
  <2>2. Inherits /\ (Held(d) => Held(d)')
    BY <2>1, RestOfBatch DEF Inherits, Held, Holding
  <2> QED
    BY <1>1, <2>1, <2>2, SpareShrinks, WithinFrame
<1>6. ASSUME NEW w \in Workers, Claim(w) PROVE Within(d)'
  <2> DEFINE e == Head(batch[w]).id
  <2>1. /\ UNCHANGED <<attempts, crashes, dberrors>> /\ pc[w] = "loop"
        /\ batch[w] # <<>> /\ batch' = [batch EXCEPT ![w] = Tail(@)]
        /\ job' = [job EXCEPT ![w] = Head(batch[w])]
        /\ pc' = [pc EXCEPT ![w] = "sending"]
        /\ status[e] = "pending" /\ status' = [status EXCEPT ![e] = "in_flight"]
        /\ sends' = [sends EXCEPT ![e] = @ + 1]
    BY <1>6 DEF Claim, claim, Send, SetStatus
  <2>2. e \in Ids
    BY <2>1, HeadType DEF TypeOK
  <2>3. /\ Holding(w)' /\ ~Holding(w) /\ job'[w] = Head(batch[w])
        /\ \A v \in Workers : v # w => job'[v] = job[v] /\ (Holding(v)' <=> Holding(v))
    BY <2>1 DEF TypeOK, TasksOK, Holding
  <2>4. Inherits
    BY <2>1, <2>3, RestOfBatch DEF Inherits
  <2>5. /\ Cardinality(Spare(d)') \in Nat
        /\ Cardinality(Spare(d)') <= Cardinality(Spare(d))
    BY <2>4, SpareShrinks
  <2>6. CASE d = e
    <3>1. ~Held(d)
      BY <2>1, <2>6 DEF Held, Custody
    <3>2. Held(d)'
      BY <2>3, <2>6 DEF Held
    <3>3. status[d] = "pending" /\ status'[d] = "in_flight" /\ sends'[d] = sends[d] + 1
      BY <1>1, <2>1, <2>6
    <3> HIDE DEF e
    <3>4. sends[d] <= attempts[d] + crashes + dberrors
      BY <3>1, <3>3, Numbers DEF Within
    <3>5. attempts[d] + Cardinality(Spare(d)) <= Allowed + Cardinality(Workers) - 2
      BY <3>3 DEF Within
    <3>6. UNCHANGED <<attempts, crashes, dberrors>>
      BY <2>1
    <3>7. attempts'[d] + Cardinality(Spare(d)') <= Allowed + Cardinality(Workers) - 2
      BY <2>5, <3>5, <3>6, Numbers
    <3>8. sends'[d] <= attempts'[d] + (IF Held(d)' THEN 1 ELSE 0) + crashes' + dberrors'
      BY <3>2, <3>3, <3>4, <3>6, Numbers
    <3>9. sends'[d] <= Allowed + Cardinality(Workers) - 1 + crashes' + dberrors'
      BY <3>3, <3>4, <3>5, <3>6, Numbers
    <3> QED
      BY <3>7, <3>8, <3>9 DEF Within
  <2>7. CASE d # e
    <3>1. status'[d] = status[d] /\ sends'[d] = sends[d]
      BY <1>1, <2>1, <2>2, <2>7
    <3>2. Held(d) => Held(d)'
      BY <2>3 DEF Held
    <3> HIDE DEF e
    <3> QED
      BY <1>1, <2>1, <2>5, <3>1, <3>2, WithinFrame
  <2> QED
    BY <2>6, <2>7
<1>7. ASSUME NEW w \in Workers, Record(w) PROVE Within(d)'
  <2> DEFINE e == job[w].id
             attempt == job[w].attempts + 1
  <2>1. /\ e \in Ids /\ Holding(w) /\ Release(w)
        /\ UNCHANGED <<sends, crashes, dberrors, batch>>
        /\ \/ mark_delivered(e)
           \/ dead_letter(e)
           \/ attempt < MaxAttempts /\ \E next \in Nat : schedule_retry(e, next)
    BY <1>7, RecordedRow DEF history, Release
  <2>2. /\ ~Holding(w)'
        /\ \A v \in Workers : v # w => job'[v] = job[v] /\ (Holding(v)' <=> Holding(v))
    BY <2>1 DEF Release, TypeOK, TasksOK, Holding
  <2>3. Inherits
    BY <2>1, <2>2 DEF Inherits
  <2>4. /\ Spare(d)' \subseteq Spare(d)
        /\ Cardinality(Spare(d)') \in Nat
        /\ Cardinality(Spare(d)') <= Cardinality(Spare(d))
    BY <2>3, SpareShrinks
  <2>5. \/ /\ status' = [status EXCEPT ![e] = "delivered"]
           /\ attempts' = [attempts EXCEPT ![e] = @ + 1]
        \/ /\ status' = [status EXCEPT ![e] = "dead_letter"]
           /\ attempts' = attempts
        \/ /\ status' = [status EXCEPT ![e] = "pending"]
           /\ attempts' = [attempts EXCEPT ![e] = @ + 1]
           /\ attempt < MaxAttempts
    BY <2>1 DEF mark_delivered, dead_letter, schedule_retry, SetStatus
  <2>6. CASE d = e
    <3>1. status[d] = "in_flight" /\ Held(d)
      BY <2>1, <2>6 DEF Custody, Held
    <3>2. sends[d] <= attempts[d] + 1 + crashes + dberrors
      BY <3>1, Numbers DEF Within
    <3>3. CASE status'[d] = "delivered"
      BY <2>1, <3>3 DEF Within
    <3>4. CASE status'[d] = "dead_letter" /\ attempts'[d] = attempts[d]
      BY <2>1, <2>4, <3>1, <3>4, Numbers DEF Within
    <3>5. CASE /\ status'[d] = "pending" /\ attempts'[d] = attempts[d] + 1
               /\ attempt < MaxAttempts
      <4>1. attempt < Allowed
        BY <3>5, <2>1, ConfigAssumption DEF Config, Allowed, MaxOf, TypeOK, Holding, Snapshot
      <4>2. w \in Spare(d)
        BY <2>1, <2>6, <4>1 DEF Spare, Retries
      <4>3. w \notin Spare(d)'
        BY <2>1, <2>2, <2>6 DEF Spare, Retries, Distinct
      <4>4. Spare(d)' \subseteq Spare(d) \ {w}
        BY <2>4, <4>3
      <4>5. /\ IsFiniteSet(Spare(d) \ {w})
            /\ Cardinality(Spare(d) \ {w}) = Cardinality(Spare(d)) - 1
        BY <4>2, Numbers, FS_RemoveElement
      <4>6. Cardinality(Spare(d)') <= Cardinality(Spare(d)) - 1
        BY <4>4, <4>5, FS_Subset
      <4>7. attempts[d] + Cardinality(Spare(d)) <= Allowed + Cardinality(Workers) - 2
        BY <3>1 DEF Within
      <4> HIDE DEF e, attempt
      <4>8. attempts'[d] + Cardinality(Spare(d)') <= Allowed + Cardinality(Workers) - 2
        BY <2>4, <3>5, <4>6, <4>7, Numbers
      <4>9. sends'[d] <= attempts'[d] + (IF Held(d)' THEN 1 ELSE 0) + crashes' + dberrors'
        BY <2>1, <3>2, <3>5, Numbers
      <4>10. sends'[d] <= Allowed + Cardinality(Workers) - 1 + crashes' + dberrors'
        BY <2>1 DEF Within
      <4> QED
        BY <4>8, <4>9, <4>10 DEF Within
    <3> QED
      BY <1>1, <2>5, <2>6, <3>3, <3>4, <3>5
  <2>7. CASE d # e
    <3>1. status'[d] = status[d] /\ attempts'[d] = attempts[d]
      BY <1>1, <2>1, <2>5, <2>7
    <3>2. Held(d) => Held(d)'
      BY <2>2, <2>7 DEF Held
    <3> HIDE DEF e, attempt
    <3> QED
      BY <1>1, <2>1, <2>4, <3>1, <3>2, WithinFrame
  <2> QED
    BY <2>6, <2>7
<1>8. ASSUME NEW w \in Workers, DbError(w) PROVE Within(d)'
  <2>1. /\ UNCHANGED <<attempts, sends, status, crashes>> /\ dberrors' = dberrors + 1
        /\ \A v \in Workers : Holding(v)' => Holding(v) /\ job'[v] = job[v]
        /\ \/ batch' = batch
           \/ batch[w] # <<>> /\ batch' = [batch EXCEPT ![w] = Tail(@)]
    BY <1>8 DEF DbError, Release, rows, Holding, TypeOK, TasksOK
  <2>2. Inherits
    BY <2>1, RestOfBatch DEF Inherits
  <2>3. /\ crashes' \in Nat /\ dberrors' \in Nat
        /\ crashes' + dberrors' = crashes + dberrors + 1
    BY <1>1, <1>8 DEF DbError
  <2>4. /\ Cardinality(Spare(d)') \in Nat
        /\ Cardinality(Spare(d)') <= Cardinality(Spare(d))
    BY <2>2, SpareShrinks
  <2> QED
    BY <2>1, <2>3, <2>4, WithinFrame
<1>9. ASSUME NEW e \in Ids, Submit(e) PROVE Within(d)'
  <2>1. /\ UNCHANGED <<attempts, sends, crashes, dberrors, pc, batch, job>>
        /\ status'[d] = status[d] \/ (status[d] = "absent" /\ status'[d] = "pending")
    BY <1>1, <1>9 DEF Submit, insert, SetStatus, tasks, history
  <2>2. Inherits /\ (Held(d) => Held(d)')
    BY <2>1 DEF Inherits, Held, Holding
  <2> QED
    BY <1>1, <2>1, <2>2, SpareShrinks, WithinFrame
<1>10. ASSUME NEW e \in Ids, Replay(e) PROVE Within(d)'
  <2>1. UNCHANGED <<crashes, dberrors, pc, batch, job>>
    BY <1>10 DEF Replay, tasks
  <2>2. Inherits /\ (Held(d) => Held(d)')
    BY <2>1 DEF Inherits, Held, Holding
  <2>3. /\ Cardinality(Spare(d)') \in Nat
        /\ Cardinality(Spare(d)') <= Cardinality(Spare(d))
    BY <2>2, SpareShrinks
  <2>4. CASE d = e
    <3>1. sends'[d] = 0 /\ attempts'[d] = 0
      BY <1>1, <1>10, <2>4 DEF Replay, replay_dead_letter
    <3>2. Cardinality(Spare(d)) <= Allowed + Cardinality(Workers) - 2
      <4>1. CASE Allowed >= 2
        BY <4>1, Numbers
      <4>2. CASE Allowed < 2
        BY <4>2, <1>1, <1>10, <2>4, Numbers DEF Within, Replay, replay_dead_letter
      <4> QED
        BY <4>1, <4>2, Numbers
    <3> QED
      BY <2>1, <2>3, <3>1, <3>2, Numbers DEF Within
  <2>5. CASE d # e
    <3>1. UNCHANGED <<status[d], attempts[d], sends[d]>>
      BY <1>1, <1>10, <2>5 DEF Replay, replay_dead_letter, SetStatus
    <3> QED
      BY <1>1, <2>1, <2>2, <2>3, <3>1, WithinFrame
  <2> QED
    BY <2>4, <2>5
<1>11. ASSUME Crash PROVE Within(d)'
  <2>1. /\ UNCHANGED <<attempts, sends, status, dberrors>> /\ crashes' = crashes + 1
        /\ \A v \in Workers : Len(batch'[v]) = 0 /\ ~Holding(v)'
    BY <1>11 DEF Crash, rows, Holding
  <2>2. Inherits
    BY <2>1 DEF Inherits
  <2> QED
    BY <1>1, <2>1, <2>2, SpareShrinks, WithinFrame
<1>12. ASSUME Restart PROVE Within(d)'
  <2>1. /\ UNCHANGED <<attempts, sends, status, crashes, dberrors, batch, job>>
        /\ \A v \in Workers : ~Holding(v) /\ ~Holding(v)'
    BY <1>12 DEF Restart, Up, rows, history, Holding
  <2>2. Inherits /\ (Held(d) => Held(d)')
    BY <2>1 DEF Inherits, Held
  <2> QED
    BY <1>1, <2>1, <2>2, SpareShrinks, WithinFrame
<1>13. ASSUME Shutdown \/ Tick \/ UNCHANGED vars PROVE Within(d)'
  <2>1. UNCHANGED <<attempts, sends, status, crashes, dberrors, batch, job, pc>>
    BY <1>13 DEF Shutdown, Tick, vars, rows, tasks, history
  <2>2. Inherits /\ (Held(d) => Held(d)')
    BY <2>1 DEF Inherits, Held, Holding
  <2> QED
    BY <1>1, <2>1, <2>2, SpareShrinks, WithinFrame
<1>14. ~\E w \in Workers : Reject(w)
  BY DEF Reject, StableConfig
<1> QED
  BY <1>2, <1>3, <1>4, <1>5, <1>6, <1>7, <1>8, <1>9, <1>10, <1>11, <1>12, <1>13, <1>14
     DEF Next, WorkerStep

\* With a stable configuration the stale snapshots of other workers add one
\* send each at most, and each crash or lost recording one more, for any
\* workers, batches and MAX_ATTEMPTS.
THEOREM SendBoundHolds ==
    ASSUME StableConfig
    PROVE  Spec => []SendBound
<1> DEFINE Inv == Distinct /\ \A d \in Ids : Within(d)
<1>1. Init => TypeOK /\ Inv
  <2> SUFFICES ASSUME Init PROVE TypeOK /\ Inv
    OBVIOUS
  <2>1. TypeOK
    BY InitType
  <2>2. \A w \in Workers : Len(batch[w]) = 0 /\ ~Holding(w)
    BY DEF Init, Holding
  <2>3. ASSUME NEW d \in Ids PROVE Within(d)
    <3>1. Spare(d) = {} /\ ~Held(d)
      BY <2>2 DEF Spare, Held
    <3>2. Cardinality(Spare(d)) = 0
      BY <3>1, FS_EmptySet
    <3> QED
      BY <2>1, <3>1, <3>2, Numbers DEF Init, Within
  <2> QED
    BY <2>1, <2>2, <2>3 DEF Distinct
<1>2. StableConfig /\ TypeOK /\ Custody /\ Inv /\ [Next]_vars => Inv'
  <2> SUFFICES ASSUME StableConfig, TypeOK, Custody, Inv, [Next]_vars
               PROVE  Inv'
    OBVIOUS
  <2>1. Distinct'
    BY DistinctStep
  <2>2. \A d \in Ids : Within(d)'
    BY WithinStep
  <2> QED
    BY <2>1, <2>2
<1>3. Inv => SendBound
  BY DEF Within, SendBound, Allowed
<1>4. Spec => []Custody
  BY CustodyHolds
<1> QED
  BY <1>1, <1>2, <1>3, <1>4, TypeCorrect, PTL DEF Spec

\* What the README says of MAX_ATTEMPTS holds as an upper bound for a process
\* of one worker (WORKER_COUNT = 1), the least MAX_ATTEMPTS being 1: it has no
\* other worker's stale snapshot to send from.
THEOREM OneWorkerSendsAtMostMaxAttempts ==
    ASSUME StableConfig, Cardinality(Workers) = 1, MaxAttempts > 0
    PROVE  Spec => []AtMostMaxAttemptsSends
<1>1. SendBound => AtMostMaxAttemptsSends
  BY ConfigAssumption DEF Config, SendBound, AtMostMaxAttemptsSends, MaxOf
<1> QED
  BY <1>1, SendBoundHolds, PTL

(***************************************************************************)
(* Outcomes, and rows that nobody has                                      *)
(***************************************************************************)

\* What no step may do to an outcome: take back a delivery, or move a dead
\* letter without an operator's replay that is counted.
OutcomesKept ==
    \A d \in Ids :
        /\ status[d] = "delivered" => status'[d] = "delivered"
        /\ status[d] = "dead_letter" /\ status'[d] # "dead_letter" =>
              status'[d] = "pending" /\ replayed'[d] = replayed[d] + 1

\* Where a row that is not pending may go.
LEMMA RowStep ==
    ASSUME StableConfig, TypeOK, Custody, [Next]_vars, NEW d \in Ids,
           status[d] \notin {"absent", "pending"}
    PROVE  \/ status'[d] = status[d]
           \/ /\ status[d] = "in_flight"
              /\ Held(d) \/ \E w \in Workers : Boot(w)
           \/ /\ status[d] = "dead_letter"
              /\ Replay(d)
<1> DEFINE Same == status'[d] = status[d]
<1>1. ASSUME NEW w \in Workers, Boot(w)
      PROVE  Same \/ status[d] = "in_flight"
  BY <1>1 DEF Boot, reset_stale_in_flight
<1>2. ASSUME NEW w \in Workers, Claim(w) PROVE Same
  BY <1>2, HeadType DEF Claim, claim, SetStatus, TypeOK, RowsOK
<1>3. ASSUME NEW w \in Workers, Record(w)
      PROVE  Same \/ (status[d] = "in_flight" /\ Held(d))
  <2> DEFINE e == job[w].id
  <2>1. /\ e \in Ids /\ Holding(w) /\ status[e] = "in_flight"
        /\ mark_delivered(e) \/ dead_letter(e) \/ \E next \in Nat : schedule_retry(e, next)
    BY <1>3, RecordedRow DEF Record, Holding, Custody
  <2>2. \E s \in {"delivered", "dead_letter", "pending"} : status' = [status EXCEPT ![e] = s]
    BY <2>1 DEF mark_delivered, dead_letter, schedule_retry, SetStatus
  <2>3. d # e => Same
    BY <2>2 DEF TypeOK, RowsOK
  <2> QED
    BY <2>1, <2>3 DEF Held
<1>4. ASSUME NEW e \in Ids, Submit(e) PROVE Same
  BY <1>4 DEF Submit, insert, SetStatus, TypeOK, RowsOK
<1>5. ASSUME NEW e \in Ids, Replay(e) PROVE Same \/ e = d
  BY <1>5 DEF Replay, replay_dead_letter, SetStatus, TypeOK, RowsOK
<1>6. Replay(d) => status[d] = "dead_letter"
  BY DEF Replay, replay_dead_letter
<1>7. ASSUME NEW w \in Workers, Reject(w) PROVE FALSE
  BY <1>7 DEF Reject, StableConfig
<1>8. ASSUME \/ \E w \in Workers : \/ Poll(w) \/ Stop(w) \/ LoseClaim(w) \/ DbError(w)
                                    \/ \E o \in Outcome : Answer(w, o)
             \/ Shutdown \/ Crash \/ Restart \/ Tick \/ UNCHANGED vars
      PROVE  Same
  BY <1>8 DEF Poll, Stop, LoseClaim, DbError, Answer, Shutdown, Crash, Restart, Tick, vars,
     rows
<1> QED
  BY <1>1, <1>2, <1>3, <1>4, <1>5, <1>6, <1>7, <1>8 DEF Next, WorkerStep

\* However stale a worker's snapshot is, it never overwrites an outcome: with a
\* stable configuration a delivered row stays delivered and a dead letter is
\* left to the operator.
THEOREM OutcomesAreFinal ==
    ASSUME StableConfig
    PROVE  Spec => [][OutcomesKept]_vars
<1>1. StableConfig /\ TypeOK /\ Custody /\ [Next]_vars => OutcomesKept
  <2> SUFFICES ASSUME StableConfig, TypeOK, Custody, [Next]_vars, NEW d \in Ids
               PROVE  /\ status[d] = "delivered" => status'[d] = "delivered"
                      /\ status[d] = "dead_letter" /\ status'[d] # "dead_letter" =>
                            status'[d] = "pending" /\ replayed'[d] = replayed[d] + 1
    BY DEF OutcomesKept
  <2>1. Replay(d) => status'[d] = "pending" /\ replayed'[d] = replayed[d] + 1
    BY DEF Replay, replay_dead_letter, SetStatus, TypeOK, RowsOK, HistoryOK
  <2> QED
    BY <2>1, RowStep
<1> QED
  BY <1>1, TypeCorrect, CustodyHolds, PTL DEF Spec

\* A row in flight that no worker is sending: its process died, or the
\* statement that was to record the send failed.
Abandoned(d) == status[d] = "in_flight" /\ ~Held(d)

\* What RestartLosesNoRow runs into: with a stable configuration nothing but
\* the reset of a worker that starts ever takes up an abandoned row, so one that
\* is not yet stale when the last worker has started waits for another restart.
THEOREM AbandonedUntilBoot ==
    ASSUME StableConfig
    PROVE  Spec => [][\A d \in Ids : Abandoned(d) =>
                         Abandoned(d)' \/ \E w \in Workers : Boot(w)]_vars
<1>1. StableConfig /\ TypeOK /\ Custody /\ [Next]_vars =>
         \A d \in Ids : Abandoned(d) => Abandoned(d)' \/ \E w \in Workers : Boot(w)
  <2> SUFFICES ASSUME StableConfig, TypeOK, Custody, [Next]_vars,
                      NEW d \in Ids, Abandoned(d), ~\E w \in Workers : Boot(w)
               PROVE  Abandoned(d)'
    OBVIOUS
  <2>1. status[d] = "in_flight" /\ ~Held(d)
    BY DEF Abandoned
  <2>2. status'[d] = "in_flight"
    BY <2>1, RowStep
  <2>3. ASSUME NEW v \in Workers, Holding(v)', job'[v].id = d
        PROVE  FALSE
    <3>0. ~(Holding(v) /\ job[v].id = d)
      BY <2>1 DEF Held
    <3>1. ASSUME NEW w \in Workers, Claim(w) PROVE FALSE
      <4>1. /\ status[Head(batch[w]).id] = "pending"
            /\ job'[w] = Head(batch[w])
            /\ \A u \in Workers : u # w => pc'[u] = pc[u] /\ job'[u] = job[u]
        BY <3>1 DEF Claim, claim, Send, TypeOK, TasksOK
      <4> QED
        BY <2>1, <2>3, <3>0, <4>1 DEF Holding
    <3>2. ASSUME NEW w \in Workers, Record(w) \/ DbError(w) PROVE FALSE
      <4>1. \A u \in Workers : Holding(u)' => Holding(u) /\ job'[u] = job[u]
        BY <3>2 DEF Record, DbError, Release, Holding, TypeOK, TasksOK
      <4> QED
        BY <2>3, <3>0, <4>1
    <3>3. ASSUME NEW w \in Workers, NEW o \in Outcome, Answer(w, o) PROVE FALSE
      <4>1. \A u \in Workers : Holding(u)' => Holding(u) /\ job'[u] = job[u]
        BY <3>3 DEF Answer, Holding, TypeOK, TasksOK
      <4> QED
        BY <2>3, <3>0, <4>1
    <3>4. ASSUME NEW w \in Workers, Poll(w) \/ Stop(w) \/ LoseClaim(w) \/ Reject(w)
          PROVE  FALSE
      <4>1. \A u \in Workers : Holding(u)' => Holding(u) /\ job'[u] = job[u]
        BY <3>4 DEF Poll, Stop, LoseClaim, Reject, Holding, TypeOK, TasksOK
      <4> QED
        BY <2>3, <3>0, <4>1
    <3>5. ASSUME \/ \E e \in Ids : Submit(e) \/ Replay(e)
                 \/ Shutdown \/ Tick \/ UNCHANGED vars
          PROVE  FALSE
      <4>1. pc' = pc /\ job' = job
        BY <3>5 DEF Submit, Replay, Shutdown, Tick, vars, tasks
      <4> QED
        BY <2>3, <3>0, <4>1 DEF Holding
    <3>6. ASSUME Crash \/ Restart PROVE FALSE
      BY <2>3, <3>6 DEF Crash, Restart, Holding
    <3> QED
      BY <3>1, <3>2, <3>3, <3>4, <3>5, <3>6 DEF Next, WorkerStep
  <2> QED
    BY <2>2, <2>3 DEF Abandoned, Held
<1> QED
  BY <1>1, TypeCorrect, CustodyHolds, PTL DEF Spec
=============================================================================
