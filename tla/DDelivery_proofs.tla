-------------------------- MODULE DDelivery_proofs --------------------------
(***************************************************************************)
(* Proofs about service d, for any payloads, any number of redeliver       *)
(* requests and any configuration.                                         *)
(***************************************************************************)
EXTENDS DDelivery, FiniteSetTheorems, SequenceTheorems, TLAPS

\* Ids are drawn in order, the tables are finite, and a redeliver request
\* under way has read an entry.
Numbered ==
    /\ IsFiniteSet(jobs)
    /\ \A j \in jobs : j.id <= ids
    /\ \A i \in 1..Len(batch) : batch[i].id <= ids
    /\ \A e \in dead_letters : e.id <= entry_ids /\ e.job_id <= ids
    /\ \A h \in Handlers : hpc[h] # "idle" => entry[h] \in DlqEntry /\ entry[h].id <= entry_ids

Shape == TypeOK /\ Numbered

Working == wpc \notin {"idle", "asleep"}

(***************************************************************************)
(* What the statements do                                                  *)
(***************************************************************************)

\* The first of the batch, in the worker's hand.
LEMMA InHand ==
    ASSUME Shape, Working
    PROVE  /\ Len(batch) \in Nat \ {0}
           /\ 1 \in 1..Len(batch)
           /\ Head(batch) = batch[1]
           /\ batch[1] \in WebhookJob
           /\ batch[1].id \in JobIds
           /\ batch[1].payload \in Payloads
           /\ batch[1].attempts \in Nat
<1>1. batch \in Seq(WebhookJob) /\ batch # <<>>
  BY DEF Shape, TypeOK, Working
<1>2. Len(batch) \in Nat \ {0} /\ Head(batch) = batch[1] /\ 1 \in 1..Len(batch)
  BY <1>1
<1>3. batch[1] \in WebhookJob
  BY <1>1, <1>2, ElementOfSeq
<1> QED
  BY <1>2, <1>3 DEF WebhookJob

\* The numbers in rows and snapshots.
LEMMA Types ==
    ASSUME Shape
    PROVE  /\ ids \in Nat
           /\ \A i \in 1..Len(batch) : batch[i].id \in JobIds /\ batch[i].attempts \in Nat
           /\ \A j \in jobs : j.id \in JobIds /\ j.attempts \in Nat
           /\ \A e \in dead_letters : e.job_id \in JobIds /\ e.attempts \in Nat
           /\ \A i \in JobIds : i \in Nat /\ sends[i] \in Nat
<1>1. \A i \in 1..Len(batch) : batch[i] \in WebhookJob
  BY ElementOfSeq DEF Shape, TypeOK
<1>2. ids \in Nat
  BY ConfigAssumption DEF Shape, TypeOK, Config
<1>3. \A i \in JobIds : i \in Nat /\ sends[i] \in Nat
  BY DEF Shape, TypeOK, JobIds
<1> QED
  BY <1>1, <1>2, <1>3 DEF Shape, TypeOK, WebhookJob, DlqEntry

\* What is left of the batch when the worker goes on.
LEMMA GoesOn ==
    ASSUME Shape, Working, NextJob
    PROVE  /\ batch' \in Seq(WebhookJob)
           /\ Len(batch) \in Nat \ {0}
           /\ Len(batch') \in Nat
           /\ Len(batch') = Len(batch) - 1
           /\ \A i \in 1..Len(batch') : i + 1 \in 1..Len(batch) /\ batch'[i] = batch[i + 1]
           /\ wpc' \in {"asleep", "batch"}
           /\ wpc' = "asleep" <=> batch' = <<>>
           /\ batch' # <<>> => 1 \in 1..Len(batch') /\ 2 \in 1..Len(batch)
<1>1. batch \in Seq(WebhookJob) /\ batch # <<>> /\ Len(batch) \in Nat \ {0}
  BY InHand DEF Shape, TypeOK
<1> DEFINE t == Tail(batch)
<1>2. /\ t \in Seq(WebhookJob)
      /\ Len(t) = Len(batch) - 1
      /\ \A i \in 1..Len(t) : t[i] = batch[i + 1]
  BY <1>1, HeadTailProperties
<1>3. batch' = t /\ wpc' = IF Len(batch) = 1 THEN "asleep" ELSE "batch"
  BY DEF NextJob
<1> HIDE DEF t
<1>4. t = <<>> <=> Len(batch) = 1
  BY <1>1, <1>2, EmptySeq
<1>5. \A i \in 1..Len(t) : i + 1 \in 1..Len(batch)
  BY <1>1, <1>2
<1>6. t # <<>> => 1 \in 1..Len(t) /\ 2 \in 1..Len(batch)
  BY <1>1, <1>2, <1>3
<1>7. wpc' \in {"asleep", "batch"} /\ (wpc' = "asleep" <=> t = <<>>)
  BY <1>3, <1>4
<1>8. Len(t) \in Nat
  BY <1>1, <1>2
<1> QED
  BY <1>1, <1>2, <1>3, <1>5, <1>6, <1>7, <1>8

\* What a fetch returns: pending rows, each once.
LEMMA FetchedDue ==
    ASSUME Shape, fetch_due
    PROVE  /\ batch' \in Seq(WebhookJob)
           /\ Len(batch') \in Nat
           /\ \A i \in 1..Len(batch') : batch'[i] \in jobs /\ batch'[i].status = "Pending"
           /\ \A i, k \in 1..Len(batch') : batch'[i].id = batch'[k].id => i = k
           /\ wpc' \in {"asleep", "batch"}
           /\ wpc' = "asleep" <=> batch' = <<>>
<1> DEFINE n == MinOf(FetchLimit, Cardinality(Due))
<1>1. IsFiniteSet(Due)
  BY FS_Subset DEF Shape, Numbered, Due
<1>2. Cardinality(Due) \in Nat /\ (Cardinality(Due) = 0 <=> Due = {})
  BY <1>1, FS_CardinalityType, FS_EmptySet
<1>3. n \in Nat /\ (n = 0 <=> Due = {})
  BY <1>2, ConfigAssumption DEF Config, MinOf
<1>4. PICK s \in OldestDue(Due, [j \in Due |-> j.next_attempt_at], FetchLimit) : batch' = s
  BY DEF fetch_due
<1>5. s \in [1..n -> Due] /\ \A i, k \in 1..n : i < k => s[i] # s[k]
  BY DEF OldestDue
<1>6. wpc' = IF Due = {} THEN "asleep" ELSE "batch"
  BY DEF fetch_due
<1> HIDE DEF n
<1>7. s \in Seq(Due) /\ Len(s) = n
  BY <1>3, <1>5
<1>8. \A i \in 1..n : s[i] \in Due /\ s[i] \in jobs /\ s[i].status = "Pending"
  BY <1>5 DEF Due
<1>9. \A i \in 1..n : s[i] \in WebhookJob
  BY <1>8 DEF Shape, TypeOK
<1>10. s \in Seq(WebhookJob)
  BY <1>3, <1>5, <1>9
<1>11. \A i, k \in 1..n : s[i].id = s[k].id => i = k
  <2> SUFFICES ASSUME NEW i \in 1..n, NEW k \in 1..n, s[i].id = s[k].id, i # k
               PROVE  FALSE
    OBVIOUS
  <2>1. s[i] = s[k]
    BY <1>8 DEF Shape, TypeOK
  <2> QED
    BY <1>3, <1>5, <2>1
<1>12. s = <<>> <=> n = 0
  BY <1>7, <1>10, EmptySeq
<1> QED
  BY <1>3, <1>4, <1>6, <1>7, <1>8, <1>10, <1>11, <1>12

\* An UPDATE by id: each row keeps its id and payload, only rows with that id
\* change, and no row comes or goes.
Updated(id) ==
    /\ jobs' \subseteq WebhookJob
    /\ IsFiniteSet(jobs')
    /\ \A i, j \in jobs' : i.id = j.id => i = j
    /\ \A k \in jobs' : \E j \in jobs :
          k.id = j.id /\ k.payload = j.payload /\ (j.id # id => k = j)
    /\ \A j \in jobs : \E k \in jobs' : k.id = j.id /\ k.payload = j.payload

LEMMA UpdateEffect ==
    ASSUME Shape, NEW id, NEW f \in [jobs -> WebhookJob],
           \A j \in jobs : /\ f[j].id = j.id /\ f[j].payload = j.payload
                           /\ j.id # id => f[j] = j,
           jobs' = {f[j] : j \in jobs}
    PROVE  Updated(id)
<1>1. IsFiniteSet(jobs')
  <2>1. IsFiniteSet({f[j] : j \in jobs})
    <3> DEFINE R == {f[j] : j \in jobs}
    <3>1. f \in Surjection(jobs, R)
      BY DEF Surjection
    <3> QED
      BY <3>1, FS_Surjection DEF Shape, Numbered
  <2> QED
    BY <2>1
<1>2. \A i, j \in jobs' : i.id = j.id => i = j
  BY DEF Shape, TypeOK
<1> QED
  BY <1>1, <1>2 DEF Updated

LEMMA BackoffType ==
    ASSUME NEW n \in Nat \ {0}, NEW delay \in Backoff(n)
    PROVE  delay \in Nat
<1> DEFINE c == Capped(RetryBase, MinOf(n - 1, 10), RetryMax)
<1>1. delay \in Jitter20(c)
  BY DEF Backoff
<1>2. c \in Int
  <2>1. 2^MinOf(n - 1, 10) \in Int
    BY DEF MinOf
  <2> QED
    BY <2>1, ConfigAssumption DEF Config, Capped, MinOf
<1> HIDE DEF c
<1> QED
  BY <1>1, <1>2 DEF Jitter20

\* mark_delivered.
Marked ==
    /\ Updated(batch[1].id)
    /\ \A k \in jobs' : \E j \in jobs :
          /\ k.id = j.id /\ k.payload = j.payload /\ k.attempts = j.attempts
          /\ j.id # batch[1].id => k = j
          /\ j.id = batch[1].id => k.status = "Delivered"

LEMMA MarkEffect ==
    ASSUME Shape, mark_delivered
    PROVE  Marked
<1> DEFINE f == [j \in jobs |-> IF j.id = batch[1].id THEN [j EXCEPT !.status = "Delivered"]
                                                     ELSE j]
<1>1. Working /\ Head(batch) = batch[1]
  BY InHand DEF mark_delivered, Working
<1>2. jobs' = {IF j.id = Head(batch).id THEN [j EXCEPT !.status = "Delivered"] ELSE j : j \in jobs}
  BY DEF mark_delivered, Update
<1>3. jobs' = {f[j] : j \in jobs}
  BY <1>1, <1>2
<1>4. \A j \in jobs : /\ f[j] \in WebhookJob
                      /\ f[j].id = j.id /\ f[j].payload = j.payload
                      /\ f[j].attempts = j.attempts
                      /\ j.id # batch[1].id => f[j] = j
                      /\ j.id = batch[1].id => f[j].status = "Delivered"
  BY DEF Shape, TypeOK, WebhookJob
<1>5. f \in [jobs -> WebhookJob]
  BY <1>4
<1> HIDE DEF f
<1>6. Updated(batch[1].id)
  BY <1>3, <1>4, <1>5, UpdateEffect
<1> QED
  BY <1>3, <1>4, <1>6 DEF Marked

\* record_attempt.
Recorded ==
    /\ Updated(batch[1].id)
    /\ \A k \in jobs' : \E j \in jobs :
          /\ k.id = j.id /\ k.payload = j.payload /\ k.status = j.status
          /\ j.id # batch[1].id => k = j
          /\ j.id = batch[1].id => k.attempts = batch[1].attempts + 1

LEMMA RecordEffect ==
    ASSUME Shape, record_attempt
    PROVE  Recorded
<1>1. Working /\ Head(batch) = batch[1] /\ batch[1].attempts \in Nat
  BY InHand DEF record_attempt, Working
<1>2. PICK delay \in Backoff(batch[1].attempts + 1) :
        jobs' = {IF j.id = Head(batch).id
                 THEN [j EXCEPT !.attempts = Head(batch).attempts + 1,
                                !.next_attempt_at = now + delay]
                 ELSE j : j \in jobs}
  BY <1>1 DEF record_attempt, Update
<1>3. now + delay \in Nat
  BY <1>1, BackoffType DEF Shape, TypeOK
<1> DEFINE f == [j \in jobs |-> IF j.id = batch[1].id
                                THEN [j EXCEPT !.attempts = batch[1].attempts + 1,
                                               !.next_attempt_at = now + delay]
                                ELSE j]
<1>4. jobs' = {f[j] : j \in jobs}
  BY <1>1, <1>2
<1>5. \A j \in jobs : /\ f[j] \in WebhookJob
                      /\ f[j].id = j.id /\ f[j].payload = j.payload
                      /\ f[j].status = j.status
                      /\ j.id # batch[1].id => f[j] = j
                      /\ j.id = batch[1].id => f[j].attempts = batch[1].attempts + 1
  <2> DEFINE n == batch[1].attempts + 1
             at == now + delay
  <2>1. n \in Nat /\ at \in Nat
    BY <1>1, <1>3
  <2> HIDE DEF n, at
  <2> SUFFICES ASSUME NEW j \in jobs
               PROVE  LET k == IF j.id = batch[1].id
                               THEN [j EXCEPT !.attempts = n, !.next_attempt_at = at] ELSE j
                      IN  /\ k \in WebhookJob
                          /\ k.id = j.id /\ k.payload = j.payload
                          /\ k.status = j.status
                          /\ j.id # batch[1].id => k = j
                          /\ j.id = batch[1].id => k.attempts = n
    BY DEF n, at
  <2>2. j \in WebhookJob
    BY DEF Shape, TypeOK
  <2> QED
    BY <2>1, <2>2 DEF WebhookJob
<1>6. f \in [jobs -> WebhookJob]
  BY <1>5
<1> HIDE DEF f
<1>7. Updated(batch[1].id)
  BY <1>4, <1>5, <1>6, UpdateEffect
<1> QED
  BY <1>4, <1>5, <1>7 DEF Recorded

\* handle_failure gives up: the copy in hand counts the attempt.
LEMMA GiveUpEffect ==
    ASSUME Shape, GiveUp
    PROVE  /\ batch' \in Seq(WebhookJob)
           /\ batch' # <<>>
           /\ Len(batch') = Len(batch)
           /\ Len(batch) \in Nat
           /\ \A i \in 1..Len(batch) : /\ batch'[i].id = batch[i].id
                                       /\ batch'[i].payload = batch[i].payload
                                       /\ i # 1 => batch'[i] = batch[i]
           /\ batch'[1].attempts = batch[1].attempts + 1
<1>1. /\ batch \in Seq(WebhookJob) /\ Len(batch) \in Nat \ {0} /\ 1 \in 1..Len(batch)
      /\ batch[1] \in WebhookJob
  BY InHand DEF Shape, TypeOK, GiveUp, Working
<1> DEFINE first == [batch[1] EXCEPT !.attempts = @ + 1]
<1>2. batch' = [batch EXCEPT ![1] = first]
  BY <1>1 DEF GiveUp
<1>3. /\ first \in WebhookJob
      /\ first.id = batch[1].id /\ first.payload = batch[1].payload
      /\ first.attempts = batch[1].attempts + 1
  BY <1>1 DEF WebhookJob
<1> HIDE DEF first
<1>4. batch' \in Seq(WebhookJob) /\ Len(batch') = Len(batch)
  BY <1>1, <1>2, <1>3
<1>5. batch' # <<>>
  BY <1>1, <1>4
<1>6. \A i \in 1..Len(batch) : batch'[i] = IF i = 1 THEN first ELSE batch[i]
  BY <1>1, <1>2
<1> QED
  BY <1>1, <1>3, <1>4, <1>5, <1>6

\* A fresh row.
LEMMA NewRow ==
    ASSUME Shape, NEW p \in Payloads, enqueue(p)
    PROVE  /\ ids + 1 \in JobIds /\ ids' = ids + 1
           /\ Row(ids + 1, p) \in WebhookJob
           /\ Row(ids + 1, p).id = ids + 1
           /\ Row(ids + 1, p).payload = p
           /\ Row(ids + 1, p).attempts = 0
           /\ Row(ids + 1, p).status = "Pending"
           /\ jobs' = jobs \union {Row(ids + 1, p)}
<1>1. ids + 1 \in JobIds /\ now \in Nat
  BY ConfigAssumption DEF Shape, TypeOK, enqueue, JobIds, Config
<1> QED
  BY <1>1 DEF enqueue, Row, WebhookJob

\* The entry the worker writes.
NewEntry == [id |-> entry_ids + 1, job_id |-> batch[1].id, payload |-> batch[1].payload,
             attempts |-> batch[1].attempts]

LEMMA NewEntryEffect ==
    ASSUME Shape, move_to_dlq_insert
    PROVE  /\ NewEntry \in DlqEntry
           /\ NewEntry.id = entry_ids + 1
           /\ NewEntry.job_id = batch[1].id
           /\ NewEntry.payload = batch[1].payload
           /\ NewEntry.attempts = batch[1].attempts
           /\ dead_letters' = dead_letters \union {NewEntry}
           /\ entry_ids' = entry_ids + 1
<1>1. /\ Head(batch) = batch[1] /\ batch[1].id \in JobIds /\ batch[1].payload \in Payloads
      /\ batch[1].attempts \in Nat /\ entry_ids \in Nat
  BY InHand DEF Shape, TypeOK, move_to_dlq_insert, Working
<1> QED
  BY <1>1 DEF move_to_dlq_insert, NewEntry, DlqEntry

(***************************************************************************)
(* Type correctness                                                        *)
(***************************************************************************)

LEMMA InitShape == Init => Shape
<1> SUFFICES ASSUME Init PROVE Shape
  OBVIOUS
<1>1. IsFiniteSet(jobs) /\ Len(batch) = 0
  BY FS_EmptySet DEF Init
<1>2. TypeOK
  BY ConfigAssumption DEF Init, TypeOK, Config
<1>3. Numbered
  BY <1>1 DEF Init, Numbered
<1> QED
  BY <1>2, <1>3 DEF Shape

\* Tables and id counters may stay as they are while the batch shrinks.
LEMMA ShapeGoesOn ==
    ASSUME Shape, Working, NextJob
    PROVE  /\ batch' \in Seq(WebhookJob)
           /\ wpc' \in {"idle", "asleep", "batch", "sending", "ok", "failed", "to_dlq", "moving"}
           /\ wpc' \in {"idle", "asleep"} <=> batch' = <<>>
           /\ \A i \in 1..Len(batch') : batch'[i].id <= ids
<1>1. \A i \in 1..Len(batch) : batch[i].id <= ids
  BY DEF Shape, Numbered
<1> QED
  BY <1>1, GoesOn

LEMMA ShapeStep ==
    ASSUME Shape, [Next]_vars
    PROVE  Shape'
<1> USE DEF Shape
<1>1. CASE fetch_due
  <2>1. \A i \in 1..Len(batch') : batch'[i].id <= ids
    BY FetchedDue, <1>1 DEF Numbered
  <2>2. TypeOK'
    BY FetchedDue, <1>1 DEF TypeOK, fetch_due, handlers, history
  <2>3. Numbered'
    BY <1>1, <2>1 DEF Numbered, fetch_due, handlers, history
  <2> QED
    BY <2>2, <2>3
<1>2. CASE WakeUp \/ Block
  <2>1. TypeOK'
    BY <1>2 DEF TypeOK, WakeUp, Block, handlers, history
  <2>2. Numbered'
    BY <1>2 DEF Numbered, WakeUp, Block, handlers, history
  <2> QED
    BY <2>1, <2>2
<1>3. CASE Send
  <2>1. Head(batch).id \in JobIds
    BY <1>3, InHand DEF Send, Working
  <2>2. sends' \in [JobIds -> Nat]
    BY <1>3, <2>1 DEF TypeOK, Send
  <2>3. TypeOK'
    BY <1>3, <2>2 DEF TypeOK, Send, handlers
  <2>4. Numbered'
    BY <1>3 DEF Numbered, Send, handlers
  <2> QED
    BY <2>3, <2>4
<1>4. ASSUME NEW outcome \in {"ok", "failed"}, Answer(outcome)
      PROVE  Shape'
  <2>1. Head(batch).id \in JobIds
    BY <1>4, InHand DEF Answer, Working
  <2>2. TypeOK'
    BY <1>4, <2>1 DEF TypeOK, Answer, handlers
  <2>3. Numbered'
    BY <1>4 DEF Numbered, Answer, handlers
  <2> QED
    BY <2>2, <2>3
<1>5. CASE mark_delivered \/ record_attempt
  <2>1. Updated(batch[1].id)
    BY <1>5, MarkEffect, RecordEffect DEF Marked, Recorded
  <2>2. Working /\ NextJob
    BY <1>5 DEF Working, mark_delivered, record_attempt
  <2>3. UNCHANGED <<now, dead_letters, up, handlers, history>>
    BY <1>5 DEF mark_delivered, record_attempt
  <2>4. TypeOK'
    BY <2>1, <2>2, <2>3, ShapeGoesOn DEF TypeOK, Updated, handlers, history
  <2>5. \A k \in jobs' : k.id <= ids
    BY <2>1 DEF Updated, Numbered
  <2>6. Numbered'
    BY <2>1, <2>2, <2>3, <2>5, ShapeGoesOn DEF Numbered, Updated, handlers, history
  <2> QED
    BY <2>4, <2>6
<1>6. CASE GiveUp
  <2>1. TypeOK'
    BY <1>6, GiveUpEffect DEF TypeOK, GiveUp, handlers, history
  <2>2. Numbered'
    BY <1>6, GiveUpEffect DEF Numbered, GiveUp, handlers, history
  <2> QED
    BY <2>1, <2>2
<1>7. CASE move_to_dlq_insert
  <2>1. UNCHANGED <<now, jobs, up, batch, hpc, entry, ids, accepted, sends, acked, crashes,
                    dberrors>>
    BY <1>7 DEF move_to_dlq_insert, handlers
  <2>2. wpc = "to_dlq" /\ wpc' = "moving"
    BY <1>7 DEF move_to_dlq_insert
  <2>3. entry_ids \in Nat /\ \A e \in dead_letters : e \in DlqEntry /\ e.id <= entry_ids
    BY DEF TypeOK, Numbered
  <2>4. \A d, e \in dead_letters' : d.id = e.id => d = e
    <3>1. \A e \in dead_letters : e.id # NewEntry.id
      BY <1>7, <2>3, NewEntryEffect DEF DlqEntry
    <3>2. \A d, e \in dead_letters : d.id = e.id => d = e
      BY DEF TypeOK
    <3> QED
      BY <1>7, <3>1, <3>2, NewEntryEffect
  <2>5. dead_letters' \subseteq DlqEntry /\ entry_ids' \in Nat
    BY <1>7, <2>3, NewEntryEffect
  <2>6. TypeOK'
    BY <2>1, <2>2, <2>4, <2>5 DEF TypeOK
  <2>7. batch[1].id <= ids
    BY <2>2, InHand DEF Working, Numbered
  <2>8. \A e \in dead_letters' : e.id <= entry_ids + 1 /\ e.job_id <= ids
    BY <1>7, <2>3, <2>7, NewEntryEffect DEF Numbered, DlqEntry
  <2>9. \A h \in Handlers : hpc[h] # "idle" => entry[h].id <= entry_ids + 1
    BY <2>3 DEF Numbered, DlqEntry
  <2>10. Numbered'
    BY <1>7, <2>1, <2>8, <2>9, NewEntryEffect DEF Numbered
  <2> QED
    BY <2>6, <2>10
<1>8. CASE move_to_dlq_delete
  <2>1. jobs' \subseteq jobs /\ IsFiniteSet(jobs')
    BY <1>8, FS_Subset DEF move_to_dlq_delete, Delete, Numbered
  <2>2. Working /\ NextJob
    BY <1>8 DEF Working, move_to_dlq_delete
  <2>3. UNCHANGED <<now, dead_letters, up, handlers, history>>
    BY <1>8 DEF move_to_dlq_delete
  <2>4. TypeOK'
    BY <2>1, <2>2, <2>3, ShapeGoesOn DEF TypeOK, handlers, history
  <2>5. Numbered'
    BY <2>1, <2>2, <2>3, ShapeGoesOn DEF Numbered, handlers, history
  <2> QED
    BY <2>4, <2>5
<1>9. ASSUME NEW p \in Payloads, enqueue(p),
             UNCHANGED <<now, dead_letters, up, wpc, batch, entry, entry_ids, sends, acked,
                         crashes, dberrors>>,
             accepted' \subseteq Payloads,
             hpc' \in [Handlers -> {"idle", "found", "moving"}],
             \A h \in Handlers : hpc'[h] # "idle" => hpc[h] # "idle"
      PROVE  Shape'
  <2>1. ids \in Nat /\ \A j \in jobs : j \in WebhookJob /\ j.id <= ids
    BY ConfigAssumption DEF TypeOK, Numbered
  <2>2. \A i, j \in jobs' : i.id = j.id => i = j
    <3>1. \A j \in jobs : j.id # ids + 1
      BY <2>1 DEF WebhookJob, JobIds
    <3>2. \A i, j \in jobs : i.id = j.id => i = j
      BY DEF TypeOK
    <3> QED
      BY <1>9, <3>1, <3>2, NewRow
  <2>3. ids' \in 0..MaxJobs
    BY <1>9, <2>1, NewRow DEF JobIds
  <2>4. TypeOK'
    BY <1>9, <2>1, <2>2, <2>3, NewRow DEF TypeOK
  <2>5. IsFiniteSet(jobs')
    BY <1>9, NewRow, FS_AddElement DEF Numbered
  <2>6. \A j \in jobs' : j.id <= ids + 1
    BY <1>9, <2>1, NewRow DEF WebhookJob, JobIds
  <2>7. \A i \in 1..Len(batch) : batch[i].id <= ids + 1
    <3>1. \A i \in 1..Len(batch) : batch[i] \in WebhookJob /\ batch[i].id <= ids
      BY ElementOfSeq DEF TypeOK, Numbered
    <3> QED
      BY <2>1, <3>1 DEF WebhookJob, JobIds
  <2>8. \A e \in dead_letters : e.job_id <= ids + 1
    BY <2>1 DEF TypeOK, Numbered, DlqEntry, JobIds
  <2>9. Numbered'
    BY <1>9, <2>5, <2>6, <2>7, <2>8, NewRow DEF Numbered
  <2> QED
    BY <2>4, <2>9
<1>10. ASSUME NEW p \in Payloads, create_webhook(p)
       PROVE  Shape'
  BY <1>9, <1>10 DEF create_webhook, worker, handlers, TypeOK
<1>11. ASSUME NEW h \in Handlers, NEW e \in dead_letters, get_dlq(h, e)
       PROVE  Shape'
  <2>1. e \in DlqEntry /\ e.id <= entry_ids
    BY DEF TypeOK, Numbered
  <2>2. TypeOK'
    BY <1>11, <2>1 DEF TypeOK, get_dlq, worker, history
  <2>3. Numbered'
    BY <1>11, <2>1 DEF Numbered, TypeOK, get_dlq, worker, history
  <2> QED
    BY <2>2, <2>3
<1>12. ASSUME NEW h \in Handlers, redeliver_insert(h)
       PROVE  Shape'
  <2>1. entry[h].payload \in Payloads
    BY <1>12 DEF Numbered, redeliver_insert, DlqEntry
  <2>2. hpc' \in [Handlers -> {"idle", "found", "moving"}]
    BY <1>12 DEF TypeOK, redeliver_insert
  <2>3. \A g \in Handlers : hpc'[g] # "idle" => hpc[g] # "idle"
    BY <1>12 DEF TypeOK, redeliver_insert
  <2>4. accepted' \subseteq Payloads
    BY <1>12 DEF TypeOK, redeliver_insert
  <2> QED
    BY <1>9, <1>12, <2>1, <2>2, <2>3, <2>4 DEF redeliver_insert, worker
<1>13. ASSUME NEW h \in Handlers, redeliver_delete(h)
       PROVE  Shape'
  <2>1. TypeOK'
    BY <1>13 DEF TypeOK, redeliver_delete, Respond, worker, history
  <2>2. Numbered'
    BY <1>13 DEF Numbered, TypeOK, redeliver_delete, Respond, worker, history
  <2> QED
    BY <2>1, <2>2
<1>14. CASE DbError
  <2>1. /\ UNCHANGED <<now, jobs, dead_letters, up, ids, entry_ids, accepted, sends, acked, crashes>>
        /\ dberrors' = dberrors + 1
    BY <1>14 DEF DbError
  <2>2. CASE wpc = "idle" /\ wpc' = "asleep" /\ UNCHANGED <<batch, handlers>>
    BY <2>1, <2>2 DEF TypeOK, Numbered, handlers
  <2>3. CASE Working /\ NextJob /\ UNCHANGED handlers
    BY <2>1, <2>3, ShapeGoesOn DEF TypeOK, Numbered, handlers
  <2>4. ASSUME NEW h \in Handlers, Respond(h), UNCHANGED worker
        PROVE  Shape'
    BY <2>1, <2>4 DEF TypeOK, Numbered, Respond, worker
  <2> QED
    BY <1>14, <2>2, <2>3, <2>4 DEF DbError, Working
<1>15. CASE Crash
  <2>1. up' \in BOOLEAN
    BY <1>15 DEF Crash
  <2>2. /\ batch' = <<>> /\ wpc' = "idle"
        /\ batch' \in Seq(WebhookJob) /\ Len(batch') = 0
    BY <1>15 DEF Crash
  <2>3. /\ hpc' \in [Handlers -> {"idle", "found", "moving"}]
        /\ entry' \in [Handlers -> DlqEntry \union {NoEntry}]
        /\ \A h \in Handlers : hpc'[h] = "idle"
        /\ crashes' \in Nat
    BY <1>15 DEF Crash, TypeOK
  <2>4. UNCHANGED <<now, jobs, dead_letters, ids, entry_ids, accepted, sends, acked, dberrors>>
    BY <1>15 DEF Crash
  <2>5. TypeOK'
    BY <2>1, <2>2, <2>3, <2>4 DEF TypeOK
  <2>6. Numbered'
    BY <2>2, <2>3, <2>4 DEF Numbered
  <2> QED
    BY <2>5, <2>6
<1>16. CASE Restart \/ Tick \/ UNCHANGED vars
  <2>1. up' \in BOOLEAN /\ now' \in Nat
    <3>1. CASE Restart
      BY <3>1 DEF Restart, TypeOK
    <3>2. CASE Tick \/ UNCHANGED vars
      <4>1. up' = up /\ now' \in Nat
        BY <3>2 DEF Tick, TypeOK, vars
      <4> QED
        BY <4>1 DEF TypeOK
    <3> QED
      BY <1>16, <3>1, <3>2
  <2>2. TypeOK'
    BY <1>16, <2>1 DEF TypeOK, Restart, Tick, vars, worker, handlers, history
  <2>3. Numbered'
    BY <1>16 DEF Numbered, Restart, Tick, vars, worker, handlers, history
  <2> QED
    BY <2>2, <2>3
<1> QED
  BY <1>1, <1>2, <1>3, <1>4, <1>5, <1>6, <1>7, <1>8, <1>10, <1>11, <1>12, <1>13, <1>14,
     <1>15, <1>16 DEF Next, WorkerStep

LEMMA ShapeHolds == Spec => []Shape
<1>1. Init => Shape
  BY InitShape
<1>2. Shape /\ [Next]_vars => Shape'
  BY ShapeStep
<1> QED
  BY <1>1, <1>2, PTL DEF Spec

\* Service d keeps its types, whatever fails: rows and entries are unique by
\* id and the worker has a job in hand exactly while it works.
THEOREM TypeCorrect == Spec => []TypeOK
<1>1. Shape => TypeOK
  BY DEF Shape
<1> QED
  BY <1>1, ShapeHolds, PTL

(***************************************************************************)
(* No payload is lost                                                      *)
(***************************************************************************)

\* The connection mutex: at most one move between the tables is under way.
Mutex ==
    /\ wpc = "moving" => \A h \in Handlers : hpc[h] # "moving"
    /\ \A g, h \in Handlers : hpc[g] = "moving" /\ hpc[h] = "moving" => g = h

LEMMA MutexStep ==
    ASSUME Shape, Mutex, [Next]_vars
    PROVE  Mutex'
<1> USE DEF Mutex
<1>1. hpc \in [Handlers -> {"idle", "found", "moving"}]
  BY DEF Shape, TypeOK
<1>2. CASE WorkerStep
  <2>1. CASE move_to_dlq_insert
    BY <2>1 DEF move_to_dlq_insert, Locked, handlers
  <2>2. CASE ~move_to_dlq_insert
    BY <1>2, <2>2 DEF WorkerStep, fetch_due, WakeUp, Block, Send, Answer, mark_delivered,
       record_attempt, GiveUp, move_to_dlq_delete, NextJob, handlers
  <2> QED
    BY <2>1, <2>2
<1>3. ASSUME NEW h \in Handlers, redeliver_insert(h)
      PROVE  Mutex'
  BY <1>1, <1>3 DEF redeliver_insert, enqueue, Locked, worker
<1>4. ASSUME NEW h \in Handlers, redeliver_delete(h) \/ \E e \in dead_letters : get_dlq(h, e)
      PROVE  Mutex'
  BY <1>1, <1>4 DEF redeliver_delete, get_dlq, Respond, worker
<1>5. CASE DbError
  BY <1>1, <1>5 DEF DbError, NextJob, Respond, worker, handlers
<1>6. CASE \/ \E p \in Payloads : create_webhook(p)
           \/ Crash \/ Restart \/ Tick \/ UNCHANGED vars
  BY <1>6 DEF create_webhook, Crash, Restart, Tick, vars, worker, handlers
<1> QED
  BY <1>2, <1>3, <1>4, <1>5, <1>6 DEF Next

\* A job and what is copied from it, in the worker's batch, in an entry, in
\* a redeliver request, hold the same payload; the first half of a move has
\* stored what the second removes.
Copies ==
    /\ \A i \in 1..Len(batch), j \in jobs : j.id = batch[i].id => j.payload = batch[i].payload
    /\ wpc = "moving" => \E e \in dead_letters : e.payload = batch[1].payload
    /\ \A h \in Handlers :
          /\ hpc[h] = "moving" => \E j \in jobs : j.payload = entry[h].payload
          /\ hpc[h] # "idle" =>
                \A e \in dead_letters : e.id = entry[h].id => e.payload = entry[h].payload

Kept == Mutex /\ Copies /\ NothingIsLost

\* A step that keeps the tables, and from which the batch and the requests
\* get nothing new.
LEMMA CopiesFrame ==
    ASSUME Kept, UNCHANGED <<jobs, dead_letters, accepted>>,
           \A i \in 1..Len(batch') : \E k \in 1..Len(batch) :
              batch'[i].id = batch[k].id /\ batch'[i].payload = batch[k].payload,
           wpc' # "moving",
           \A h \in Handlers : \/ hpc'[h] = hpc[h] /\ entry'[h] = entry[h]
                               \/ hpc'[h] = "idle"
    PROVE  Copies' /\ NothingIsLost'
<1>1. NothingIsLost'
  BY DEF Kept, NothingIsLost
<1>2. \A i \in 1..Len(batch'), j \in jobs : j.id = batch'[i].id => j.payload = batch'[i].payload
  BY DEF Kept, Copies
<1>3. ASSUME NEW h \in Handlers
      PROVE  /\ hpc'[h] = "moving" => \E j \in jobs : j.payload = entry'[h].payload
             /\ hpc'[h] # "idle" =>
                   \A e \in dead_letters : e.id = entry'[h].id => e.payload = entry'[h].payload
  BY DEF Kept, Copies
<1> QED
  BY <1>1, <1>2, <1>3 DEF Copies

\* The batch that is left is made of what it was made of.
LEMMA BatchLeft ==
    ASSUME Shape, Working, NextJob
    PROVE  /\ wpc' # "moving" /\ wpc' # "ok"
           /\ \A i \in 1..Len(batch') : \E k \in 1..Len(batch) : batch'[i] = batch[k]
BY GoesOn

\* A fresh row takes nothing from what there is.
LEMMA CopiesEnqueue ==
    ASSUME Shape, Kept, NEW p \in Payloads, enqueue(p),
           UNCHANGED <<dead_letters, wpc, batch, entry>>,
           accepted' \subseteq accepted \union {p},
           \A h \in Handlers : /\ hpc'[h] # "idle" => hpc[h] # "idle"
                               /\ hpc'[h] = "moving" =>
                                     hpc[h] = "moving" \/ entry[h].payload = p
    PROVE  Copies' /\ NothingIsLost'
<1> DEFINE new == Row(ids + 1, p)
<1>1. new.id = ids + 1 /\ new.payload = p /\ jobs' = jobs \union {new}
  BY NewRow
<1> HIDE DEF new
<1>2. NothingIsLost'
  BY <1>1 DEF Kept, NothingIsLost
<1>3. \A i \in 1..Len(batch) : batch[i].id # ids + 1
  <2>1. \A i \in 1..Len(batch) : batch[i] \in WebhookJob /\ batch[i].id <= ids
    BY ElementOfSeq DEF Shape, TypeOK, Numbered
  <2>2. ids \in Nat
    BY ConfigAssumption DEF Shape, TypeOK, Config
  <2> QED
    BY <2>1, <2>2 DEF WebhookJob, JobIds
<1>4. \A i \in 1..Len(batch), j \in jobs' :
         j.id = batch[i].id => j.payload = batch[i].payload
  BY <1>1, <1>3 DEF Kept, Copies
<1>5. ASSUME NEW h \in Handlers
      PROVE  /\ hpc'[h] = "moving" => \E j \in jobs' : j.payload = entry[h].payload
             /\ hpc'[h] # "idle" =>
                   \A e \in dead_letters : e.id = entry[h].id => e.payload = entry[h].payload
  BY <1>1 DEF Kept, Copies
<1> QED
  BY <1>2, <1>4, <1>5 DEF Copies, Kept

LEMMA KeptStep ==
    ASSUME Shape, Kept, [Next]_vars
    PROVE  Copies' /\ NothingIsLost'
<1> USE DEF Kept
<1>1. CASE fetch_due
  <2>1. \A i \in 1..Len(batch'), j \in jobs :
           j.id = batch'[i].id => j.payload = batch'[i].payload
    BY <1>1, FetchedDue DEF Shape, TypeOK
  <2>2. wpc' # "moving"
    BY <1>1, FetchedDue
  <2> QED
    BY <1>1, <2>1, <2>2 DEF Copies, NothingIsLost, fetch_due, handlers, history
<1>2. CASE \/ WakeUp \/ Block \/ Send \/ \E outcome \in {"ok", "failed"} : Answer(outcome)
  <2>1. UNCHANGED <<jobs, dead_letters, accepted, batch, hpc, entry>> /\ wpc' # "moving"
    BY <1>2 DEF WakeUp, Block, Send, Answer, handlers, history
  <2> QED
    BY <2>1, CopiesFrame
<1>3. CASE mark_delivered \/ record_attempt
  <2>1. Updated(batch[1].id)
    BY <1>3, MarkEffect, RecordEffect DEF Marked, Recorded
  <2>2. Working /\ NextJob /\ UNCHANGED <<dead_letters, hpc, entry, accepted>>
    BY <1>3 DEF Working, mark_delivered, record_attempt, handlers, history
  <2>3. NothingIsLost'
    BY <2>1, <2>2 DEF NothingIsLost, Updated
  <2>4. \A i \in 1..Len(batch'), j \in jobs' :
           j.id = batch'[i].id => j.payload = batch'[i].payload
    BY <2>1, <2>2, BatchLeft DEF Copies, Updated
  <2>5. \A h \in Handlers :
           hpc[h] = "moving" => \E j \in jobs' : j.payload = entry[h].payload
    BY <2>1 DEF Copies, Updated
  <2> QED
    BY <2>2, <2>3, <2>4, <2>5, BatchLeft DEF Copies
<1>4. CASE GiveUp
  <2>1. UNCHANGED <<jobs, dead_letters, accepted, hpc, entry>> /\ wpc' # "moving"
    BY <1>4 DEF GiveUp, handlers, history
  <2> QED
    BY <1>4, <2>1, GiveUpEffect, CopiesFrame
<1>5. CASE move_to_dlq_insert
  <2>1. UNCHANGED <<jobs, accepted, batch, hpc, entry>>
    BY <1>5 DEF move_to_dlq_insert, handlers
  <2>2. NothingIsLost'
    BY <1>5, <2>1, NewEntryEffect DEF NothingIsLost
  <2>3. ASSUME NEW h \in Handlers, hpc[h] # "idle", NEW e \in dead_letters', e.id = entry[h].id
        PROVE  e.payload = entry[h].payload
    <3>1. entry[h].id \in Nat /\ entry[h].id <= entry_ids /\ entry_ids \in Nat
      BY <2>3 DEF Shape, TypeOK, Numbered, DlqEntry
    <3>2. e # NewEntry
      BY <1>5, <2>3, <3>1, NewEntryEffect
    <3> QED
      BY <1>5, <2>3, <3>2, NewEntryEffect DEF Copies
  <2> QED
    BY <1>5, <2>1, <2>2, <2>3, NewEntryEffect DEF Copies
<1>6. CASE move_to_dlq_delete
  <2>1. /\ UNCHANGED <<dead_letters, hpc, entry, accepted>> /\ Working /\ NextJob
        /\ wpc = "moving"
    BY <1>6 DEF move_to_dlq_delete, Working, handlers, history
  <2>2. Head(batch) = batch[1] /\ 1 \in 1..Len(batch)
    BY <2>1, InHand
  <2>3. jobs' = {j \in jobs : j.id # batch[1].id}
    BY <1>6, <2>2 DEF move_to_dlq_delete, Delete
  <2>4. \A j \in jobs : j.id = batch[1].id => \E e \in dead_letters : e.payload = j.payload
    BY <2>1, <2>2 DEF Copies
  <2>5. NothingIsLost'
    BY <2>1, <2>3, <2>4 DEF NothingIsLost
  <2>6. \A h \in Handlers : hpc[h] # "moving"
    BY <2>1 DEF Mutex
  <2> QED
    BY <2>1, <2>3, <2>5, <2>6, BatchLeft DEF Copies
<1>7. ASSUME NEW p \in Payloads, create_webhook(p)
      PROVE  Copies' /\ NothingIsLost'
  BY <1>7, CopiesEnqueue DEF create_webhook, worker, handlers
<1>8. ASSUME NEW h \in Handlers, NEW e \in dead_letters, get_dlq(h, e)
      PROVE  Copies' /\ NothingIsLost'
  <2>1. UNCHANGED <<jobs, dead_letters, accepted, wpc, batch>>
    BY <1>8 DEF get_dlq, worker, history
  <2>2. \A d \in dead_letters : d.id = e.id => d = e
    BY DEF Shape, TypeOK
  <2>3. \A g \in Handlers : /\ g = h => hpc'[g] = "found" /\ entry'[g] = e
                            /\ g # h => hpc'[g] = hpc[g] /\ entry'[g] = entry[g]
    BY <1>8 DEF get_dlq, Shape, TypeOK
  <2> QED
    BY <2>1, <2>2, <2>3 DEF Copies, NothingIsLost
<1>9. ASSUME NEW h \in Handlers, redeliver_insert(h)
      PROVE  Copies' /\ NothingIsLost'
  <2>1. entry[h].payload \in Payloads
    BY <1>9 DEF Shape, Numbered, redeliver_insert, DlqEntry
  <2>2. \A g \in Handlers : /\ hpc'[g] # "idle" => hpc[g] # "idle"
                            /\ hpc'[g] = "moving" => hpc[g] = "moving" \/ g = h
    BY <1>9 DEF Shape, TypeOK, redeliver_insert
  <2> QED
    BY <1>9, <2>1, <2>2, CopiesEnqueue DEF redeliver_insert, worker
<1>10. ASSUME NEW h \in Handlers, redeliver_delete(h)
       PROVE  Copies' /\ NothingIsLost'
  <2>1. /\ UNCHANGED <<jobs, accepted, wpc, batch>> /\ hpc[h] = "moving"
        /\ dead_letters' = {e \in dead_letters : e.id # entry[h].id}
    BY <1>10 DEF redeliver_delete, worker, history
  <2>2. \A g \in Handlers : /\ g = h => hpc'[g] = "idle"
                            /\ g # h => hpc'[g] = hpc[g] /\ entry'[g] = entry[g]
    BY <1>10 DEF redeliver_delete, Respond, Shape, TypeOK
  <2>3. \A e \in dead_letters :
           e.id = entry[h].id => \E j \in jobs : j.payload = e.payload
    BY <2>1 DEF Copies
  <2>4. NothingIsLost'
    BY <2>1, <2>3 DEF NothingIsLost
  <2>5. wpc # "moving"
    BY <2>1 DEF Mutex
  <2> QED
    BY <2>1, <2>2, <2>4, <2>5 DEF Copies
<1>11. CASE DbError
  <2>1. UNCHANGED <<jobs, dead_letters, accepted>>
    BY <1>11 DEF DbError
  <2>2. CASE wpc = "idle" /\ wpc' = "asleep" /\ UNCHANGED <<batch, handlers>>
    BY <2>1, <2>2, CopiesFrame DEF handlers
  <2>3. CASE Working /\ NextJob /\ UNCHANGED handlers
    BY <2>1, <2>3, BatchLeft, CopiesFrame DEF handlers
  <2>4. ASSUME NEW h \in Handlers, Respond(h), UNCHANGED worker
        PROVE  Copies' /\ NothingIsLost'
    <3>1. \A g \in Handlers : /\ g = h => hpc'[g] = "idle"
                              /\ g # h => hpc'[g] = hpc[g] /\ entry'[g] = entry[g]
      BY <2>4 DEF Respond, Shape, TypeOK
    <3> QED
      BY <2>1, <2>4, <3>1 DEF Copies, NothingIsLost, worker
  <2> QED
    BY <1>11, <2>2, <2>3, <2>4 DEF DbError, Working
<1>12. CASE Crash
  <2>1. /\ UNCHANGED <<jobs, dead_letters, accepted>>
        /\ Len(batch') = 0 /\ wpc' = "idle"
        /\ \A h \in Handlers : hpc'[h] = "idle"
    BY <1>12 DEF Crash
  <2> QED
    BY <2>1 DEF Copies, NothingIsLost
<1>13. CASE Restart \/ Tick \/ UNCHANGED vars
  <2>1. UNCHANGED <<jobs, dead_letters, accepted, wpc, batch, hpc, entry>>
    BY <1>13 DEF Restart, Tick, vars, worker, handlers, history
  <2> QED
    BY <2>1 DEF Copies, NothingIsLost
<1> QED
  BY <1>1, <1>2, <1>3, <1>4, <1>5, <1>6, <1>7, <1>8, <1>9, <1>10, <1>11, <1>12, <1>13
     DEF Next, WorkerStep

LEMMA KeptHolds == Spec => [](Shape /\ Kept)
<1>1. Init => Shape /\ Kept
  <2>1. ASSUME Init PROVE Kept
    <3>1. Len(batch) = 0
      BY <2>1 DEF Init
    <3> QED
      BY <2>1, <3>1 DEF Init, Kept, Mutex, Copies, NothingIsLost
  <2> QED
    BY <2>1, InitShape
<1>2. Shape /\ Kept /\ [Next]_vars => (Shape /\ Kept)'
  BY ShapeStep, MutexStep, KeptStep DEF Kept
<1> QED
  BY <1>1, <1>2, PTL DEF Spec

\* No accepted payload is ever in neither table, wherever the process dies or
\* a statement fails, for any number of payloads and redeliver requests.
THEOREM NothingIsLostHolds == Spec => []NothingIsLost
<1>1. Kept => NothingIsLost
  BY DEF Kept
<1> QED
  BY <1>1, KeptHolds, PTL

(***************************************************************************)
(* A delivered job was acknowledged                                        *)
(***************************************************************************)

\* The answer the worker has yet to record was given for the job in hand.
Answered ==
    /\ DeliveredWasAcknowledged
    /\ wpc = "ok" => acked[batch[1].id]

LEMMA AnsweredStep ==
    ASSUME Shape, Answered, [Next]_vars
    PROVE  Answered'
<1> USE DEF Answered
<1>1. CASE \/ fetch_due \/ WakeUp \/ Block \/ Send \/ GiveUp \/ move_to_dlq_insert
  <2>1. UNCHANGED <<jobs, acked>> /\ wpc' # "ok"
    BY <1>1 DEF fetch_due, WakeUp, Block, Send, GiveUp, move_to_dlq_insert, history
  <2> QED
    BY <2>1 DEF DeliveredWasAcknowledged
<1>2. ASSUME NEW outcome \in {"ok", "failed"}, Answer(outcome)
      PROVE  Answered'
  <2>1. Head(batch) = batch[1] /\ batch[1].id \in JobIds
    BY <1>2, InHand DEF Answer, Working
  <2>2. /\ UNCHANGED <<jobs, batch>> /\ wpc' = outcome
        /\ acked' = [acked EXCEPT ![batch[1].id] = acked[batch[1].id] \/ outcome = "ok"]
    BY <1>2, <2>1 DEF Answer
  <2>3. \A i \in JobIds : acked[i] => acked'[i]
    BY <2>2 DEF Shape, TypeOK
  <2>4. DeliveredWasAcknowledged'
    BY <2>2, <2>3 DEF DeliveredWasAcknowledged, Shape, TypeOK, WebhookJob
  <2>5. outcome = "ok" => acked'[batch[1].id]
    BY <2>1, <2>2 DEF Shape, TypeOK
  <2> QED
    BY <2>2, <2>4, <2>5
<1>3. CASE mark_delivered
  <2>1. Marked /\ NextJob /\ Working /\ acked' = acked /\ wpc = "ok"
    BY <1>3, MarkEffect DEF mark_delivered, Working, history
  <2>2. DeliveredWasAcknowledged'
    BY <2>1 DEF Marked, DeliveredWasAcknowledged
  <2> QED
    BY <2>1, <2>2, BatchLeft
<1>4. CASE record_attempt
  <2>1. Recorded /\ NextJob /\ Working /\ acked' = acked
    BY <1>4, RecordEffect DEF record_attempt, Working, history
  <2>2. DeliveredWasAcknowledged'
    BY <2>1 DEF Recorded, DeliveredWasAcknowledged
  <2> QED
    BY <2>1, <2>2, BatchLeft
<1>5. CASE move_to_dlq_delete
  <2>1. jobs' \subseteq jobs /\ NextJob /\ Working /\ acked' = acked
    BY <1>5 DEF move_to_dlq_delete, Delete, Working, history
  <2> QED
    BY <2>1, BatchLeft DEF DeliveredWasAcknowledged
<1>6. ASSUME NEW p \in Payloads, enqueue(p), UNCHANGED <<wpc, batch, acked>>
      PROVE  Answered'
  BY <1>6, NewRow DEF DeliveredWasAcknowledged
<1>7. ASSUME NEW p \in Payloads, create_webhook(p)
      PROVE  Answered'
  BY <1>6, <1>7 DEF create_webhook, worker
<1>8. ASSUME NEW h \in Handlers, redeliver_insert(h)
      PROVE  Answered'
  <2>1. entry[h].payload \in Payloads
    BY <1>8 DEF Shape, Numbered, redeliver_insert, DlqEntry
  <2> QED
    BY <1>6, <1>8, <2>1 DEF redeliver_insert, worker
<1>9. CASE DbError
  <2>1. UNCHANGED <<jobs, acked>>
    BY <1>9 DEF DbError
  <2>2. UNCHANGED <<wpc, batch>> \/ wpc' # "ok"
    BY <1>9 DEF DbError, NextJob, worker
  <2> QED
    BY <2>1, <2>2 DEF DeliveredWasAcknowledged
<1>10. CASE \/ \E h \in Handlers : redeliver_delete(h) \/ \E e \in dead_letters : get_dlq(h, e)
            \/ Crash \/ Restart \/ Tick \/ UNCHANGED vars
  <2>1. UNCHANGED <<jobs, acked>> /\ (UNCHANGED <<wpc, batch>> \/ wpc' = "idle")
    BY <1>10 DEF redeliver_delete, get_dlq, Crash, Restart, Tick, vars, worker, history
  <2> QED
    BY <2>1 DEF DeliveredWasAcknowledged
<1> QED
  BY <1>1, <1>2, <1>3, <1>4, <1>5, <1>7, <1>8, <1>9, <1>10 DEF Next, WorkerStep

LEMMA AnsweredHolds == Spec => []Answered
<1>1. Init => Answered
  BY DEF Init, Answered, DeliveredWasAcknowledged
<1> QED
  BY <1>1, AnsweredStep, ShapeHolds, PTL DEF Spec

\* A job shown as delivered was answered 2xx, also when the row was sent twice
\* because the first answer was not recorded.
THEOREM DeliveredWasAcknowledgedHolds == Spec => []DeliveredWasAcknowledged
<1>1. Answered => DeliveredWasAcknowledged
  BY DEF Answered
<1> QED
  BY <1>1, AnsweredHolds, PTL

(***************************************************************************)
(* Service d implements AtLeastOnce                                        *)
(***************************************************************************)

Pending(id) == \E j \in jobs : j.id = id /\ j.status = "Pending"

\* Only the worker changes rows, and it holds each job once: what it has
\* fetched is still pending, whatever failed since.
Queued ==
    /\ \A i, k \in 1..Len(batch) : batch[i].id = batch[k].id => i = k
    /\ \A i \in 1..Len(batch) : Pending(batch[i].id)

\* The worker goes on: the job it had in hand is done with, the others are
\* still pending.
LEMMA LeftQueued ==
    ASSUME Shape, Queued, Working, NextJob,
           \A id : Pending(id) /\ id # batch[1].id => Pending(id)'
    PROVE  Queued'
<1>1. /\ 1 \in 1..Len(batch)
      /\ \A i \in 1..Len(batch') : /\ i + 1 \in 1..Len(batch) /\ i + 1 # 1
                                   /\ batch'[i] = batch[i + 1]
  BY GoesOn, InHand
<1>2. ASSUME NEW i \in 1..Len(batch'), NEW k \in 1..Len(batch'), batch'[i].id = batch'[k].id
      PROVE  i = k
  <2> DEFINE m == i + 1
             n == k + 1
  <2>1. m \in 1..Len(batch) /\ n \in 1..Len(batch) /\ batch[m].id = batch[n].id
    BY <1>1, <1>2
  <2>2. m = n => i = k
    OBVIOUS
  <2> HIDE DEF m, n
  <2>3. m = n
    BY <2>1 DEF Queued
  <2> QED
    BY <2>2, <2>3
<1>3. ASSUME NEW i \in 1..Len(batch')
      PROVE  \E j \in jobs' : j.id = batch'[i].id /\ j.status = "Pending"
  <2> DEFINE m == i + 1
  <2>1. m \in 1..Len(batch) /\ m # 1 /\ batch'[i] = batch[m]
    BY <1>1
  <2> HIDE DEF m
  <2>2. Pending(batch[m].id) /\ batch[m].id # batch[1].id
    BY <1>1, <2>1 DEF Queued
  <2> QED
    BY <2>1, <2>2 DEF Pending
<1> QED
  BY <1>2, <1>3 DEF Queued, Pending

LEMMA QueuedStep ==
    ASSUME Shape, Queued, [Next]_vars
    PROVE  Queued'
<1>1. CASE fetch_due
  <2>1. jobs' = jobs
    BY <1>1 DEF fetch_due
  <2> QED
    BY <1>1, <2>1, FetchedDue DEF Queued, Pending
<1>2. CASE \/ WakeUp \/ Block \/ Send \/ \E outcome \in {"ok", "failed"} : Answer(outcome)
           \/ move_to_dlq_insert
           \/ \E h \in Handlers : redeliver_delete(h) \/ \E e \in dead_letters : get_dlq(h, e)
           \/ Restart \/ Tick \/ UNCHANGED vars
  <2>1. UNCHANGED <<jobs, batch>>
    BY <1>2 DEF WakeUp, Block, Send, Answer, move_to_dlq_insert, redeliver_delete, get_dlq,
       Restart, Tick, vars, worker
  <2> QED
    BY <2>1 DEF Queued, Pending
<1>3. CASE mark_delivered \/ record_attempt
  <2>1. Updated(batch[1].id) /\ Working /\ NextJob
    BY <1>3, MarkEffect, RecordEffect DEF Marked, Recorded, mark_delivered, record_attempt, Working
  <2>2. ASSUME NEW j \in jobs, j.status = "Pending", j.id # batch[1].id
        PROVE  Pending(j.id)'
    <3>1. PICK k \in jobs' : k.id = j.id
      BY <2>1 DEF Updated
    <3>2. PICK i \in jobs : k.id = i.id /\ (i.id # batch[1].id => k = i)
      BY <2>1 DEF Updated
    <3>3. i = j
      BY <3>1, <3>2 DEF Shape, TypeOK
    <3> QED
      BY <2>2, <3>1, <3>2, <3>3 DEF Pending
  <2>3. \A id : Pending(id) /\ id # batch[1].id => Pending(id)'
    BY <2>2 DEF Pending
  <2> QED
    BY <2>1, <2>3, LeftQueued
<1>4. CASE GiveUp
  <2>1. jobs' = jobs
    BY <1>4 DEF GiveUp
  <2>2. Len(batch') = Len(batch) /\ \A i \in 1..Len(batch) : batch'[i].id = batch[i].id
    BY <1>4, GiveUpEffect
  <2> QED
    BY <2>1, <2>2 DEF Queued, Pending
<1>5. CASE move_to_dlq_delete
  <2>1. Working /\ NextJob
    BY <1>5 DEF move_to_dlq_delete, Working
  <2>2. jobs' = {j \in jobs : j.id # batch[1].id}
    BY <1>5, <2>1, InHand DEF move_to_dlq_delete, Delete
  <2> QED
    BY <2>1, <2>2, LeftQueued DEF Pending
<1>6. ASSUME NEW p \in Payloads, create_webhook(p) PROVE Queued'
  BY <1>6 DEF create_webhook, enqueue, worker, Queued, Pending
<1>7. ASSUME NEW h \in Handlers, redeliver_insert(h) PROVE Queued'
  BY <1>7 DEF redeliver_insert, enqueue, worker, Queued, Pending
<1>8. CASE DbError
  <2>1. jobs' = jobs
    BY <1>8 DEF DbError
  <2>2. CASE Working /\ NextJob
    BY <2>1, <2>2, LeftQueued DEF Pending
  <2>3. CASE UNCHANGED batch
    BY <2>1, <2>3 DEF Queued, Pending
  <2> QED
    BY <1>8, <2>2, <2>3 DEF DbError, Working, worker
<1>9. CASE Crash
  <2>1. Len(batch') = 0
    BY <1>9 DEF Crash
  <2> QED
    BY <2>1 DEF Queued
<1> QED
  BY <1>1, <1>2, <1>3, <1>4, <1>5, <1>6, <1>7, <1>8, <1>9 DEF Next, WorkerStep

phase == [i \in JobIds |-> Phase(i)]

\* What a job's phase says of its row.
PhaseTable ==
    \A i \in JobIds :
        /\ i > ids => phase[i] = "absent"
        /\ \A j \in jobs : j.id = i =>
              phase[i] = IF j.status = "Pending" THEN "queued" ELSE "delivered"
        /\ i <= ids /\ (\A j \in jobs : j.id # i) => phase[i] = "parked"

LEMMA PhaseOf == Shape => PhaseTable
<1> SUFFICES ASSUME Shape, NEW i \in JobIds
             PROVE  /\ i > ids => phase[i] = "absent"
                    /\ \A j \in jobs : j.id = i =>
                          phase[i] = IF j.status = "Pending" THEN "queued" ELSE "delivered"
                    /\ i <= ids /\ (\A j \in jobs : j.id # i) => phase[i] = "parked"
  BY DEF PhaseTable
<1>1. ids \in Nat /\ i \in Nat
  BY Types
<1>2. phase[i] = Phase(i)
  BY DEF phase
<1>3. ASSUME i > ids PROVE phase[i] = "absent"
  BY <1>1, <1>2, <1>3 DEF Phase
<1>4. ASSUME NEW j \in jobs, j.id = i
      PROVE  phase[i] = IF j.status = "Pending" THEN "queued" ELSE "delivered"
  <2>1. /\ i <= ids /\ ~(i > ids) /\ j.status \in {"Pending", "Delivered"}
        /\ \A k \in jobs : k.id = i => k = j
    BY <1>1, <1>4 DEF Shape, TypeOK, Numbered, WebhookJob
  <2> QED
    BY <1>2, <1>4, <2>1 DEF Phase
<1>5. ASSUME i <= ids, \A j \in jobs : j.id # i PROVE phase[i] = "parked"
  BY <1>1, <1>2, <1>5 DEF Phase
<1> QED
  BY <1>3, <1>4, <1>5

LEMMA PhaseOfNext == Shape' => PhaseTable'
BY PhaseOf, PTL

\* What a step does to one job alone.
Becomes(i, to) ==
    /\ phase'[i] = to
    /\ \A k \in JobIds : k # i => phase'[k] = phase[k]

LEMMA MoveOfOne ==
    ASSUME NEW i \in JobIds, NEW to, Becomes(i, to)
    PROVE  phase' = [phase EXCEPT ![i] = to]
<1>1. \A k \in JobIds : phase'[k] = [phase EXCEPT ![i] = to][k]
  BY DEF Becomes, phase
<1>2. /\ phase' = [k \in JobIds |-> phase'[k]]
      /\ [phase EXCEPT ![i] = to] = [k \in JobIds |-> [phase EXCEPT ![i] = to][k]]
  BY DEF phase, JobIds
<1> QED
  BY <1>1, <1>2

LEMMA SameRows ==
    ASSUME UNCHANGED <<jobs, ids>>
    PROVE  phase' = phase
<1>1. JobIds' = JobIds /\ \A i \in JobIds : Phase(i)' = Phase(i)
  BY DEF JobIds, Phase
<1> QED
  BY <1>1 DEF phase

\* The job in the worker's hand is queued.
LEMMA HandQueued ==
    ASSUME Shape, Queued, Working
    PROVE  batch[1].id \in JobIds /\ phase[batch[1].id] = "queued" /\ batch[1].id <= ids
<1>1. 1 \in 1..Len(batch) /\ batch[1].id \in JobIds
  BY InHand
<1>2. Pending(batch[1].id) /\ batch[1].id <= ids
  BY <1>1 DEF Queued, Shape, Numbered
<1> QED
  BY <1>1, <1>2, PhaseOf DEF Pending, PhaseTable

\* An UPDATE of the row in hand moves that job alone.
LEMMA UpdatedPhase ==
    ASSUME Shape, Shape', Updated(batch[1].id), ids' = ids, NEW to,
           batch[1].id \in JobIds, phase'[batch[1].id] = to
    PROVE  Becomes(batch[1].id, to)
<1> SUFFICES ASSUME NEW i \in JobIds, i # batch[1].id
             PROVE  phase'[i] = phase[i]
  BY DEF Becomes
<1>0. /\ PhaseTable
      /\ \A k \in JobIds :
            /\ k > ids => phase'[k] = "absent"
            /\ \A j \in jobs' : j.id = k =>
                  phase'[k] = IF j.status = "Pending" THEN "queued" ELSE "delivered"
            /\ k <= ids /\ (\A j \in jobs' : j.id # k) => phase'[k] = "parked"
  BY PhaseOf, PhaseOfNext DEF PhaseTable, JobIds
<1> USE DEF PhaseTable
<1>1. i \in JobIds' /\ i \in Nat /\ ids \in Nat
  BY Types DEF JobIds
<1>2. CASE i > ids
  BY <1>1, <1>2, <1>0
<1>3. CASE i <= ids /\ \A j \in jobs : j.id # i
  <2>1. \A j \in jobs' : j.id # i
    BY <1>3 DEF Updated
  <2> QED
    BY <1>1, <1>3, <2>1, <1>0
<1>4. ASSUME NEW j \in jobs, j.id = i
      PROVE  phase'[i] = phase[i]
  <2>1. PICK k \in jobs' : k.id = i
    BY <1>4 DEF Updated
  <2>2. k = j
    BY <1>4, <2>1 DEF Updated, Shape, TypeOK
  <2> QED
    BY <1>1, <1>4, <2>1, <2>2, <1>0
<1> QED
  BY <1>1, <1>2, <1>3, <1>4

LEMMA EnqueuedPhase ==
    ASSUME Shape, Shape', NEW p \in Payloads, enqueue(p)
    PROVE  phase[ids + 1] = "absent" /\ Becomes(ids + 1, "queued") /\ ids + 1 \in JobIds
<1>1. /\ ids + 1 \in JobIds /\ ids' = ids + 1 /\ ids \in Nat
      /\ JobIds' = JobIds
      /\ Row(ids + 1, p).id = ids + 1 /\ Row(ids + 1, p).status = "Pending"
      /\ jobs' = jobs \union {Row(ids + 1, p)}
  BY NewRow, Types DEF JobIds
<1> DEFINE new == Row(ids + 1, p)
           n == ids + 1
<1>2. /\ n \in JobIds /\ n > ids /\ ids' = n
      /\ \A i \in JobIds : i # n => (i > ids <=> i > n) /\ (i <= ids <=> i <= n)
  BY <1>1 DEF JobIds
<1>3. new.id = n /\ new.status = "Pending" /\ jobs' = jobs \union {new}
  BY <1>1
<1> HIDE DEF new, n
<1>4. PhaseTable /\ PhaseTable'
  BY PhaseOf, PhaseOfNext
<1>5. phase[n] = "absent"
  BY <1>2, <1>4 DEF PhaseTable
<1>6. phase'[n] = "queued"
  BY <1>1, <1>2, <1>3, <1>4 DEF PhaseTable
<1>7. ASSUME NEW i \in JobIds, i # n
      PROVE  phase'[i] = phase[i]
  <2>1. i \in Nat /\ (i > ids \/ i <= ids)
    BY <1>1 DEF JobIds
  <2>2. CASE i > ids
    BY <1>1, <1>2, <1>4, <1>7, <2>2 DEF PhaseTable
  <2>3. CASE i <= ids /\ \A j \in jobs : j.id # i
    BY <1>1, <1>2, <1>3, <1>4, <1>7, <2>3 DEF PhaseTable
  <2>4. ASSUME NEW j \in jobs, j.id = i
        PROVE  phase'[i] = phase[i]
    BY <1>1, <1>3, <1>4, <2>4 DEF PhaseTable
  <2> QED
    BY <2>1, <2>2, <2>3, <2>4
<1> QED
  BY <1>2, <1>5, <1>6, <1>7 DEF Becomes, n

LEMMA AbstractStep ==
    ASSUME Shape, Shape', Answered, Queued, [Next]_vars
    PROVE  [Abstract!Next]_(Abstract!avars)
<1> DEFINE Stutter == phase' = phase /\ acked' = acked
<1>a. /\ Abstract!avars = <<phase, acked>>
      /\ Abstract!avars' = <<phase', acked'>>
  BY DEF Abstract!avars, phase
<1>b. Stutter => [Abstract!Next]_(Abstract!avars)
  BY <1>a
<1>c. ASSUME NEW i \in JobIds, acked' = acked, Becomes(i, phase[i])
      PROVE  Stutter
  <2>1. phase' = [phase EXCEPT ![i] = phase[i]]
    BY <1>c, MoveOfOne
  <2> QED
    BY <1>c, <2>1 DEF phase
<1>1. ASSUME UNCHANGED <<jobs, ids, acked>> PROVE Stutter
  BY <1>1, SameRows
<1>2. CASE fetch_due \/ WakeUp \/ Block \/ Send \/ GiveUp \/ move_to_dlq_insert
  <2>1. UNCHANGED <<jobs, ids, acked>>
    BY <1>2 DEF fetch_due, WakeUp, Block, Send, GiveUp, move_to_dlq_insert, history
  <2> QED
    BY <1>1, <1>b, <2>1
<1>3. ASSUME NEW outcome \in {"ok", "failed"}, Answer(outcome)
      PROVE  [Abstract!Next]_(Abstract!avars)
  <2> DEFINE b == batch[1].id
  <2>1. b \in JobIds /\ phase[b] = "queued" /\ phase' = phase /\ Head(batch) = batch[1]
    BY <1>3, HandQueued, SameRows, InHand DEF Answer, Working
  <2>2. acked' = [acked EXCEPT ![b] = acked[b] \/ outcome = "ok"]
    BY <1>3, <2>1 DEF Answer
  <2> HIDE DEF b
  <2>3. CASE outcome = "ok"
    <3>1. acked' = [acked EXCEPT ![b] = TRUE]
      BY <2>1, <2>2, <2>3, Zenon
    <3>2. Abstract!Acknowledge(b)
      BY <2>1, <3>1 DEF Abstract!Acknowledge, phase
    <3> QED
      BY <2>1, <3>2 DEF Abstract!Next
  <2>4. CASE outcome # "ok"
    <3>1. acked' = acked
      BY <2>1, <2>2, <2>4 DEF Shape, TypeOK
    <3> QED
      BY <1>b, <2>1, <3>1
  <2> QED
    BY <2>3, <2>4
<1>4. CASE mark_delivered
  <2>1. /\ Marked /\ Working /\ UNCHANGED <<ids, acked>> /\ wpc = "ok"
    BY <1>4, MarkEffect DEF mark_delivered, Working, history
  <2>2. /\ batch[1].id \in JobIds /\ phase[batch[1].id] = "queued" /\ acked[batch[1].id]
        /\ Pending(batch[1].id)
    BY <2>1, HandQueued, InHand DEF Answered, Queued
  <2>3. PICK k \in jobs' : k.id = batch[1].id /\ k.status = "Delivered"
    BY <2>1, <2>2 DEF Pending, Marked, Updated
  <2>4. phase'[batch[1].id] = "delivered"
    BY <2>2, <2>3, PhaseOfNext DEF PhaseTable, JobIds
  <2>5. Becomes(batch[1].id, "delivered")
    BY <2>1, <2>2, <2>4, UpdatedPhase DEF Marked
  <2>6. /\ phase' = [phase EXCEPT ![batch[1].id] = "delivered"]
        /\ acked' = acked
    BY <2>1, <2>2, <2>5, MoveOfOne
  <2>7. Abstract!Deliver(batch[1].id)
    BY <2>2, <2>6 DEF Abstract!Deliver, Abstract!Move, phase
  <2> QED
    BY <2>2, <2>7 DEF Abstract!Next
<1>5. CASE record_attempt
  <2>1. Recorded /\ Working /\ UNCHANGED <<ids, acked>>
    BY <1>5, RecordEffect DEF record_attempt, Working, history
  <2>2. /\ batch[1].id \in JobIds /\ phase[batch[1].id] = "queued"
        /\ Pending(batch[1].id)
    BY <2>1, HandQueued, InHand DEF Queued
  <2>3. PICK k \in jobs' : k.id = batch[1].id /\ k.status = "Pending"
    <3>1. PICK j \in jobs : j.id = batch[1].id /\ j.status = "Pending"
      BY <2>2 DEF Pending
    <3>2. PICK k \in jobs' : k.id = batch[1].id
      BY <2>1, <3>1 DEF Recorded, Updated
    <3>3. PICK i \in jobs : k.id = i.id /\ k.status = i.status
      BY <2>1 DEF Recorded
    <3>4. i = j
      BY <3>1, <3>2, <3>3 DEF Shape, TypeOK
    <3> QED
      BY <3>1, <3>2, <3>3, <3>4
  <2>4. phase'[batch[1].id] = "queued"
    BY <2>2, <2>3, PhaseOfNext DEF PhaseTable, JobIds
  <2>5. Becomes(batch[1].id, "queued")
    BY <2>1, <2>2, <2>4, UpdatedPhase DEF Recorded
  <2> QED
    BY <1>b, <1>c, <2>1, <2>2, <2>5
<1>6. CASE move_to_dlq_delete
  <2>1. Working /\ UNCHANGED <<ids, acked>>
    BY <1>6 DEF move_to_dlq_delete, Working, history
  <2>2. jobs' = {j \in jobs : j.id # batch[1].id}
    BY <1>6, <2>1, InHand DEF move_to_dlq_delete, Delete
  <2>3. batch[1].id \in JobIds /\ batch[1].id <= ids /\ phase[batch[1].id] = "queued"
    BY <2>1, HandQueued
  <2>4. phase'[batch[1].id] = "parked"
    BY <2>1, <2>2, <2>3, PhaseOfNext DEF PhaseTable, JobIds
  <2>5. \A i \in JobIds : i # batch[1].id => phase'[i] = phase[i]
    <3> SUFFICES ASSUME NEW i \in JobIds, i # batch[1].id
                 PROVE  Phase(i)' = Phase(i)
      BY DEF phase, JobIds
    <3> QED
      BY <2>1, <2>2 DEF Phase
  <2>6. phase' = [phase EXCEPT ![batch[1].id] = "parked"] /\ acked' = acked
    BY <2>1, <2>3, <2>4, <2>5, MoveOfOne DEF Becomes
  <2>7. Abstract!Park(batch[1].id)
    BY <2>3, <2>6 DEF Abstract!Park, Abstract!Move, phase
  <2> QED
    BY <2>3, <2>7 DEF Abstract!Next
<1>7. ASSUME NEW p \in Payloads, enqueue(p), acked' = acked
      PROVE  [Abstract!Next]_(Abstract!avars)
  <2> DEFINE n == ids + 1
  <2>1. n \in JobIds /\ phase[n] = "absent" /\ Becomes(n, "queued")
    BY <1>7, EnqueuedPhase
  <2> HIDE DEF n
  <2>2. phase' = [phase EXCEPT ![n] = "queued"] /\ acked' = acked
    BY <1>7, <2>1, MoveOfOne
  <2>3. Abstract!Accept(n)
    BY <2>1, <2>2 DEF Abstract!Accept, Abstract!Move, phase
  <2> QED
    BY <2>1, <2>3 DEF Abstract!Next
<1>8. ASSUME NEW p \in Payloads, create_webhook(p)
      PROVE  [Abstract!Next]_(Abstract!avars)
  BY <1>7, <1>8 DEF create_webhook
<1>9. ASSUME NEW h \in Handlers, redeliver_insert(h)
      PROVE  [Abstract!Next]_(Abstract!avars)
  <2>1. entry[h].payload \in Payloads
    BY <1>9 DEF Shape, Numbered, redeliver_insert, DlqEntry
  <2> QED
    BY <1>7, <1>9, <2>1 DEF redeliver_insert
<1>10. CASE \/ \E h \in Handlers : redeliver_delete(h) \/ \E e \in dead_letters : get_dlq(h, e)
            \/ DbError \/ Crash \/ Restart \/ Tick \/ UNCHANGED vars
  <2>1. UNCHANGED <<jobs, ids, acked>>
    BY <1>10 DEF redeliver_delete, get_dlq, DbError, Crash, Restart, Tick, vars, history
  <2> QED
    BY <1>1, <1>b, <2>1
<1> QED
  BY <1>2, <1>3, <1>4, <1>5, <1>6, <1>8, <1>9, <1>10 DEF Next, WorkerStep

\* Service d keeps the promise of the four for every job, with no condition on
\* crashes, failed statements or overlapping requests: a job stays in the queue
\* until it is delivered, after a 2xx, or moved out, and both are final.
THEOREM Refinement == Spec => ImplementsAtLeastOnce
<1>1. Init => Abstract!Init
  <2> SUFFICES ASSUME Init PROVE Abstract!Init
    OBVIOUS
  <2>1. \A i \in JobIds : Phase(i) = "absent"
    BY DEF Init, Phase, JobIds
  <2>2. [i \in JobIds |-> Phase(i)] = [i \in JobIds |-> "absent"]
    BY <2>1
  <2> QED
    BY <2>2 DEF Init, Abstract!Init
<1>2. Shape /\ Shape' /\ Answered /\ Queued /\ [Next]_vars => [Abstract!Next]_(Abstract!avars)
  BY AbstractStep
<1>3. Init => Queued
  <2>1. Init => Len(batch) = 0
    BY DEF Init
  <2> QED
    BY <2>1 DEF Queued
<1>4. Spec => []Queued
  BY <1>3, QueuedStep, ShapeHolds, PTL DEF Spec
<1> QED
  BY <1>1, <1>2, <1>4, AnsweredHolds, ShapeHolds, PTL
     DEF Spec, ImplementsAtLeastOnce, Abstract!Spec

(***************************************************************************)
(* Dead letters keep true attempt counts                                   *)
(***************************************************************************)

Allowed == MaxOf(1, MaxAttempts)

\* The POST of the job in hand, which its snapshot does not count yet.
Posted(i) == IF i = 1 /\ wpc \in {"sending", "ok", "failed"} THEN 1 ELSE 0

\* Only a job in hand that has been given up may have used all it is allowed.
Limited(i) ==
    \/ batch[i].attempts < Allowed
    \/ i = 1 /\ wpc \in {"to_dlq", "moving"} /\ batch[i].attempts <= Allowed

\* No table and no snapshot counts more than was sent, or is allowed.
Counts ==
    /\ \A i \in JobIds : i > ids => sends[i] = 0
    /\ \A j \in jobs : j.attempts <= sends[j.id] /\ j.attempts < Allowed
    /\ \A i \in 1..Len(batch) :
          batch[i].attempts + Posted(i) <= sends[batch[i].id] /\ Limited(i)
    /\ \A e \in dead_letters : e.attempts <= sends[e.job_id] /\ e.attempts <= Allowed

LEMMA AllowedType == Allowed \in Nat \ {0} /\ MaxAttempts <= Allowed /\ MaxAttempts \in Nat
BY ConfigAssumption DEF Config, Allowed, MaxOf

\* What is left of a batch has not been sent since it was fetched.
LEMMA LeftCounts ==
    ASSUME Shape, Counts, Working, NextJob, UNCHANGED sends
    PROVE  \A i \in 1..Len(batch') :
              batch'[i].attempts + Posted(i)' <= sends'[batch'[i].id] /\ Limited(i)'
<1> SUFFICES ASSUME NEW i \in 1..Len(batch')
             PROVE  batch'[i].attempts + Posted(i)' <= sends'[batch'[i].id] /\ Limited(i)'
  OBVIOUS
<1>1. i + 1 \in 1..Len(batch) /\ batch'[i] = batch[i + 1] /\ wpc' \in {"asleep", "batch"}
  BY GoesOn
<1>2. i + 1 # 1
  BY GoesOn
<1>3. Posted(i + 1) = 0 /\ Posted(i)' = 0
  BY <1>1, <1>2 DEF Posted
<1>4. batch[i + 1].attempts < Allowed
  BY <1>1, <1>2 DEF Counts, Limited
<1> QED
  BY <1>1, <1>3, <1>4 DEF Counts, Limited

LEMMA CountsStep ==
    ASSUME Shape, Counts, [Next]_vars
    PROVE  Counts'
<1> USE AllowedType, Types
<1> Allowed' = Allowed /\ JobIds' = JobIds
  BY DEF Allowed, JobIds
<1>1. CASE fetch_due
  <2>1. UNCHANGED <<ids, sends, jobs, dead_letters>>
    BY <1>1 DEF fetch_due, history
  <2>2. ASSUME NEW i \in 1..Len(batch')
        PROVE  batch'[i].attempts + Posted(i)' <= sends'[batch'[i].id] /\ Limited(i)'
    <3>1. batch'[i] \in jobs /\ wpc' \in {"asleep", "batch"}
      BY <1>1, <2>2, FetchedDue
    <3>2. Posted(i)' = 0
      BY <3>1 DEF Posted
    <3> QED
      BY <2>1, <3>1, <3>2 DEF Counts, Limited
  <2> QED
    BY <2>1, <2>2 DEF Counts
<1>2. CASE WakeUp \/ Block
  <2>1. UNCHANGED <<ids, sends, jobs, dead_letters, batch>>
    BY <1>2 DEF WakeUp, Block, history
  <2>2. \A i \in 1..Len(batch) : Posted(i)' = Posted(i) /\ (Limited(i) => Limited(i)')
    BY <1>2, <2>1 DEF WakeUp, Block, Posted, Limited
  <2> QED
    BY <2>1, <2>2 DEF Counts
<1>3. CASE Send
  <2>1. /\ UNCHANGED <<ids, jobs, dead_letters, batch>> /\ wpc = "batch" /\ wpc' = "sending"
        /\ batch[1].id \in JobIds /\ batch[1].id <= ids
        /\ sends' = [sends EXCEPT ![batch[1].id] = @ + 1]
    BY <1>3, InHand DEF Send, Working, Shape, Numbered
  <2>2. \A i \in JobIds : sends'[i] = IF i = batch[1].id THEN sends[i] + 1 ELSE sends[i]
    BY <2>1 DEF Shape, TypeOK
  <2>3. \A i \in JobIds : sends[i] <= sends'[i] /\ sends'[i] \in Nat
    BY <2>2
  <2>4. \A i \in JobIds : i > ids => sends'[i] = 0
    BY <2>1, <2>2 DEF Counts
  <2>5. \A j \in jobs : j.attempts <= sends'[j.id]
    BY <2>3 DEF Counts
  <2>6. \A e \in dead_letters : e.attempts <= sends'[e.job_id]
    BY <2>3 DEF Counts
  <2>7. ASSUME NEW i \in 1..Len(batch)
        PROVE  batch[i].attempts + Posted(i)' <= sends'[batch[i].id] /\ Limited(i)'
    <3>1. Limited(i)'
      BY <2>1, <2>7 DEF Counts, Limited
    <3>2. Posted(i) = 0 /\ Posted(i)' = IF i = 1 THEN 1 ELSE 0
      BY <2>1 DEF Posted
    <3>3. batch[i].attempts <= sends[batch[i].id]
      BY <2>7, <3>2 DEF Counts
    <3> QED
      BY <2>2, <2>7, <3>1, <3>2, <3>3
  <2> QED
    BY <2>1, <2>4, <2>5, <2>6, <2>7 DEF Counts
<1>4. ASSUME NEW outcome \in {"ok", "failed"}, Answer(outcome)
      PROVE  Counts'
  <2>1. UNCHANGED <<ids, sends, jobs, dead_letters, batch>>
    BY <1>4 DEF Answer
  <2>2. \A i \in 1..Len(batch) : Posted(i)' = Posted(i) /\ (Limited(i) => Limited(i)')
    BY <1>4, <2>1 DEF Answer, Posted, Limited
  <2> QED
    BY <2>1, <2>2 DEF Counts
<1>5. CASE mark_delivered
  <2>1. Marked /\ Working /\ NextJob /\ UNCHANGED <<ids, sends, dead_letters>>
    BY <1>5, MarkEffect DEF mark_delivered, Working, history
  <2>2. \A k \in jobs' : k.attempts <= sends[k.id] /\ k.attempts < Allowed
    BY <2>1 DEF Marked, Counts
  <2> QED
    BY <2>1, <2>2, LeftCounts DEF Counts
<1>6. CASE record_attempt
  <2>1. /\ Recorded /\ Working /\ NextJob /\ UNCHANGED <<ids, sends, dead_letters>>
        /\ wpc = "failed"
    BY <1>6, RecordEffect DEF record_attempt, Working, history
  <2>2. 1 \in 1..Len(batch) /\ Head(batch) = batch[1]
    BY <2>1, InHand
  <2>3. batch[1].attempts + 1 <= sends[batch[1].id]
    BY <2>1, <2>2 DEF Counts, Posted
  <2>4. batch[1].attempts + 1 < Allowed
    BY <1>6, <2>2 DEF record_attempt
  <2>5. \A k \in jobs' : k.attempts <= sends[k.id] /\ k.attempts < Allowed
    BY <2>1, <2>3, <2>4 DEF Recorded, Counts
  <2> QED
    BY <2>1, <2>5, LeftCounts DEF Counts
<1>7. CASE GiveUp
  <2>1. /\ UNCHANGED <<ids, sends, jobs, dead_letters>> /\ wpc = "failed" /\ wpc' = "to_dlq"
    BY <1>7 DEF GiveUp, history
  <2>2. ASSUME NEW i \in 1..Len(batch')
        PROVE  batch'[i].attempts + Posted(i)' <= sends'[batch'[i].id] /\ Limited(i)'
    <3>1. i \in 1..Len(batch) /\ batch'[i].id = batch[i].id
      BY <1>7, <2>2, GiveUpEffect
    <3>2. Posted(i) = (IF i = 1 THEN 1 ELSE 0) /\ Posted(i)' = 0
      BY <2>1 DEF Posted
    <3>3. batch[i].attempts + Posted(i) <= sends[batch[i].id] /\ batch[i].attempts < Allowed
      BY <2>1, <3>1 DEF Counts, Limited
    <3>4. batch'[i].attempts = IF i = 1 THEN batch[i].attempts + 1 ELSE batch[i].attempts
      BY <1>7, <3>1, GiveUpEffect
    <3>5. batch'[i].attempts <= sends[batch[i].id]
      BY <3>1, <3>2, <3>3, <3>4
    <3>6. Limited(i)'
      BY <2>1, <3>1, <3>3, <3>4 DEF Limited
    <3>7. batch'[i].attempts \in Nat
      BY <3>1, <3>4
    <3> QED
      BY <2>1, <3>1, <3>2, <3>5, <3>6, <3>7
  <2> QED
    BY <2>1, <2>2 DEF Counts
<1>8. CASE move_to_dlq_insert
  <2>1. /\ UNCHANGED <<ids, sends, jobs, batch>> /\ wpc = "to_dlq" /\ wpc' = "moving"
    BY <1>8 DEF move_to_dlq_insert
  <2>2. 1 \in 1..Len(batch)
    BY <2>1, InHand DEF Working
  <2>3. batch[1].attempts <= sends[batch[1].id] /\ batch[1].attempts <= Allowed
    BY <2>1, <2>2 DEF Counts, Posted, Limited
  <2>4. \A e \in dead_letters' : e.attempts <= sends[e.job_id] /\ e.attempts <= Allowed
    BY <1>8, <2>3, NewEntryEffect DEF Counts
  <2>5. \A i \in 1..Len(batch) : Posted(i)' = Posted(i) /\ (Limited(i) => Limited(i)')
    BY <2>1 DEF Posted, Limited
  <2> QED
    BY <2>1, <2>4, <2>5 DEF Counts
<1>9. CASE move_to_dlq_delete
  <2>1. /\ UNCHANGED <<ids, sends, dead_letters>> /\ Working /\ NextJob
        /\ jobs' \subseteq jobs
    BY <1>9 DEF move_to_dlq_delete, Delete, Working, history
  <2> QED
    BY <2>1, LeftCounts DEF Counts
<1>10. ASSUME NEW p \in Payloads, enqueue(p), UNCHANGED <<wpc, batch, sends, dead_letters>>
       PROVE  Counts'
  <2>1. \A i \in 1..Len(batch) : Posted(i)' = Posted(i) /\ (Limited(i) => Limited(i)')
    BY <1>10 DEF Posted, Limited
  <2>2. \A j \in jobs' : j.attempts <= sends[j.id] /\ j.attempts < Allowed
    BY <1>10, NewRow DEF Counts
  <2>3. \A i \in JobIds : i > ids + 1 => sends[i] = 0
    BY DEF Counts
  <2> QED
    BY <1>10, <2>1, <2>2, <2>3, NewRow DEF Counts
<1>11. ASSUME NEW p \in Payloads, create_webhook(p)
       PROVE  Counts'
  BY <1>10, <1>11 DEF create_webhook, worker
<1>12. ASSUME NEW h \in Handlers, redeliver_insert(h)
       PROVE  Counts'
  <2>1. entry[h].payload \in Payloads
    BY <1>12 DEF Shape, Numbered, redeliver_insert, DlqEntry
  <2> QED
    BY <1>10, <1>12, <2>1 DEF redeliver_insert, worker
<1>13. CASE \/ \E h \in Handlers : redeliver_delete(h) \/ \E e \in dead_letters : get_dlq(h, e)
            \/ Restart \/ Tick \/ UNCHANGED vars
  <2>1. UNCHANGED <<ids, sends, jobs, batch, wpc>> /\ dead_letters' \subseteq dead_letters
    BY <1>13 DEF redeliver_delete, get_dlq, Restart, Tick, vars, worker, history
  <2>2. \A i \in 1..Len(batch) : Posted(i)' = Posted(i) /\ (Limited(i) => Limited(i)')
    BY <2>1 DEF Posted, Limited
  <2> QED
    BY <2>1, <2>2 DEF Counts
<1>14. CASE DbError
  <2>1. UNCHANGED <<ids, sends, jobs, dead_letters>>
    BY <1>14 DEF DbError
  <2>2. CASE Working /\ NextJob
    BY <2>1, <2>2, LeftCounts DEF Counts
  <2>3. CASE /\ UNCHANGED batch
             /\ wpc' = wpc \/ (wpc = "idle" /\ wpc' = "asleep")
    <3>1. \A i \in 1..Len(batch) : Posted(i)' = Posted(i) /\ (Limited(i) => Limited(i)')
      BY <2>3 DEF Posted, Limited
    <3> QED
      BY <2>1, <2>3, <3>1 DEF Counts
  <2> QED
    BY <1>14, <2>2, <2>3 DEF DbError, Working, worker
<1>15. CASE Crash
  <2>1. UNCHANGED <<ids, sends, jobs, dead_letters>> /\ Len(batch') = 0
    BY <1>15 DEF Crash
  <2> QED
    BY <2>1 DEF Counts
<1> QED
  BY <1>1, <1>2, <1>3, <1>4, <1>5, <1>6, <1>7, <1>8, <1>9, <1>11, <1>12, <1>13, <1>14, <1>15
     DEF Next, WorkerStep

\* When nothing has failed.
Clean == crashes = 0 /\ dberrors = 0

\* The exact books: what a batch holds is distinct and counts its sends, a row
\* that is not in hand does, an entry does for good, since its job is nowhere
\* else once the move is over.
Exact ==
    /\ \A i, k \in 1..Len(batch) : batch[i].id = batch[k].id => i = k
    /\ \A i \in 1..Len(batch) : batch[i].attempts + Posted(i) = sends[batch[i].id]
    /\ \A j \in jobs : \/ j.status = "Delivered"
                       \/ j.attempts = sends[j.id]
                       \/ Working /\ wpc # "batch" /\ j.id = batch[1].id
    /\ \A e \in dead_letters :
          /\ e.attempts = sends[e.job_id]
          /\ \A j \in jobs : j.id = e.job_id => wpc = "moving" /\ j.id = batch[1].id
          /\ \A i \in 1..Len(batch) : batch[i].id = e.job_id => wpc = "moving" /\ i = 1

LEMMA LeftExact ==
    ASSUME Shape, Exact, Working, NextJob, UNCHANGED <<sends, dead_letters>>
    PROVE  /\ \A i, k \in 1..Len(batch') : batch'[i].id = batch'[k].id => i = k
           /\ \A i \in 1..Len(batch') :
                 batch'[i].attempts + Posted(i)' = sends'[batch'[i].id]
           /\ \A e \in dead_letters', i \in 1..Len(batch') : batch'[i].id # e.job_id
           /\ ~(Working /\ wpc # "batch")'
<1> USE Types
<1>1. \A i \in 1..Len(batch') : /\ i + 1 \in 1..Len(batch) /\ i + 1 # 1
                                /\ batch'[i] = batch[i + 1]
  BY GoesOn
<1>2. wpc' \in {"asleep", "batch"}
  BY GoesOn
<1>3. \A i, k \in 1..Len(batch') : batch'[i].id = batch'[k].id => i = k
  <2> SUFFICES ASSUME NEW i \in 1..Len(batch'), NEW k \in 1..Len(batch'),
                      batch'[i].id = batch'[k].id
               PROVE  i = k
    OBVIOUS
  <2> DEFINE m == i + 1
             n == k + 1
  <2>1. m \in 1..Len(batch) /\ n \in 1..Len(batch) /\ batch[m].id = batch[n].id
    BY <1>1
  <2>2. m = n => i = k
    OBVIOUS
  <2> HIDE DEF m, n
  <2>3. m = n
    BY <2>1 DEF Exact
  <2> QED
    BY <2>2, <2>3
<1>4. \A i \in 1..Len(batch') : Posted(i + 1) = 0 /\ Posted(i)' = 0
  BY <1>1, <1>2 DEF Posted
<1>5. \A i \in 1..Len(batch') : batch'[i].attempts + Posted(i)' = sends'[batch'[i].id]
  BY <1>1, <1>4 DEF Exact
<1>6. \A e \in dead_letters', i \in 1..Len(batch') : batch'[i].id # e.job_id
  BY <1>1 DEF Exact
<1> QED
  BY <1>2, <1>3, <1>5, <1>6 DEF Working

\* Failures are never forgotten.
LEMMA CleanStep ==
    ASSUME Shape, [Next]_vars, Clean'
    PROVE  Clean /\ ~DbError /\ ~Crash
<1>1. crashes \in Nat /\ dberrors \in Nat
  BY DEF Shape, TypeOK
<1>2. ASSUME WorkerStep PROVE Clean
  <2>1. UNCHANGED <<crashes, dberrors>>
    BY <1>2 DEF WorkerStep, fetch_due, WakeUp, Block, Send, Answer, mark_delivered,
       record_attempt, GiveUp, move_to_dlq_insert, move_to_dlq_delete, history
  <2> QED
    BY <2>1 DEF Clean
<1>3. ~DbError /\ ~Crash
  <2> SUFFICES ASSUME DbError \/ Crash PROVE FALSE
    OBVIOUS
  <2>1. \/ crashes' = crashes /\ dberrors' = dberrors + 1
        \/ dberrors' = dberrors /\ crashes' = crashes + 1
    BY DEF DbError, Crash
  <2> QED
    BY <1>1, <2>1 DEF Clean
<1>4. ASSUME \/ \E p \in Payloads : create_webhook(p)
             \/ \E h \in Handlers : \/ \E e \in dead_letters : get_dlq(h, e)
                                    \/ redeliver_insert(h) \/ redeliver_delete(h)
             \/ Restart \/ Tick \/ UNCHANGED vars
      PROVE  Clean
  <2>1. UNCHANGED <<crashes, dberrors>>
    BY <1>4 DEF create_webhook, get_dlq, redeliver_insert, redeliver_delete, Restart, Tick,
       vars, history
  <2> QED
    BY <2>1 DEF Clean
<1> QED
  BY <1>2, <1>3, <1>4 DEF Next

LEMMA ExactStep ==
    ASSUME Shape, Counts, Clean => Exact, [Next]_vars, Clean'
    PROVE  Exact'
<1> USE Types
<1>1. Clean
  BY CleanStep
<1>2. Exact
  BY <1>1
<1>3. ~DbError /\ ~Crash
  BY <1>1 DEF Clean, DbError, Crash
<1>4. CASE fetch_due
  <2>1. UNCHANGED <<sends, jobs, dead_letters>> /\ wpc = "idle"
    BY <1>4 DEF fetch_due, history
  <2>2. \A i \in 1..Len(batch') : batch'[i] \in jobs /\ batch'[i].status = "Pending"
    BY <1>4, FetchedDue
  <2>3. \A j \in jobs : j.status = "Delivered" \/ j.attempts = sends[j.id]
    BY <1>2, <2>1 DEF Exact, Working
  <2>4. \A e \in dead_letters, j \in jobs : j.id # e.job_id
    BY <1>2, <2>1 DEF Exact
  <2>5. \A i \in 1..Len(batch') : Posted(i)' = 0
    BY <1>4, FetchedDue DEF Posted
  <2>6. \A i \in 1..Len(batch') : batch'[i].attempts + Posted(i)' = sends[batch'[i].id]
    BY <2>2, <2>3, <2>5
  <2>7. \A i, k \in 1..Len(batch') : batch'[i].id = batch'[k].id => i = k
    BY <1>4, FetchedDue
  <2> QED
    BY <1>2, <2>1, <2>2, <2>3, <2>4, <2>6, <2>7 DEF Exact
<1>5. CASE WakeUp \/ Block
  <2>1. UNCHANGED <<sends, jobs, dead_letters, batch>> /\ wpc # "moving"
    BY <1>5 DEF WakeUp, Block, history
  <2>2. \A i \in 1..Len(batch) : Posted(i)' = Posted(i)
    BY <1>5 DEF WakeUp, Block, Posted
  <2>3. Working /\ wpc # "batch" => (Working /\ wpc # "batch")'
    BY <1>5 DEF WakeUp, Block, Working
  <2> QED
    BY <1>2, <2>1, <2>2, <2>3 DEF Exact
<1>6. CASE Send
  <2>1. /\ UNCHANGED <<jobs, dead_letters, batch>> /\ wpc = "batch" /\ wpc' = "sending"
        /\ 1 \in 1..Len(batch) /\ batch[1].id \in JobIds
        /\ sends' = [sends EXCEPT ![batch[1].id] = @ + 1]
    BY <1>6, InHand DEF Send, Working
  <2>2. \A i \in JobIds : sends'[i] = IF i = batch[1].id THEN sends[i] + 1 ELSE sends[i]
    BY <2>1 DEF Shape, TypeOK
  <2>3. ASSUME NEW i \in 1..Len(batch)
        PROVE  batch[i].attempts + Posted(i)' = sends'[batch[i].id]
    <3>1. Posted(i) = 0 /\ Posted(i)' = IF i = 1 THEN 1 ELSE 0
      BY <2>1 DEF Posted
    <3>2. batch[i].attempts = sends[batch[i].id]
      BY <1>2, <2>3, <3>1 DEF Exact
    <3>3. batch[i].id = batch[1].id <=> i = 1
      BY <1>2, <2>1, <2>3 DEF Exact
    <3> QED
      BY <2>2, <2>3, <3>1, <3>2, <3>3
  <2>4. ASSUME NEW e \in dead_letters
        PROVE  /\ e.attempts = sends'[e.job_id]
               /\ \A j \in jobs : j.id # e.job_id
               /\ \A i \in 1..Len(batch) : batch[i].id # e.job_id
    BY <1>2, <2>1, <2>2 DEF Exact
  <2>5. (Working /\ wpc # "batch")'
    BY <2>1 DEF Working
  <2>6. \A j \in jobs : j.status = "Delivered" \/ j.attempts = sends'[j.id]
                          \/ j.id = batch[1].id
    BY <1>2, <2>1, <2>2 DEF Exact
  <2> QED
    BY <1>2, <2>1, <2>3, <2>4, <2>5, <2>6 DEF Exact
<1>7. ASSUME NEW outcome \in {"ok", "failed"}, Answer(outcome)
      PROVE  Exact'
  <2>1. UNCHANGED <<sends, jobs, dead_letters, batch>> /\ wpc # "moving"
    BY <1>7 DEF Answer
  <2>2. \A i \in 1..Len(batch) : Posted(i)' = Posted(i)
    BY <1>7 DEF Answer, Posted
  <2>3. (Working /\ wpc # "batch")'
    BY <1>7 DEF Answer, Working
  <2> QED
    BY <1>2, <2>1, <2>2, <2>3 DEF Exact
<1>8. CASE mark_delivered
  <2>1. /\ Marked /\ Working /\ NextJob /\ UNCHANGED <<sends, dead_letters>> /\ wpc = "ok"
    BY <1>8, MarkEffect DEF mark_delivered, Working, history
  <2>2. \A k \in jobs' : k.status = "Delivered" \/ k.attempts = sends[k.id]
    BY <1>2, <2>1 DEF Exact, Marked
  <2>3. \A e \in dead_letters, k \in jobs' : k.id # e.job_id
    BY <1>2, <2>1 DEF Exact, Marked
  <2>4. \A e \in dead_letters : e.attempts = sends[e.job_id]
    BY <1>2 DEF Exact
  <2> QED
    BY <1>2, <2>1, <2>2, <2>3, <2>4, LeftExact DEF Exact
<1>9. CASE record_attempt
  <2>1. /\ Recorded /\ Working /\ NextJob /\ UNCHANGED <<sends, dead_letters>>
        /\ wpc = "failed"
    BY <1>9, RecordEffect DEF record_attempt, Working, history
  <2>2. 1 \in 1..Len(batch)
    BY <2>1, InHand
  <2>3. batch[1].attempts + 1 = sends[batch[1].id]
    BY <1>2, <2>1, <2>2 DEF Exact, Posted
  <2>4. \A k \in jobs' : k.status = "Delivered" \/ k.attempts = sends[k.id]
    BY <1>2, <2>1, <2>3 DEF Exact, Recorded
  <2>5. \A e \in dead_letters, k \in jobs' : k.id # e.job_id
    BY <1>2, <2>1 DEF Exact, Recorded
  <2>6. \A e \in dead_letters : e.attempts = sends[e.job_id]
    BY <1>2 DEF Exact
  <2> QED
    BY <1>2, <2>1, <2>4, <2>5, <2>6, LeftExact DEF Exact
<1>10. CASE GiveUp
  <2>1. /\ UNCHANGED <<sends, jobs, dead_letters>> /\ wpc = "failed" /\ wpc' = "to_dlq"
    BY <1>10 DEF GiveUp, history
  <2>2. \A i \in 1..Len(batch') : i \in 1..Len(batch) /\ batch'[i].id = batch[i].id
    BY <1>10, GiveUpEffect
  <2>3. ASSUME NEW i \in 1..Len(batch')
        PROVE  batch'[i].attempts + Posted(i)' = sends[batch'[i].id]
    <3>1. Posted(i) = (IF i = 1 THEN 1 ELSE 0) /\ Posted(i)' = 0
      BY <2>1 DEF Posted
    <3>2. batch'[i].attempts = IF i = 1 THEN batch[i].attempts + 1 ELSE batch[i].attempts
      BY <1>10, <2>2, GiveUpEffect
    <3>3. batch[i].attempts + Posted(i) = sends[batch[i].id]
      BY <1>2, <2>2 DEF Exact
    <3> QED
      BY <2>2, <3>1, <3>2, <3>3
  <2>4. (Working /\ wpc # "batch")' /\ batch'[1].id = batch[1].id
    BY <1>10, <2>1, InHand, GiveUpEffect DEF Working
  <2>5. \A i, k \in 1..Len(batch') : batch'[i].id = batch'[k].id => i = k
    BY <1>2, <2>2 DEF Exact
  <2> QED
    BY <1>2, <2>1, <2>2, <2>3, <2>4, <2>5 DEF Exact
<1>11. CASE move_to_dlq_insert
  <2>1. /\ UNCHANGED <<sends, jobs, batch>> /\ wpc = "to_dlq" /\ wpc' = "moving"
    BY <1>11 DEF move_to_dlq_insert
  <2>2. 1 \in 1..Len(batch)
    BY <2>1, InHand DEF Working
  <2>3. \A i \in 1..Len(batch) : Posted(i)' = 0 /\ Posted(i) = 0
    BY <2>1 DEF Posted
  <2>4. batch[1].attempts = sends[batch[1].id]
    BY <1>2, <2>2, <2>3 DEF Exact
  <2>5. ASSUME NEW e \in dead_letters'
        PROVE  /\ e.attempts = sends[e.job_id]
               /\ \A j \in jobs : j.id = e.job_id => j.id = batch[1].id
               /\ \A i \in 1..Len(batch) : batch[i].id = e.job_id => i = 1
    <3>1. CASE e \in dead_letters
      BY <1>2, <2>1, <3>1 DEF Exact
    <3>2. CASE e = NewEntry
      BY <1>2, <1>11, <2>2, <2>4, <3>2, NewEntryEffect DEF Exact
    <3> QED
      BY <1>11, <3>1, <3>2, NewEntryEffect
  <2>6. (Working /\ wpc # "batch")'
    BY <2>1 DEF Working
  <2> QED
    BY <1>2, <2>1, <2>3, <2>5, <2>6 DEF Exact
<1>12. CASE move_to_dlq_delete
  <2>1. /\ UNCHANGED <<sends, dead_letters>> /\ Working /\ NextJob /\ wpc = "moving"
    BY <1>12 DEF move_to_dlq_delete, Working, history
  <2>2. jobs' = {j \in jobs : j.id # batch[1].id}
    BY <1>12, <2>1, InHand DEF move_to_dlq_delete, Delete
  <2>3. \A k \in jobs' : k.status = "Delivered" \/ k.attempts = sends[k.id]
    BY <1>2, <2>2 DEF Exact
  <2>4. \A e \in dead_letters, k \in jobs' : k.id # e.job_id
    BY <1>2, <2>2 DEF Exact
  <2>5. \A e \in dead_letters : e.attempts = sends[e.job_id]
    BY <1>2 DEF Exact
  <2> QED
    BY <1>2, <2>1, <2>3, <2>4, <2>5, LeftExact DEF Exact
<1>13. ASSUME NEW p \in Payloads, enqueue(p), UNCHANGED <<wpc, batch, sends, dead_letters>>
       PROVE  Exact'
  <2>1. \A i \in 1..Len(batch) : Posted(i)' = Posted(i)
    BY <1>13 DEF Posted
  <2>2. sends[ids + 1] = 0
    BY <1>13, NewRow DEF Counts
  <2>3. \A j \in jobs' : \/ j.status = "Delivered"
                         \/ j.attempts = sends[j.id]
                         \/ Working /\ wpc # "batch" /\ j.id = batch[1].id
    BY <1>2, <1>13, <2>2, NewRow DEF Exact
  <2>4. \A e \in dead_letters : e.job_id # ids + 1
    BY DEF Shape, Numbered, JobIds
  <2>5. \A e \in dead_letters, j \in jobs' :
           j.id = e.job_id => wpc = "moving" /\ j.id = batch[1].id
    BY <1>2, <1>13, <2>4, NewRow DEF Exact
  <2>6. Working' = Working
    BY <1>13 DEF Working
  <2> QED
    BY <1>2, <1>13, <2>1, <2>3, <2>5, <2>6 DEF Exact
<1>14. ASSUME NEW p \in Payloads, create_webhook(p)
       PROVE  Exact'
  BY <1>13, <1>14 DEF create_webhook, worker
<1>15. ASSUME NEW h \in Handlers, redeliver_insert(h)
       PROVE  Exact'
  <2>1. entry[h].payload \in Payloads
    BY <1>15 DEF Shape, Numbered, redeliver_insert, DlqEntry
  <2> QED
    BY <1>13, <1>15, <2>1 DEF redeliver_insert, worker
<1>16. CASE \/ \E h \in Handlers : redeliver_delete(h) \/ \E e \in dead_letters : get_dlq(h, e)
            \/ Restart \/ Tick \/ UNCHANGED vars
  <2>1. UNCHANGED <<sends, jobs, batch, wpc>> /\ dead_letters' \subseteq dead_letters
    BY <1>16 DEF redeliver_delete, get_dlq, Restart, Tick, vars, worker, history
  <2>2. \A i \in 1..Len(batch) : Posted(i)' = Posted(i)
    BY <2>1 DEF Posted
  <2>3. Working' = Working
    BY <2>1 DEF Working
  <2> QED
    BY <1>2, <2>1, <2>2, <2>3 DEF Exact
<1> QED
  BY <1>3, <1>4, <1>5, <1>6, <1>7, <1>8, <1>9, <1>10, <1>11, <1>12, <1>14, <1>15, <1>16
     DEF Next, WorkerStep

LEMMA BooksHold == Spec => [](Counts /\ (Clean => Exact))
<1>1. ASSUME Init PROVE Counts /\ Exact
  <2>1. Len(batch) = 0
    BY <1>1 DEF Init
  <2> QED
    BY <1>1, <2>1 DEF Init, Counts, Exact
<1>2. Shape /\ Counts /\ (Clean => Exact) /\ [Next]_vars => (Counts /\ (Clean => Exact))'
  BY CountsStep, ExactStep
<1> QED
  BY <1>1, <1>2, ShapeHolds, PTL DEF Spec

\* The crashes and failed statements so far.
Failures == crashes + dberrors

\* The POSTs the books miss: a row that is not in hand, and a snapshot, miss
\* one for each failure at most; the row in hand may miss the present POST too.
Ceiling ==
    /\ \A i \in JobIds : sends[i] <= Allowed + Failures
    /\ \A i \in 1..Len(batch) : sends[batch[i].id] <= batch[i].attempts + Posted(i) + Failures
    /\ \A j \in jobs :
          \/ j.status = "Delivered"
          \/ sends[j.id] <= j.attempts + Failures
          \/ /\ Working /\ wpc # "batch" /\ j.id = batch[1].id
             /\ sends[j.id] <= j.attempts + 1 + Failures

\* A step keeps the number of failures, or adds one.
LEMMA FailuresStep ==
    ASSUME Shape, [Next]_vars
    PROVE  /\ Failures \in Nat /\ Failures' \in Nat
           /\ DbError \/ Crash => Failures' = Failures + 1
           /\ ~(DbError \/ Crash) => Failures' = Failures
<1>1. crashes \in Nat /\ dberrors \in Nat
  BY DEF Shape, TypeOK
<1>2. ASSUME WorkerStep PROVE UNCHANGED <<crashes, dberrors>>
  BY <1>2 DEF WorkerStep, fetch_due, WakeUp, Block, Send, Answer, mark_delivered,
     record_attempt, GiveUp, move_to_dlq_insert, move_to_dlq_delete, history
<1>3. ASSUME \/ \E p \in Payloads : create_webhook(p)
             \/ \E h \in Handlers : \/ \E e \in dead_letters : get_dlq(h, e)
                                    \/ redeliver_insert(h) \/ redeliver_delete(h)
             \/ Restart \/ Tick \/ UNCHANGED vars
      PROVE  UNCHANGED <<crashes, dberrors>>
  BY <1>3 DEF create_webhook, get_dlq, redeliver_insert, redeliver_delete, Restart, Tick,
     vars, history
<1>4. DbError \/ Crash => \/ crashes' = crashes /\ dberrors' = dberrors + 1
                          \/ dberrors' = dberrors /\ crashes' = crashes + 1
  BY DEF DbError, Crash
<1> QED
  BY <1>1, <1>2, <1>3, <1>4 DEF Next, Failures

\* What is left of a batch has not been sent since it was fetched.
LEMMA LeftCeiling ==
    ASSUME Shape, Ceiling, Working, NextJob, UNCHANGED sends,
           Failures \in Nat, Failures' \in Nat, Failures <= Failures'
    PROVE  \A i \in 1..Len(batch') :
              sends'[batch'[i].id] <= batch'[i].attempts + Posted(i)' + Failures'
<1> USE Types
<1> SUFFICES ASSUME NEW i \in 1..Len(batch')
             PROVE  sends'[batch'[i].id] <= batch'[i].attempts + Posted(i)' + Failures'
  OBVIOUS
<1>1. /\ i + 1 \in 1..Len(batch) /\ batch'[i] = batch[i + 1] /\ wpc' \in {"asleep", "batch"}
      /\ i + 1 # 1
  BY GoesOn
<1>2. Posted(i + 1) = 0 /\ Posted(i)' = 0
  BY <1>1 DEF Posted
<1>3. sends[batch[i + 1].id] <= batch[i + 1].attempts + Posted(i + 1) + Failures
  BY <1>1 DEF Ceiling
<1>4. batch[i + 1].id \in JobIds /\ batch[i + 1].attempts \in Nat
  BY <1>1
<1>5. sends[batch[i + 1].id] \in Nat
  BY <1>4
<1> QED
  BY <1>1, <1>2, <1>3, <1>4, <1>5

\* One failure more makes up for the POST of the row in hand.
LEMMA CeilingAfterFailure ==
    ASSUME Shape, Ceiling, Failures \in Nat, Failures' = Failures + 1
    PROVE  \A j \in jobs : j.status = "Delivered" \/ sends[j.id] <= j.attempts + Failures'
<1> SUFFICES ASSUME NEW j \in jobs
             PROVE  j.status = "Delivered" \/ sends[j.id] <= j.attempts + Failures'
  OBVIOUS
<1>1. j.attempts \in Nat /\ sends[j.id] \in Nat
  BY Types
<1>2. \/ j.status = "Delivered"
      \/ sends[j.id] <= j.attempts + Failures
      \/ sends[j.id] <= j.attempts + 1 + Failures
  BY DEF Ceiling
<1> QED
  BY <1>1, <1>2

LEMMA CeilingStep ==
    ASSUME Shape, Queued, Counts, Ceiling, [Next]_vars
    PROVE  Ceiling'
<1> USE Types, AllowedType
<1> Allowed' = Allowed /\ JobIds' = JobIds
  BY DEF Allowed, JobIds
<1>1. /\ Failures \in Nat /\ Failures' \in Nat
      /\ DbError \/ Crash => Failures' = Failures + 1
      /\ ~(DbError \/ Crash) => Failures' = Failures
  BY FailuresStep
<1>2. CASE fetch_due
  <2>1. UNCHANGED <<sends, jobs, crashes, dberrors>> /\ wpc = "idle"
    BY <1>2 DEF fetch_due, history
  <2>2. Failures' = Failures
    BY <2>1 DEF Failures
  <2>3. \A j \in jobs : j.status = "Delivered" \/ sends[j.id] <= j.attempts + Failures
    BY <2>1 DEF Ceiling, Working
  <2>4. ASSUME NEW i \in 1..Len(batch')
        PROVE  sends[batch'[i].id] <= batch'[i].attempts + Posted(i)' + Failures
    <3>1. batch'[i] \in jobs /\ batch'[i].status = "Pending" /\ wpc' \in {"asleep", "batch"}
      BY <1>2, <2>4, FetchedDue
    <3>2. Posted(i)' = 0
      BY <3>1 DEF Posted
    <3> QED
      BY <1>1, <2>3, <3>1, <3>2
  <2> QED
    BY <2>1, <2>2, <2>3, <2>4 DEF Ceiling
<1>3. CASE WakeUp \/ Block
  <2>1. UNCHANGED <<sends, jobs, batch, crashes, dberrors>>
    BY <1>3 DEF WakeUp, Block, history
  <2>2. Failures' = Failures
    BY <2>1 DEF Failures
  <2>3. \A i \in 1..Len(batch) : Posted(i)' = Posted(i)
    BY <1>3 DEF WakeUp, Block, Posted
  <2>4. Working /\ wpc # "batch" => (Working /\ wpc # "batch")'
    BY <1>3 DEF WakeUp, Block, Working
  <2> QED
    BY <2>1, <2>2, <2>3, <2>4 DEF Ceiling
<1>4. CASE Send
  <2>1. /\ UNCHANGED <<jobs, batch, crashes, dberrors>> /\ wpc = "batch" /\ wpc' = "sending"
        /\ 1 \in 1..Len(batch) /\ batch[1].id \in JobIds /\ batch[1].attempts \in Nat
        /\ sends' = [sends EXCEPT ![batch[1].id] = @ + 1]
    BY <1>4, InHand DEF Send, Working
  <2>2. Failures' = Failures
    BY <2>1 DEF Failures
  <2>3. \A i \in JobIds : sends'[i] = IF i = batch[1].id THEN sends[i] + 1 ELSE sends[i]
    BY <2>1 DEF Shape, TypeOK
  <2>4. sends[batch[1].id] <= batch[1].attempts + Failures /\ batch[1].attempts < Allowed
    <3>1. Posted(1) = 0 /\ batch[1].attempts < Allowed
      BY <2>1 DEF Posted, Counts, Limited
    <3> QED
      BY <1>1, <2>1, <3>1 DEF Ceiling
  <2>5. ASSUME NEW i \in JobIds PROVE sends'[i] <= Allowed + Failures
    BY <1>1, <2>1, <2>3, <2>4 DEF Ceiling
  <2>6. ASSUME NEW i \in 1..Len(batch)
        PROVE  sends'[batch[i].id] <= batch[i].attempts + Posted(i)' + Failures
    <3>1. Posted(i) = 0 /\ Posted(i)' = IF i = 1 THEN 1 ELSE 0
      BY <2>1 DEF Posted
    <3>2. sends[batch[i].id] <= batch[i].attempts + Failures
      BY <1>1, <2>6, <3>1 DEF Ceiling
    <3>3. batch[i].id = batch[1].id <=> i = 1
      BY <2>1, <2>6 DEF Queued
    <3> QED
      BY <1>1, <2>3, <2>6, <3>1, <3>2, <3>3
  <2>7. ASSUME NEW j \in jobs
        PROVE  \/ j.status = "Delivered"
               \/ sends'[j.id] <= j.attempts + Failures
               \/ j.id = batch[1].id /\ sends'[j.id] <= j.attempts + 1 + Failures
    <3>1. j.status = "Delivered" \/ sends[j.id] <= j.attempts + Failures
      BY <2>1, <2>7 DEF Ceiling
    <3> QED
      BY <1>1, <2>3, <2>7, <3>1
  <2>8. (Working /\ wpc # "batch")'
    BY <2>1 DEF Working
  <2> QED
    BY <2>1, <2>2, <2>5, <2>6, <2>7, <2>8 DEF Ceiling
<1>5. ASSUME NEW outcome \in {"ok", "failed"}, Answer(outcome)
      PROVE  Ceiling'
  <2>1. UNCHANGED <<sends, jobs, batch, crashes, dberrors>>
    BY <1>5 DEF Answer
  <2>2. Failures' = Failures
    BY <2>1 DEF Failures
  <2>3. \A i \in 1..Len(batch) : Posted(i)' = Posted(i)
    BY <1>5 DEF Answer, Posted
  <2>4. (Working /\ wpc # "batch")'
    BY <1>5 DEF Answer, Working
  <2> QED
    BY <2>1, <2>2, <2>3, <2>4 DEF Ceiling
<1>6. CASE mark_delivered
  <2>1. /\ Marked /\ Working /\ NextJob /\ UNCHANGED <<sends, crashes, dberrors>>
    BY <1>6, MarkEffect DEF mark_delivered, Working, history
  <2>2. Failures' = Failures
    BY <2>1 DEF Failures
  <2>3. \A k \in jobs' : k.status = "Delivered" \/ sends[k.id] <= k.attempts + Failures
    BY <2>1 DEF Ceiling, Marked
  <2> QED
    BY <1>1, <2>1, <2>2, <2>3, LeftCeiling DEF Ceiling
<1>7. CASE record_attempt
  <2>1. /\ Recorded /\ Working /\ NextJob /\ UNCHANGED <<sends, crashes, dberrors>>
        /\ wpc = "failed"
    BY <1>7, RecordEffect DEF record_attempt, Working, history
  <2>2. Failures' = Failures
    BY <2>1 DEF Failures
  <2>3. sends[batch[1].id] <= batch[1].attempts + 1 + Failures
    BY <2>1, InHand DEF Ceiling, Posted
  <2>4. \A k \in jobs' : k.status = "Delivered" \/ sends[k.id] <= k.attempts + Failures
    BY <2>1, <2>3 DEF Ceiling, Recorded
  <2> QED
    BY <1>1, <2>1, <2>2, <2>4, LeftCeiling DEF Ceiling
<1>8. CASE GiveUp
  <2>1. /\ UNCHANGED <<sends, jobs, crashes, dberrors>> /\ wpc = "failed" /\ wpc' = "to_dlq"
    BY <1>8 DEF GiveUp, history
  <2>2. Failures' = Failures
    BY <2>1 DEF Failures
  <2>3. \A i \in 1..Len(batch') : i \in 1..Len(batch) /\ batch'[i].id = batch[i].id
    BY <1>8, GiveUpEffect
  <2>4. ASSUME NEW i \in 1..Len(batch')
        PROVE  sends[batch'[i].id] <= batch'[i].attempts + Posted(i)' + Failures
    <3>1. Posted(i) = (IF i = 1 THEN 1 ELSE 0) /\ Posted(i)' = 0
      BY <2>1 DEF Posted
    <3>2. batch'[i].attempts = IF i = 1 THEN batch[i].attempts + 1 ELSE batch[i].attempts
      BY <1>8, <2>3, GiveUpEffect
    <3>3. sends[batch[i].id] <= batch[i].attempts + Posted(i) + Failures
      BY <2>3 DEF Ceiling
    <3> QED
      BY <1>1, <2>3, <3>1, <3>2, <3>3
  <2>5. (Working /\ wpc # "batch")' /\ batch'[1].id = batch[1].id
    BY <1>8, <2>1, InHand, GiveUpEffect DEF Working
  <2> QED
    BY <2>1, <2>2, <2>4, <2>5 DEF Ceiling
<1>9. CASE move_to_dlq_insert
  <2>1. /\ UNCHANGED <<sends, jobs, batch, crashes, dberrors>>
        /\ wpc = "to_dlq" /\ wpc' = "moving"
    BY <1>9 DEF move_to_dlq_insert
  <2>2. Failures' = Failures
    BY <2>1 DEF Failures
  <2>3. \A i \in 1..Len(batch) : Posted(i)' = Posted(i)
    BY <2>1 DEF Posted
  <2>4. (Working /\ wpc # "batch")'
    BY <2>1 DEF Working
  <2> QED
    BY <2>1, <2>2, <2>3, <2>4 DEF Ceiling
<1>10. CASE move_to_dlq_delete
  <2>1. /\ UNCHANGED <<sends, crashes, dberrors>> /\ Working /\ NextJob
    BY <1>10 DEF move_to_dlq_delete, Working, history
  <2>2. Failures' = Failures
    BY <2>1 DEF Failures
  <2>3. jobs' = {j \in jobs : j.id # batch[1].id}
    BY <1>10, <2>1, InHand DEF move_to_dlq_delete, Delete
  <2>4. \A k \in jobs' : k.status = "Delivered" \/ sends[k.id] <= k.attempts + Failures
    BY <2>3 DEF Ceiling
  <2> QED
    BY <1>1, <2>1, <2>2, <2>4, LeftCeiling DEF Ceiling
<1>11. ASSUME NEW p \in Payloads, enqueue(p), UNCHANGED <<wpc, batch, sends, crashes, dberrors>>
       PROVE  Ceiling'
  <2>1. \A i \in 1..Len(batch) : Posted(i)' = Posted(i)
    BY <1>11 DEF Posted
  <2>2. Failures' = Failures /\ Working' = Working
    BY <1>11 DEF Failures, Working
  <2>3. sends[ids + 1] = 0
    BY <1>11, NewRow DEF Counts
  <2>4. Row(ids + 1, p).id = ids + 1 /\ Row(ids + 1, p).attempts = 0
    BY <1>11, NewRow
  <2>5. sends[Row(ids + 1, p).id] <= Row(ids + 1, p).attempts + Failures
    BY <1>1, <2>3, <2>4
  <2>6. \A j \in jobs' : j \in jobs \/ j = Row(ids + 1, p)
    BY <1>11, NewRow
  <2> QED
    BY <1>11, <2>1, <2>2, <2>5, <2>6 DEF Ceiling
<1>12. ASSUME NEW p \in Payloads, create_webhook(p)
       PROVE  Ceiling'
  BY <1>11, <1>12 DEF create_webhook, worker
<1>13. ASSUME NEW h \in Handlers, redeliver_insert(h)
       PROVE  Ceiling'
  <2>1. entry[h].payload \in Payloads
    BY <1>13 DEF Shape, Numbered, redeliver_insert, DlqEntry
  <2> QED
    BY <1>11, <1>13, <2>1 DEF redeliver_insert, worker
<1>14. CASE \/ \E h \in Handlers : redeliver_delete(h) \/ \E e \in dead_letters : get_dlq(h, e)
            \/ Restart \/ Tick \/ UNCHANGED vars
  <2>1. UNCHANGED <<sends, jobs, batch, wpc, crashes, dberrors>>
    BY <1>14 DEF redeliver_delete, get_dlq, Restart, Tick, vars, worker, history
  <2>2. \A i \in 1..Len(batch) : Posted(i)' = Posted(i)
    BY <2>1 DEF Posted
  <2>3. Working' = Working /\ Failures' = Failures
    BY <2>1 DEF Working, Failures
  <2> QED
    BY <2>1, <2>2, <2>3 DEF Ceiling
<1>15. CASE DbError
  <2>1. UNCHANGED <<sends, jobs>> /\ Failures' = Failures + 1
    BY <1>1, <1>15 DEF DbError
  <2>2. \A j \in jobs : j.status = "Delivered" \/ sends[j.id] <= j.attempts + Failures'
    BY <1>1, <2>1, CeilingAfterFailure
  <2>3. \A i \in JobIds : sends[i] <= Allowed + Failures'
    BY <1>1, <2>1 DEF Ceiling
  <2>4. CASE Working /\ NextJob
    BY <1>1, <2>1, <2>2, <2>3, <2>4, LeftCeiling DEF Ceiling
  <2>5. CASE /\ UNCHANGED batch
             /\ wpc' = wpc \/ (wpc = "idle" /\ wpc' = "asleep")
    <3>1. \A i \in 1..Len(batch) : Posted(i)' = Posted(i) /\ Posted(i) \in Nat
      BY <2>5 DEF Posted
    <3>2. \A i \in 1..Len(batch) :
             sends[batch[i].id] <= batch[i].attempts + Posted(i) + Failures'
      BY <1>1, <2>1, <3>1 DEF Ceiling
    <3> QED
      BY <2>1, <2>2, <2>3, <2>5, <3>1, <3>2 DEF Ceiling
  <2> QED
    BY <1>15, <2>4, <2>5 DEF DbError, Working, worker
<1>16. CASE Crash
  <2>1. UNCHANGED <<sends, jobs>> /\ Failures' = Failures + 1 /\ Len(batch') = 0
    BY <1>1, <1>16 DEF Crash
  <2>2. \A j \in jobs : j.status = "Delivered" \/ sends[j.id] <= j.attempts + Failures'
    BY <1>1, <2>1, CeilingAfterFailure
  <2>3. \A i \in JobIds : sends[i] <= Allowed + Failures'
    BY <1>1, <2>1 DEF Ceiling
  <2> QED
    BY <2>1, <2>2, <2>3 DEF Ceiling
<1> QED
  BY <1>2, <1>3, <1>4, <1>5, <1>6, <1>7, <1>8, <1>9, <1>10, <1>12, <1>13, <1>14, <1>15, <1>16
     DEF Next, WorkerStep

LEMMA CeilingHolds == Spec => [](Queued /\ Ceiling)
<1>1. ASSUME Init PROVE Queued /\ Ceiling
  <2>1. Len(batch) = 0 /\ jobs = {}
    BY <1>1 DEF Init
  <2>2. \A i \in JobIds : sends[i] = 0
    BY <1>1 DEF Init
  <2>3. Failures = 0
    BY <1>1 DEF Init, Failures
  <2> QED
    BY <2>1, <2>2, <2>3, AllowedType DEF Queued, Ceiling
<1>2. Shape /\ Counts /\ Queued /\ Ceiling /\ [Next]_vars => (Queued /\ Ceiling)'
  BY QueuedStep, CeilingStep
<1> QED
  BY <1>1, <1>2, ShapeHolds, BooksHold, PTL DEF Spec

\* A dead letter's attempts are POSTs that were made, at most MAX_ATTEMPTS of
\* them, and all of them when nothing failed; and each crash or failed
\* statement costs a job one POST too many at most, for any MAX_ATTEMPTS.
THEOREM EntryCountsSendsHolds == Spec => []EntryCountsSends
<1>1. Shape /\ Counts /\ (Clean => Exact) /\ Ceiling => EntryCountsSends
  <2> SUFFICES ASSUME Shape, Counts, Clean => Exact, Ceiling
               PROVE  EntryCountsSends
    OBVIOUS
  <2>1. crashes \in Nat /\ dberrors \in Nat
    BY DEF Shape, TypeOK
  <2>2. \A i \in JobIds : sends[i] <= MaxOf(1, MaxAttempts) + crashes + dberrors
    BY <2>1, Types, AllowedType DEF Ceiling, Failures, Allowed
  <2> QED
    BY <2>2 DEF Counts, Clean, Exact, EntryCountsSends, Allowed
<1> QED
  BY <1>1, ShapeHolds, BooksHold, CeilingHolds, PTL

\* What db.rs says of move_to_dlq holds as long as no statement fails and the
\* process does not die: whenever the mutex is free, the job of a dead letter
\* has left the queue.
THEOREM UnlessInterruptedDeadLetterLeft ==
    Spec => [](Clean => DeadLetterLeftTheQueue)
<1>1. (Clean => Exact) => (Clean => DeadLetterLeftTheQueue)
  BY DEF Exact, DeadLetterLeftTheQueue, Locked
<1> QED
  BY <1>1, BooksHold, PTL

(***************************************************************************)
(* A payload is in one place                                               *)
(***************************************************************************)

\* Redeliver requests do not overlap.
OneRequest == \A g, h \in Handlers : g = h

\* A payload has one row at most in each table, and in both of them only while
\* a move is under way; what the batch and a request have read is still there.
Placed ==
    /\ \A j \in jobs : j.payload \in accepted
    /\ \A e \in dead_letters : e.payload \in accepted
    /\ \A j, k \in jobs : j.payload = k.payload => j = k
    /\ \A d, e \in dead_letters : d.payload = e.payload => d = e
    /\ \A i \in 1..Len(batch) : \E j \in jobs : j.id = batch[i].id
    /\ \A h \in Handlers : hpc[h] # "idle" => entry[h] \in dead_letters
    /\ \A j \in jobs, e \in dead_letters :
          j.payload = e.payload =>
              \/ wpc = "moving" /\ j.id = batch[1].id
              \/ \E h \in Handlers : hpc[h] = "moving" /\ entry[h] = e

\* When the mutex is free the two tables share no payload.
Apart == \A j \in jobs, e \in dead_letters : j.payload # e.payload

LEMMA FreeApart ==
    ASSUME Placed, ~Locked
    PROVE  Apart
BY DEF Placed, Locked, Apart

\* A step that keeps the tables, and from which the batch gets nothing new.
LEMMA PlacedFrame ==
    ASSUME Placed, Apart, UNCHANGED <<jobs, dead_letters, accepted, hpc, entry>>,
           \A i \in 1..Len(batch') : \/ \E j \in jobs : j.id = batch'[i].id
                                     \/ \E k \in 1..Len(batch) : batch'[i].id = batch[k].id
    PROVE  Placed'
<1>1. \A i \in 1..Len(batch') : \E j \in jobs : j.id = batch'[i].id
  BY DEF Placed
<1> QED
  BY <1>1 DEF Placed, Apart

\* An enqueued payload that no job holds, from nowhere or from the one entry
\* of the request in hand.
LEMMA PlacedEnqueue ==
    ASSUME Shape, Placed, Apart, NEW p \in Payloads, enqueue(p),
           UNCHANGED <<dead_letters, wpc, batch, entry>>,
           accepted' = accepted \union {p},
           \A j \in jobs : j.payload # p,
           \A h \in Handlers : hpc'[h] # "idle" => hpc[h] # "idle",
           \A e \in dead_letters : e.payload = p =>
              \E h \in Handlers : hpc'[h] = "moving" /\ entry[h] = e
    PROVE  Placed'
<1> DEFINE new == Row(ids + 1, p)
<1>1. new.payload = p /\ jobs' = jobs \union {new}
  BY NewRow
<1> HIDE DEF new
<1>2. \A j, k \in jobs' : j.payload = k.payload => j = k
  BY <1>1 DEF Placed
<1>3. \A i \in 1..Len(batch) : \E j \in jobs' : j.id = batch[i].id
  BY <1>1 DEF Placed
<1>4. \A j \in jobs', e \in dead_letters :
         j.payload = e.payload => \E h \in Handlers : hpc'[h] = "moving" /\ entry[h] = e
  BY <1>1 DEF Apart
<1>5. \A h \in Handlers : hpc'[h] # "idle" => entry[h] \in dead_letters
  BY DEF Placed
<1>6. \A j \in jobs' : j.payload \in accepted'
  BY <1>1 DEF Placed
<1>7. \A e \in dead_letters : e.payload \in accepted'
  BY DEF Placed
<1> QED
  BY <1>2, <1>3, <1>4, <1>5, <1>6, <1>7 DEF Placed

LEMMA PlacedStep ==
    ASSUME Shape, Kept, Exact, Placed, OneRequest, [Next]_vars, ~DbError, ~Crash
    PROVE  Placed'
<1>1. CASE fetch_due
  <2>1. UNCHANGED <<jobs, dead_letters, accepted, hpc, entry>> /\ ~Locked
    BY <1>1 DEF fetch_due, handlers, history
  <2> QED
    BY <1>1, <2>1, FetchedDue, FreeApart, PlacedFrame
<1>2. CASE WakeUp \/ Block \/ Send \/ \E outcome \in {"ok", "failed"} : Answer(outcome)
  <2>1. UNCHANGED <<jobs, dead_letters, accepted, batch, hpc, entry>> /\ wpc # "moving"
    BY <1>2 DEF WakeUp, Block, Send, Answer, handlers, history
  <2> QED
    BY <2>1 DEF Placed
<1>3. CASE mark_delivered \/ record_attempt
  <2>1. Updated(batch[1].id)
    BY <1>3, MarkEffect, RecordEffect DEF Marked, Recorded
  <2>2. /\ Working /\ NextJob /\ UNCHANGED <<dead_letters, hpc, entry, accepted>>
        /\ Apart
    BY <1>3, FreeApart DEF Working, mark_delivered, record_attempt, handlers, history
  <2>3. \A j \in jobs' : j.payload \in accepted
    BY <2>1 DEF Updated, Placed
  <2>4. \A j, k \in jobs' : j.payload = k.payload => j = k
    <3> SUFFICES ASSUME NEW j \in jobs', NEW k \in jobs', j.payload = k.payload
                 PROVE  j = k
      OBVIOUS
    <3>1. PICK j0 \in jobs, k0 \in jobs : /\ j.id = j0.id /\ j.payload = j0.payload
                                          /\ k.id = k0.id /\ k.payload = k0.payload
      BY <2>1 DEF Updated
    <3>2. j0.payload = k0.payload
      BY <3>1
    <3>3. j0 = k0
      BY <3>2 DEF Placed
    <3>4. j.id = k.id
      BY <3>1, <3>3
    <3> QED
      BY <2>1, <3>4 DEF Updated
  <2>5. \A i \in 1..Len(batch') : \E j \in jobs' : j.id = batch'[i].id
    BY <2>1, <2>2, BatchLeft DEF Updated, Placed
  <2>6. \A j \in jobs', e \in dead_letters : j.payload # e.payload
    BY <2>1, <2>2 DEF Updated, Apart
  <2> QED
    BY <2>2, <2>3, <2>4, <2>5, <2>6 DEF Placed
<1>4. CASE GiveUp
  <2>1. UNCHANGED <<jobs, dead_letters, accepted, hpc, entry>> /\ wpc # "moving"
    BY <1>4 DEF GiveUp, handlers, history
  <2>2. \A i \in 1..Len(batch') : \E j \in jobs : j.id = batch'[i].id
    BY <1>4, GiveUpEffect DEF Placed
  <2> QED
    BY <2>1, <2>2 DEF Placed
<1>5. CASE move_to_dlq_insert
  <2>1. UNCHANGED <<jobs, accepted, batch, hpc, entry>> /\ wpc' = "moving" /\ Apart
    BY <1>5, FreeApart DEF move_to_dlq_insert, handlers
  <2>2. PICK j \in jobs : j.id = batch[1].id /\ j.payload = batch[1].payload
    BY <1>5, InHand DEF move_to_dlq_insert, Working, Kept, Copies, Placed
  <2>3. /\ dead_letters' = dead_letters \union {NewEntry}
        /\ NewEntry.payload = j.payload
    BY <1>5, <2>2, NewEntryEffect
  <2>4. \A e \in dead_letters' : e.payload \in accepted
    BY <2>3 DEF Placed
  <2>5. \A d, e \in dead_letters' : d.payload = e.payload => d = e
    BY <2>1, <2>3 DEF Placed, Apart
  <2>6. \A k \in jobs, e \in dead_letters' : k.payload = e.payload => k.id = batch[1].id
    BY <2>1, <2>2, <2>3 DEF Placed, Apart
  <2> QED
    BY <2>1, <2>3, <2>4, <2>5, <2>6 DEF Placed
<1>6. CASE move_to_dlq_delete
  <2>1. /\ UNCHANGED <<dead_letters, hpc, entry, accepted>> /\ Working /\ NextJob
        /\ wpc = "moving"
    BY <1>6 DEF move_to_dlq_delete, Working, handlers, history
  <2>2. Head(batch) = batch[1] /\ 1 \in 1..Len(batch)
    BY <2>1, InHand
  <2>3. jobs' = {j \in jobs : j.id # batch[1].id}
    BY <1>6, <2>2 DEF move_to_dlq_delete, Delete
  <2>4. \A i \in 1..Len(batch') : \E j \in jobs' : j.id = batch'[i].id
    <3> SUFFICES ASSUME NEW i \in 1..Len(batch')
                 PROVE  \E j \in jobs' : j.id = batch'[i].id
      OBVIOUS
    <3> DEFINE k == i + 1
    <3>1. k \in 1..Len(batch) /\ k # 1 /\ batch'[i] = batch[k]
      BY <2>1, GoesOn
    <3> HIDE DEF k
    <3>2. batch[k].id # batch[1].id
      BY <2>2, <3>1 DEF Exact
    <3> QED
      BY <2>3, <3>1, <3>2 DEF Placed
  <2>5. \A h \in Handlers : hpc[h] # "moving"
    BY <2>1 DEF Kept, Mutex
  <2>6. \A j \in jobs', e \in dead_letters : j.payload # e.payload
    BY <2>3, <2>5 DEF Placed
  <2> QED
    BY <2>1, <2>3, <2>4, <2>6 DEF Placed
<1>7. ASSUME NEW p \in Payloads, create_webhook(p)
      PROVE  Placed'
  <2>1. /\ enqueue(p) /\ accepted' = accepted \union {p} /\ Apart
        /\ UNCHANGED <<dead_letters, wpc, batch, hpc, entry>>
    BY <1>7, FreeApart DEF create_webhook, enqueue, worker, handlers
  <2>2. (\A j \in jobs : j.payload # p) /\ \A e \in dead_letters : e.payload # p
    BY <1>7 DEF create_webhook, Placed
  <2> QED
    BY <2>1, <2>2, PlacedEnqueue
<1>8. ASSUME NEW h \in Handlers, NEW e \in dead_letters, get_dlq(h, e)
      PROVE  Placed'
  <2>1. UNCHANGED <<jobs, dead_letters, accepted, wpc, batch>> /\ Apart
    BY <1>8, FreeApart DEF get_dlq, worker, history
  <2>2. \A g \in Handlers : g = h /\ entry'[g] = e
    BY <1>8 DEF get_dlq, Shape, TypeOK, OneRequest
  <2> QED
    BY <2>1, <2>2 DEF Placed, Apart
<1>9. ASSUME NEW h \in Handlers, redeliver_insert(h)
      PROVE  Placed'
  <2>1. /\ enqueue(entry[h].payload) /\ Apart
        /\ UNCHANGED <<dead_letters, wpc, batch, entry, accepted>>
    BY <1>9, FreeApart DEF redeliver_insert, enqueue, worker
  <2>2. entry[h].payload \in Payloads
    BY <1>9 DEF Shape, Numbered, redeliver_insert, DlqEntry
  <2>3. \A g \in Handlers : g = h /\ hpc'[g] = "moving" /\ hpc[g] = "found"
    BY <1>9 DEF Shape, TypeOK, redeliver_insert, OneRequest
  <2>4. entry[h] \in dead_letters
    BY <2>3 DEF Placed
  <2>5. accepted' = accepted \union {entry[h].payload}
    BY <2>1, <2>4 DEF Placed
  <2>6. \A j \in jobs : j.payload # entry[h].payload
    BY <2>1, <2>4 DEF Apart
  <2>7. \A e \in dead_letters : e.payload = entry[h].payload => entry[h] = e
    BY <2>4 DEF Placed
  <2> QED
    BY <2>1, <2>2, <2>3, <2>5, <2>6, <2>7, PlacedEnqueue
<1>10. ASSUME NEW h \in Handlers, redeliver_delete(h)
       PROVE  Placed'
  <2>1. /\ UNCHANGED <<jobs, accepted, wpc, batch>> /\ hpc[h] = "moving"
        /\ dead_letters' = {e \in dead_letters : e.id # entry[h].id}
    BY <1>10 DEF redeliver_delete, worker, history
  <2>2. \A g \in Handlers : g = h /\ hpc'[g] = "idle"
    BY <1>10 DEF redeliver_delete, Respond, Shape, TypeOK, OneRequest
  <2>3. wpc # "moving"
    BY <2>1 DEF Kept, Mutex
  <2>4. \A j \in jobs, e \in dead_letters' : j.payload # e.payload
    BY <2>1, <2>2, <2>3 DEF Placed
  <2> QED
    BY <2>1, <2>2, <2>4 DEF Placed
<1>11. CASE Restart \/ Tick \/ UNCHANGED vars
  <2>1. UNCHANGED <<jobs, dead_letters, accepted, wpc, batch, hpc, entry>>
    BY <1>11 DEF Restart, Tick, vars, worker, handlers, history
  <2> QED
    BY <2>1 DEF Placed
<1> QED
  BY <1>1, <1>2, <1>3, <1>4, <1>5, <1>6, <1>7, <1>8, <1>9, <1>10, <1>11 DEF Next, WorkerStep

\* While nothing has failed and redeliver requests do not overlap, a payload is
\* one job or one dead letter whenever the mutex is free, for any payloads.
THEOREM OnePlaceHolds == Spec => []OnePlace
<1> DEFINE Inv == Clean /\ OneRequest => Placed
<1>1. Init => Inv
  <2> SUFFICES ASSUME Init PROVE Placed
    OBVIOUS
  <2>1. Len(batch) = 0
    BY DEF Init
  <2> QED
    BY <2>1 DEF Init, Placed
<1>2. Shape /\ Kept /\ (Clean => Exact) /\ Inv /\ [Next]_vars => Inv'
  <2> SUFFICES ASSUME Shape, Kept, Clean => Exact, Inv, [Next]_vars, Clean', OneRequest
               PROVE  Placed'
    BY DEF OneRequest
  <2> QED
    BY CleanStep, PlacedStep
<1>3. Shape /\ Kept /\ Inv => OnePlace
  <2> SUFFICES ASSUME Shape, Kept, Placed, ~Locked, NEW p \in accepted
               PROVE  Cardinality({j \in jobs : j.payload = p}
                                     \union {e \in dead_letters : e.payload = p}) = 1
    BY DEF OnePlace, Clean, OneRequest
  <2> DEFINE S == {j \in jobs : j.payload = p} \union {e \in dead_letters : e.payload = p}
  <2>1. Apart
    BY FreeApart
  <2>2. \E x : S = {x}
    <3>1. ASSUME NEW j \in jobs, j.payload = p
          PROVE  S = {j}
      BY <2>1, <3>1 DEF Apart, Placed
    <3>2. ASSUME NEW e \in dead_letters, e.payload = p
          PROVE  S = {e}
      BY <2>1, <3>2 DEF Apart, Placed
    <3>3. (\E j \in jobs : j.payload = p) \/ \E e \in dead_letters : e.payload = p
      BY DEF Kept, NothingIsLost
    <3> QED
      BY <3>1, <3>2, <3>3
  <2> QED
    BY <2>2, FS_Singleton
<1> QED
  BY <1>1, <1>2, <1>3, KeptHolds, BooksHold, PTL DEF Spec
=============================================================================
