--------------------------- MODULE QIngest_proofs ---------------------------
(***************************************************************************)
(* Proofs about ingestion of service q, for any clients, requests, keys,   *)
(* answers of the resolver, limit, window and delay between the limiter's  *)
(* clock and its lock.                                                     *)
(***************************************************************************)
EXTENDS QIngest, RateLimiter_proofs

(***************************************************************************)
(* The limiter under ingestion                                             *)
(***************************************************************************)
LEMMA RequestFields ==
    ASSUME NEW c \in Clients
    PROVE  /\ Request[c] \in RequestType
           /\ Request[c].key \in Keys \union {NoKey}
           /\ rl_key(Request[c]) \in Buckets
<1>1. Request[c] \in RequestType /\ Buckets = Tokens \union {"anonymous"}
  BY IngestAssumption DEF IngestConfig
<1> QED
  BY <1>1 DEF RequestType, rl_key

\* Each step of ingestion is one step of the limiter, or none.
LEMMA LimiterStep == [Next]_vars => [LimiterNext]_lvars
<1> SUFFICES ASSUME [Next]_vars
             PROVE  [LimiterNext]_lvars
  OBVIOUS
<1>1. ASSUME NEW c \in Clients, Send(c)
      PROVE  [LimiterNext]_lvars
  <2>1. rl_key(Request[c]) \in Buckets
    BY RequestFields
  <2> QED
    BY <1>1, <2>1 DEF Send, Unauthorized, TooMany, Malformed, Begin, LimiterNext
<1>2. ASSUME NEW i \in Ids, ingest_sync(i) \/ Respond(i) \/ Disconnect(i)
      PROVE  UNCHANGED lvars
  BY <1>2 DEF ingest_sync, RefuseDestination, insert, Conflict, InsertFails, Respond, Disconnect
<1>3. CASE Crash
  BY <1>3 DEF Crash, LimiterNext
<1>4. CASE Housekeeping
  BY <1>4 DEF Housekeeping, LimiterNext
<1>5. CASE Tick
  BY <1>5 DEF Tick, LimiterNext
<1>6. CASE UNCHANGED vars
  BY <1>6 DEF vars
<1> QED
  BY <1>1, <1>2, <1>3, <1>4, <1>5, <1>6 DEF Next

\* Ingestion uses the limiter as its module says, so what is proved of the
\* limiter holds of ingestion.
THEOREM ImplementsLimiter == Spec => LimiterSpec
<1>1. Init => LimiterInit
  BY DEF Init
<1>2. [Next]_vars => [LimiterNext]_lvars
  BY LimiterStep
<1> QED
  BY <1>1, <1>2, PTL DEF Spec, LimiterSpec

\* However late calls take the lock, at most Limit requests of a bucket get
\* past the limiter in any rolling window shortened by the longest delay,
\* whatever becomes of them.
THEOREM IngestWindowBound == Spec => []WindowBound
BY ImplementsLimiter, WindowBoundHolds, PTL

\* A request is answered 429 only when the window of its bucket is full, and
\* gets past the limiter only when it is not, but for the longest delay.
THEOREM IngestVerdictIsNearlyExact == Spec => []VerdictIsNearlyExact
BY ImplementsLimiter, VerdictIsNearlyExactHolds, PTL

(***************************************************************************)
(* Types                                                                   *)
(***************************************************************************)

\* TypeOK without the limiter, and what a submission under way knows.
Local ==
    /\ row \in [Ids -> Keys \union {NoKey, "absent"}]
    /\ pc \in [Ids -> Progress]
    /\ from \in [Ids -> Clients \union {NoClient}]
    /\ named \in [Ids -> Ids \union {NoId}]
    /\ submitted \in Nat
    /\ answer \in [Clients -> Codes]
    /\ told \subseteq Keys \X Ids
    /\ stored \in Nat
    /\ faults \in 0..MaxFaults

Underway ==
    \A i \in Ids : /\ pc[i] # "none" => from[i] \in Clients
                   /\ pc[i] = "duplicate" => named[i] \in Ids

Shape == Local /\ Underway

LEMMA FaultType ==
    ASSUME faults \in 0..MaxFaults, Fault
    PROVE  faults' \in 0..MaxFaults
BY IngestAssumption DEF IngestConfig, Fault

\* A destination is refused with one of two codes.
LEMMA VerdictType ==
    ASSUME NEW i \in Ids, NEW ips, Verdict(i, ips) # "ok"
    PROVE  Verdict(i, ips) \in {"400", "403"}
<1> DEFINE url == Request[from[i]].url
<1>1. validate_url(url) \in {"ok", "400", "403"}
  BY DEF validate_url
<1> HIDE DEF url
<1>2. validate(url, ips, AllowPrivate) \in {"ok", "400", "403"}
  BY <1>1 DEF validate
<1> QED
  BY <1>2 DEF Verdict, url

\* The end of a submission.
LEMMA LeaveShape ==
    ASSUME Shape, NEW i \in Ids, Leave(i)
    PROVE  /\ pc' \in [Ids -> Progress]
           /\ from' \in [Ids -> Clients \union {NoClient}]
           /\ named' \in [Ids -> Ids \union {NoId}]
           /\ Underway'
           /\ pc'[i] = "none"
           /\ \A j \in Ids : j # i => pc'[j] = pc[j] /\ from'[j] = from[j] /\ named'[j] = named[j]
BY DEF Shape, Local, Underway, Leave, Progress

\* The result of the blocking thread.
LEMMA ReturnShape ==
    ASSUME Shape, NEW i \in Ids, NEW result \in {"created", "duplicate", "400", "403", "500"},
           NEW id \in Ids \union {NoId}, result = "duplicate" => id \in Ids,
           Return(i, result, id)
    PROVE  /\ pc' \in [Ids -> Progress]
           /\ from' \in [Ids -> Clients \union {NoClient}]
           /\ named' \in [Ids -> Ids \union {NoId}]
           /\ Underway'
           /\ \/ pc'[i] = result /\ from'[i] = from[i] /\ named'[i] = id
              \/ pc'[i] = "none"
           /\ \A j \in Ids : j # i => pc'[j] = pc[j] /\ from'[j] = from[j] /\ named'[j] = named[j]
<1>1. CASE pc[i] = "orphaned" /\ Leave(i)
  BY <1>1, LeaveShape
<1>2. CASE /\ pc[i] = "blocking"
           /\ pc' = [pc EXCEPT ![i] = result]
           /\ named' = [named EXCEPT ![i] = id]
           /\ UNCHANGED from
  BY <1>2 DEF Shape, Local, Underway, Progress
<1> QED
  BY <1>1, <1>2 DEF Return

\* The holder that a conflict finds.
LEMMA FoundHolds ==
    ASSUME NEW i, NEW k, Holders(k) # {}
    PROVE  Found(i, k) \in Ids /\ row[Found(i, k)] = k
<1>1. Found(i, k) \in Holders(k)
  BY DEF Found
<1> QED
  BY <1>1 DEF Holders

LEMMA InitShape == Init => Shape
BY IngestAssumption DEF IngestConfig, Init, Shape, Local, Underway, Progress, Codes

LEMMA ShapeStep ==
    ASSUME Shape, [Next]_vars
    PROVE  Shape'
<1> USE DEF Shape, Local
<1>1. ASSUME NEW c \in Clients, Unauthorized(c)
      PROVE  Shape'
  BY <1>1 DEF Unauthorized, submissions, Underway, Codes
<1>2. ASSUME NEW c \in Clients, TooMany(c)
      PROVE  Shape'
  BY <1>2 DEF TooMany, submissions, Underway
<1>3. ASSUME NEW c \in Clients, Malformed(c)
      PROVE  Shape'
  BY <1>3 DEF Malformed, submissions, Underway, Codes
<1>4. ASSUME NEW c \in Clients, Begin(c)
      PROVE  Shape'
  <2>1. PICK i \in Ids : /\ pc' = [pc EXCEPT ![i] = "blocking"]
                         /\ from' = [from EXCEPT ![i] = c]
    BY <1>4 DEF Begin
  <2>2. UNCHANGED <<row, named, submitted, answer, told, stored, faults>>
    BY <1>4 DEF Begin
  <2> QED
    BY <2>1, <2>2 DEF Underway, Progress
<1>5. ASSUME NEW i \in Ids, RefuseDestination(i)
      PROVE  Shape'
  <2>1. PICK ips \in Answers : Verdict(i, ips) # "ok" /\ Return(i, Verdict(i, ips), NoId)
    BY <1>5 DEF RefuseDestination
  <2>2. Verdict(i, ips) \in {"400", "403"}
    BY <2>1, VerdictType
  <2> DEFINE result == Verdict(i, ips)
  <2> HIDE DEF result
  <2>3. result \in {"400", "403"} /\ Return(i, result, NoId)
    BY <2>1, <2>2 DEF result
  <2>4. UNCHANGED <<row, submitted, answer, told, stored, faults>>
    BY <1>5 DEF RefuseDestination
  <2> QED
    BY <2>3, <2>4, ReturnShape
<1>6. ASSUME NEW i \in Ids, insert(i)
      PROVE  Shape'
  <2> DEFINE k == Request[from[i]].key
  <2>1. /\ Working(i)
        /\ row' = [row EXCEPT ![i] = k]
        /\ stored' = stored + 1
        /\ Return(i, "created", NoId)
        /\ UNCHANGED <<submitted, answer, told, faults>>
    BY <1>6 DEF insert, Validated
  <2>2. k \in Keys \union {NoKey}
    BY <2>1, RequestFields DEF Underway, Working
  <2> QED
    BY <2>1, <2>2, ReturnShape
<1>7. ASSUME NEW i \in Ids, Conflict(i)
      PROVE  Shape'
  <2> DEFINE k == Request[from[i]].key
  <2>1. /\ Holders(k) # {}
        /\ Return(i, "duplicate", Found(i, k))
        /\ UNCHANGED <<row, submitted, answer, told, stored, faults>>
    BY <1>7 DEF Conflict, Conflicts
  <2>2. Found(i, k) \in Ids
    BY <2>1, FoundHolds
  <2> QED
    BY <2>1, <2>2, ReturnShape
<1>8. ASSUME NEW i \in Ids, InsertFails(i)
      PROVE  Shape'
  BY <1>8, ReturnShape, FaultType DEF InsertFails
<1>9. ASSUME NEW i \in Ids, Respond(i)
      PROVE  Shape'
  <2> DEFINE k == Request[from[i]].key
  <2>1. from[i] \in Clients /\ Done(i) /\ Leave(i) /\ UNCHANGED <<row, stored>>
    BY <1>9 DEF Respond, Done, Underway
  <2>2. k \in Keys \union {NoKey}
    BY <2>1, RequestFields
  <2>3. Code(i) \in Codes
    BY <2>1 DEF Code, Codes, Done, Progress
  <2>4. answer' \in [Clients -> Codes] /\ faults' \in 0..MaxFaults
    BY <1>9, <2>1, <2>3, FaultType DEF Respond
  <2>5. submitted' \in Nat
    BY <1>9 DEF Respond
  <2>6. told' \subseteq Keys \X Ids
    <3>1. pc[i] \in {"created", "duplicate"} => Named(i) \in Ids
      BY DEF Named, Underway
    <3> QED
      BY <1>9, <2>2, <3>1 DEF Respond
  <2> QED
    BY <2>1, <2>4, <2>5, <2>6, LeaveShape
<1>10. ASSUME NEW i \in Ids, Disconnect(i)
       PROVE  Shape'
  <2>1. faults' \in 0..MaxFaults /\ UNCHANGED <<row, submitted, answer, told, stored>>
    BY <1>10, FaultType DEF Disconnect
  <2>2. CASE Leave(i)
    BY <2>1, <2>2, LeaveShape
  <2>3. CASE /\ pc[i] = "blocking"
             /\ pc' = [pc EXCEPT ![i] = "orphaned"]
             /\ UNCHANGED <<from, named>>
    BY <2>1, <2>3 DEF Underway, Progress
  <2> QED
    BY <1>10, <2>2, <2>3 DEF Disconnect
<1>11. ASSUME Crash
       PROVE  Shape'
  BY <1>11, FaultType DEF Crash, Underway, Progress
<1>12. ASSUME Housekeeping \/ Tick
       PROVE  Shape'
  BY <1>12 DEF Housekeeping, Tick, submissions, Underway
<1>13. ASSUME UNCHANGED vars
       PROVE  Shape'
  BY <1>13 DEF vars, submissions, Underway
<1> QED
  BY <1>1, <1>2, <1>3, <1>4, <1>5, <1>6, <1>7, <1>8, <1>9, <1>10, <1>11, <1>12, <1>13
     DEF Next, Send, ingest_sync

LEMMA ShapeHolds == Spec => []Shape
<1>1. Init => Shape
  BY InitShape
<1>2. Shape /\ [Next]_vars => Shape'
  BY ShapeStep
<1> QED
  BY <1>1, <1>2, PTL DEF Spec

\* Every variable keeps its type.
THEOREM TypeCorrect == Spec => []TypeOK
<1>1. LimiterTypeOK /\ Shape => TypeOK
  BY DEF TypeOK, Shape, Local
<1> QED
  BY <1>1, ImplementsLimiter, LimiterTypeCorrect, ShapeHolds, PTL

(***************************************************************************)
(* The idempotency key                                                     *)
(***************************************************************************)

\* What a submission knows is what the table says: a thread still at work has
\* stored nothing, a created row carries the key of its request, and a
\* conflict has named the row of the key.
KnowsRow(i) ==
    /\ Working(i) => row[i] = "absent"
    /\ pc[i] = "created" => row[i] = Request[from[i]].key
    /\ pc[i] = "duplicate" => /\ Request[from[i]].key \in Keys
                             /\ row[named[i]] = Request[from[i]].key

Ledger == AnswersNameTheRow /\ \A i \in Ids : KnowsRow(i)

\* Without a change of the table, only what submission i knows is in question.
LEMMA LedgerFrame ==
    ASSUME Shape, Ledger, UNCHANGED <<row, told>>, NEW i \in Ids, KnowsRow(i)',
           \A j \in Ids : j # i => pc'[j] = pc[j] /\ from'[j] = from[j] /\ named'[j] = named[j]
    PROVE  Ledger'
<1>1. AnswersNameTheRow'
  BY DEF Ledger, AnswersNameTheRow
<1>2. ASSUME NEW j \in Ids, j # i
      PROVE  KnowsRow(j)'
  BY <1>2 DEF Ledger, KnowsRow, Working
<1> QED
  BY <1>1, <1>2 DEF Ledger

LEMMA LedgerStep ==
    ASSUME Shape, Ledger, [Next]_vars
    PROVE  Ledger'
<1>1. ASSUME UNCHANGED <<row, told, pc, from, named>>
      PROVE  Ledger'
  BY <1>1 DEF Ledger, AnswersNameTheRow, KnowsRow, Working
<1>2. ASSUME NEW c \in Clients, Begin(c)
      PROVE  Ledger'
  <2>1. PICK i \in Ids : /\ Draws(i)
                         /\ pc' = [pc EXCEPT ![i] = "blocking"]
                         /\ from' = [from EXCEPT ![i] = c]
    BY <1>2 DEF Begin
  <2>2. UNCHANGED <<row, told, named>>
    BY <1>2 DEF Begin
  <2>3. row[i] = "absent" /\ pc'[i] = "blocking"
    BY <2>1 DEF Draws, Unused, Shape, Local
  <2>4. KnowsRow(i)'
    BY <2>2, <2>3 DEF KnowsRow
  <2>5. \A j \in Ids : j # i => pc'[j] = pc[j] /\ from'[j] = from[j] /\ named'[j] = named[j]
    BY <2>1, <2>2 DEF Shape, Local
  <2> QED
    BY <2>2, <2>4, <2>5, LedgerFrame
<1>3. ASSUME NEW i \in Ids, NEW result \in {"400", "403", "500"},
             Return(i, result, NoId), UNCHANGED <<row, told>>
      PROVE  Ledger'
  <2>1. /\ pc'[i] \in {result, "none"}
        /\ \A j \in Ids : j # i => pc'[j] = pc[j] /\ from'[j] = from[j] /\ named'[j] = named[j]
    BY <1>3, ReturnShape
  <2>2. KnowsRow(i)'
    BY <2>1 DEF KnowsRow, Working
  <2> QED
    BY <1>3, <2>1, <2>2, LedgerFrame
<1>4. ASSUME NEW i \in Ids, RefuseDestination(i)
      PROVE  Ledger'
  <2>1. PICK ips \in Answers : Verdict(i, ips) # "ok" /\ Return(i, Verdict(i, ips), NoId)
    BY <1>4 DEF RefuseDestination
  <2>2. Verdict(i, ips) \in {"400", "403"}
    BY <2>1, VerdictType
  <2> DEFINE result == Verdict(i, ips)
  <2> HIDE DEF result
  <2>3. result \in {"400", "403", "500"} /\ Return(i, result, NoId)
    BY <2>1, <2>2 DEF result
  <2>4. UNCHANGED <<row, told>>
    BY <1>4 DEF RefuseDestination
  <2> QED
    BY <1>3, <2>3, <2>4
<1>5. ASSUME NEW i \in Ids, insert(i)
      PROVE  Ledger'
  <2> DEFINE k == Request[from[i]].key
  <2>1. /\ Working(i)
        /\ ~Conflicts(k)
        /\ row' = [row EXCEPT ![i] = k]
        /\ Return(i, "created", NoId)
        /\ told' = told
    BY <1>5 DEF insert, Validated
  <2>2. /\ \/ pc'[i] = "created" /\ from'[i] = from[i]
           \/ pc'[i] = "none"
        /\ \A j \in Ids : j # i => pc'[j] = pc[j] /\ from'[j] = from[j] /\ named'[j] = named[j]
    BY <2>1, ReturnShape
  <2>3. k \in Keys \union {NoKey} /\ k # "absent" /\ "absent" \notin Keys /\ NoKey \notin Keys
    BY <2>1, RequestFields, IngestAssumption
       DEF IngestConfig, Shape, Underway, Working
  <2>4. row[i] = "absent" /\ row'[i] = k /\ \A j \in Ids : j # i => row'[j] = row[j]
    BY <2>1 DEF Ledger, KnowsRow, Shape, Local
  <2>5. k \in Keys => \A j \in Ids : row[j] # k
    BY <2>1, <2>3 DEF Conflicts, Holders
  <2>6. \A a, b \in Ids : row'[a] = row'[b] /\ row'[a] \in Keys => a = b
    BY <2>3, <2>4, <2>5 DEF Ledger, AnswersNameTheRow
  <2>7. \A t \in told : t[1] \in Keys /\ t[2] \in Ids
    BY DEF Shape, Local
  <2>8. \A t \in told : row'[t[2]] = t[1]
    BY <2>3, <2>4, <2>7 DEF Ledger, AnswersNameTheRow
  <2>9. ASSUME NEW j \in Ids
        PROVE  KnowsRow(j)'
    <3>1. CASE j = i
      BY <2>2, <2>4, <3>1 DEF KnowsRow, Working
    <3>2. CASE j # i
      <4>1. pc[j] = "duplicate" => named[j] \in Ids
        BY DEF Shape, Underway
      <4> QED
        BY <2>2, <2>3, <2>4, <3>2, <4>1 DEF Ledger, KnowsRow, Working
    <3> QED
      BY <3>1, <3>2
  <2> QED
    BY <2>1, <2>6, <2>8, <2>9 DEF Ledger, AnswersNameTheRow
<1>6. ASSUME NEW i \in Ids, Conflict(i)
      PROVE  Ledger'
  <2> DEFINE k == Request[from[i]].key
  <2>1. /\ Working(i)
        /\ k # NoKey
        /\ Holders(k) # {}
        /\ Return(i, "duplicate", Found(i, k))
        /\ UNCHANGED <<row, told>>
    BY <1>6 DEF Conflict, Conflicts, Validated
  <2>2. Found(i, k) \in Ids /\ row[Found(i, k)] = k
    BY <2>1, FoundHolds
  <2>3. k \in Keys
    BY <2>1, RequestFields DEF Shape, Underway, Working
  <2>4. /\ \/ pc'[i] = "duplicate" /\ from'[i] = from[i] /\ named'[i] = Found(i, k)
           \/ pc'[i] = "none"
        /\ \A j \in Ids : j # i => pc'[j] = pc[j] /\ from'[j] = from[j] /\ named'[j] = named[j]
    BY <2>1, <2>2, ReturnShape
  <2>5. KnowsRow(i)'
    BY <2>1, <2>2, <2>3, <2>4 DEF KnowsRow, Working
  <2> QED
    BY <2>1, <2>4, <2>5, LedgerFrame
<1>7. ASSUME NEW i \in Ids, Respond(i)
      PROVE  Ledger'
  <2> DEFINE k == Request[from[i]].key
  <2>1. Leave(i) /\ row' = row
    BY <1>7 DEF Respond
  <2>2. /\ pc'[i] = "none"
        /\ \A j \in Ids : j # i => pc'[j] = pc[j] /\ from'[j] = from[j] /\ named'[j] = named[j]
    BY <2>1, LeaveShape
  <2>3. \A j \in Ids : KnowsRow(j)'
    BY <2>1, <2>2 DEF Ledger, KnowsRow, Working
  <2>4. pc[i] \in {"created", "duplicate"} => row[Named(i)] = k
    BY DEF Ledger, KnowsRow, Named
  <2>5. \A t \in told' : row[t[2]] = t[1]
    BY <1>7, <2>4 DEF Respond, Ledger, AnswersNameTheRow
  <2> QED
    BY <2>1, <2>3, <2>5 DEF Ledger, AnswersNameTheRow
<1>8. ASSUME NEW i \in Ids, Disconnect(i)
      PROVE  Ledger'
  <2>1. UNCHANGED <<row, told>>
    BY <1>8 DEF Disconnect
  <2>2. CASE Leave(i)
    BY <2>1, <2>2, LeaveShape, LedgerFrame DEF KnowsRow, Working
  <2>3. CASE /\ pc[i] = "blocking"
             /\ pc' = [pc EXCEPT ![i] = "orphaned"]
             /\ UNCHANGED <<from, named>>
    <3>1. KnowsRow(i)'
      BY <2>1, <2>3 DEF Ledger, KnowsRow, Working, Shape, Local
    <3> QED
      BY <2>1, <2>3, <3>1, LedgerFrame DEF Shape, Local
  <2> QED
    BY <1>8, <2>2, <2>3 DEF Disconnect
<1>9. ASSUME Crash
      PROVE  Ledger'
  BY <1>9 DEF Crash, Ledger, AnswersNameTheRow, KnowsRow, Working
<1>10. ASSUME NEW i \in Ids, InsertFails(i)
       PROVE  Ledger'
  BY <1>3, <1>10 DEF InsertFails
<1>11. ASSUME NEW c \in Clients, Unauthorized(c) \/ TooMany(c) \/ Malformed(c)
       PROVE  Ledger'
  BY <1>1, <1>11 DEF Unauthorized, TooMany, Malformed, submissions
<1>12. CASE Housekeeping \/ Tick \/ UNCHANGED vars
  BY <1>1, <1>12 DEF Housekeeping, Tick, vars, submissions
<1> QED
  BY <1>2, <1>4, <1>5, <1>6, <1>7, <1>8, <1>9, <1>10, <1>11, <1>12 DEF Next, Send, ingest_sync

LEMMA LedgerHolds == Spec => [](Shape /\ Ledger)
<1>1. Init => Shape /\ Ledger
  <2>1. Init => Ledger
    BY IngestAssumption
       DEF IngestConfig, Init, Ledger, AnswersNameTheRow, KnowsRow, Working
  <2> QED
    BY <2>1, InitShape
<1>2. Shape /\ Ledger /\ [Next]_vars => Shape' /\ Ledger'
  BY ShapeStep, LedgerStep
<1> QED
  BY <1>1, <1>2, PTL DEF Spec

\* A key has one row, and every 2xx answer for it names that row.
THEOREM AnswersNameTheRowHolds == Spec => []AnswersNameTheRow
<1>1. Ledger => AnswersNameTheRow
  BY DEF Ledger
<1> QED
  BY <1>1, LedgerHolds, PTL

(***************************************************************************)
(* The counter of submissions                                              *)
(***************************************************************************)

\* The rows stored for a handler that has not answered yet.
Created == {i \in Ids : pc[i] = "created"}

LEMMA CreatedFinite == IsFiniteSet(Created) /\ Cardinality(Created) \in Nat
<1>1. IsFiniteSet(Ids) /\ Created \in SUBSET Ids
  BY IngestAssumption DEF IngestConfig, Created
<1> QED
  BY <1>1, FS_Subset, FS_CardinalityType

\* One submission at a time becomes created or ceases to be.
LEMMA CreatedChanges ==
    ASSUME NEW i \in Ids, \A j \in Ids : j # i => (pc'[j] = "created" <=> pc[j] = "created")
    PROVE  /\ pc[i] = "created" /\ pc'[i] # "created" =>
                 Cardinality(Created') = Cardinality(Created) - 1
           /\ Cardinality(Created') <= Cardinality(Created) + 1
           /\ pc'[i] # "created" => Cardinality(Created') <= Cardinality(Created)
<1>0. i \in Created <=> pc[i] = "created"
  BY DEF Created
<1>1. CASE pc'[i] = "created"
  <2>1. Created' = Created \union {i}
    BY <1>1 DEF Created
  <2>2. Cardinality(Created') \in {Cardinality(Created), Cardinality(Created) + 1}
    BY <2>1, CreatedFinite, FS_AddElement
  <2> QED
    BY <1>1, <2>2, CreatedFinite
<1>2. CASE pc'[i] # "created"
  <2>1. Created' = Created \ {i}
    BY <1>2 DEF Created
  <2>2. /\ pc[i] = "created" => Cardinality(Created') = Cardinality(Created) - 1
        /\ pc[i] # "created" => Cardinality(Created') = Cardinality(Created)
    BY <1>0, <2>1, CreatedFinite, FS_RemoveElement
  <2> QED
    BY <1>2, <2>2, CreatedFinite
<1> QED
  BY <1>1, <1>2

LEMMA CountStep ==
    ASSUME Shape, SubmittedNeverOvercounts, [Next]_vars
    PROVE  SubmittedNeverOvercounts'
<1> DEFINE n == Cardinality(Created)
<1>0. /\ n \in Nat /\ n' \in Nat /\ submitted \in Nat /\ stored \in Nat
      /\ submitted + n <= stored
  <2>1. Created = {i \in Ids : pc[i] = "created"}
    BY DEF Created
  <2>2. (IsFiniteSet(Created) /\ Cardinality(Created) \in Nat)'
    BY CreatedFinite, PTL
  <2>3. n \in Nat /\ n' \in Nat
    BY <2>2, CreatedFinite
  <2> QED
    BY <2>1, <2>3 DEF Shape, Local, SubmittedNeverOvercounts
<1>a. ASSUME submitted' + n' <= stored' PROVE SubmittedNeverOvercounts'
  BY <1>a DEF SubmittedNeverOvercounts, Created
<1>b. ASSUME UNCHANGED <<submitted, stored>>, n' <= n PROVE SubmittedNeverOvercounts'
  BY <1>0, <1>a, <1>b
\* What a submission's own step does to the others.
<1>c. ASSUME NEW i \in Ids,
             \/ Leave(i)
             \/ \E result, id : Return(i, result, id)
             \/ \E result : pc' = [pc EXCEPT ![i] = result]
      PROVE  \A j \in Ids : j # i => pc'[j] = pc[j]
  BY <1>c DEF Leave, Return, Shape, Local
<1>1. ASSUME NEW c \in Clients, Begin(c) PROVE SubmittedNeverOvercounts'
  <2>1. PICK i \in Ids : pc' = [pc EXCEPT ![i] = "blocking"]
    BY <1>1 DEF Begin
  <2>2. pc'[i] # "created"
    BY <2>1 DEF Shape, Local
  <2>3. n' <= n
    BY <1>c, <2>1, <2>2, CreatedChanges
  <2> QED
    BY <1>1, <1>b, <2>3 DEF Begin
<1>2. ASSUME NEW i \in Ids, insert(i) PROVE SubmittedNeverOvercounts'
  <2>1. Return(i, "created", NoId) /\ submitted' = submitted /\ stored' = stored + 1
    BY <1>2 DEF insert
  <2>2. n' <= n + 1
    BY <1>c, <2>1, CreatedChanges
  <2> QED
    BY <1>0, <1>a, <2>1, <2>2
<1>3. ASSUME NEW i \in Ids, RefuseDestination(i) \/ Conflict(i) \/ InsertFails(i)
      PROVE  SubmittedNeverOvercounts'
  <2>1. PICK result, id : Return(i, result, id) /\ result # "created"
    <3>1. CASE RefuseDestination(i)
      BY <3>1, VerdictType DEF RefuseDestination
    <3> QED
      BY <1>3, <3>1 DEF Conflict, InsertFails
  <2>2. pc'[i] # "created"
    BY <2>1 DEF Return, Leave, Shape, Local
  <2>3. n' <= n
    BY <1>c, <2>1, <2>2, CreatedChanges
  <2> QED
    BY <1>3, <1>b, <2>3 DEF RefuseDestination, Conflict, InsertFails
<1>4. ASSUME NEW i \in Ids, Respond(i) PROVE SubmittedNeverOvercounts'
  <2>1. /\ Leave(i) /\ stored' = stored
        /\ submitted' = submitted + (IF pc[i] = "created" THEN 1 ELSE 0)
    BY <1>4 DEF Respond, Counted
  <2>2. pc'[i] # "created"
    BY <2>1 DEF Leave, Shape, Local
  <2>3. n' <= n /\ (pc[i] = "created" => n' = n - 1)
    BY <1>c, <2>1, <2>2, CreatedChanges
  <2> QED
    BY <1>0, <1>a, <2>1, <2>3
<1>5. ASSUME NEW i \in Ids, Disconnect(i) PROVE SubmittedNeverOvercounts'
  <2>1. Leave(i) \/ pc' = [pc EXCEPT ![i] = "orphaned"]
    BY <1>5 DEF Disconnect
  <2>2. pc'[i] # "created"
    BY <2>1 DEF Leave, Shape, Local
  <2>3. n' <= n
    BY <1>c, <2>1, <2>2, CreatedChanges
  <2> QED
    BY <1>5, <1>b, <2>3 DEF Disconnect
<1>6. CASE Crash
  <2>1. submitted' = 0 /\ stored' = 0 /\ Created' = {}
    BY <1>6 DEF Crash, Created
  <2> QED
    BY <1>a, <2>1, FS_EmptySet
<1>7. ASSUME UNCHANGED <<pc, submitted, stored>> PROVE SubmittedNeverOvercounts'
  BY <1>7 DEF SubmittedNeverOvercounts
<1>8. ASSUME NEW c \in Clients, Unauthorized(c) \/ TooMany(c) \/ Malformed(c)
      PROVE  UNCHANGED <<pc, submitted, stored>>
  BY <1>8 DEF Unauthorized, TooMany, Malformed, submissions
<1>9. ASSUME Housekeeping \/ Tick \/ UNCHANGED vars
      PROVE  UNCHANGED <<pc, submitted, stored>>
  BY <1>9 DEF Housekeeping, Tick, vars, submissions
<1> QED
  BY <1>1, <1>2, <1>3, <1>4, <1>5, <1>6, <1>7, <1>8, <1>9 DEF Next, Send, ingest_sync

\* Whatever the interleaving of threads and handlers, and whatever is
\* dropped or lost, the counter never runs ahead of the stored rows.
THEOREM SubmittedNeverOvercountsHolds == Spec => []SubmittedNeverOvercounts
<1>1. Init => SubmittedNeverOvercounts
  <2> SUFFICES ASSUME Init PROVE SubmittedNeverOvercounts
    OBVIOUS
  <2>1. {i \in Ids : pc[i] = "created"} = {} /\ submitted = 0 /\ stored = 0
    BY DEF Init
  <2> QED
    BY <2>1, FS_EmptySet DEF SubmittedNeverOvercounts
<1>2. Shape /\ SubmittedNeverOvercounts /\ [Next]_vars => SubmittedNeverOvercounts'
  BY CountStep
<1> QED
  BY <1>1, <1>2, ShapeHolds, PTL DEF Spec

(***************************************************************************)
(* Ingestion implements SubmitOnce                                         *)
(***************************************************************************)

\* The owner of a key is its row.
OwnerFacts ==
    \A k \in Keys :
       /\ \A i \in Ids : row[i] = k => Owner[k] = i
       /\ (\A i \in Ids : row[i] # k) => Owner[k] = NoId

LEMMA OwnerIsHolder == Ledger => OwnerFacts
<1> SUFFICES ASSUME Ledger, NEW k \in Keys
             PROVE  /\ \A i \in Ids : row[i] = k => Owner[k] = i
                    /\ (\A i \in Ids : row[i] # k) => Owner[k] = NoId
  BY DEF OwnerFacts
<1>1. ASSUME NEW i \in Ids, row[i] = k
      PROVE  Owner[k] = i
  <2>1. Holders(k) = {i}
    BY <1>1 DEF Holders, Ledger, AnswersNameTheRow
  <2> QED
    BY <2>1 DEF Owner
<1>2. ASSUME \A i \in Ids : row[i] # k
      PROVE  Owner[k] = NoId
  BY <1>2 DEF Owner, Holders
<1> QED
  BY <1>1, <1>2

LEMMA PromiseStep ==
    ASSUME Shape, Ledger, Ledger', [Next]_vars
    PROVE  [Promise!Next]_(Promise!svars)
<1>0. NoId \notin Ids /\ "absent" \notin Keys /\ NoKey \notin Keys
  BY IngestAssumption DEF IngestConfig, NoId
<1>1. ASSUME UNCHANGED <<row, told>>
      PROVE  UNCHANGED Promise!svars
  BY <1>1 DEF Promise!svars, Owner, Holders
<1>2. ASSUME NEW i \in Ids, insert(i)
      PROVE  [Promise!Next]_(Promise!svars)
  <2>1. PICK k : /\ k = Request[from[i]].key
                 /\ Working(i)
                 /\ ~Conflicts(k)
                 /\ row' = [row EXCEPT ![i] = k]
                 /\ told' = told
    BY <1>2 DEF insert, Validated
  <2>2. k \in Keys \union {NoKey}
    BY <2>1, RequestFields DEF Shape, Underway, Working
  <2>3. row[i] = "absent" /\ row'[i] = k /\ \A j \in Ids : j # i => row'[j] = row[j]
    BY <2>1 DEF Ledger, KnowsRow, Shape, Local
  <2>4. Owner = [l \in Keys |-> Owner[l]] /\ Owner' = [l \in Keys |-> Owner'[l]]
    BY DEF Owner
  <2>6. ASSUME NEW l \in Keys, l # k
        PROVE  Owner'[l] = Owner[l]
    <3>1. OwnerFacts /\ OwnerFacts'
      BY OwnerIsHolder, PTL
    <3>2. CASE \E j \in Ids : row[j] = l
      BY <1>0, <2>3, <2>6, <3>1, <3>2 DEF OwnerFacts
    <3>3. CASE \A j \in Ids : row[j] # l
      BY <1>0, <2>3, <2>6, <3>1, <3>3 DEF OwnerFacts
    <3> QED
      BY <3>2, <3>3
  <2>7. CASE k = NoKey
    <3>1. Owner' = Owner
      BY <1>0, <2>4, <2>6, <2>7
    <3> QED
      BY <2>1, <3>1 DEF Promise!svars
  <2>8. CASE k \in Keys
    <3>1. Holders(k) = {}
      BY <1>0, <2>1, <2>8 DEF Conflicts
    <3>2. Owner[k] = NoId
      BY <2>8, <3>1 DEF Owner
    <3>3. Holders(k)' = {i}
      BY <2>3, <3>1 DEF Holders
    <3>4. Owner'[k] = i
      BY <2>8, <3>3 DEF Owner
    <3>5. \A l \in Keys : Owner[l] # i
      <4>1. ASSUME NEW l \in Keys
            PROVE  Owner[l] \in Holders(l) \union {NoId}
        BY DEF Owner
      <4>2. \A l \in Keys : i \notin Holders(l)
        BY <1>0, <2>3 DEF Holders
      <4> QED
        BY <1>0, <4>1, <4>2
    <3>6. Owner' = [Owner EXCEPT ![k] = i]
      BY <2>4, <2>6, <2>8, <3>4
    <3>7. Promise!Own(k, i)
      BY <2>1, <3>2, <3>5, <3>6 DEF Promise!Own
    <3> QED
      BY <2>8, <3>7 DEF Promise!Next
  <2> QED
    BY <2>2, <2>7, <2>8
<1>3. ASSUME NEW i \in Ids, Respond(i)
      PROVE  [Promise!Next]_(Promise!svars)
  <2> DEFINE k == Request[from[i]].key
  <2>1. from[i] \in Clients /\ row' = row
    BY <1>3 DEF Respond, Done, Shape, Underway
  <2>2. k \in Keys \union {NoKey}
    BY <2>1, RequestFields
  <2>3. Owner' = Owner
    BY <2>1 DEF Owner, Holders
  <2>4. CASE pc[i] \in {"created", "duplicate"} /\ k # NoKey
    <3>1. Named(i) \in Ids /\ row[Named(i)] = k /\ k \in Keys
      BY <2>2, <2>4 DEF Named, Shape, Underway, Ledger, KnowsRow
    <3>2. Owner[k] = Named(i)
      BY <3>1, OwnerIsHolder DEF OwnerFacts
    <3>3. told' = told \union {<<k, Owner[k]>>}
      BY <1>3, <2>4, <3>2 DEF Respond
    <3>4. Promise!Tell(k)
      BY <1>0, <2>3, <3>1, <3>2, <3>3 DEF Promise!Tell
    <3> QED
      BY <3>1, <3>4 DEF Promise!Next
  <2>5. CASE ~(pc[i] \in {"created", "duplicate"} /\ k # NoKey)
    <3>1. told' = told
      BY <1>3, <2>5 DEF Respond
    <3> QED
      BY <2>3, <3>1 DEF Promise!svars
  <2> QED
    BY <2>4, <2>5
<1>4. ASSUME \/ \E c \in Clients : Send(c)
             \/ \E i \in Ids : \/ RefuseDestination(i) \/ Conflict(i)
                                \/ InsertFails(i) \/ Disconnect(i)
             \/ Crash \/ Housekeeping \/ Tick
             \/ UNCHANGED vars
      PROVE  UNCHANGED <<row, told>>
  BY <1>4 DEF Send, Unauthorized, TooMany, Malformed, Begin, RefuseDestination, Conflict,
     InsertFails, Disconnect, Crash, Housekeeping, Tick, vars
<1> QED
  BY <1>1, <1>2, <1>3, <1>4 DEF Next, ingest_sync

\* Ingestion keeps the promise of the idempotency key.
THEOREM Refinement == Spec => ImplementsSubmitOnce
<1>1. Init => Promise!Init
  BY IngestAssumption DEF IngestConfig, Init, Promise!Init, Owner, Holders
<1>2. Shape /\ Ledger /\ Shape' /\ Ledger' /\ [Next]_vars => [Promise!Next]_(Promise!svars)
  BY PromiseStep
<1> QED
  BY <1>1, <1>2, LedgerHolds, PTL DEF Spec, ImplementsSubmitOnce, Promise!Spec
=============================================================================
