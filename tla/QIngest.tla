------------------------------ MODULE QIngest ------------------------------
(***************************************************************************)
(* Ingestion of service q: `POST /webhook` (q/src/api/webhook.rs) from the *)
(* request to its answer, with authentication (q/src/security/auth.rs),    *)
(* the rate limiter (module RateLimiter), the check of the destination     *)
(* (module Destination), the insert guarded by the UNIQUE idempotency key  *)
(* (q/src/db.rs) and the `submitted` counter (q/src/api/mod.rs).           *)
(*                                                                         *)
(* The handler runs up to spawn_blocking without awaiting.  Resolution and *)
(* insert run on a blocking thread that nothing cancels: when the client   *)
(* goes away the handler is dropped, the thread finishes.  A client sends  *)
(* its request again, with the same key, until it has an answer other than *)
(* 429 and 500.                                                            *)
(***************************************************************************)
EXTENDS RateLimiter, Destination, FiniteSets

CONSTANTS
    Clients,
    Ids,            \* numbers for the UUIDs
    Keys, NoKey,    \* idempotency keys; no header, or an empty one
    Tokens, NoToken,    \* bearer tokens a client may send
    Request,        \* the request of each client, see RequestType
    ApiKeys,        \* WEBHOOK_API_KEYS
    HmacConfigured, \* HMAC_SECRET is set
    AllowPrivate,   \* ALLOW_PRIVATE_DESTINATIONS
    Answers,        \* what the resolver may answer
    MaxFaults       \* bound of the model: answers lost, crashes, failed inserts

\* `signature`: of the X-Webhook-Signature header.  `json`: body and
\* destination parse.
RequestType ==
    [signature : {"absent", "valid", "wrong"}, token : Tokens \union {NoToken},
     json : BOOLEAN, key : Keys \union {NoKey}, url : Urls]

IngestConfig ==
    /\ Ids \subseteq Nat \ {0}
    /\ IsFiniteSet(Ids)
    /\ NoKey \notin Keys
    /\ Keys \intersect {"absent"} = {}
    /\ NoKey # "absent"
    /\ NoToken \notin Tokens
    /\ Request \in [Clients -> RequestType]
    /\ Buckets = Tokens \union {"anonymous"}
    /\ HmacConfigured \in BOOLEAN
    /\ AllowPrivate \in BOOLEAN
    /\ MaxFaults \in Nat

ASSUME IngestAssumption == IngestConfig

VARIABLES
    row,        \* row[i]: the key column of the stored row i, or "absent"
    pc,         \* where the submission that drew id i is
    from,       \* whose it is
    named,      \* the id found by a conflict
    submitted,  \* the counter of /admin/stats
    answer,     \* the last word each client received
    \* history and bounds, read by no handler
    told,       \* <<key, id>> of the 2xx answers sent for a key
    stored,     \* rows inserted since the process started
    faults

submissions == <<pc, from, named>>
vars == <<lvars, row, submissions, submitted, answer, told, stored, faults>>

NoClient == "nobody"
NoId == 0

\* "orphaned": the thread still runs, the handler is gone.
Progress == {"none", "blocking", "orphaned", "created", "duplicate", "400", "403", "500"}
Codes == {"none", "202", "200", "400", "401", "403"}

-----------------------------------------------------------------------------
Init ==
    /\ LimiterInit
    /\ row = [i \in Ids |-> "absent"]
    /\ pc = [i \in Ids |-> "none"]
    /\ from = [i \in Ids |-> NoClient]
    /\ named = [i \in Ids |-> NoId]
    /\ submitted = 0
    /\ answer = [c \in Clients |-> "none"]
    /\ told = {}
    /\ stored = 0
    /\ faults = 0

(***************************************************************************)
(* What the handler reads of the request                                   *)
(***************************************************************************)
check_bearer(r) == r.token \in ApiKeys

\* With a secret, a signature that is present decides alone.
authorized(r) ==
    IF HmacConfigured /\ r.signature # "absent"
    THEN r.signature = "valid"
    ELSE check_bearer(r)

\* The bearer token names the bucket, also when a signature authorized.
rl_key(r) == IF r.token = NoToken THEN "anonymous" ELSE r.token

\* Uuid::new_v4 draws an id nobody has; which one is immaterial.
Unused == {i \in Ids : pc[i] = "none" /\ row[i] = "absent"}
Draws(i) == i \in Unused /\ \A j \in Unused : i <= j

Idle(c) ==
    /\ answer[c] = "none"
    /\ \A i \in Ids : from[i] = c => pc[i] = "orphaned"

Holders(k) == {i \in Ids : row[i] = k}

Fault == faults < MaxFaults /\ faults' = faults + 1

(***************************************************************************)
(* webhook_handler, up to spawn_blocking                                   *)
(***************************************************************************)
Unauthorized(c) ==
    /\ Idle(c)
    /\ ~authorized(Request[c])
    /\ answer' = [answer EXCEPT ![c] = "401"]
    /\ UNCHANGED <<lvars, row, submissions, submitted, told, stored, faults>>

\* 429: the client will try again.
TooMany(c) ==
    /\ Idle(c)
    /\ authorized(Request[c])
    /\ \E at \in Delays : Refuse(rl_key(Request[c]), at)
    /\ UNCHANGED <<row, submissions, submitted, answer, told, stored, faults>>

\* The request has been counted against its bucket by now.
Malformed(c) ==
    /\ Idle(c)
    /\ authorized(Request[c])
    /\ \E at \in Delays : Accept(rl_key(Request[c]), at)
    /\ ~Request[c].json
    /\ answer' = [answer EXCEPT ![c] = "400"]
    /\ UNCHANGED <<row, submissions, submitted, told, stored, faults>>

Begin(c) ==
    /\ Idle(c)
    /\ authorized(Request[c])
    /\ \E at \in Delays : Accept(rl_key(Request[c]), at)
    /\ Request[c].json
    /\ \E i \in Ids :
          /\ Draws(i)
          /\ pc' = [pc EXCEPT ![i] = "blocking"]
          /\ from' = [from EXCEPT ![i] = c]
    /\ UNCHANGED <<row, named, submitted, answer, told, stored, faults>>

(***************************************************************************)
(* ingest_sync, on the blocking thread                                     *)
(***************************************************************************)

Working(i) == pc[i] \in {"blocking", "orphaned"}

\* The submission is over.
Leave(i) ==
    /\ pc' = [pc EXCEPT ![i] = "none"]
    /\ from' = [from EXCEPT ![i] = NoClient]
    /\ named' = [named EXCEPT ![i] = NoId]

\* The thread hands its result, and the id it found, to the handler if that
\* is still there.
Return(i, result, id) ==
    \/ /\ pc[i] = "blocking"
       /\ pc' = [pc EXCEPT ![i] = result]
       /\ named' = [named EXCEPT ![i] = id]
       /\ UNCHANGED from
    \/ pc[i] = "orphaned" /\ Leave(i)

Verdict(i, ips) == validate(Request[from[i]].url, ips, AllowPrivate)

RefuseDestination(i) ==
    /\ Working(i)
    /\ \E ips \in Answers :
          /\ Verdict(i, ips) # "ok"
          /\ Return(i, Verdict(i, ips), NoId)
    /\ UNCHANGED <<lvars, row, submitted, answer, told, stored, faults>>

Validated(i) ==
    /\ Working(i)
    /\ \E ips \in Answers : Verdict(i, ips) = "ok"

\* UNIQUE admits any number of rows without a key.
Conflicts_mutant(k) == FALSE            \* the column is not UNIQUE
Conflicts(k) == k # NoKey /\ Holders(k) # {}

insert(i) ==
    LET k == Request[from[i]].key
    IN  /\ Validated(i)
        /\ ~Conflicts(k)
        /\ row' = [row EXCEPT ![i] = k]
        /\ stored' = stored + 1
        /\ Return(i, "created", NoId)
        /\ UNCHANGED <<lvars, submitted, answer, told, faults>>

Found_mutant(i, k) == i                 \* the id this request drew
Found(i, k) == CHOOSE j \in Holders(k) : TRUE

\* The constraint error and the SELECT of the holder are one critical
\* section, and a row is never deleted.
Conflict(i) ==
    LET k == Request[from[i]].key
    IN  /\ Validated(i)
        /\ Conflicts(k)
        /\ Return(i, "duplicate", Found(i, k))
        /\ UNCHANGED <<lvars, row, submitted, answer, told, stored, faults>>

InsertFails(i) ==
    /\ Validated(i)
    /\ Fault
    /\ Return(i, "500", NoId)
    /\ UNCHANGED <<lvars, row, submitted, answer, told, stored>>

(***************************************************************************)
(* webhook_handler, after the blocking thread                              *)
(***************************************************************************)
Done(i) == pc[i] \notin {"none", "blocking", "orphaned"}

Named_mutant(i) == named[i]             \* the two answers mixed up

\* The id in the body of a 2xx answer.
Named(i) == IF pc[i] = "created" THEN i ELSE named[i]

Code(i) == CASE pc[i] = "created" -> "202"
             [] pc[i] = "duplicate" -> "200"
             [] pc[i] = "500" -> "none"
             [] OTHER -> pc[i]

\* inc_submitted for a row this request created.
Counted_mutant(i) == pc[i] \in {"created", "duplicate"}
Counted(i) == pc[i] = "created"

\* The answer is sent, and may be lost on its way.
Respond(i) ==
    LET k == Request[from[i]].key
    IN  /\ Done(i)
        /\ submitted' = submitted + (IF Counted(i) THEN 1 ELSE 0)
        /\ told' = IF pc[i] \in {"created", "duplicate"} /\ k # NoKey
                   THEN told \union {<<k, Named(i)>>} ELSE told
        /\ \/ answer' = [answer EXCEPT ![from[i]] = Code(i)] /\ UNCHANGED faults
           \/ Fault /\ UNCHANGED answer
        /\ Leave(i)
        /\ UNCHANGED <<lvars, row, stored>>

\* The connection breaks: the handler's future is dropped where it awaits.
\* What its thread has not finished, it finishes for nobody.
Disconnect(i) ==
    /\ Fault
    /\ \/ /\ pc[i] = "blocking"
          /\ pc' = [pc EXCEPT ![i] = "orphaned"]
          /\ UNCHANGED <<from, named>>
       \/ Done(i) /\ Leave(i)
    /\ UNCHANGED <<lvars, row, submitted, answer, told, stored>>

\* The process dies, or ends after a signal, and is started again: the rows
\* and what clients were told remain.
Crash ==
    /\ Fault
    /\ Forget
    /\ pc' = [i \in Ids |-> "none"]
    /\ from' = [i \in Ids |-> NoClient]
    /\ named' = [i \in Ids |-> NoId]
    /\ submitted' = 0
    /\ stored' = 0
    /\ UNCHANGED <<row, answer, told>>

\* Housekeeping every 60 seconds, at any phase of the requests.
Housekeeping ==
    /\ \E at \in Delays : prune(at)
    /\ UNCHANGED <<row, submissions, submitted, answer, told, stored, faults>>

Tick ==
    /\ Age
    /\ UNCHANGED <<row, submissions, submitted, answer, told, stored, faults>>

Send(c) == Unauthorized(c) \/ TooMany(c) \/ Malformed(c) \/ Begin(c)
ingest_sync(i) == RefuseDestination(i) \/ insert(i) \/ Conflict(i) \/ InsertFails(i)

Next ==
    \/ \E c \in Clients : Send(c)
    \/ \E i \in Ids : ingest_sync(i) \/ Respond(i) \/ Disconnect(i)
    \/ Crash \/ Housekeeping \/ Tick

Spec == Init /\ [][Next]_vars

\* Clients keep sending, threads and handlers are scheduled, time passes.
FairSpec ==
    /\ Spec
    /\ \A c \in Clients : WF_vars(Send(c))
    /\ \A i \in Ids : WF_vars(ingest_sync(i) \/ Respond(i))
    /\ WF_vars(Tick)

-----------------------------------------------------------------------------
(***************************************************************************)
(* Properties                                                              *)
(***************************************************************************)

\* The shape of the tables, of the submissions under way and of the history.
TypeOK ==
    /\ LimiterTypeOK
    /\ row \in [Ids -> Keys \union {NoKey, "absent"}]
    /\ pc \in [Ids -> Progress]
    /\ from \in [Ids -> Clients \union {NoClient}]
    /\ named \in [Ids -> Ids \union {NoId}]
    /\ submitted \in Nat
    /\ answer \in [Clients -> Codes]
    /\ told \subseteq Keys \X Ids
    /\ stored \in Nat
    /\ faults \in 0..MaxFaults

\* However the threads of two requests race for a key, and whatever is lost
\* on the way or in a crash, a key has one row and every 2xx answer ever
\* sent for it names that row (db.rs, insert: the conflict carries the
\* existing id; PLAN.md: a submission is stored before it is acknowledged).
AnswersNameTheRow ==
    /\ \A i, j \in Ids : row[i] = row[j] /\ row[i] \in Keys => i = j
    /\ \A t \in told : row[t[2]] = t[1]

\* /admin/stats never shows more submissions than the process has stored,
\* not even while answers are still to be sent (webhook.rs counts in the
\* handler, after the thread that stores).
SubmittedNeverOvercounts ==
    submitted + Cardinality({i \in Ids : pc[i] = "created"}) <= stored

\* Ingestion implements the promise of the idempotency key.
Owner == [k \in Keys |-> IF Holders(k) = {} THEN NoId ELSE CHOOSE i \in Holders(k) : TRUE]
Promise == INSTANCE SubmitOnce WITH owner <- Owner, told <- told
ImplementsSubmitOnce == Promise!Spec

\* A client that keeps sending gets an answer: the limiter does not count
\* what it refuses, so its bucket empties in the end, and a request whose
\* answer was lost is answered with the row it already made.
EveryClientIsAnswered == <>(\A c \in Clients : answer[c] # "none")
=============================================================================
