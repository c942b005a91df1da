---------------------------- MODULE RateLimiter ----------------------------
(***************************************************************************)
(* The rate limiter of service q (q/src/security/ratelimit.rs): a map from *)
(* bucket, the bearer token of a request or "anonymous", to the instants   *)
(* of the requests it let through, in the order in which they took the     *)
(* lock.  `check` forgets expired instants of its own bucket; a            *)
(* housekeeping task (q/src/lib.rs) drops buckets that have gone quiet; a  *)
(* restart forgets everything.                                             *)
(*                                                                         *)
(* `check` and `prune` read the clock before they take the lock.  A thread *)
(* that is delayed in between acts on an instant that has grown old: it    *)
(* pops by it, and pushes it behind younger ones.  Nobody else sees that   *)
(* instant before the lock is taken, so a call is the step in which it     *)
(* holds the lock, with the age `at` its own instant has by then: calls    *)
(* take the lock in any order, whatever the order of their instants.       *)
(*                                                                         *)
(* The limiter reads nothing of an instant but how long it lies before     *)
(* another one, and of that only whether it has reached the window, so an  *)
(* instant is kept as its age in ticks, counted up to Horizon.             *)
(***************************************************************************)
EXTENDS Integers, Sequences, Schedule

CONSTANTS
    Buckets,    \* keys of the map
    Limit,      \* RATE_LIMIT_PER_MIN, 0 when it was a multiple of 2^32
    Window,     \* the 60 seconds, in ticks
    MaxDelay    \* bound of the model: ticks from reading the clock to the lock

LimiterConfig ==
    /\ Limit \in Nat
    /\ Window \in Nat \ {0}
    /\ MaxDelay \in Nat

ASSUME LimiterAssumption == LimiterConfig

VARIABLES
    hits,       \* the map; a bucket without an entry has an empty deque
    \* history, read by no handler
    last,       \* ages of the Limit + 1 youngest instants of requests let
                \* through, oldest first
    up          \* age of the process, counted up to MaxDelay

lvars == <<hits, last, up>>

Delays == 0..MaxDelay
Horizon == Window + 2 * MaxDelay
Ages == 0..Horizon

\* A bucket that has let nothing through since the process started.
Quiet == [i \in 1..(Limit + 1) |-> Horizon]

LimiterInit ==
    /\ hits = [b \in Buckets |-> <<>>]
    /\ last = [b \in Buckets |-> Quiet]
    /\ up = 0

\* As seen by a caller whose own instant, `now`, is `at` ticks old.
Expired(age, at) == age - at >= Window

\* How many instants the loop over front() pops.
Stale(s, at) == CHOOSE k \in 0..Len(s) :
                   /\ \A i \in 1..k : Expired(s[i], at)
                   /\ k < Len(s) => ~Expired(s[k + 1], at)

\* Mutated forms (names ending in _mutant) are slips that a property must
\* catch; no action uses them.
Fresh_mutant(s, at) == s              \* only housekeeping forgets

Fresh(s, at) == SubSeq(s, Stale(s, at) + 1, Len(s))

Full_mutant(b, at) == Len(Fresh(hits[b], at)) > Limit      \* one too many

\* What check answers, `false` when the bucket is full.
Full(b, at) == Len(Fresh(hits[b], at)) >= Limit

\* The call was made in this life of the process.
Called(at) == at <= up

\* An instant of age a among the youngest.
Insert(l, a) ==
    [i \in 1..(Limit + 1) |->
        IF i = Limit + 1 THEN MinOf(l[i], a) ELSE MaxOf(l[i + 1], MinOf(l[i], a))]

\* check returns true.  Its instant goes to the back, the youngest or not.
Accept(b, at) ==
    /\ Called(at)
    /\ ~Full(b, at)
    /\ hits' = [hits EXCEPT ![b] = Append(Fresh(@, at), at)]
    /\ last' = [last EXCEPT ![b] = Insert(@, at)]
    /\ UNCHANGED up

\* check returns false: the request is not counted against the bucket.
Refuse(b, at) ==
    /\ Called(at)
    /\ Full(b, at)
    /\ hits' = [hits EXCEPT ![b] = Fresh(@, at)]
    /\ UNCHANGED <<last, up>>

prune_mutant(at) ==                   \* the comparison the wrong way round
    /\ Called(at)
    /\ hits' = [b \in Buckets |->
                   IF hits[b] # <<>> /\ Expired(hits[b][Len(hits[b])], at)
                   THEN hits[b] ELSE <<>>]
    /\ UNCHANGED <<last, up>>

\* Housekeeping keeps a bucket for as long as the instant at its back counts,
\* the youngest or not.
prune(at) ==
    /\ Called(at)
    /\ hits' = [b \in Buckets |->
                   IF hits[b] # <<>> /\ ~Expired(hits[b][Len(hits[b])], at)
                   THEN hits[b] ELSE <<>>]
    /\ UNCHANGED <<last, up>>

Older(s) == [i \in DOMAIN s |-> MinOf(s[i] + 1, Horizon)]

Age ==
    /\ hits' = [b \in Buckets |-> Older(hits[b])]
    /\ last' = [b \in Buckets |-> Older(last[b])]
    /\ up' = MinOf(up + 1, MaxDelay)

\* The limiter lives in the memory of the process.
Forget ==
    /\ hits' = [b \in Buckets |-> <<>>]
    /\ last' = [b \in Buckets |-> Quiet]
    /\ up' = 0

LimiterNext ==
    \/ \E b \in Buckets, at \in Delays : Accept(b, at) \/ Refuse(b, at)
    \/ \E at \in Delays : prune(at)
    \/ Age \/ Forget

LimiterSpec == LimiterInit /\ [][LimiterNext]_lvars

-----------------------------------------------------------------------------
(***************************************************************************)
(* Properties                                                              *)
(***************************************************************************)

\* The map holds ages, and the history those of Limit + 1 requests.
LimiterTypeOK ==
    /\ hits \in [Buckets -> Seq(Ages)]
    /\ last \in [Buckets -> Seq(Ages)]
    /\ \A b \in Buckets : Len(last[b]) = Limit + 1
    /\ up \in Delays

\* The doc comment of RateLimiter (ratelimit.rs:7-8): each key may make at
\* most `limit` checks per rolling `window`.  At no moment have more than Limit
\* requests of a bucket been let through that read the clock within the
\* last Window ticks.  The code keeps this when no call is delayed between
\* the clock and the lock; otherwise `prune` may find an old instant
\* at the back of a deque and drop younger ones with it.
RollingWindow == \A b \in Buckets : last[b][1] >= Window

\* What is left of it: however late the calls of check and prune take the
\* lock, and in whatever order, a window shorter by the longest delay never
\* sees more than Limit requests of a bucket.
WindowBound == \A b \in Buckets : last[b][1] >= Window - MaxDelay

\* However late calls, lazy popping, the housekeeping and the clock
\* interleave, a caller whose instant is `at` old is refused only when the
\* Limit youngest requests let through lie less than the window and the
\* longest delay before its own instant, and is let through only when one of
\* them is as old as the window without that delay: an instant out of order,
\* which stops the loop over front() early or lets `prune` drop its
\* neighbours, moves the verdict by no more.
VerdictIsNearlyExact ==
    \A b \in Buckets, at \in Delays :
        IF Full(b, at)
        THEN \A i \in 2..(Limit + 1) : last[b][i] - at < Window + MaxDelay
        ELSE \E i \in 2..(Limit + 1) : last[b][i] >= Window - MaxDelay
=============================================================================
