------------------------ MODULE RateLimiter_proofs ------------------------
(***************************************************************************)
(* Proofs about the rate limiter of service q, for any buckets, limit,     *)
(* window and longest delay between the clock and the lock.                *)
(***************************************************************************)
EXTENDS RateLimiter, SequenceTheorems, FiniteSetTheorems, WellFoundedInduction, TLAPS

(***************************************************************************)
(* What is left when the expired instants are popped                       *)
(***************************************************************************)

\* A set of naturals that is not empty has a least element.
LEMMA LeastNatural ==
    ASSUME NEW S, S \subseteq Nat, S # {}
    PROVE  \E m \in S : \A n \in S : m <= n
<1> DEFINE Upto(n) == 1..n
           T == {Upto(n) : n \in S}
<1>1. \A n \in Nat : IsFiniteSet(Upto(n))
  BY FS_Interval
<1>2. T \subseteq FiniteSubsetsOf(Nat) /\ T # {}
  <2>1. \A n \in S : Upto(n) \in FiniteSubsetsOf(Nat)
    BY <1>1 DEF FiniteSubsetsOf
  <2> QED
    BY <2>1
<1>3. PICK U \in T : \A V \in T : ~(<<V, U>> \in StrictSubsetOrdering(Nat))
  <2> HIDE DEF T
  <2> QED
    BY <1>2, FS_StrictSubsetOrderingWellFounded, WFMin
<1>4. PICK m \in S : U = Upto(m)
  OBVIOUS
<1>5. ASSUME NEW n \in S, n < m
      PROVE  <<Upto(n), U>> \in StrictSubsetOrdering(Nat)
  <2>1. Upto(n) \subseteq Upto(m) /\ m \in Upto(m) /\ m \notin Upto(n)
    BY <1>5
  <2>2. Upto(n) \in SUBSET Nat /\ Upto(m) \in SUBSET Nat
    OBVIOUS
  <2> HIDE DEF Upto
  <2> QED
    BY <1>4, <2>1, <2>2 DEF StrictSubsetOrdering
<1>6. \A n \in S : Upto(n) \in T
  OBVIOUS
<1>7. \A n \in S : ~(n < m)
  <2> HIDE DEF Upto, T
  <2> QED
    BY <1>3, <1>5, <1>6
<1> QED
  BY <1>7

\* The loop over front() has a definite end: Stale is the index it names.
LEMMA StaleCuts ==
    ASSUME NEW s \in Seq(Ages), NEW at \in Delays
    PROVE  /\ Stale(s, at) \in 0..Len(s)
           /\ \A i \in 1..Stale(s, at) : s[i] >= Window + at
           /\ Stale(s, at) < Len(s) => s[Stale(s, at) + 1] < Window + at
<1> DEFINE Cut(k) == /\ \A i \in 1..k : Expired(s[i], at)
                     /\ k < Len(s) => ~Expired(s[k + 1], at)
           S == {k \in 0..Len(s) : k < Len(s) => ~Expired(s[k + 1], at)}
<1>1. Len(s) \in Nat /\ \A i \in 1..Len(s) : s[i] \in Ages
  BY LenProperties, ElementOfSeq
<1>2. S \subseteq Nat /\ Len(s) \in S
  BY <1>1
<1>3. PICK m \in S : \A n \in S : m <= n
  <2> HIDE DEF S
  <2> QED
    BY <1>2, LeastNatural
<1>4. \A i \in 1..m : Expired(s[i], at)
  <2> SUFFICES ASSUME NEW i \in 1..m, ~Expired(s[i], at)
               PROVE  FALSE
    OBVIOUS
  <2>1. m \in 0..Len(s) /\ i \in Nat /\ i - 1 \in 0..Len(s) /\ i - 1 < m
    BY <1>1
  <2>2. i - 1 \in S
    BY <2>1
  <2>3. m <= i - 1
    BY <1>3, <2>2
  <2> QED
    BY <2>1, <2>3
<1>5. \E k \in 0..Len(s) : Cut(k)
  BY <1>3, <1>4
<1>6. Stale(s, at) \in 0..Len(s) /\ Cut(Stale(s, at))
  BY <1>5 DEF Stale
<1>7. Window \in Nat /\ MaxDelay \in Nat
  BY LimiterAssumption DEF LimiterConfig
<1> QED
  BY <1>1, <1>6, <1>7 DEF Expired, Ages, Horizon, Delays

\* What is kept is the sequence without a prefix of expired instants.
LEMMA FreshIsSuffix ==
    ASSUME NEW s \in Seq(Ages), NEW at \in Delays
    PROVE  /\ Fresh(s, at) \in Seq(Ages)
           /\ Len(Fresh(s, at)) = Len(s) - Stale(s, at)
           /\ \A i \in 1..Len(Fresh(s, at)) : Fresh(s, at)[i] = s[Stale(s, at) + i]
<1>1. Len(s) \in Nat /\ Stale(s, at) \in 0..Len(s)
  BY StaleCuts, LenProperties
<1>2. \A i \in (Stale(s, at) + 1)..Len(s) : s[i] \in Ages
  BY <1>1, ElementOfSeq
<1> DEFINE k == Stale(s, at)
<1> HIDE DEF k
<1>3. k \in 0..Len(s) /\ \A i \in (k + 1)..Len(s) : s[i] \in Ages
  BY <1>1, <1>2 DEF k
<1>4. /\ SubSeq(s, k + 1, Len(s)) \in Seq(Ages)
      /\ Len(SubSeq(s, k + 1, Len(s))) = Len(s) - k
      /\ \A i \in 1..(Len(s) - k) : SubSeq(s, k + 1, Len(s))[i] = s[k + i]
  BY <1>1, <1>3, SubSeqProperties
<1> QED
  BY <1>4 DEF Fresh, k

(***************************************************************************)
(* The deque against the history                                           *)
(***************************************************************************)

\* The deque is not sorted: a delayed call pushes its instant behind younger
\* ones.  But no instant behind another one is older than it by more than
\* the longest delay.
Skewed(h) ==
    \A i, j \in 1..Len(h) : i < j => h[j] <= h[i] + MaxDelay

\* Nothing that counts has been lost: if the first n instants of the deque
\* are of age v or more, for a v within the shortened window, so are all
\* but the Len(h) - n youngest requests let through.
Covers(h, l) ==
    \A v \in Int, n \in 0..Len(h) :
        v <= Window - MaxDelay /\ (\A i \in 1..n : h[i] >= v)
            => l[Limit + 1 - (Len(h) - n)] >= v

\* Nothing is remembered that was not let through: from any place n of the
\* deque to its end, the oldest instant is no younger than the oldest of so
\* many youngest requests.
LetThrough(h, l) ==
    \A n \in 1..Len(h) : \E i \in n..Len(h) : l[Limit + 1 - Len(h) + n] <= h[i]

Sorted(l) == \A i, j \in 1..(Limit + 1) : i <= j => l[i] >= l[j]

\* h is the deque of a bucket, l its history.
Tracks(h, l) ==
    /\ h \in Seq(Ages) /\ Len(h) <= Limit
    /\ l \in Seq(Ages) /\ Len(l) = Limit + 1
    /\ Sorted(l)
    /\ Skewed(h)
    /\ Covers(h, l)
    /\ LetThrough(h, l)

Tracking == \A b \in Buckets : Tracks(hits[b], last[b])

LEMMA ConfigTypes ==
    /\ Limit \in Nat /\ Window \in Nat \ {0} /\ MaxDelay \in Nat
    /\ Horizon = Window + 2 * MaxDelay /\ Horizon \in Nat
    /\ Ages = 0..Horizon /\ Delays = 0..MaxDelay /\ Delays \subseteq Ages
BY LimiterAssumption DEF LimiterConfig, Horizon, Ages, Delays

LEMMA TrackTypes ==
    ASSUME NEW h, NEW l, Tracks(h, l)
    PROVE  /\ h \in Seq(Ages) /\ Len(h) \in Nat /\ Len(h) <= Limit
           /\ l \in Seq(Ages) /\ Len(l) = Limit + 1
           /\ \A i \in 1..Len(h) : h[i] \in Int /\ 0 <= h[i] /\ h[i] <= Horizon
           /\ \A i \in 1..(Limit + 1) : l[i] \in Int /\ 0 <= l[i] /\ l[i] <= Horizon
<1>1. /\ h \in Seq(Ages) /\ Len(h) \in Nat /\ Len(h) <= Limit
      /\ l \in Seq(Ages) /\ Len(l) = Limit + 1
  BY LenProperties DEF Tracks
<1>2. /\ \A i \in 1..Len(h) : h[i] \in Ages
      /\ \A i \in 1..(Limit + 1) : l[i] \in Ages
  BY <1>1, ElementOfSeq
<1> QED
  BY <1>1, <1>2, ConfigTypes

\* Popping expired instants keeps the correspondence.
LEMMA PopTracks ==
    ASSUME NEW h, NEW l, Tracks(h, l), NEW at \in Delays
    PROVE  Tracks(Fresh(h, at), l) /\ Len(Fresh(h, at)) <= Len(h)
<1> DEFINE f == Fresh(h, at)
           k == Stale(h, at)
<1>0. Limit \in Nat /\ Window \in Nat \ {0} /\ MaxDelay \in Nat /\ at \in Nat
  BY ConfigTypes
<1>1. /\ h \in Seq(Ages) /\ Len(h) \in Nat /\ Len(h) <= Limit
      /\ \A i \in 1..Len(h) : h[i] \in Int
      /\ \A i \in 1..(Limit + 1) : l[i] \in Int
  BY TrackTypes
<1>2. k \in 0..Len(h) /\ \A i \in 1..k : h[i] >= Window + at
  BY <1>1, StaleCuts
<1>3. /\ f \in Seq(Ages)
      /\ Len(f) = Len(h) - k
      /\ \A i \in 1..Len(f) : f[i] = h[k + i]
  BY <1>1, FreshIsSuffix
<1> HIDE DEF f, k
<1>4. Skewed(f)
  <2> SUFFICES ASSUME NEW i \in 1..Len(f), NEW j \in 1..Len(f), i < j
               PROVE  f[j] <= f[i] + MaxDelay
    BY DEF Skewed
  <2>1. k + i \in 1..Len(h) /\ k + j \in 1..Len(h) /\ k + i < k + j
    BY <1>1, <1>2, <1>3
  <2>2. h[k + j] <= h[k + i] + MaxDelay
    BY <2>1 DEF Tracks, Skewed
  <2> QED
    BY <1>3, <2>2
<1>5. Covers(f, l)
  <2> SUFFICES ASSUME NEW v \in Int, NEW n \in 0..Len(f), v <= Window - MaxDelay,
                      \A i \in 1..n : f[i] >= v
               PROVE  l[Limit + 1 - (Len(f) - n)] >= v
    BY DEF Covers
  <2>1. k + n \in 0..Len(h) /\ Limit + 1 - (Len(h) - (k + n)) = Limit + 1 - (Len(f) - n)
    BY <1>0, <1>1, <1>2, <1>3
  <2>2. \A i \in 1..(k + n) : h[i] >= v
    <3> SUFFICES ASSUME NEW i \in 1..(k + n)
                 PROVE  h[i] >= v
      OBVIOUS
    <3>1. CASE i <= k
      <4>1. h[i] >= Window + at /\ h[i] \in Int
        BY <1>1, <1>2, <3>1
      <4> QED
        BY <1>0, <4>1
    <3>2. CASE i > k
      <4>1. i - k \in 1..n /\ i - k \in 1..Len(f) /\ k + (i - k) = i
        BY <1>1, <1>2, <1>3, <3>2
      <4> QED
        BY <1>3, <4>1
    <3> QED
      BY <1>2, <3>1, <3>2
  <2> QED
    BY <2>1, <2>2 DEF Tracks, Covers
<1>6. LetThrough(f, l)
  <2> SUFFICES ASSUME NEW n \in 1..Len(f)
               PROVE  \E i \in n..Len(f) : l[Limit + 1 - Len(f) + n] <= f[i]
    BY DEF LetThrough
  <2>1. k + n \in 1..Len(h) /\ Limit + 1 - Len(h) + (k + n) = Limit + 1 - Len(f) + n
    BY <1>0, <1>1, <1>2, <1>3
  <2>2. PICK i \in (k + n)..Len(h) : l[Limit + 1 - Len(h) + (k + n)] <= h[i]
    BY <2>1 DEF Tracks, LetThrough
  <2>3. i - k \in n..Len(f) /\ i - k \in 1..Len(f) /\ k + (i - k) = i
    BY <1>1, <1>2, <1>3
  <2>4. f[i - k] = h[i]
    BY <1>3, <2>3
  <2> QED
    BY <2>1, <2>2, <2>3, <2>4
<1> QED
  BY <1>0, <1>1, <1>2, <1>3, <1>4, <1>5, <1>6 DEF Tracks, f

\* A request let through enters both.
LEMMA AcceptTracks ==
    ASSUME NEW h, NEW l, Tracks(h, l), Len(h) < Limit, NEW at \in Delays
    PROVE  Tracks(Append(h, at), Insert(l, at))
<1> DEFINE g == Append(h, at)
           m == Insert(l, at)
<1>0. /\ Limit \in Nat /\ Window \in Nat \ {0} /\ MaxDelay \in Nat
      /\ at \in Ages /\ at \in Int /\ 0 <= at /\ at <= MaxDelay
  BY ConfigTypes
<1>1. /\ h \in Seq(Ages) /\ Len(h) \in Nat
      /\ \A i \in 1..Len(h) : h[i] \in Int /\ 0 <= h[i]
      /\ l \in Seq(Ages) /\ Len(l) = Limit + 1
      /\ \A i \in 1..(Limit + 1) : l[i] \in Int
  BY TrackTypes
<1>2. /\ g \in Seq(Ages)
      /\ Len(g) = Len(h) + 1
      /\ \A i \in 1..Len(h) : g[i] = h[i]
      /\ g[Len(h) + 1] = at
  BY <1>0, <1>1
<1>3. /\ m \in Seq(Ages)
      /\ Len(m) = Limit + 1
      /\ \A i \in 1..Limit : m[i] = MaxOf(l[i + 1], MinOf(l[i], at))
      /\ m[Limit + 1] = MinOf(l[Limit + 1], at)
  <2>1. \A i \in 1..(Limit + 1) : l[i] \in Ages
    BY <1>1, ElementOfSeq
  <2>2. \A i \in 1..(Limit + 1) :
           (IF i = Limit + 1 THEN MinOf(l[i], at) ELSE MaxOf(l[i + 1], MinOf(l[i], at))) \in Ages
    <3> TAKE i \in 1..(Limit + 1)
    <3>1. MinOf(l[i], at) \in Ages
      BY <1>0, <2>1 DEF MinOf
    <3>2. i # Limit + 1 => l[i + 1] \in Ages
      BY <1>0, <2>1
    <3> QED
      BY <3>1, <3>2 DEF MaxOf
  <2>3. m = [i \in 1..(Limit + 1) |->
                IF i = Limit + 1 THEN MinOf(l[i], at) ELSE MaxOf(l[i + 1], MinOf(l[i], at))]
    BY DEF Insert
  <2> QED
    BY <1>0, <2>2, <2>3
<1> HIDE DEF g, m
\* The ages of the history move by one place at most.
<1>4. \A i \in 1..(Limit + 1) : m[i] <= l[i] /\ m[i] \in Int
  <2> SUFFICES ASSUME NEW i \in 1..(Limit + 1)
               PROVE  m[i] <= l[i] /\ m[i] \in Int
    OBVIOUS
  <2>1. CASE i = Limit + 1
    BY <1>0, <1>1, <1>3, <2>1 DEF MinOf
  <2>2. CASE i # Limit + 1
    <3>1. i \in 1..Limit /\ i + 1 \in 1..(Limit + 1) /\ i <= i + 1
      BY <1>0, <2>2
    <3>2. l[i + 1] <= l[i] /\ l[i] \in Int /\ l[i + 1] \in Int
      BY <1>1, <3>1 DEF Tracks, Sorted
    <3> QED
      BY <1>0, <1>3, <3>1, <3>2 DEF MinOf, MaxOf
  <2> QED
    BY <2>1, <2>2
<1>5. /\ \A i \in 1..Limit : m[i] >= l[i + 1]
      /\ \A i \in 1..Limit : m[i] = l[i + 1] \/ m[i] <= at
  <2> SUFFICES ASSUME NEW i \in 1..Limit
               PROVE  m[i] >= l[i + 1] /\ (m[i] = l[i + 1] \/ m[i] <= at)
    OBVIOUS
  <2>1. l[i] \in Int /\ l[i + 1] \in Int
    BY <1>0, <1>1
  <2> QED
    BY <1>0, <1>3, <2>1 DEF MinOf, MaxOf
<1>6. Sorted(m)
  <2> SUFFICES ASSUME NEW i \in 1..(Limit + 1), NEW j \in 1..(Limit + 1), i <= j
               PROVE  m[i] >= m[j]
    BY DEF Sorted
  <2>1. CASE i = j
    BY <1>4, <2>1
  <2>2. CASE i < j
    <3>1. i \in 1..Limit /\ i + 1 \in 1..(Limit + 1) /\ i + 1 <= j
      BY <1>0, <2>2
    <3>2. m[i] \in Int /\ l[i + 1] \in Int /\ l[j] \in Int /\ m[j] \in Int
      BY <1>1, <1>4, <3>1
    <3>3. m[i] >= l[i + 1]
      BY <1>5, <3>1
    <3>4. l[i + 1] >= l[j]
      BY <3>1 DEF Tracks, Sorted
    <3>5. m[j] <= l[j]
      BY <1>4
    <3> QED
      BY <3>2, <3>3, <3>4, <3>5
  <2> QED
    BY <2>1, <2>2
<1>7. Skewed(g)
  <2> SUFFICES ASSUME NEW i \in 1..Len(g), NEW j \in 1..Len(g), i < j
               PROVE  g[j] <= g[i] + MaxDelay
    BY DEF Skewed
  <2>1. i \in 1..Len(h) /\ g[i] = h[i]
    BY <1>1, <1>2
  <2>2. CASE j = Len(h) + 1
    BY <1>0, <1>1, <1>2, <2>1, <2>2
  <2>3. CASE j # Len(h) + 1
    <3>a. Len(h) \in Nat /\ Len(g) = Len(h) + 1
      BY <1>1, <1>2
    <3>0. j \in 1..Len(h)
      BY <2>3, <3>a
    <3>1. j \in 1..Len(h) /\ g[j] = h[j]
      BY <1>2, <3>0
    <3>2. h[j] <= h[i] + MaxDelay
      BY <2>1, <3>1 DEF Tracks, Skewed
    <3> QED
      BY <2>1, <3>1, <3>2
  <2> QED
    BY <2>2, <2>3
<1>8. Covers(g, m)
  <2> SUFFICES ASSUME NEW v \in Int, NEW n \in 0..Len(g), v <= Window - MaxDelay,
                      \A i \in 1..n : g[i] >= v
               PROVE  m[Limit + 1 - (Len(g) - n)] >= v
    BY DEF Covers
  <2>1. CASE n = Len(h) + 1
    <3>1. Len(h) \in 0..Len(h) /\ Limit + 1 - (Len(h) - Len(h)) = Limit + 1
      BY <1>0, <1>1
    <3>2. \A i \in 1..Len(h) : h[i] >= v
      BY <1>1, <1>2, <2>1
    <3>3. l[Limit + 1] >= v
      BY <3>1, <3>2 DEF Tracks, Covers
    <3>4. at >= v
      BY <1>1, <1>2, <2>1
    <3>5. Limit + 1 - (Len(g) - n) = Limit + 1
      BY <1>0, <1>1, <1>2, <2>1
    <3> QED
      BY <1>3, <3>3, <3>4, <3>5 DEF MinOf
  <2>2. CASE n # Len(h) + 1
    <3>1. n \in 0..Len(h) /\ \A i \in 1..n : i \in 1..Len(h)
      BY <1>1, <1>2, <2>2
    <3>2. \A i \in 1..n : h[i] >= v
      BY <1>2, <3>1
    <3>3. l[Limit + 1 - (Len(h) - n)] >= v
      BY <3>1, <3>2 DEF Tracks, Covers
    <3> DEFINE p == Limit + 1 - (Len(g) - n)
    <3>4. p \in 1..Limit /\ p + 1 = Limit + 1 - (Len(h) - n) /\ p + 1 \in 1..(Limit + 1) /\ p \in 1..(Limit + 1)
      BY <1>0, <1>1, <1>2, <3>1
    <3> HIDE DEF p
    <3>5. m[p] \in Int /\ l[p + 1] \in Int
      BY <1>1, <1>4, <3>4
    <3>6. m[p] >= l[p + 1]
      BY <1>5, <3>4
    <3>7. l[p + 1] >= v
      BY <3>3, <3>4
    <3>8. m[p] >= v
      BY <3>5, <3>6, <3>7
    <3> QED
      BY <3>8 DEF p
  <2> QED
    BY <2>1, <2>2
<1>9. LetThrough(g, m)
  <2> SUFFICES ASSUME NEW n \in 1..Len(g)
               PROVE  \E i \in n..Len(g) : m[Limit + 1 - Len(g) + n] <= g[i]
    BY DEF LetThrough
  <2>0. Len(h) + 1 \in n..Len(g) /\ g[Len(h) + 1] = at
    BY <1>1, <1>2
  <2>1. CASE n = Len(h) + 1
    <3>1. Limit + 1 - Len(g) + n = Limit + 1
      BY <1>0, <1>1, <1>2, <2>1
    <3>2. m[Limit + 1] <= at
      BY <1>0, <1>1, <1>3 DEF MinOf
    <3> QED
      BY <2>0, <3>1, <3>2
  <2>2. CASE n # Len(h) + 1
    <3>1. n \in 1..Len(h)
      BY <1>1, <1>2, <2>2
    <3>2. PICK i \in n..Len(h) : l[Limit + 1 - Len(h) + n] <= h[i]
      BY <3>1 DEF Tracks, LetThrough
    <3>3. i \in n..Len(g) /\ g[i] = h[i]
      BY <1>1, <1>2, <3>1
    <3> DEFINE p == Limit + 1 - Len(g) + n
    <3>4. p \in 1..Limit /\ p + 1 = Limit + 1 - Len(h) + n
      BY <1>0, <1>1, <1>2, <3>1
    <3> HIDE DEF p
    <3>5. m[p] = l[p + 1] \/ m[p] <= at
      BY <1>5, <3>4
    <3>6. m[p] <= g[i] \/ m[p] <= g[Len(h) + 1]
      BY <2>0, <3>2, <3>3, <3>4, <3>5
    <3> QED
      BY <2>0, <3>3, <3>6 DEF p
  <2> QED
    BY <2>1, <2>2
<1>10. Len(g) <= Limit
  BY <1>0, <1>1, <1>2
<1> QED
  BY <1>2, <1>3, <1>6, <1>7, <1>8, <1>9, <1>10 DEF Tracks, g, m

\* A history covers an empty deque when its youngest instant is outside the
\* shortened window.
LEMMA EmptyTracks ==
    ASSUME NEW l, l \in Seq(Ages), Len(l) = Limit + 1, Sorted(l), l[Limit + 1] >= Window - MaxDelay
    PROVE  Tracks(<<>>, l)
<1>0. Limit \in Nat /\ Window \in Nat \ {0} /\ MaxDelay \in Nat
  BY ConfigTypes
<1>1. <<>> \in Seq(Ages) /\ Len(<<>>) = 0
  OBVIOUS
<1>2. Skewed(<<>>) /\ LetThrough(<<>>, l)
  BY <1>1 DEF Skewed, LetThrough
<1>3. Covers(<<>>, l)
  <2> SUFFICES ASSUME NEW v \in Int, NEW n \in 0..0, v <= Window - MaxDelay
               PROVE  l[Limit + 1 - (0 - n)] >= v
    BY <1>1 DEF Covers
  <2>1. Limit + 1 - (0 - n) = Limit + 1 /\ Limit + 1 \in 1..(Limit + 1)
    BY <1>0
  <2>2. l[Limit + 1] \in Ages
    BY <2>1, ElementOfSeq
  <2>3. l[Limit + 1] \in Int
    BY <2>2, ConfigTypes
  <2> QED
    BY <1>0, <2>1, <2>3
<1> QED
  BY <1>0, <1>1, <1>2, <1>3 DEF Tracks

\* A bucket may be dropped when the instant at its back is expired: none
\* before it is younger by more than the longest delay.
LEMMA DropTracks ==
    ASSUME NEW h, NEW l, Tracks(h, l), NEW at \in Delays, h # <<>> => Expired(h[Len(h)], at)
    PROVE  Tracks(<<>>, l)
<1>0. Limit \in Nat /\ Window \in Nat \ {0} /\ MaxDelay \in Nat /\ at \in Nat
  BY ConfigTypes
<1>1. /\ h \in Seq(Ages) /\ Len(h) \in Nat
      /\ \A i \in 1..Len(h) : h[i] \in Int
  BY TrackTypes
<1>2. \A i \in 1..Len(h) : h[i] >= Window - MaxDelay
  <2> SUFFICES ASSUME NEW i \in 1..Len(h)
               PROVE  h[i] >= Window - MaxDelay
    OBVIOUS
  <2>1. Len(h) \in 1..Len(h) /\ h # <<>>
    BY <1>1
  <2>2. h[Len(h)] - at >= Window
    BY <2>1 DEF Expired
  <2>3. i = Len(h) \/ h[Len(h)] <= h[i] + MaxDelay
    BY <1>1, <2>1 DEF Tracks, Skewed
  <2>4. h[i] \in Int /\ h[Len(h)] \in Int
    BY <1>1, <2>1
  <2> QED
    BY <1>0, <2>2, <2>3, <2>4
<1>3. Len(h) \in 0..Len(h) /\ Window - MaxDelay \in Int /\ Limit + 1 - (Len(h) - Len(h)) = Limit + 1
  BY <1>0, <1>1
<1>4. l[Limit + 1] >= Window - MaxDelay
  <2> DEFINE v == Window - MaxDelay
             n == Len(h)
  <2>1. v \in Int /\ n \in 0..Len(h) /\ v <= Window - MaxDelay /\ \A i \in 1..n : h[i] >= v
    BY <1>0, <1>2, <1>3
  <2> HIDE DEF v, n
  <2>2. l[Limit + 1 - (Len(h) - n)] >= v
    BY <2>1 DEF Tracks, Covers
  <2> QED
    BY <1>3, <2>2 DEF v, n
<1> QED
  BY <1>4, EmptyTracks DEF Tracks

\* What a limiter that has seen nothing remembers.
LEMMA QuietTracks == Tracks(<<>>, Quiet)
<1>1. Limit \in Nat /\ Window \in Nat \ {0} /\ MaxDelay \in Nat
  BY ConfigTypes
<1>2. /\ Quiet \in Seq(Ages)
      /\ Len(Quiet) = Limit + 1
      /\ \A i \in 1..(Limit + 1) : Quiet[i] = Horizon
  BY ConfigTypes DEF Quiet
<1>3. Sorted(Quiet) /\ Quiet[Limit + 1] >= Window - MaxDelay
  BY <1>1, <1>2, ConfigTypes DEF Sorted
<1> QED
  BY <1>2, <1>3, EmptyTracks

\* Time passes for both alike.
LEMMA OlderTracks ==
    ASSUME NEW h, NEW l, Tracks(h, l)
    PROVE  Tracks(Older(h), Older(l))
<1> DEFINE g == Older(h)
           m == Older(l)
           Next(x) == MinOf(x + 1, Horizon)
<1>0. /\ Limit \in Nat /\ Window \in Nat \ {0} /\ MaxDelay \in Nat
      /\ Horizon = Window + 2 * MaxDelay /\ Horizon \in Nat
  BY ConfigTypes
<1>1. /\ h \in Seq(Ages) /\ Len(h) \in Nat
      /\ l \in Seq(Ages) /\ Len(l) = Limit + 1
      /\ \A i \in 1..Len(h) : h[i] \in Int /\ 0 <= h[i] /\ h[i] <= Horizon
      /\ \A i \in 1..(Limit + 1) : l[i] \in Int /\ 0 <= l[i] /\ l[i] <= Horizon
  BY TrackTypes
<1>2. \A s \in Seq(Ages) : /\ Older(s) \in Seq(Ages)
                            /\ Len(Older(s)) = Len(s)
                            /\ \A i \in 1..Len(s) : Older(s)[i] = Next(s[i])
  <2> TAKE s \in Seq(Ages)
  <2>1. Len(s) \in Nat /\ DOMAIN s = 1..Len(s) /\ \A i \in 1..Len(s) : s[i] \in Ages
    BY LenProperties, ElementOfSeq
  <2>2. Older(s) = [i \in 1..Len(s) |-> Next(s[i])]
    BY <2>1 DEF Older
  <2>3. \A x \in Ages : Next(x) \in Ages
    BY <1>0, ConfigTypes DEF MinOf
  <2> QED
    BY <2>1, <2>2, <2>3
<1>3. /\ g \in Seq(Ages) /\ Len(g) = Len(h)
      /\ \A i \in 1..Len(h) : g[i] = Next(h[i])
      /\ m \in Seq(Ages) /\ Len(m) = Limit + 1
      /\ \A i \in 1..(Limit + 1) : m[i] = Next(l[i])
  BY <1>1, <1>2
<1>4. \A x, y \in Int : x <= y => Next(x) <= Next(y)
  BY <1>0 DEF MinOf
<1>5. \A x, y \in Int : x <= y + MaxDelay => Next(x) <= Next(y) + MaxDelay
  BY <1>0 DEF MinOf
<1>6. \A x, v \in Int : v <= Window - MaxDelay => (Next(x) >= v <=> x >= v - 1)
  BY <1>0 DEF MinOf
<1> HIDE DEF g, m, Next
<1>7. Sorted(m)
  <2> SUFFICES ASSUME NEW i \in 1..(Limit + 1), NEW j \in 1..(Limit + 1), i <= j
               PROVE  m[i] >= m[j]
    BY DEF Sorted
  <2>1. l[j] <= l[i] /\ l[i] \in Int /\ l[j] \in Int
    BY <1>1 DEF Tracks, Sorted
  <2>2. Next(l[j]) <= Next(l[i])
    BY <1>4, <2>1
  <2> QED
    BY <1>3, <2>2
<1>8. Skewed(g)
  <2> SUFFICES ASSUME NEW i \in 1..Len(g), NEW j \in 1..Len(g), i < j
               PROVE  g[j] <= g[i] + MaxDelay
    BY DEF Skewed
  <2>1. i \in 1..Len(h) /\ j \in 1..Len(h)
    BY <1>3
  <2>2. h[j] <= h[i] + MaxDelay /\ h[i] \in Int /\ h[j] \in Int
    BY <1>1, <2>1 DEF Tracks, Skewed
  <2>3. Next(h[j]) <= Next(h[i]) + MaxDelay
    BY <1>5, <2>2
  <2> QED
    BY <1>3, <2>1, <2>3
<1>9. Covers(g, m)
  <2> SUFFICES ASSUME NEW v \in Int, NEW n \in 0..Len(h), v <= Window - MaxDelay,
                      \A i \in 1..n : g[i] >= v
               PROVE  m[Limit + 1 - (Len(h) - n)] >= v
    BY <1>3 DEF Covers
  <2> DEFINE w == v - 1
             p == Limit + 1 - (Len(h) - n)
  <2>1. w \in Int /\ w <= Window - MaxDelay
    BY <1>0
  <2>2. \A i \in 1..n : i \in 1..Len(h)
    BY <1>1
  <2>3. \A i \in 1..n : Next(h[i]) >= v /\ h[i] \in Int
    BY <1>1, <1>3, <2>2
  <2>4. \A i \in 1..n : h[i] >= w
    BY <1>6, <2>3
  <2>5. p \in 1..(Limit + 1)
    BY <1>0, <1>1 DEF Tracks
  <2> HIDE DEF w
  <2>6. l[p] >= w
    BY <2>1, <2>4 DEF Tracks, Covers
  <2> HIDE DEF p
  <2>7. l[p] \in Int
    BY <1>1, <2>5
  <2>8. m[p] = Next(l[p]) /\ Next(l[p]) >= v
    BY <1>3, <1>6, <2>5, <2>6, <2>7 DEF w
  <2> QED
    BY <2>8 DEF p
<1>10. LetThrough(g, m)
  <2> SUFFICES ASSUME NEW n \in 1..Len(h)
               PROVE  \E i \in n..Len(h) : m[Limit + 1 - Len(h) + n] <= g[i]
    BY <1>3 DEF LetThrough
  <2> DEFINE p == Limit + 1 - Len(h) + n
  <2>1. PICK i \in n..Len(h) : l[p] <= h[i]
    BY DEF Tracks, LetThrough
  <2>2. i \in 1..Len(h) /\ p \in 1..(Limit + 1)
    BY <1>0, <1>1 DEF Tracks
  <2> HIDE DEF p
  <2>3. l[p] \in Int /\ h[i] \in Int
    BY <1>1, <2>2
  <2>4. Next(l[p]) <= Next(h[i])
    BY <1>4, <2>1, <2>3
  <2>5. m[p] <= g[i]
    BY <1>3, <2>2, <2>4
  <2> QED
    BY <2>1, <2>5 DEF p
<1> QED
  BY <1>3, <1>7, <1>8, <1>9, <1>10 DEF Tracks, g, m

(***************************************************************************)
(* The invariant                                                           *)
(***************************************************************************)

\* Every step of the limiter keeps the correspondence, bucket by bucket.
LEMMA TrackingStep ==
    ASSUME LimiterTypeOK, Tracking, [LimiterNext]_lvars
    PROVE  LimiterTypeOK' /\ Tracking'
<1>0. Limit \in Nat /\ Window \in Nat \ {0} /\ MaxDelay \in Nat /\ up \in 0..MaxDelay
  BY ConfigTypes DEF LimiterTypeOK
<1> DEFINE Good == /\ DOMAIN hits' = Buckets /\ DOMAIN last' = Buckets
                   /\ hits' = [b \in Buckets |-> hits'[b]]
                   /\ last' = [b \in Buckets |-> last'[b]]
                   /\ Tracking'
                   /\ up' \in Delays
<1>1. SUFFICES Good
  <2>1. Good => \A b \in Buckets : /\ hits'[b] \in Seq(Ages) /\ last'[b] \in Seq(Ages)
                                    /\ Len(last'[b]) = Limit + 1
    BY DEF Tracking, Tracks
  <2> QED
    BY <2>1 DEF LimiterTypeOK
<1>2. \A b \in Buckets : Tracks(hits[b], last[b])
  BY DEF Tracking
<1>3. ASSUME NEW b \in Buckets, NEW at \in Delays, Accept(b, at)
      PROVE  Good
  <2>1. Len(Fresh(hits[b], at)) < Limit
    <3>1. Len(Fresh(hits[b], at)) \in Nat
      BY <1>2, PopTracks, LenProperties DEF Tracks
    <3> QED
      BY <1>0, <1>3, <3>1 DEF Accept, Full
  <2>2. Tracks(Append(Fresh(hits[b], at), at), Insert(last[b], at))
    BY <1>2, <2>1, PopTracks, AcceptTracks
  <2>3. /\ hits' = [hits EXCEPT ![b] = Append(Fresh(hits[b], at), at)]
        /\ last' = [last EXCEPT ![b] = Insert(last[b], at)]
        /\ up' = up
    BY <1>3 DEF Accept
  <2> QED
    BY <1>2, <2>2, <2>3 DEF LimiterTypeOK, Tracking
<1>4. ASSUME NEW b \in Buckets, NEW at \in Delays, Refuse(b, at)
      PROVE  Good
  <2>1. Tracks(Fresh(hits[b], at), last[b])
    BY <1>2, PopTracks
  <2>2. hits' = [hits EXCEPT ![b] = Fresh(hits[b], at)] /\ last' = last /\ up' = up
    BY <1>4 DEF Refuse
  <2> QED
    BY <1>2, <2>1, <2>2 DEF LimiterTypeOK, Tracking
<1>5. ASSUME NEW at \in Delays, prune(at)
      PROVE  Good
  <2>1. ASSUME NEW b \in Buckets
        PROVE  Tracks(hits'[b], last[b])
    <3>1. CASE hits[b] # <<>> /\ ~Expired(hits[b][Len(hits[b])], at)
      BY <1>2, <1>5, <3>1 DEF prune
    <3>2. CASE ~(hits[b] # <<>> /\ ~Expired(hits[b][Len(hits[b])], at))
      <4>1. Tracks(<<>>, last[b])
        BY <1>2, <3>2, DropTracks
      <4> QED
        BY <1>5, <3>2, <4>1 DEF prune
    <3> QED
      BY <3>1, <3>2
  <2> QED
    BY <1>5, <2>1 DEF prune, LimiterTypeOK, Tracking
<1>6. ASSUME Age
      PROVE  Good
  <2>1. \A b \in Buckets : Tracks(Older(hits[b]), Older(last[b]))
    BY <1>2, OlderTracks
  <2>2. up' \in Delays
    BY <1>0, <1>6, ConfigTypes DEF Age, MinOf
  <2> QED
    BY <1>6, <2>1, <2>2 DEF Age, Tracking
<1>7. ASSUME Forget
      PROVE  Good
  <2>1. Tracks(<<>>, Quiet) /\ 0 \in Delays
    BY QuietTracks, ConfigTypes
  <2> QED
    BY <1>7, <2>1 DEF Forget, Tracking
<1>8. ASSUME UNCHANGED lvars
      PROVE  Good
  BY <1>2, <1>8 DEF lvars, LimiterTypeOK, Tracking
<1> QED
  BY <1>3, <1>4, <1>5, <1>6, <1>7, <1>8 DEF LimiterNext

LEMMA TrackingInit == LimiterInit => LimiterTypeOK /\ Tracking
<1> SUFFICES ASSUME LimiterInit
             PROVE  LimiterTypeOK /\ Tracking
  OBVIOUS
<1>1. Tracks(<<>>, Quiet) /\ 0 \in Delays
  BY QuietTracks, ConfigTypes
<1>2. Quiet \in Seq(Ages) /\ Len(Quiet) = Limit + 1
  BY <1>1 DEF Tracks
<1> QED
  BY <1>1, <1>2 DEF LimiterInit, LimiterTypeOK, Tracking

(***************************************************************************)
(* What the invariant implies                                              *)
(***************************************************************************)

\* The one of the Limit + 1 youngest requests that is the first the deque
\* does not remember is outside the shortened window.
LEMMA FirstForgotten ==
    ASSUME NEW h, NEW l, Tracks(h, l)
    PROVE  l[Limit + 1 - Len(h)] >= Window - MaxDelay
<1> DEFINE v == Window - MaxDelay
           n == 0
<1>1. Limit \in Nat /\ Window \in Nat /\ MaxDelay \in Nat /\ Len(h) \in Nat
  BY ConfigTypes, TrackTypes
<1>2. v \in Int /\ n \in 0..Len(h) /\ v <= Window - MaxDelay /\ \A i \in 1..n : h[i] >= v
  BY <1>1
<1>3. Limit + 1 - (Len(h) - n) = Limit + 1 - Len(h)
  BY <1>1
<1> HIDE DEF v, n
<1>4. l[Limit + 1 - (Len(h) - n)] >= v
  BY <1>2 DEF Tracks, Covers
<1> QED
  BY <1>3, <1>4 DEF v

LEMMA TrackingBounds == Tracking => WindowBound
<1> SUFFICES ASSUME Tracking, NEW b \in Buckets
             PROVE  last[b][1] >= Window - MaxDelay
  BY DEF WindowBound
<1> DEFINE h == hits[b]
           l == last[b]
           p == Limit + 1 - Len(h)
<1>1. Tracks(h, l)
  BY DEF Tracking
<1>2. /\ Limit \in Nat /\ Window \in Nat /\ MaxDelay \in Nat
      /\ Len(h) \in Nat /\ Len(h) <= Limit
      /\ \A i \in 1..(Limit + 1) : l[i] \in Int
  BY <1>1, ConfigTypes, TrackTypes
<1>3. p \in 1..(Limit + 1) /\ 1 \in 1..(Limit + 1) /\ 1 <= p
  BY <1>2
<1> HIDE DEF h, l
<1>4. l[p] >= Window - MaxDelay
  BY <1>1, FirstForgotten
<1> HIDE DEF p
<1>5. l[1] >= l[p] /\ l[1] \in Int /\ l[p] \in Int
  BY <1>1, <1>2, <1>3 DEF Tracks, Sorted
<1>6. l[1] >= Window - MaxDelay
  BY <1>2, <1>4, <1>5
<1> QED
  BY <1>6 DEF l

LEMMA TrackingDecides == Tracking => VerdictIsNearlyExact
<1> SUFFICES ASSUME Tracking, NEW b \in Buckets, NEW at \in Delays
             PROVE  IF Full(b, at)
                    THEN \A i \in 2..(Limit + 1) : last[b][i] - at < Window + MaxDelay
                    ELSE \E i \in 2..(Limit + 1) : last[b][i] >= Window - MaxDelay
  BY DEF VerdictIsNearlyExact
<1> DEFINE h == hits[b]
           l == last[b]
           f == Fresh(h, at)
           k == Stale(h, at)
<1>0. Limit \in Nat /\ Window \in Nat \ {0} /\ MaxDelay \in Nat /\ at \in Nat
  BY ConfigTypes
<1>1. Tracks(h, l)
  BY DEF Tracking
<1>2. Tracks(f, l)
  BY <1>1, PopTracks
<1>3. /\ Len(f) \in Nat /\ Len(f) <= Limit
      /\ \A i \in 1..Len(f) : f[i] \in Int
      /\ \A i \in 1..(Limit + 1) : l[i] \in Int
  BY <1>2, TrackTypes
<1>4. Full(b, at) <=> Len(f) >= Limit
  BY DEF Full
<1>5. Len(f) >= 1 => f[1] < Window + at
  <2>1. /\ h \in Seq(Ages) /\ Len(h) \in Nat
    BY <1>1, TrackTypes
  <2>2. k \in 0..Len(h) /\ (k < Len(h) => h[k + 1] < Window + at)
    BY <2>1, StaleCuts
  <2>3. Len(f) = Len(h) - k /\ \A i \in 1..Len(f) : f[i] = h[k + i]
    BY <2>1, FreshIsSuffix
  <2> HIDE DEF h, f, k
  <2> SUFFICES ASSUME Len(f) >= 1
               PROVE  f[1] < Window + at
    OBVIOUS
  <2>4. k < Len(h) /\ 1 \in 1..Len(f)
    BY <1>3, <2>1, <2>2, <2>3
  <2> QED
    BY <2>2, <2>3, <2>4
<1> HIDE DEF h, l, f, k
<1>6. ASSUME Len(f) >= Limit, NEW i \in 2..(Limit + 1)
      PROVE  l[i] - at < Window + MaxDelay
  <2>1. /\ Len(f) = Limit /\ 1 \in 1..Len(f) /\ Limit + 1 - Len(f) + 1 = 2
        /\ 2 \in 1..(Limit + 1) /\ i \in 1..(Limit + 1) /\ 2 <= i
    BY <1>0, <1>3, <1>6
  <2>2. PICK j \in 1..Len(f) : l[Limit + 1 - Len(f) + 1] <= f[j]
    BY <1>2, <2>1 DEF Tracks, LetThrough
  <2>3. f[1] \in Int /\ f[j] \in Int /\ l[2] \in Int /\ l[i] \in Int
    BY <1>3, <2>1
  <2>4. l[2] <= f[j]
    BY <2>1, <2>2
  <2>5. f[j] <= f[1] + MaxDelay
    <3>1. CASE j = 1
      BY <1>0, <2>3, <3>1
    <3>2. CASE j # 1
      <4>1. 1 < j
        BY <3>2
      <4> QED
        BY <1>2, <2>1, <4>1 DEF Tracks, Skewed
    <3> QED
      BY <3>1, <3>2
  <2>6. l[2] >= l[i]
    BY <1>2, <2>1 DEF Tracks, Sorted
  <2>7. f[1] < Window + at
    BY <1>3, <1>5, <2>1
  <2> QED
    BY <1>0, <2>3, <2>4, <2>5, <2>6, <2>7
<1>7. ASSUME ~(Len(f) >= Limit)
      PROVE  \E i \in 2..(Limit + 1) : l[i] >= Window - MaxDelay
  <2>1. Limit + 1 - Len(f) \in 2..(Limit + 1)
    BY <1>0, <1>3, <1>7
  <2>2. l[Limit + 1 - Len(f)] >= Window - MaxDelay
    BY <1>2, FirstForgotten
  <2> QED
    BY <2>1, <2>2
<1> QED
  BY <1>4, <1>6, <1>7 DEF l

\* The limiter keeps its types, alone.
THEOREM LimiterTypeCorrect == LimiterSpec => []LimiterTypeOK
<1>1. LimiterInit => LimiterTypeOK /\ Tracking
  BY TrackingInit
<1>2. LimiterTypeOK /\ Tracking /\ [LimiterNext]_lvars => LimiterTypeOK' /\ Tracking'
  BY TrackingStep
<1> QED
  BY <1>1, <1>2, PTL DEF LimiterSpec

\* However late calls take the lock, at most Limit requests of a bucket get
\* through in any rolling window shortened by the longest delay.
THEOREM WindowBoundHolds == LimiterSpec => []WindowBound
<1>1. LimiterInit => LimiterTypeOK /\ Tracking
  BY TrackingInit
<1>2. LimiterTypeOK /\ Tracking /\ [LimiterNext]_lvars => LimiterTypeOK' /\ Tracking'
  BY TrackingStep
<1>3. Tracking => WindowBound
  BY TrackingBounds
<1> QED
  BY <1>1, <1>2, <1>3, PTL DEF LimiterSpec

\* The bound the doc comment states holds when no call is delayed between
\* the clock and the lock.
THEOREM RollingWindowWithoutDelay ==
    ASSUME MaxDelay = 0
    PROVE  LimiterSpec => []RollingWindow
<1>1. Window - MaxDelay = Window
  BY ConfigTypes
<1>2. WindowBound => RollingWindow
  BY <1>1 DEF WindowBound, RollingWindow
<1> QED
  BY <1>2, WindowBoundHolds, PTL

\* A verdict is wrong by no more than the longest delay.
THEOREM VerdictIsNearlyExactHolds == LimiterSpec => []VerdictIsNearlyExact
<1>1. LimiterInit => LimiterTypeOK /\ Tracking
  BY TrackingInit
<1>2. LimiterTypeOK /\ Tracking /\ [LimiterNext]_lvars => LimiterTypeOK' /\ Tracking'
  BY TrackingStep
<1>3. Tracking => VerdictIsNearlyExact
  BY TrackingDecides
<1> QED
  BY <1>1, <1>2, <1>3, PTL DEF LimiterSpec
=============================================================================
