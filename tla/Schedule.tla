------------------------------ MODULE Schedule ------------------------------
(***************************************************************************)
(* When a row is next due, and which due rows a query picks: what the four *)
(* services have in common.                                                *)
(***************************************************************************)
EXTENDS Integers, FiniteSets

MinOf(x, y) == IF x <= y THEN x ELSE y
MaxOf(x, y) == IF x >= y THEN x ELSE y

\* The exponential backoff before any jitter.
Capped(base, doublings, cap) == MinOf(base * 2^doublings, cap)

\* The same as the services compute it, on unsigned numbers below `top` (2^64):
\* a product that stops at the largest number, or a shift that drops the bits
\* above it.  Module Schedule_proofs says when it is Capped.
saturating_mul(x, y, top) == MinOf(x * y, top - 1)
checked_shl(x, n, top) == (x * 2^n) % top       \* n < 64: never refused

SaturatedCap(base, doublings, cap, top) ==
    MinOf(saturating_mul(base, 2^doublings, top), cap)
ShiftedCap(base, doublings, cap, top) == MinOf(checked_shl(base, doublings, top), cap)

\* A delay times a factor in [0.8, 1.2), truncated.
Jitter20(delay) ==
    IF delay = 0 THEN {0}
                 ELSE {x \in 0..(2 * delay) : 8 * delay < 10 * (x + 1) /\ 10 * x < 12 * delay}

\* Every answer `ORDER BY at LIMIT limit` over the due rows may give: the
\* order among equal times is open.
OldestDue(due, at, limit) ==
    LET n == MinOf(limit, Cardinality(due))
    IN  {s \in [1..n -> due] :
            /\ \A i, j \in 1..n : i < j => s[i] # s[j] /\ at[s[i]] <= at[s[j]]
            /\ \A i \in 1..n : \A d \in due \ {s[j] : j \in 1..n} : at[s[i]] <= at[d]}
=============================================================================
