-------------------------- MODULE Schedule_proofs --------------------------
(***************************************************************************)
(* Proofs about the backoff of the services: when the arithmetic of 64-bit *)
(* numbers they compute it with gives Capped, which the models use, and    *)
(* what the jitter makes of it.                                            *)
(***************************************************************************)
EXTENDS Schedule, TLAPS

LEMMA Powers ==
    /\ 2^0 = 1 /\ 2^1 = 2 /\ 2^2 = 4 /\ 2^3 = 8
    /\ 2^4 = 16 /\ 2^5 = 32 /\ 2^6 = 64 /\ 2^7 = 128
    /\ 2^8 = 256 /\ 2^9 = 512 /\ 2^10 = 1024 /\ 2^11 = 2048
    /\ 2^12 = 4096 /\ 2^13 = 8192 /\ 2^14 = 16384 /\ 2^15 = 32768
    /\ 2^16 = 65536 /\ 2^17 = 131072 /\ 2^18 = 262144 /\ 2^19 = 524288
    /\ 2^20 = 1048576
OBVIOUS

\* 1u64 << shift: no service doubles more than 20 times.
LEMMA Doublings == \A n \in 0..20 : 2^n \in Nat /\ 1 <= 2^n /\ 2^n <= 2^20
<1> SUFFICES ASSUME NEW n \in 0..20
             PROVE  2^n \in Nat /\ 1 <= 2^n /\ 2^n <= 2^20
  OBVIOUS
<1>1.
    \/ n = 0 \/ n = 1 \/ n = 2 \/ n = 3 \/ n = 4 \/ n = 5 \/ n = 6
    \/ n = 7 \/ n = 8 \/ n = 9 \/ n = 10 \/ n = 11 \/ n = 12 \/ n = 13
    \/ n = 14 \/ n = 15 \/ n = 16 \/ n = 17 \/ n = 18 \/ n = 19 \/ n = 20
  OBVIOUS
<1>2.
      \/ 2^n = 2^0 \/ 2^n = 2^1 \/ 2^n = 2^2 \/ 2^n = 2^3 \/ 2^n = 2^4
      \/ 2^n = 2^5 \/ 2^n = 2^6 \/ 2^n = 2^7 \/ 2^n = 2^8 \/ 2^n = 2^9
      \/ 2^n = 2^10 \/ 2^n = 2^11 \/ 2^n = 2^12 \/ 2^n = 2^13 \/ 2^n = 2^14
      \/ 2^n = 2^15 \/ 2^n = 2^16 \/ 2^n = 2^17 \/ 2^n = 2^18 \/ 2^n = 2^19
      \/ 2^n = 2^20
  BY <1>1, Zenon
<1> QED
  BY <1>2, Powers

LEMMA Product ==
    ASSUME NEW base \in Nat, NEW n \in 0..20
    PROVE  base * 2^n \in Nat /\ base * 2^n <= base * 2^20
<1>1. ASSUME NEW p \in Nat, NEW q \in Nat, p <= q
      PROVE  base * p \in Nat /\ base * p <= base * q
  <2> DEFINE r == q - p
  <2>1. r \in Nat /\ q = p + r
    BY <1>1
  <2> HIDE DEF r
  <2>2. base * p \in Nat /\ base * r \in Nat
    BY <2>1
  <2>3. base * q = base * p + base * r
    BY <2>1
  <2> QED
    BY <2>2, <2>3
<1>2. 2^20 \in Nat
  BY Powers
<1> QED
  BY <1>1, <1>2, Doublings, Zenon

\* Services k and d multiply with saturation: whatever numbers of the type the
\* base and the cap are, the delay is the one the models use.
THEOREM SaturatedIsCapped ==
    ASSUME NEW top \in Nat, NEW base \in 0..(top - 1), NEW n \in 0..20,
           NEW cap \in 0..(top - 1)
    PROVE  SaturatedCap(base, n, cap, top) = Capped(base, n, cap)
<1> DEFINE product == base * 2^n
<1>1. product \in Nat
  <2>1. base \in Nat
    OBVIOUS
  <2> QED
    BY <2>1, Product, Zenon
<1>2. /\ SaturatedCap(base, n, cap, top) = MinOf(MinOf(product, top - 1), cap)
      /\ Capped(base, n, cap) = MinOf(product, cap)
  BY DEF SaturatedCap, saturating_mul, Capped
<1> HIDE DEF product
<1> QED
  BY <1>1, <1>2 DEF MinOf

\* Service q shifts.  As long as 20 doublings of the base fit (a base below
\* 2^44 ms, over 500 years), the shift drops nothing and the delay is the one
\* the models use.
THEOREM ShiftedIsCapped ==
    ASSUME NEW top \in Nat, NEW base \in Nat, base * 2^20 < top,
           NEW n \in 0..20, NEW cap \in Nat
    PROVE  ShiftedCap(base, n, cap, top) = Capped(base, n, cap)
<1> DEFINE product == base * 2^n
           longest == base * 2^20
<1>1. product \in Nat /\ product <= longest /\ longest \in Nat
  <2>1. 20 \in 0..20
    OBVIOUS
  <2> QED
    BY <2>1, Product, Zenon
<1>2. /\ ShiftedCap(base, n, cap, top) = MinOf(product % top, cap)
      /\ Capped(base, n, cap) = MinOf(product, cap)
  BY DEF ShiftedCap, checked_shl, Capped
<1> HIDE DEF product, longest
<1>3. product % top = product
  BY <1>1 DEF longest
<1> QED
  BY <1>2, <1>3

\* The first base that does not fit is one whose 21st attempt waits for
\* nothing, where the documentation says it waits up to max_ms.
THEOREM ShiftDropsBits ==
    ASSUME NEW top \in Nat \ {0}, NEW base \in Nat, base * 2^20 = top,
           NEW cap \in 0..(top - 1)
    PROVE  /\ ShiftedCap(base, 20, cap, top) = 0
           /\ Capped(base, 20, cap) = cap
<1>1. top % top = 0
  OBVIOUS
<1>2. ShiftedCap(base, 20, cap, top) = MinOf(top % top, cap)
  BY Zenon DEF ShiftedCap, checked_shl
<1>3. Capped(base, 20, cap) = MinOf(top, cap)
  BY Zenon DEF Capped
<1> QED
  BY <1>1, <1>2, <1>3 DEF MinOf

\* The jitter of services k and d stays within 20% of the delay, below it by
\* the truncation to a millisecond at most, and always leaves a choice.
THEOREM Jitter20Bounds ==
    ASSUME NEW delay \in Nat
    PROVE  /\ delay \in Jitter20(delay)
           /\ \A x \in Jitter20(delay) :
                 x \in Nat /\ 5 * x <= 6 * delay /\ 4 * delay <= 5 * (x + 1)
BY DEF Jitter20
=============================================================================
