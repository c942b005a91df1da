---------------------------- MODULE MCQDelivery ----------------------------
(***************************************************************************)
(* Model values for TLC.  Ids and workers are interchangeable in every     *)
(* safety property, so the safety runs use symmetry.                       *)
(***************************************************************************)
EXTENDS QDelivery, TLC

CONSTANTS d1, d2, w1, w2

OneId == {d1}
TwoIds == {d1, d2}
OneWorker == {w1}
TwoWorkers == {w1, w2}

\* Number types of 5 bits: multiplying never loses a bit, shifting does not
\* below the largest number.
ASSUME BackoffOfFiveBits ==
    \A base, cap \in 0..31, n \in 0..4 :
        /\ SaturatedCap(base, n, cap, 32) = Capped(base, n, cap)
        /\ base * 2^n < 32 => ShiftedCap(base, n, cap, 32) = Capped(base, n, cap)

Symmetry == Permutations(Workers) \union Permutations(Ids)
=============================================================================
