----------------------------- MODULE SubmitOnce -----------------------------
(***************************************************************************)
(* What an idempotency key promises a client: the first submission that is *)
(* stored under the key owns it for good, and every 2xx answer to any      *)
(* submission under the key names that one.                                *)
(***************************************************************************)
CONSTANTS Keys, Ids, NoId

VARIABLES owner,   \* owner[k]: the delivery stored under the key, or NoId
          told     \* <<k, i>>: some request under k was answered with id i

svars == <<owner, told>>

Init ==
    /\ owner = [k \in Keys |-> NoId]
    /\ told = {}

Own(k, i) ==
    /\ owner[k] = NoId
    /\ \A l \in Keys : owner[l] # i
    /\ owner' = [owner EXCEPT ![k] = i]
    /\ UNCHANGED told

Tell(k) ==
    /\ owner[k] # NoId
    /\ told' = told \union {<<k, owner[k]>>}
    /\ UNCHANGED owner

Next == \E k \in Keys : Tell(k) \/ \E i \in Ids : Own(k, i)

Spec == Init /\ [][Next]_svars
=============================================================================
