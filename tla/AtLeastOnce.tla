---------------------------- MODULE AtLeastOnce ----------------------------
(***************************************************************************)
(* What every one of the four delivery services promises about a job it    *)
(* has answered 2xx for, without workers, clocks or a database: the job    *)
(* stays queued until it is delivered or parked in the dead letter queue,  *)
(* it is reported delivered only after the destination answered 2xx, a     *)
(* delivered job stays delivered, and a parked job moves only when an      *)
(* operator requeues it.  The detailed specifications are checked against  *)
(* this one by refinement.                                                 *)
(***************************************************************************)
CONSTANT Jobs

VARIABLES phase,   \* phase[j]: where the service says the job is
          acked    \* acked[j]: has the destination ever answered 2xx for it

avars == <<phase, acked>>

Phases == {"absent", "queued", "delivered", "parked"}

Init ==
    /\ phase = [j \in Jobs |-> "absent"]
    /\ acked = [j \in Jobs |-> FALSE]

Move(j, from, to) ==
    /\ phase[j] = from
    /\ phase' = [phase EXCEPT ![j] = to]

Accept(j) == Move(j, "absent", "queued") /\ UNCHANGED acked

Acknowledge(j) ==
    /\ phase[j] = "queued"
    /\ acked' = [acked EXCEPT ![j] = TRUE]
    /\ UNCHANGED phase

Deliver(j) == acked[j] /\ Move(j, "queued", "delivered") /\ UNCHANGED acked

Park(j) == Move(j, "queued", "parked") /\ UNCHANGED acked

Requeue(j) == Move(j, "parked", "queued") /\ UNCHANGED acked

Next ==
    \E j \in Jobs :
        Accept(j) \/ Acknowledge(j) \/ Deliver(j) \/ Park(j) \/ Requeue(j)

Spec == Init /\ [][Next]_avars
=============================================================================
