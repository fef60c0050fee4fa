------------------------------ MODULE MCTimers ------------------------------
(***************************************************************************)
(* KTimer for TLC, on one CPU with two timers, and on two CPUs that start  *)
(* and stop one timer against each other's expiry.  A behaviour is of one  *)
(* of the two instances, the part.                                         *)
(***************************************************************************)
EXTENDS KTimer

CONSTANT OtherCPU, OneTimer

Race == INSTANCE KTimer WITH
    CPUs <- CPUs \cup {OtherCPU}, Timers <- {OneTimer}, Delays <- {1},
    Calls <- {"timer_start", "timer_stop"}, BalanceCPUs <- {}

VARIABLE part

MCInit == \/ part = "one" /\ Init
          \/ part = "race" /\ Race!Init

MCNext ==
    /\ \/ part = "one" /\ Next
       \/ part = "race" /\ Race!Next
    /\ UNCHANGED part

(* The fairness of KTimer, for the instance with one CPU. *)
One(A) == part = "one" /\ A /\ UNCHANGED part
MCFairness == \A c \in CPUs :
    /\ SF_vars(One(ThreadStep(c)))
    /\ SF_vars(One(DpcStep(c)))
    /\ SF_vars(One(HardClock(c)))
    /\ WF_vars(One(Interrupt(c)))

MCSpec == MCInit /\ [][MCNext]_<<vars, part>> /\ MCFairness

-----------------------------------------------------------------------------
(* On one CPU, a timer is in the heap exactly while it is pending, except  *)
(* where timer_start, timer_stop or timer_handle_expiry is moving it; and  *)
(* every variable stays in its range, also where two CPUs race.            *)
HeapHoldsPending == IF part = "one" THEN TypeOK /\ PendingInHeap ELSE Race!TypeOK

(* On one CPU, timer_handle_expiry signals no timer before its deadline.   *)
OneNeverEarly == [][part = "one" => SignalsInTime]_vars

(* On one CPU, a started timer expires or is stopped, unless the CPU gets  *)
(* wedged.                                                                 *)
OneExpires ==
    \A tm \in Timers :
        (part = "one" /\ state[tm] = "pending")
            ~> (part = "race" \/ state[tm] = "stopped"
                   \/ \E c \in CPUs : Wedged(c))
=============================================================================
