------------------------------ MODULE MCTurns -------------------------------
(***************************************************************************)
(* The two schedulers of Kconfig on one CPU, for TLC: two threads sleep    *)
(* and are woken now and then, one only computes.  A kernel is built with  *)
(* one of the two, so a behaviour is of one of them, the part.             *)
(***************************************************************************)
EXTENDS Ule

NotPinned == [t \in Threads |-> 0]

VARIABLES
    rr_runq, rr_current, rr_next, rr_reason, rr_last_cpu, rr_state, rr_lock,
    rr_committed, rr_on, rr_pc, rr_nxt, rr_latched, rr_carry, rr_cpu_id, rr_ret

rrVars ==
    <<rr_runq, rr_current, rr_next, rr_reason, rr_last_cpu, rr_state, rr_lock,
      rr_committed, rr_on, rr_pc, rr_nxt, rr_latched, rr_carry, rr_cpu_id, rr_ret>>

RR == INSTANCE Rr WITH
    runq <- rr_runq, current_thread <- rr_current, next_thread <- rr_next,
    preemption_reason <- rr_reason, last_cpu <- rr_last_cpu, state <- rr_state,
    lock <- rr_lock, committed <- rr_committed, on <- rr_on, pc <- rr_pc,
    nxt <- rr_nxt, latched <- rr_latched, carry <- rr_carry,
    cpu_id <- rr_cpu_id, ret <- rr_ret

ASSUME RoundRobinAssumption == RR!RrAssumption

-----------------------------------------------------------------------------
VARIABLE part

MCInit == part \in {"ule", "rr"} /\ Init /\ RR!Init

MCNext ==
    /\ \/ part = "ule" /\ Next /\ UNCHANGED rrVars
       \/ part = "rr" /\ RR!Next /\ UNCHANGED vars
    /\ UNCHANGED part

(* The fairness of Ule for both: a CPU goes on with what it does, takes    *)
(* its software interrupts, starts the threads the kernel created, and is  *)
(* interrupted by the timer again and again, not always in dispatch_dpc.   *)
All == <<vars, rrVars, part>>
Of(p, A, others) == part = p /\ A /\ UNCHANGED <<others, part>>
MCFairness == \A c \in CPUs :
    /\ WF_All(Of("ule", Step(c), rrVars))
    /\ SF_All(Of("ule", pc[c] = "thread" /\ Hardclock(c), rrVars))
    /\ WF_All(Of("ule", DispatchDpc(c), rrVars))
    /\ WF_All(Of("ule", SchedReady(c), rrVars))
    /\ WF_All(Of("rr", RR!Step(c), vars))
    /\ SF_All(Of("rr", rr_pc[c] = "thread" /\ RR!Hardclock(c), vars))
    /\ WF_All(Of("rr", RR!DispatchDpc(c), vars))
    /\ WF_All(Of("rr", RR!SchedReady(c), vars))

MCSpec == MCInit /\ [][MCNext]_All /\ MCFairness

-----------------------------------------------------------------------------
(* Under the round-robin scheduler a thread of one CPU is in one place: in *)
(* the run queue, next_thread or running; and every variable stays in its  *)
(* range.                                                                  *)
RrOnePlace == RR!TypeOK /\ RR!OnePlace

(* Under either scheduler, a thread that never waits runs again and again, *)
(* whatever the others wait for.                                           *)
TakesTurns ==
    /\ part = "ule" => AllTakeTurns
    /\ part = "rr" => RR!AllTakeTurns
=============================================================================
