------------------------------- MODULE MCSched -------------------------------
(***************************************************************************)
(* The scheduler, for TLC: queues and context switches (Ule) of two CPUs,  *)
(* or of one CPU with interactive threads, and the priority of a thread    *)
(* over its history (UlePriority).  The models share no state that         *)
(* matters to both, so a behaviour follows one of them, the part.          *)
(***************************************************************************)
EXTENDS Ule, TLC

CONSTANTS t1, t2, t3

(* t1 is pinned to the last CPU, as sync_test.c pins its threads before it *)
(* readies them.                                                           *)
PinT1 == [t \in Threads |-> IF t = t1 THEN NCPU ELSE 0]

-----------------------------------------------------------------------------
(* One CPU, a batch and an interactive priority; two of three threads wait *)
(* now and then.                                                           *)
Single == INSTANCE Ule WITH
    NCPU <- 1, PinnedTo <- [t \in Threads |-> 0], Waiters <- {t1, t2},
    RUNQUEUES_N <- 3, PRIO_HIGH_BATCH <- 2, InteractivePrios <- {2}

-----------------------------------------------------------------------------
(* The thread computes and sleeps for less and for more than the history   *)
(* that is kept.                                                           *)
VARIABLES time, th, priority, is_interactive, sleep_start, asleep, naps, slept, ran

historyVars ==
    <<time, th, priority, is_interactive, sleep_start, asleep, naps, slept, ran>>

History == INSTANCE UlePriority WITH
    CPUs <- {0}, Start <- [c \in {0} |-> 0], Word <- 268435456,
    Bursts <- {10}, Delays <- {500}, Naps <- {7, 550, 1100},
    MaxNaps <- 2, MaxTime <- 1500, interactive <- is_interactive

ASSUME HistoryAssumption == History!PriorityAssumption

-----------------------------------------------------------------------------
VARIABLE part

MCInit ==
    /\ part \in {"migrate", "single", "history"}
    /\ IF part = "single" THEN Single!Init ELSE Init
    /\ History!Init

MCNext ==
    /\ \/ part = "migrate" /\ Next /\ UNCHANGED historyVars
       \/ part = "single" /\ Single!Next /\ UNCHANGED historyVars
       \/ part = "history" /\ History!Next /\ UNCHANGED vars
    /\ UNCHANGED part

MCSpec == MCInit /\ [][MCNext]_<<vars, historyVars, part>>

-----------------------------------------------------------------------------
(* The properties of the parts; their modules say what they mean. *)

(* A thread that is pinned is only ever queued on and run by its CPU, and  *)
(* every variable of the scheduler stays in its range.                     *)
PinnedKept == part = "migrate" => TypeOK /\ PinnedStays

(* On one CPU a thread is in one place: a queue, next_thread or running;   *)
(* and every variable stays in its range.                                  *)
SingleOnePlace == part = "single" => Single!TypeOK /\ Single!OnePlace

(* A thread that is interactive has slept more than it has run, by a       *)
(* history that is bounded.                                                *)
InteractiveIsSleepy == History!HistoryBounded /\ History!InteractiveIsSleepy

(* A thread that only computes becomes a batch thread.                     *)
ComputesThenBatch == History!ComputesThenBatch
=============================================================================
