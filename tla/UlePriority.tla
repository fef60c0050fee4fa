---------------------------- MODULE UlePriority -----------------------------
(***************************************************************************)
(* How kernel/core/sched/ule.c derives interactivity and priority of a     *)
(* batch thread from how long it slept and ran: one thread that sleeps and *)
(* computes, on CPUs whose tick counters started at different times.       *)
(*                                                                         *)
(* nice is 0, as for every thread the kernel makes.  Times are in          *)
(* milliseconds, or in ticks of 10 ms.  Unsigned 64-bit arithmetic is      *)
(* modulo Word, a number beyond all times that occur.                      *)
(***************************************************************************)
EXTENDS Integers

CONSTANTS
    CPUs,
    Start,          \* the ticks a CPU's counter is ahead
    Word,           \* stands for 2^64
    Bursts, Naps,   \* numbers of ticks the thread computes and sleeps,
    Delays,         \* and is in a run queue while others compute
    MaxTime,        \* bound: ticks that pass
    MaxNaps         \* bound: naps

PriorityAssumption ==
    /\ Start \in [CPUs -> Nat] /\ Bursts \cup Naps \cup Delays \subseteq Nat \ {0}
    /\ MaxTime \in Nat /\ MaxNaps \in Nat
    /\ \A c \in CPUs : Word > 100 * (MaxTime + Start[c])

SCALING_FACTOR == 50
INTERACTIVITY_THRESHOLD == 30
PRIO_LOW_BATCH == 1
HIGH_BATCH == 32
PRIO_INTERACTIVE == 20
MaxHistory == 5000      \* SECONDS_TO_MS(5)

VARIABLES
    time,           \* ticks since the boot processor started
    th,             \* runtime, sleeptime and ticks of the thread
    priority, interactive,
    sleep_start, asleep,
    naps,           \* naps so far
    slept, ran      \* how long it really slept and has computed since, in ticks

vars == <<time, th, priority, interactive, sleep_start, asleep, naps, slept, ran>>

Ticks(c) == time + Start[c]

Init ==
    /\ time = 0
    /\ th = [runtime |-> 0, sleeptime |-> 0, ticks |-> 0]
    /\ priority = 16 /\ interactive = FALSE
    /\ sleep_start = 0 /\ asleep = FALSE
    /\ naps = 0 /\ slept = 0 /\ ran = 0

ScoreNoPenalty(t) ==
    IF t.sleeptime = 0 THEN 100
    ELSE IF t.runtime = 0 THEN 0
    ELSE IF t.sleeptime > t.runtime
         THEN SCALING_FACTOR \div (t.sleeptime \div t.runtime)
         ELSE SCALING_FACTOR \div (t.runtime \div t.sleeptime)

(* interactive_score *)
Score(t) ==
    IF t.sleeptime = 0 THEN 100
    ELSE IF t.runtime = 0 THEN 0
    ELSE IF t.sleeptime > t.runtime
         THEN SCALING_FACTOR \div (t.sleeptime \div t.runtime)
         ELSE SCALING_FACTOR \div (t.runtime \div t.sleeptime) + SCALING_FACTOR

(* sched_clamp_time *)
Clamp(t) ==
    LET sum == (t.runtime + t.sleeptime) % Word IN
    IF sum < MaxHistory THEN t
    ELSE IF sum > MaxHistory * 2
         THEN IF t.runtime > t.sleeptime
              THEN [t EXCEPT !.runtime = MaxHistory, !.sleeptime = 1]
              ELSE [t EXCEPT !.runtime = 1, !.sleeptime = MaxHistory]
    ELSE IF sum > (MaxHistory \div 5) * 6
         THEN [t EXCEPT !.runtime = @ \div 2, !.sleeptime = @ \div 2]
    ELSE [t EXCEPT !.runtime = (@ \div 5) * 4, !.sleeptime = (@ \div 5) * 4]

(* The priority of a batch thread that ran that many of a CPU's ticks:     *)
(* DIV_ROUND_UP, stored in 8 bits and then clamped.                        *)
BatchPriority(cpu_ticks, ticks) ==
    LET d == (IF ticks = 0 THEN 1 ELSE ticks) * 16
        p == ((cpu_ticks + d - 1) \div d) % 256
    IN IF p < PRIO_LOW_BATCH THEN PRIO_LOW_BATCH
       ELSE IF p > HIGH_BATCH THEN HIGH_BATCH ELSE p

(* sched_update_interactivity and sched_recompute_priority, on the times   *)
(* already clamped.                                                        *)
Recompute(cpu_ticks, t) ==
    /\ interactive' = (Score(t) < INTERACTIVITY_THRESHOLD)
    /\ priority' = IF interactive'
                   THEN PRIO_INTERACTIVE + ((INTERACTIVITY_THRESHOLD - Score(t)) \div 4)
                   ELSE BatchPriority(cpu_ticks, t.ticks)

ChargeTicks(t) == Clamp([t EXCEPT !.ticks = @ + 1])

(* sched_reschedule charges the current thread one tick. *)
Charge(t) == Clamp([t EXCEPT !.runtime = @ + 10, !.ticks = @ + 1])
Charged(t, n) ==
    LET after[k \in 0..n] == IF k = 0 THEN t ELSE Charge(after[k - 1])
    IN after[n]

(* The thread computes on c for n ticks. *)
Reschedule(c) ==
    /\ ~asleep
    /\ \E n \in Bursts :
          /\ time + n <= MaxTime
          /\ time' = time + n
          /\ ran' = ran + n
          /\ th' = Charged(th, n)
          /\ Recompute(Ticks(c) + n, th')
    /\ UNCHANGED <<sleep_start, asleep, naps, slept>>

(* Others compute. *)
Queued ==
    /\ ~asleep
    /\ \E n \in Delays : time + n <= MaxTime /\ time' = time + n
    /\ UNCHANGED <<th, priority, interactive, sleep_start, asleep, naps, slept,
                   ran>>

(* sched_wait on c, and the time that passes then. *)
SchedWait(c) ==
    /\ ~asleep /\ naps < MaxNaps
    /\ naps' = naps + 1
    /\ sleep_start' = 10 * Ticks(c)
    /\ asleep' = TRUE
    /\ \E n \in Naps : time + n <= MaxTime /\ time' = time + n /\ slept' = n
    /\ UNCHANGED <<th, priority, interactive, ran>>

(* sched_wake, on the CPU c of the waker. *)
SchedWake(c) ==
    /\ asleep
    /\ asleep' = FALSE
    /\ ran' = 0
    /\ th' = Clamp([th EXCEPT !.sleeptime = (10 * Ticks(c) - sleep_start) % Word])
    /\ Recompute(Ticks(c), th')
    /\ UNCHANGED <<time, sleep_start, naps, slept>>

Next == Queued \/ \E c \in CPUs : Reschedule(c) \/ SchedWait(c) \/ SchedWake(c)

Spec == Init /\ [][Next]_vars

-----------------------------------------------------------------------------
(* Priorities stay among those the run queues are made for, interactive    *)
(* ones in the band above the default, and the history stays within what   *)
(* sched_clamp_time keeps, through any sequence of naps and bursts.        *)
HistoryBounded ==
    /\ priority \in PRIO_LOW_BATCH..HIGH_BATCH
    /\ interactive => priority \in PRIO_INTERACTIVE..27
    /\ th.runtime + th.sleeptime <= MaxHistory + 1

(* The score, made of two integer divisions and a threshold, says that a   *)
(* thread is interactive exactly when it slept at least twice as long as   *)
(* it ran.                                                                 *)
InteractiveIsSleepy ==
    ~asleep /\ th.ticks > 0 =>
        (interactive <=> th.sleeptime > 0 /\ th.sleeptime >= 2 * th.runtime)

(* A thread that computes for two seconds without sleeping is no longer    *)
(* interactive, however long it slept before: the clamps and the decay     *)
(* never keep the old sleep alive.                                         *)
ComputesThenBatch == ran >= 200 => ~interactive

(* "the more a thread runs, the lower its priority" (ule.c:336): at the    *)
(* same time, a thread with fewer ticks has at least this one's priority.  *)
LessRunHigherPrio ==
    ~asleep /\ ~interactive /\ th.ticks > 0 =>
        \A c \in CPUs, k \in 1..th.ticks :
            BatchPriority(Ticks(c), k) >= BatchPriority(Ticks(c), th.ticks)

(* "Ticks spent voluntarily sleeping recently" (sched.h:52): the sleep     *)
(* that sched_wake records is no longer than the sleep was.                *)
SleepMeasured == ~asleep => th.sleeptime <= 10 * slept
=============================================================================
