------------------------------- MODULE KTimer -------------------------------
(***************************************************************************)
(* Kernel timers and what drives them on each CPU: timer.c, the clock tick *)
(* (clock.c), interrupt priority levels and software interrupts (ipl.c,    *)
(* the exit path of isr_handler_main in idt.c) and deferred procedure      *)
(* calls (dpc.c).                                                          *)
(*                                                                         *)
(* A CPU runs at most three nested activities: a thread in timer_start or  *)
(* timer_stop, above it dispatch_dpc, above that the clock interrupt.  The *)
(* topmost one runs.  A clock interrupt comes whenever interrupts are      *)
(* enabled, that is at any step of a thread or of a DPC.                   *)
(*                                                                         *)
(* Times are relative: remaining[tm] is the number of ticks of its CPU     *)
(* until tm's deadline, 0 once it has passed.                              *)
(***************************************************************************)
EXTENDS Integers, Sequences, SequencesExt, FiniteSets

CONSTANTS
    CPUs,           \* logical processors
    BalanceCPUs,    \* cpu0, if its periodic balance DPC is considered
    Timers,         \* struct ktimer objects
    Delays,         \* timeouts of timer_start, in ticks
    Calls,          \* the operations clients use
    NoCPU, NoTimer  \* NULL

ASSUME KTimerAssumption ==
    /\ NoCPU \notin CPUs
    /\ NoTimer \notin Timers
    /\ BalanceCPUs \subseteq CPUs
    /\ Delays \subseteq Nat \ {0}
    /\ Calls \subseteq {"timer_init", "timer_start", "timer_stop"}

VARIABLES
    state,          \* ktimer.state
    remaining,      \* ktimer.deadline, less the ticks of its CPU
    cpu,            \* ktimer.cpu
    hdr_lock,       \* ktimer.hdr.lock: the CPU that holds it
    signaled_count, \* ktimer.hdr.signaled_count
    heap,           \* cpu_local.timers
    timers_lock,    \* cpu_local.timers_lock: the CPU that holds it
    ipl,            \* cpu_local.ipl below the clock interrupt
    pending_softints, \* cpu_local.pending_softints: the set of bits
    preemption_reason, \* cpu_local.preemption_reason
    dpc_queue,      \* cpu_local.dpc_queue
    cyclic,         \* CPUs whose dpc_queue ends in a cycle
    pc,             \* the thread: where it is in timer_start or timer_stop
    arg,            \* its timer
    dpc,            \* where dispatch_dpc is, "none" outside of it
    preempt_reason, \* its local preempt_reason
    popped,         \* the timer timer_handle_expiry took from the heap
    isr             \* CPUs in hardclock, before it has timers_lock

timerVars == <<state, remaining, cpu, hdr_lock, signaled_count>>
heapVars == <<heap, timers_lock>>
cpuVars == <<ipl, pending_softints, preemption_reason, dpc_queue, cyclic>>
threadVars == <<pc, arg>>
dpcVars == <<dpc, preempt_reason, popped>>
vars == <<timerVars, heapVars, cpuVars, threadVars, dpcVars, isr>>

IPL_ZERO == 0
IPL_DISPATCH == 1

Init ==
    /\ state = [tm \in Timers |-> "stopped"]
    /\ remaining = [tm \in Timers |-> 0]
    /\ cpu = [tm \in Timers |-> NoCPU]
    /\ hdr_lock = [tm \in Timers |-> NoCPU]
    /\ signaled_count = [tm \in Timers |-> 0]
    /\ heap = [c \in CPUs |-> {}]
    /\ timers_lock = [c \in CPUs |-> NoCPU]
    /\ ipl = [c \in CPUs |-> IPL_ZERO]
    /\ pending_softints = [c \in CPUs |-> {}]
    /\ preemption_reason = [c \in CPUs |-> "none"]
    /\ dpc_queue = [c \in CPUs |-> <<>>]
    /\ cyclic = {}
    /\ pc = [c \in CPUs |-> "run"]
    /\ arg = [c \in CPUs |-> NoTimer]
    /\ dpc = [c \in CPUs |-> "none"]
    /\ preempt_reason = [c \in CPUs |-> "none"]
    /\ popped = [c \in CPUs |-> NoTimer]
    /\ isr = {}

ThreadRuns(c) == c \notin isr /\ dpc[c] = "none"
DpcRuns(c) == c \notin isr /\ dpc[c] # "none"

(***************************************************************************)
(* ipl.c                                                                   *)
(***************************************************************************)
is_softint_pending(bits, level) == \E b \in bits : b >= level

(* dispatch_software_interrupts(0) clears bit 0 and enters dispatch_dpc,   *)
(* which latches the preemption reason.  bits and reason are the values of *)
(* pending_softints and preemption_reason at that moment.                  *)
DispatchSoftints(c, bits, reason) ==
    IF is_softint_pending(bits, IPL_ZERO)
    THEN /\ pending_softints' =
               [pending_softints EXCEPT ![c] = bits \ {IPL_ZERO}]
         /\ preempt_reason' = [preempt_reason EXCEPT ![c] = reason]
         /\ ipl' = [ipl EXCEPT ![c] = IPL_DISPATCH]
         /\ dpc' = [dpc EXCEPT ![c] = "next"]
    ELSE /\ pending_softints' = [pending_softints EXCEPT ![c] = bits]
         /\ ipl' = [ipl EXCEPT ![c] = IPL_ZERO]
         /\ UNCHANGED <<preempt_reason, dpc>>

(* spinlock_release(&timer->hdr.lock, 0) at the end of a timer call. *)
Leave(c) ==
    /\ hdr_lock' = [hdr_lock EXCEPT ![arg[c]] = NoCPU]
    /\ pc' = [pc EXCEPT ![c] = "run"]
    /\ arg' = [arg EXCEPT ![c] = NoTimer]
    /\ DispatchSoftints(c, pending_softints[c], preemption_reason[c])

(***************************************************************************)
(* timer.c in the context of a thread                                      *)
(***************************************************************************)

(* A thread enters timer_start or timer_stop and raises the IPL.  A timer  *)
(* belongs to one thread at a time.                                        *)
Call(c) ==
    /\ ThreadRuns(c)
    /\ pc[c] = "run"
    /\ \E tm \in Timers \ {arg[d] : d \in CPUs} :
       \E fn \in Calls \ {"timer_init"} :
          /\ arg' = [arg EXCEPT ![c] = tm]
          /\ pc' = [pc EXCEPT ![c] = fn]
    /\ ipl' = [ipl EXCEPT ![c] = IPL_DISPATCH]
    /\ UNCHANGED <<timerVars, heapVars, pending_softints, preemption_reason,
                   dpc_queue, cyclic, dpcVars, isr>>

(* timer_init, for a timer that is stopped. *)
TimerInit(c) ==
    /\ ThreadRuns(c)
    /\ pc[c] = "run"
    /\ "timer_init" \in Calls
    /\ \E tm \in Timers \ {arg[d] : d \in CPUs} :
          /\ state[tm] = "stopped"
          /\ remaining' = [remaining EXCEPT ![tm] = 0]
          /\ cpu' = [cpu EXCEPT ![tm] = NoCPU]
          /\ signaled_count' = [signaled_count EXCEPT ![tm] = 0]
    /\ UNCHANGED <<state, hdr_lock, heapVars, cpuVars, threadVars, dpcVars,
                   isr>>

(* timer_start up to the point where it wants timers_lock, or its return   *)
(* for a timer that is not stopped.                                        *)
TimerStart(c) ==
    LET tm == arg[c] IN
    /\ ThreadRuns(c)
    /\ pc[c] = "timer_start"
    /\ hdr_lock[tm] = NoCPU
    /\ \/ /\ state[tm] # "stopped"
          /\ Leave(c)
          /\ UNCHANGED <<state, remaining, cpu>>
       \/ /\ state[tm] = "stopped"
          /\ hdr_lock' = [hdr_lock EXCEPT ![tm] = c]
          /\ state' = [state EXCEPT ![tm] = "pending"]
          /\ \E d \in Delays : remaining' = [remaining EXCEPT ![tm] = d]
          /\ cpu' = [cpu EXCEPT ![tm] = c]
          /\ pc' = [pc EXCEPT ![c] = "lock_heap"]
          /\ UNCHANGED <<arg, ipl, pending_softints, preempt_reason, dpc>>
    /\ UNCHANGED <<signaled_count, heapVars, preemption_reason, dpc_queue,
                   cyclic, popped, isr>>

(* spinlock(&timers_lock) of timer_start and of dequeue_timer: interrupts  *)
(* stay enabled.                                                           *)
LockHeap(c) ==
    LET h == cpu[arg[c]] IN
    /\ ThreadRuns(c)
    /\ pc[c] \in {"lock_heap", "dequeue"}
    /\ timers_lock[h] = NoCPU
    /\ timers_lock' = [timers_lock EXCEPT ![h] = c]
    /\ pc' = [pc EXCEPT ![c] = IF @ = "dequeue" THEN "remove" ELSE "insert"]
    /\ UNCHANGED <<timerVars, heap, cpuVars, arg, dpcVars, isr>>

(* pairing_heap_insert of a timer that is in a heap, and                   *)
(* pairing_heap_remove of one that is not, have no defined outcome: the    *)
(* heaps are as if all was well, or the thread is not followed further.    *)
OrCorrupted(next, undefined) ==
    {next} \cup IF undefined THEN {"corrupted"} ELSE {}

HeapInsert(c) ==
    /\ ThreadRuns(c)
    /\ pc[c] = "insert"
    /\ heap' = [heap EXCEPT ![c] = @ \cup {arg[c]}]
    /\ timers_lock' = [timers_lock EXCEPT ![c] = NoCPU]
    /\ \E next \in OrCorrupted("started", \E d \in CPUs : arg[c] \in heap[d]) :
          pc' = [pc EXCEPT ![c] = next]
    /\ UNCHANGED <<timerVars, cpuVars, arg, dpcVars, isr>>

TimerStarted(c) ==
    /\ ThreadRuns(c)
    /\ pc[c] = "started"
    /\ Leave(c)
    /\ UNCHANGED <<state, remaining, cpu, signaled_count, heapVars,
                   preemption_reason, dpc_queue, cyclic, popped, isr>>

(* timer_stop that forgets to dequeue a pending timer. *)
TimerStopNoDequeue(c) ==
    LET tm == arg[c] IN
    /\ ThreadRuns(c)
    /\ pc[c] = "timer_stop"
    /\ hdr_lock[tm] = NoCPU
    /\ hdr_lock' = [hdr_lock EXCEPT ![tm] = c]
    /\ pc' = [pc EXCEPT ![c] = "spin"]
    /\ UNCHANGED <<state, remaining, cpu, signaled_count, heapVars, cpuVars,
                   arg, dpcVars, isr>>

TimerStop(c) ==
    LET tm == arg[c] IN
    /\ ThreadRuns(c)
    /\ pc[c] = "timer_stop"
    /\ hdr_lock[tm] = NoCPU
    /\ \/ /\ state[tm] = "stopped"
          /\ Leave(c)
       \/ /\ state[tm] # "stopped"
          /\ hdr_lock' = [hdr_lock EXCEPT ![tm] = c]
          /\ pc' = [pc EXCEPT ![c] = IF state[tm] = "pending"
                                     THEN "dequeue" ELSE "spin"]
          /\ UNCHANGED <<arg, ipl, pending_softints, preempt_reason, dpc>>
    /\ UNCHANGED <<state, remaining, cpu, signaled_count, heapVars,
                   preemption_reason, dpc_queue, cyclic, popped, isr>>

(* dequeue_timer *)
HeapRemove(c) ==
    LET h == cpu[arg[c]] IN
    /\ ThreadRuns(c)
    /\ pc[c] = "remove"
    /\ heap' = [heap EXCEPT ![h] = @ \ {arg[c]}]
    /\ timers_lock' = [timers_lock EXCEPT ![h] = NoCPU]
    /\ \E next \in OrCorrupted("spin", arg[c] \notin heap[h]) :
          pc' = [pc EXCEPT ![c] = next]
    /\ UNCHANGED <<timerVars, cpuVars, arg, dpcVars, isr>>

(* timer_stop waits until the timer is not running. *)
StopSpin(c) ==
    /\ ThreadRuns(c)
    /\ pc[c] = "spin"
    /\ state[arg[c]] # "running"
    /\ pc' = [pc EXCEPT ![c] = "stopping"]
    /\ UNCHANGED <<timerVars, heapVars, cpuVars, arg, dpcVars, isr>>

TimerStopped(c) ==
    /\ ThreadRuns(c)
    /\ pc[c] = "stopping"
    /\ state' = [state EXCEPT ![arg[c]] = "stopped"]
    /\ Leave(c)
    /\ UNCHANGED <<remaining, cpu, signaled_count, heapVars,
                   preemption_reason, dpc_queue, cyclic, popped, isr>>

(***************************************************************************)
(* The clock interrupt                                                     *)
(***************************************************************************)

(* One more tick of c, as its timers see it. *)
Countdown(c) ==
    [tm \in Timers |-> IF cpu[tm] = c /\ remaining[tm] > 0
                       THEN remaining[tm] - 1 ELSE remaining[tm]]

Interrupt(c) ==
    /\ c \notin isr
    /\ isr' = isr \cup {c}
    /\ remaining' = Countdown(c)
    /\ UNCHANGED <<state, cpu, hdr_lock, signaled_count, heapVars, cpuVars,
                   threadVars, dpcVars>>

DueOneTickEarly(tm) == remaining[tm] <= 1

(* timer->deadline <= TICKS_TO_NS(ticks) *)
Due(tm) == remaining[tm] = 0

Expired(c) == \E tm \in heap[c] : Due(tm)

(* dpc_enqueue on a queue q = <<its DPCs, is it cyclic>>.  For a DPC that  *)
(* is queued already, TAILQ_INSERT_TAIL cuts off what follows it and makes *)
(* it its own successor or the successor of an unlinked DPC; TAILQ_REMOVE  *)
(* then leaves the head of the queue pointing at it.  What is inserted     *)
(* later is not reachable.                                                 *)
dpc_enqueue(q, d) ==
    IF q[2] THEN q
    ELSE IF d \in ToSet(q[1])
         THEN <<SubSeq(q[1], 1, SelectInSeq(q[1], LAMBDA x : x = d)), TRUE>>
         ELSE <<Append(q[1], d), FALSE>>

(* hardclock from timers_lock on, then the end of isr_handler_main. *)
HardClock(c) ==
    /\ c \in isr
    /\ timers_lock[c] = NoCPU
    /\ \E balance \in IF c \in BalanceCPUs THEN BOOLEAN ELSE {FALSE} :
          LET q0 == <<dpc_queue[c], c \in cyclic>>
              q1 == IF Expired(c) THEN dpc_enqueue(q0, "timer") ELSE q0
              q2 == IF balance THEN dpc_enqueue(q1, "balance") ELSE q1
          IN /\ dpc_queue' = [dpc_queue EXCEPT ![c] = q2[1]]
             /\ cyclic' = IF q2[2] THEN cyclic \cup {c} ELSE cyclic
    /\ preemption_reason' = [preemption_reason EXCEPT ![c] = "quantum_end"]
    /\ isr' = isr \ {c}
    /\ LET bits == pending_softints[c] \cup {IPL_DISPATCH} IN
       \/ /\ ipl[c] < IPL_DISPATCH
          /\ DispatchSoftints(c, bits, "quantum_end")
       \/ /\ ipl[c] >= IPL_DISPATCH
          /\ pending_softints' = [pending_softints EXCEPT ![c] = bits]
          /\ UNCHANGED <<ipl, dpc, preempt_reason>>
    /\ UNCHANGED <<timerVars, heapVars, threadVars, popped>>

(***************************************************************************)
(* dispatch_dpc                                                            *)
(***************************************************************************)

(* An iteration of dispatch_dpc_queue: remove the first DPC and call it.   *)
DpcNext(c) ==
    LET q == dpc_queue[c] IN
    /\ DpcRuns(c)
    /\ dpc[c] = "next"
    /\ dpc' = [dpc EXCEPT ![c] = IF q = <<>> THEN "reschedule" ELSE Head(q)]
    /\ dpc_queue' = [dpc_queue EXCEPT ![c] =
                        IF q = <<>> \/ (c \in cyclic /\ Len(q) = 1)
                        THEN q ELSE Tail(q)]
    /\ UNCHANGED <<timerVars, heapVars, ipl, pending_softints,
                   preemption_reason, cyclic, threadVars, preempt_reason,
                   popped, isr>>

(* balance_load, a matter of the scheduler. *)
BalanceLoad(c) ==
    /\ DpcRuns(c)
    /\ dpc[c] = "balance"
    /\ dpc' = [dpc EXCEPT ![c] = "next"]
    /\ UNCHANGED <<timerVars, heapVars, cpuVars, threadVars, preempt_reason,
                   popped, isr>>

(* timer_handle_expiry: take a due timer from the heap, or return. *)
ExpiryPop(c) ==
    /\ DpcRuns(c)
    /\ dpc[c] = "timer"
    /\ timers_lock[c] = NoCPU
    /\ \/ /\ ~Expired(c)
          /\ dpc' = [dpc EXCEPT ![c] = "next"]
          /\ UNCHANGED <<heap, popped>>
       \/ \E tm \in heap[c] :
             /\ Due(tm)
             /\ heap' = [heap EXCEPT ![c] = @ \ {tm}]
             /\ popped' = [popped EXCEPT ![c] = tm]
             /\ dpc' = [dpc EXCEPT ![c] = "popped"]
    /\ UNCHANGED <<timerVars, timers_lock, cpuVars, threadVars,
                   preempt_reason, isr>>

(* The compare-and-swap from PENDING to RUNNING. *)
ExpiryRun(c) ==
    LET tm == popped[c] IN
    /\ DpcRuns(c)
    /\ dpc[c] = "popped"
    /\ \/ /\ state[tm] = "pending"
          /\ state' = [state EXCEPT ![tm] = "running"]
          /\ dpc' = [dpc EXCEPT ![c] = "running"]
          /\ UNCHANGED popped
       \/ /\ state[tm] # "pending"
          /\ dpc' = [dpc EXCEPT ![c] = "timer"]
          /\ popped' = [popped EXCEPT ![c] = NoTimer]
          /\ UNCHANGED state
    /\ UNCHANGED <<remaining, cpu, hdr_lock, signaled_count, heapVars,
                   cpuVars, threadVars, preempt_reason, isr>>

ExpirySignalNotStopped(c) ==
    LET tm == popped[c] IN
    /\ DpcRuns(c)
    /\ dpc[c] = "running"
    /\ hdr_lock[tm] = NoCPU
    /\ signaled_count' = [signaled_count EXCEPT ![tm] = 1]
    /\ dpc' = [dpc EXCEPT ![c] = "timer"]
    /\ popped' = [popped EXCEPT ![c] = NoTimer]
    /\ UNCHANGED <<state, remaining, cpu, hdr_lock, heapVars, cpuVars,
                   threadVars, preempt_reason, isr>>

(* Under the object's lock: signal the object (module Dispatch has what    *)
(* try_satisfy_dispatch_object does) and stop the timer.                   *)
ExpirySignal(c) ==
    LET tm == popped[c] IN
    /\ DpcRuns(c)
    /\ dpc[c] = "running"
    /\ hdr_lock[tm] = NoCPU
    /\ signaled_count' = [signaled_count EXCEPT ![tm] = 1]
    /\ state' = [state EXCEPT ![tm] = "stopped"]
    /\ dpc' = [dpc EXCEPT ![c] = "timer"]
    /\ popped' = [popped EXCEPT ![c] = NoTimer]
    /\ UNCHANGED <<remaining, cpu, hdr_lock, heapVars, cpuVars, threadVars,
                   preempt_reason, isr>>

(* sched_reschedule if the latched reason asks for it, then PREEMPT_NONE.  *)
(* The thread that runs afterwards is a matter of the scheduler.           *)
Reschedule(c) ==
    /\ DpcRuns(c)
    /\ dpc[c] = "reschedule"
    /\ preemption_reason' = [preemption_reason EXCEPT ![c] = "none"]
    /\ dpc' = [dpc EXCEPT ![c] = "restore"]
    /\ UNCHANGED <<timerVars, heapVars, ipl, pending_softints, dpc_queue,
                   cyclic, threadVars, preempt_reason, popped, isr>>

DispatchEnd(c) ==
    /\ DpcRuns(c)
    /\ dpc[c] = "restore"
    /\ ipl' = [ipl EXCEPT ![c] = IPL_ZERO]
    /\ dpc' = [dpc EXCEPT ![c] = "none"]
    /\ preempt_reason' = [preempt_reason EXCEPT ![c] = "none"]
    /\ UNCHANGED <<timerVars, heapVars, pending_softints, preemption_reason,
                   dpc_queue, cyclic, threadVars, popped, isr>>

-----------------------------------------------------------------------------
ThreadStep(c) ==
    \/ TimerStart(c) \/ LockHeap(c) \/ HeapInsert(c) \/ TimerStarted(c)
    \/ TimerStop(c) \/ HeapRemove(c) \/ StopSpin(c) \/ TimerStopped(c)

DpcStep(c) ==
    \/ DpcNext(c) \/ BalanceLoad(c)
    \/ ExpiryPop(c) \/ ExpiryRun(c) \/ ExpirySignal(c)
    \/ Reschedule(c) \/ DispatchEnd(c)

Next == \E c \in CPUs :
    \/ Call(c) \/ TimerInit(c) \/ ThreadStep(c)
    \/ Interrupt(c) \/ HardClock(c) \/ DpcStep(c)

Spec == Init /\ [][Next]_vars

(* The CPU executes what is topmost, and the clock is periodic.  A thread  *)
(* is interrupted again and again, so its steps need strong fairness: the  *)
(* code between two ticks takes far less time than a tick.                 *)
Fairness == \A c \in CPUs :
    /\ SF_vars(ThreadStep(c))
    /\ SF_vars(DpcStep(c))
    /\ SF_vars(HardClock(c))
    /\ WF_vars(Interrupt(c))

FairSpec == Spec /\ Fairness

-----------------------------------------------------------------------------
ThreadPcs == {"run", "timer_start", "lock_heap", "insert", "started",
              "timer_stop", "dequeue", "remove", "spin", "stopping", "corrupted"}
DpcPcs == {"none", "next", "balance", "timer", "popped", "running",
           "reschedule", "restore"}

(* Every variable stays in its range. *)
TypeOK ==
    /\ state \in [Timers -> {"running", "pending", "stopped"}]
    /\ remaining \in [Timers -> Nat]
    /\ cpu \in [Timers -> CPUs \cup {NoCPU}]
    /\ hdr_lock \in [Timers -> CPUs \cup {NoCPU}]
    /\ signaled_count \in [Timers -> {0, 1}]
    /\ heap \in [CPUs -> SUBSET Timers]
    /\ timers_lock \in [CPUs -> CPUs \cup {NoCPU}]
    /\ ipl \in [CPUs -> {IPL_ZERO, IPL_DISPATCH}]
    /\ pending_softints \in [CPUs -> SUBSET (0..7)]
    /\ preemption_reason \in [CPUs -> {"none", "quantum_end"}]
    /\ dpc_queue \in [CPUs -> Seq({"timer", "balance"})]
    /\ cyclic \subseteq CPUs
    /\ pc \in [CPUs -> ThreadPcs]
    /\ arg \in [CPUs -> Timers \cup {NoTimer}]
    /\ dpc \in [CPUs -> DpcPcs]
    /\ preempt_reason \in [CPUs -> {"none", "quantum_end"}]
    /\ popped \in [CPUs -> Timers \cup {NoTimer}]
    /\ isr \subseteq CPUs

(* A timer is in the heap of the CPU that started it exactly as long as it *)
(* is pending and neither timer_start is about to insert it, nor           *)
(* timer_stop has removed it, nor timer_handle_expiry has taken it out.    *)
PendingInHeap ==
    \A tm \in Timers : \A c \in CPUs :
        tm \in heap[c] <=>
            /\ state[tm] = "pending"
            /\ cpu[tm] = c
            /\ \A d \in CPUs :
                  /\ arg[d] = tm => pc[d] \notin {"lock_heap", "insert",
                                                  "spin", "stopping"}
                  /\ popped[d] # tm

(* No timer expires before its deadline: timer_handle_expiry signals it    *)
(* only when the time given to timer_start has passed on its CPU.          *)
SignalsInTime ==
    \A tm \in Timers :
        (signaled_count[tm] = 0 /\ signaled_count'[tm] = 1)
            => remaining[tm] = 0

(* c cannot go on: its clock interrupt spins on the timers_lock that the   *)
(* interrupted thread holds, or its DPC queue does not end.                *)
Wedged(c) == (c \in isr /\ timers_lock[c] = c) \/ c \in cyclic

(* A started timer expires: the test timer1 of sync_test.c waits for one   *)
(* without a timeout and reports that it came back.                        *)
TimerExpires ==
    \A tm \in Timers : state[tm] = "pending" ~> state[tm] = "stopped"

(* timer_stop outlasts a running timer ("Timer is currently running, wait  *)
(* until it's done").                                                      *)
StopReturns ==
    \A c \in CPUs : (pc[c] = "spin") ~> (pc[c] # "spin")

(* A timer that timer_stop finds pending is in the heap it removes it from *)
(* ("The timer is currently enqueued": enum timer_state).                  *)
PendingIsEnqueued == \A c \in CPUs : pc[c] # "corrupted"

(* A DPC leaves the queue by being called ("This is a function that will   *)
(* be called when IPL is lower than IPL_DISPATCH": dpc_enqueue).           *)
DpcCalled ==
    [][\A c \in CPUs : \A d \in ToSet(dpc_queue[c]) :
          d \in ToSet(dpc_queue'[c]) \/ dpc'[c] = d]_vars

(* A quantum end is not forgotten: preemption_reason is reset only by a    *)
(* dispatch_dpc that latched it ("Preempt the current thread").            *)
QuantumEndServed ==
    [][\A c \in CPUs :
          (preemption_reason[c] = "quantum_end"
              /\ preemption_reason'[c] = "none")
              => preempt_reason[c] = "quantum_end"]_vars
=============================================================================
