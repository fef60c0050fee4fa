-------------------------------- MODULE Rr ----------------------------------
(***************************************************************************)
(* The round-robin scheduler, kernel/core/sched/rr.c, which Kconfig offers *)
(* in place of ULE, with the part of dispatch_dpc (kernel/core/ipl.c) and  *)
(* of hardclock that drive it.  As in module Ule, a CPU executes one step  *)
(* at a time, what is done under a lock of a run queue is one step, and    *)
(* CPU 1 is the boot processor, which readies the threads.                 *)
(***************************************************************************)
EXTENDS Integers, Sequences, FiniteSets

CONSTANTS
    NCPU,           \* logical_processor_cnt
    Threads,
    Waiters,        \* the threads that wait for something now and then
    IDLE, NULL

CPUs == 1..NCPU

RrAssumption ==
    /\ NCPU \in Nat \ {0}
    /\ Waiters \subseteq Threads
    /\ IDLE \notin Threads /\ NULL \notin Threads /\ IDLE # NULL

VARIABLES
    runq, current_thread, next_thread, preemption_reason,   \* per CPU
    last_cpu,               \* the static variable of pick_cpu
    state, lock,            \* struct thread
    committed,              \* threads whose wait_status is WAIT_COMMITTED
    on,                     \* the thread whose stack a CPU is on
    pc, nxt, latched,       \* where a CPU is, and its locals: the thread to
    carry, cpu_id, ret      \* switch to, the reason, a thread to be queued

cpuVars == <<runq, current_thread, next_thread, preemption_reason>>
placing == <<carry, cpu_id, ret>>
vars == <<cpuVars, last_cpu, state, lock, committed, on, pc, nxt, latched, placing>>

(* sched_cpu_init; the threads are still to be readied. *)
Init ==
    /\ runq = [c \in CPUs |-> <<>>]
    /\ current_thread = [c \in CPUs |-> IDLE]
    /\ next_thread = [c \in CPUs |-> NULL]
    /\ preemption_reason = [c \in CPUs |-> "none"]
    /\ last_cpu = 0
    /\ state = [t \in Threads |-> "new"]
    /\ lock = [t \in Threads |-> 0]
    /\ committed = {}
    /\ on = [c \in CPUs |-> IDLE]
    /\ pc = [c \in CPUs |-> "thread"]
    /\ nxt = [c \in CPUs |-> NULL]
    /\ latched = [c \in CPUs |-> "none"]
    /\ carry = [c \in CPUs |-> NULL]
    /\ cpu_id = [c \in CPUs |-> 0]
    /\ ret = [c \in CPUs |-> "thread"]

Goto(c, l) == pc' = [pc EXCEPT ![c] = l]

-----------------------------------------------------------------------------
(* sched_ready of a new thread, or sched_wake of one whose wait is         *)
(* committed, by the running thread or by a DPC.                           *)
Enter(c, t) ==
    /\ carry' = [carry EXCEPT ![c] = t]
    /\ ret' = [ret EXCEPT ![c] = pc[c]]
    /\ Goto(c, "pick")
    /\ UNCHANGED <<cpuVars, last_cpu, lock, on, nxt, latched, cpu_id>>

SchedReady(c) ==
    /\ c = 1 /\ pc[c] = "thread" /\ on[c] = IDLE
    /\ \E t \in Threads :
          /\ state[t] = "new"
          /\ state' = [state EXCEPT ![t] = "ready"]
          /\ Enter(c, t)
    /\ UNCHANGED committed

SchedWake(c) ==
    /\ pc[c] \in {"thread", "dpc"}
    /\ pc[c] = "thread" => on[c] # IDLE
    /\ \E t \in committed :
          /\ committed' = committed \ {t}
          /\ Enter(c, t)
    /\ UNCHANGED state

(* pick_cpu, under the lock of the thread only: it reads last_cpu, counts  *)
(* it up and sets it back to 0 at the end.                                 *)
PickRead(c) ==
    /\ pc[c] = "pick" /\ lock[carry[c]] = 0
    /\ lock' = [lock EXCEPT ![carry[c]] = c]
    /\ cpu_id' = [cpu_id EXCEPT ![c] = last_cpu]
    /\ Goto(c, "count")
    /\ UNCHANGED <<cpuVars, last_cpu, state, committed, on, nxt, latched, carry, ret>>

PickCount(c) ==
    /\ pc[c] = "count"
    /\ last_cpu' = cpu_id[c] + 1
    /\ Goto(c, "wrap")
    /\ UNCHANGED <<cpuVars, state, lock, committed, on, nxt, latched, placing>>

PickWrap(c) ==
    /\ pc[c] = "wrap"
    /\ last_cpu' = IF last_cpu >= NCPU THEN 0 ELSE last_cpu
    /\ Goto(c, "enqueue")
    /\ UNCHANGED <<cpuVars, state, lock, committed, on, nxt, latched, placing>>

InsertHead(s, t) == <<t>> \o s

(* TAILQ_INSERT_TAIL *)
InsertTail(s, t) == Append(s, t)

(* sched_enqueue_locked, and the end of sched_ready. *)
Enqueue(c) ==
    LET t == carry[c]
        d == cpu_id[c] + 1
        preempts == current_thread[d] = IDLE /\ next_thread[d] = NULL
    IN
    /\ pc[c] = "enqueue" /\ d \in CPUs
    /\ state' = [state EXCEPT ![t] = "ready"]
    /\ next_thread' = IF preempts THEN [next_thread EXCEPT ![d] = t] ELSE next_thread
    /\ preemption_reason' = IF preempts THEN [preemption_reason EXCEPT ![d] = "higher"]
                            ELSE preemption_reason
    /\ runq' = IF preempts THEN runq ELSE [runq EXCEPT ![d] = InsertTail(@, t)]
    /\ lock' = [lock EXCEPT ![t] = 0]
    /\ carry' = [carry EXCEPT ![c] = NULL]
    /\ Goto(c, ret[c])
    /\ UNCHANGED <<current_thread, last_cpu, committed, on, nxt, latched, cpu_id, ret>>

-----------------------------------------------------------------------------
(* wait_any commits the wait at IPL_DISPATCH and calls sched_wait. *)
Commit(c) ==
    /\ pc[c] = "thread" /\ on[c] \in Waiters
    /\ committed' = committed \cup {on[c]}
    /\ Goto(c, "sched_wait")
    /\ UNCHANGED <<cpuVars, last_cpu, state, lock, on, nxt, latched, placing>>

SchedWait(c) ==
    /\ pc[c] = "sched_wait" /\ lock[on[c]] = 0
    /\ state' = [state EXCEPT ![on[c]] = "waiting"]
    /\ Goto(c, "yield")
    /\ UNCHANGED <<cpuVars, last_cpu, lock, committed, on, nxt, latched, placing>>

(* sched_yield up to the switch. *)
SchedYield(c) ==
    /\ pc[c] = "yield" /\ lock[on[c]] = 0
    /\ lock' = [lock EXCEPT ![on[c]] = c]
    /\ nxt' = [nxt EXCEPT ![c] = IF runq[c] = <<>> THEN IDLE ELSE Head(runq[c])]
    /\ runq' = [runq EXCEPT ![c] = IF @ = <<>> THEN @ ELSE Tail(@)]
    /\ Goto(c, "insert")
    /\ UNCHANGED <<current_thread, next_thread, preemption_reason, last_cpu, state,
                   committed, on, latched, placing>>

(* sched_switch: queue the old thread, forget next_thread, publish the new *)
(* thread, save and load the context.                                      *)
SwitchInsert(c) ==
    LET cur == current_thread[c]
        goes_on == cur # IDLE /\ state[cur] = "running"
    IN
    /\ pc[c] = "insert"
    /\ runq' = IF goes_on THEN [runq EXCEPT ![c] = InsertTail(@, cur)] ELSE runq
    /\ state' = IF goes_on THEN [state EXCEPT ![cur] = "ready"] ELSE state
    /\ Goto(c, "forget")
    /\ UNCHANGED <<current_thread, next_thread, preemption_reason, last_cpu, lock,
                   committed, on, nxt, latched, placing>>

SwitchForget(c) ==
    /\ pc[c] = "forget"
    /\ next_thread' = [next_thread EXCEPT ![c] = NULL]
    /\ Goto(c, "publish")
    /\ UNCHANGED <<runq, current_thread, preemption_reason, last_cpu, state, lock,
                   committed, on, nxt, latched, placing>>

SwitchPublish(c) ==
    /\ pc[c] = "publish"
    /\ current_thread' = [current_thread EXCEPT ![c] = nxt[c]]
    /\ state' = [t \in Threads |-> IF t = nxt[c] THEN "running" ELSE state[t]]
    /\ Goto(c, "context")
    /\ UNCHANGED <<runq, next_thread, preemption_reason, last_cpu, lock, committed,
                   on, nxt, latched, placing>>

ContextSwitch(c) ==
    /\ pc[c] = "context"
    /\ lock' = [t \in Threads |-> IF t = on[c] THEN 0 ELSE lock[t]]
    /\ on' = [on EXCEPT ![c] = nxt[c]]
    /\ nxt' = [nxt EXCEPT ![c] = NULL]
    /\ Goto(c, "thread")
    /\ UNCHANGED <<cpuVars, last_cpu, state, committed, latched, placing>>

-----------------------------------------------------------------------------
(* hardclock *)
Hardclock(c) ==
    /\ current_thread[c] # IDLE
    /\ preemption_reason[c] # "quantum"
    /\ preemption_reason' = [preemption_reason EXCEPT ![c] = "quantum"]
    /\ UNCHANGED <<runq, current_thread, next_thread, last_cpu, state, lock, committed,
                   on, pc, nxt, latched, placing>>

(* dispatch_dpc: latch the reason, run the DPCs, reschedule at the end of  *)
(* a quantum, and switch if there is a next thread.                        *)
DispatchDpc(c) ==
    /\ pc[c] = "thread"
    /\ latched' = [latched EXCEPT ![c] = preemption_reason[c]]
    /\ Goto(c, "dpc")
    /\ UNCHANGED <<cpuVars, last_cpu, state, lock, committed, on, nxt, placing>>

DpcQueueEmpty(c) ==
    /\ pc[c] = "dpc"
    /\ latched' = [latched EXCEPT ![c] = "none"]
    /\ Goto(c, IF latched[c] = "quantum" THEN "resched" ELSE "preempt")
    /\ UNCHANGED <<cpuVars, last_cpu, state, lock, committed, on, nxt, placing>>

ReschedulePeeks(c) ==
    /\ pc[c] = "resched"
    /\ on[c] # IDLE => lock[on[c]] = 0
    /\ next_thread' = IF runq[c] = <<>> THEN next_thread
                      ELSE [next_thread EXCEPT ![c] = Head(runq[c])]
    /\ UNCHANGED runq
    /\ Goto(c, "preempt")
    /\ UNCHANGED <<current_thread, preemption_reason, last_cpu, state, lock, committed,
                   on, nxt, latched, placing>>

SchedReschedule(c) ==
    /\ pc[c] = "resched"
    /\ on[c] # IDLE => lock[on[c]] = 0
    /\ next_thread' = IF runq[c] = <<>> THEN next_thread
                      ELSE [next_thread EXCEPT ![c] = Head(runq[c])]
    /\ runq' = [runq EXCEPT ![c] = IF @ = <<>> THEN @ ELSE Tail(@)]
    /\ Goto(c, "preempt")
    /\ UNCHANGED <<current_thread, preemption_reason, last_cpu, state, lock, committed,
                   on, nxt, latched, placing>>

Preempt(c) ==
    /\ pc[c] = "preempt"
    /\ preemption_reason' = [preemption_reason EXCEPT ![c] = "none"]
    /\ nxt' = [nxt EXCEPT ![c] = next_thread[c]]
    /\ Goto(c, IF next_thread[c] # NULL THEN "insert" ELSE "thread")
    /\ UNCHANGED <<runq, current_thread, next_thread, last_cpu, state, lock, committed,
                   on, latched, placing>>

Step(c) ==
    \/ PickRead(c) \/ PickCount(c) \/ PickWrap(c) \/ Enqueue(c)
    \/ SchedWait(c) \/ SchedYield(c)
    \/ SwitchInsert(c) \/ SwitchForget(c) \/ SwitchPublish(c) \/ ContextSwitch(c)
    \/ DpcQueueEmpty(c) \/ SchedReschedule(c) \/ Preempt(c)

(* Two CPUs on one stack, or a CPU that does not exist: what happens from  *)
(* then on is undefined.                                                   *)
Corrupt ==
    \/ \E c, d \in CPUs : c # d /\ on[c] = on[d] /\ on[c] # IDLE
    \/ \E c \in CPUs : pc[c] = "enqueue" /\ cpu_id[c] >= NCPU

Next ==
    /\ ~Corrupt
    /\ \E c \in CPUs :
          \/ SchedReady(c) \/ SchedWake(c) \/ Commit(c)
          \/ Hardclock(c) \/ DispatchDpc(c) \/ Step(c)

Spec == Init /\ [][Next]_vars

-----------------------------------------------------------------------------
TypeOK ==
    /\ \A c \in CPUs :
          /\ runq[c] \in Seq(Threads)
          /\ current_thread[c] \in Threads \cup {IDLE}
          /\ on[c] \in Threads \cup {IDLE}
          /\ next_thread[c] \in Threads \cup {NULL}
          /\ nxt[c] \in Threads \cup {IDLE, NULL}
          /\ pc[c] \in {"pick", "count", "wrap", "enqueue"} <=> carry[c] # NULL
    /\ last_cpu \in 0..NCPU
    /\ lock \in [Threads -> 0..NCPU]
    /\ committed \subseteq Waiters

(* How often t is queued, next, on its way to a queue or running. *)
Places(t) ==
    Cardinality({<<c, k>> \in CPUs \X (1..Cardinality(Threads)) :
                    k <= Len(runq[c]) /\ runq[c][k] = t})
      + Cardinality({c \in CPUs : next_thread[c] = t})
      + Cardinality({c \in CPUs : carry[c] = t})
      + Cardinality({c \in CPUs : /\ nxt[c] = t /\ next_thread[c] # t
                                  /\ pc[c] \in {"insert", "forget", "publish"}})
      + Cardinality({c \in CPUs : current_thread[c] = t /\ state[t] = "running"})

(* On one CPU no thread is in two places: it has one runqueue_hook and one *)
(* stack.                                                                  *)
OnePlace == \A t \in Threads : Places(t) <= 1

(* A thread that was readied and does not wait is somewhere.  sched_ready  *)
(* makes a thread the next one of an idle CPU, and sched_reschedule stores *)
(* its choice in next_thread without looking, so this is not so.           *)
NoThreadLost ==
    \A t \in Threads :
        \/ state[t] = "new" \/ t \in committed
        \/ Places(t) >= 1
        \/ \E c \in CPUs : t \in {current_thread[c], on[c]}

(* pick_cpu returns a CPU that exists.  It counts last_cpu up without a    *)
(* lock, so this holds on one CPU and not on two.                          *)
PickInRange == \A c \in CPUs : pc[c] = "enqueue" => cpu_id[c] < NCPU

(* "All threads are scheduled successively": on one CPU a thread that      *)
(* never waits runs again and again, whatever the others wait for.         *)
AllTakeTurns ==
    \A t \in Threads \ Waiters : []<>(state[t] = "new" \/ \E c \in CPUs : on[c] = t)
=============================================================================
