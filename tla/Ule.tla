-------------------------------- MODULE Ule ---------------------------------
(***************************************************************************)
(* The ULE scheduler, kernel/core/sched/ule.c, with the part of the        *)
(* software interrupt (dispatch_dpc in kernel/core/ipl.c) and of hardclock *)
(* that drive it.                                                          *)
(*                                                                         *)
(* Every CPU executes one step at a time: what it does under a lock of the *)
(* run queues is one step, and the switch to another thread is the three   *)
(* steps of sched_switch: queue the old thread, publish the new one, save  *)
(* and load the context.  CPU 1 is the boot processor.                     *)
(*                                                                         *)
(* Abstractions: a recomputed priority is any the formulas can give (they  *)
(* are module UlePriority).  The status bitmap of a queue is whether its   *)
(* lists are empty, the load of a CPU the threads on its lists.  All       *)
(* threads are in the batch class, the only one make_kernel_thread         *)
(* creates, so that the idle queue stays empty.  A thread is pinned before *)
(* it is first readied, as sync_test.c does.                               *)
(***************************************************************************)
EXTENDS Integers, Sequences, FiniteSets

CONSTANTS
    NCPU,               \* logical_processor_cnt
    Threads,
    PinnedTo,           \* the CPU a thread is pinned to, or 0
    Waiters,            \* the threads that wait for something now and then
    RUNQUEUES_N,
    PRIO_HIGH_BATCH,
    InteractivePrios,   \* what sched_recompute_priority gives if interactive
    IDLE, NULL

CPUs == 1..NCPU
Prios == 1..PRIO_HIGH_BATCH

ASSUME UleAssumption ==
    /\ NCPU \in Nat \ {0}
    /\ PinnedTo \in [Threads -> 0..NCPU]
    /\ RUNQUEUES_N \in Nat \ {0} /\ PRIO_HIGH_BATCH \in Nat \ {0}
    /\ InteractivePrios \subseteq Prios
    /\ Waiters \subseteq Threads
    /\ IDLE \notin Threads /\ NULL \notin Threads /\ IDLE # NULL

VARIABLES
    q,              \* per CPU: rt, cal, and the indices run and ins
    current_thread, current_thread_status, next_thread, preemption_reason,
    state, prio, interactive, last_cpu, lock,           \* struct thread
    committed,      \* threads whose wait_status is WAIT_COMMITTED
    on,             \* the thread whose stack a CPU is on
    pc, nxt, latched,       \* where a CPU is, and its locals: the thread to
    carry, dest, ret        \* switch to, the reason, a thread on its way

thVars == <<state, prio, interactive, last_cpu>>
cpuVars == <<current_thread, current_thread_status, next_thread,
             preemption_reason>>
locals == <<nxt, latched, carry, dest, ret>>
vars == <<q, cpuVars, thVars, lock, committed, on, pc, locals>>

(* sched_cpu_init *)
Init ==
    /\ q = [c \in CPUs |-> [rt |-> [p \in Prios |-> <<>>],
                            cal |-> [k \in 0..(RUNQUEUES_N - 1) |-> <<>>],
                            run |-> 0, ins |-> 0]]
    /\ current_thread = [c \in CPUs |-> IDLE]
    /\ current_thread_status = [c \in CPUs |-> [prio |-> 0, interact |-> FALSE]]
    /\ next_thread = [c \in CPUs |-> NULL]
    /\ preemption_reason = [c \in CPUs |-> "none"]
    /\ state = [t \in Threads |-> "new"]
    /\ prio \in [Threads -> {(PRIO_HIGH_BATCH + 1) \div 2}]
    /\ interactive = [t \in Threads |-> FALSE]
    /\ last_cpu = PinnedTo
    /\ lock = [t \in Threads |-> 0]
    /\ committed = {}
    /\ on = [c \in CPUs |-> IDLE]
    /\ pc = [c \in CPUs |-> "thread"]
    /\ nxt = [c \in CPUs |-> NULL]
    /\ latched = [c \in CPUs |-> "none"]
    /\ carry = [c \in CPUs |-> NULL]
    /\ dest = [c \in CPUs |-> 0]
    /\ ret = [c \in CPUs |-> "thread"]

-----------------------------------------------------------------------------
(* Run queues, as functions of the queues r of one CPU.                    *)

Range(s) == {s[k] : k \in 1..Len(s)}
Least(S) == CHOOSE x \in S : \A y \in S : x <= y
Without(s, t) == SelectSeq(s, LAMBDA u : u # t)

Queued(r) == UNION {Range(r.rt[p]) : p \in DOMAIN r.rt}
               \cup UNION {Range(r.cal[k]) : k \in DOMAIN r.cal}
Load(c) == Cardinality(Queued(q[c]))

(* sched_insert_in_queue and insert_calendar_queue, for a thread of        *)
(* priority p that is interactive or not.                                  *)
Insert(r, t, p, inter) ==
    IF inter
    THEN [r EXCEPT !.rt[p] = Append(@, t)]
    ELSE [r EXCEPT !.cal[(r.ins + (PRIO_HIGH_BATCH - p)) % RUNQUEUES_N] =
             Append(@, t)]

InsertQ(r, t) == Insert(r, t, prio[t], interactive[t])

Candidates(s, migrate) ==
    IF migrate THEN SelectSeq(s, LAMBDA t : PinnedTo[t] = 0) ELSE s

(* pick_realtime_thread: the queues from minprio up. *)
PickRealtime(r, minprio, migrate) ==
    LET ps == {p \in Prios : p >= minprio /\ Candidates(r.rt[p], migrate) # <<>>}
    IN IF ps = {} THEN NULL ELSE Head(Candidates(r.rt[Least(ps)], migrate))

(* The order in which pick_batch_thread looks at queue k. *)
Distance(r, k) == (k - r.run) % RUNQUEUES_N

PickBatch(r, migrate) ==
    LET ks == {k \in DOMAIN r.cal : Candidates(r.cal[k], migrate) # <<>>} IN
    IF ks = {} THEN NULL
    ELSE Head(Candidates(r.cal[CHOOSE k \in ks : \A j \in ks :
                                  Distance(r, k) <= Distance(r, j)], migrate))

(* sched_select_thread, for a current thread of the given priority. *)
Select(r, minprio, inter, migrate) ==
    LET t == PickRealtime(r, minprio, migrate) IN
    IF t # NULL THEN t ELSE IF inter THEN NULL ELSE PickBatch(r, migrate)

(* calendar_queue_increment *)
Increment(r) ==
    LET run == (r.run + 1) % RUNQUEUES_N IN
    [r EXCEPT !.run = run,
              !.ins = IF run = @ THEN (@ + 1) % RUNQUEUES_N ELSE @]

(* The queues without the selected thread t. *)
Take(r, t, migrate) ==
    LET s == [r EXCEPT !.rt = [p \in DOMAIN r.rt |-> Without(r.rt[p], t)],
                       !.cal = [k \in DOMAIN r.cal |-> Without(r.cal[k], t)]]
    IN IF /\ ~migrate
          /\ \E k \in DOMAIN r.cal : r.cal[k] # <<>> /\ s.cal[k] = <<>>
       THEN Increment(s) ELSE s

TakeIf(r, t, migrate) == IF t = NULL THEN r ELSE Take(r, t, migrate)

(* should_preempt: no batch priority reaches PREEMPT_THRESHOLD. *)
ShouldPreempt(t, c) ==
    \/ current_thread_status[c].prio = 0
    \/ ~current_thread_status[c].interact /\ interactive[t]

(* The first CPU of S with the least load. *)
LeastLoaded(S) ==
    CHOOSE c \in S : \A d \in S : Load(c) < Load(d) \/ (Load(c) = Load(d) /\ c <= d)
MostLoaded ==
    CHOOSE c \in CPUs : \A d \in CPUs :
        Load(c) > Load(d) \/ (Load(c) = Load(d) /\ c <= d)

PickCpuUnpinned(t) ==
    LET preemptible == {c \in CPUs : ShouldPreempt(t, c)} IN
    IF last_cpu[t] # 0 /\ ShouldPreempt(t, last_cpu[t])
    THEN last_cpu[t]
    ELSE IF preemptible # {} THEN LeastLoaded(preemptible) ELSE LeastLoaded(CPUs)

(* pick_cpu *)
PickCpu(t) ==
    LET preemptible == {c \in CPUs : ShouldPreempt(t, c)} IN
    IF last_cpu[t] # 0 /\ (ShouldPreempt(t, last_cpu[t]) \/ PinnedTo[t] # 0)
    THEN last_cpu[t]
    ELSE IF preemptible # {} THEN LeastLoaded(preemptible) ELSE LeastLoaded(CPUs)

TryPreemptDropsNext(d, t) ==
    /\ next_thread' = [next_thread EXCEPT ![d] = t]
    /\ preemption_reason' = [preemption_reason EXCEPT ![d] = "higher"]
    /\ q' = [q EXCEPT ![d] = InsertQ(@, t)]
    /\ UNCHANGED state

(* sched_try_preempt(d, t), under the lock of d's queues. *)
TryPreempt(d, t) ==
    IF ShouldPreempt(t, d)
    THEN LET next == next_thread[d] IN
         /\ next_thread' = [next_thread EXCEPT ![d] = t]
         /\ preemption_reason' = [preemption_reason EXCEPT ![d] = "higher"]
         /\ q' = [q EXCEPT ![d] = IF next = NULL THEN @ ELSE InsertQ(@, next)]
         /\ state' = IF next = NULL THEN state
                     ELSE [state EXCEPT ![next] = "ready"]
    ELSE /\ q' = [q EXCEPT ![d] = InsertQ(@, t)]
         /\ state' = [state EXCEPT ![t] = "ready"]
         /\ UNCHANGED <<next_thread, preemption_reason>>

-----------------------------------------------------------------------------
(* Steps of CPU c.  pc = "thread": its thread (or the idle loop) runs with *)
(* software interrupts enabled; everywhere else they are held off.         *)
Goto(c, l) == pc' = [pc EXCEPT ![c] = l]

(* sched_ready of a new thread, by the boot processor. *)
SchedReady(c) ==
    /\ c = 1 /\ pc[c] = "thread" /\ on[c] = IDLE
    /\ \E t \in Threads :
          /\ state[t] = "new"
          /\ state' = [state EXCEPT ![t] = "ready"]
          /\ carry' = [carry EXCEPT ![c] = t]
    /\ dest' = [dest EXCEPT ![c] = 0]
    /\ ret' = [ret EXCEPT ![c] = "thread"]
    /\ Goto(c, "place")
    /\ UNCHANGED <<q, cpuVars, prio, interactive, last_cpu, lock, committed, on,
                   nxt, latched>>

(* sched_wake of a thread whose wait is committed, by the running thread   *)
(* or by a DPC.                                                            *)
SchedWake(c) ==
    /\ pc[c] \in {"thread", "dpc"}
    /\ pc[c] = "thread" => on[c] # IDLE
    /\ \E t \in committed, p \in Prios, i \in BOOLEAN :
          /\ lock[t] = 0
          /\ i => p \in InteractivePrios
          /\ committed' = committed \ {t}
          /\ prio' = [prio EXCEPT ![t] = p]
          /\ interactive' = [interactive EXCEPT ![t] = i]
          /\ carry' = [carry EXCEPT ![c] = t]
    /\ dest' = [dest EXCEPT ![c] = 0]
    /\ ret' = [ret EXCEPT ![c] = pc[c]]
    /\ Goto(c, "place")
    /\ UNCHANGED <<q, cpuVars, state, last_cpu, lock, on, nxt, latched>>

(* The end of sched_ready, idle_thread's loop and balance_load's loop: the *)
(* thread in hand goes to a CPU.                                           *)
Place(c) ==
    LET t == carry[c] IN
    /\ pc[c] = "place"
    /\ lock[t] = 0
    /\ TryPreempt(IF dest[c] = 0 THEN PickCpu(t) ELSE dest[c], t)
    /\ carry' = [carry EXCEPT ![c] = NULL]
    /\ dest' = [dest EXCEPT ![c] = 0]
    /\ ret' = [ret EXCEPT ![c] = "thread"]
    /\ Goto(c, ret[c])
    /\ UNCHANGED <<current_thread, current_thread_status, prio, interactive,
                   last_cpu, lock, committed, on, nxt, latched>>

(* Take a thread that may migrate from the busiest CPU. *)
Migrate(c, to, back) ==
    LET m == MostLoaded
        t == Select(q[m], 0, FALSE, TRUE)
    IN
    /\ t # NULL
    /\ q' = [q EXCEPT ![m] = Take(@, t, TRUE)]
    /\ carry' = [carry EXCEPT ![c] = t]
    /\ dest' = [dest EXCEPT ![c] = to]
    /\ ret' = [ret EXCEPT ![c] = back]
    /\ Goto(c, "place")
    /\ UNCHANGED <<cpuVars, thVars, lock, committed, on, nxt, latched>>

(* idle_thread *)
IdleThread(c) ==
    /\ pc[c] = "thread" /\ on[c] = IDLE
    /\ MostLoaded # c
    /\ Migrate(c, c, "thread")

(* balance_load, an iteration of its loop, in a DPC of the boot processor. *)
BalanceLoad(c) ==
    /\ c = 1 /\ pc[c] = "dpc"
    /\ Load(MostLoaded) - Load(LeastLoaded(CPUs)) >= 1
    /\ Migrate(c, LeastLoaded(CPUs), "dpc")

(* wait_any commits the wait at IPL_DISPATCH and calls sched_wait. *)
Commit(c) ==
    /\ pc[c] = "thread" /\ on[c] \in Waiters
    /\ committed' = committed \cup {on[c]}
    /\ Goto(c, "sched_wait")
    /\ UNCHANGED <<q, cpuVars, thVars, lock, on, locals>>

SchedWait(c) ==
    /\ pc[c] = "sched_wait" /\ lock[on[c]] = 0
    /\ state' = [state EXCEPT ![on[c]] = "waiting"]
    /\ Goto(c, "yield")
    /\ UNCHANGED <<q, cpuVars, prio, interactive, last_cpu, lock, committed, on,
                   locals>>

(* sched_yield and sched_yield_locked up to the switch. *)
SchedYield(c) ==
    LET t == on[c]
        n == Select(q[c], prio[t], interactive[t], FALSE)
    IN
    /\ pc[c] = "yield" /\ lock[t] = 0
    /\ lock' = [lock EXCEPT ![t] = c]
    /\ q' = [q EXCEPT ![c] = TakeIf(@, n, FALSE)]
    /\ nxt' = [nxt EXCEPT ![c] = IF n = NULL THEN IDLE ELSE n]
    /\ Goto(c, "insert")
    /\ UNCHANGED <<cpuVars, thVars, committed, on, latched, carry, dest, ret>>

(* sched_switch: queue the old thread, without the lock of the queues. *)
SwitchInsert(c) ==
    LET cur == current_thread[c] IN
    /\ pc[c] = "insert"
    /\ IF cur # IDLE /\ state[cur] = "running"
       THEN /\ q' = [q EXCEPT ![c] = InsertQ(@, cur)]
            /\ state' = [state EXCEPT ![cur] = "ready"]
       ELSE UNCHANGED <<q, state>>
    /\ Goto(c, "publish")
    /\ UNCHANGED <<cpuVars, prio, interactive, last_cpu, lock, committed, on,
                   locals>>

SwitchPublish(c) ==
    LET n == nxt[c] IN
    /\ pc[c] = "publish"
    /\ current_thread' = [current_thread EXCEPT ![c] = n]
    /\ next_thread' = [next_thread EXCEPT ![c] = NULL]
    /\ IF n = IDLE
       THEN /\ current_thread_status' =
                 [current_thread_status EXCEPT ![c] = [prio |-> 0, interact |-> FALSE]]
            /\ UNCHANGED <<state, last_cpu>>
       ELSE /\ current_thread_status' =
                 [current_thread_status EXCEPT ![c] =
                    [prio |-> prio[n], interact |-> interactive[n]]]
            /\ state' = [state EXCEPT ![n] = "running"]
            /\ last_cpu' = [last_cpu EXCEPT ![n] = c]
    /\ Goto(c, "context")
    /\ UNCHANGED <<q, preemption_reason, prio, interactive, lock, committed, on,
                   locals>>

(* amd64_context_switch: save the stack, release the old thread's lock,    *)
(* whoever holds it, and load the new stack.                               *)
ContextSwitch(c) ==
    /\ pc[c] = "context"
    /\ lock' = [t \in Threads |-> IF t = on[c] THEN 0 ELSE lock[t]]
    /\ on' = [on EXCEPT ![c] = nxt[c]]
    /\ nxt' = [nxt EXCEPT ![c] = NULL]
    /\ Goto(c, "thread")
    /\ UNCHANGED <<q, cpuVars, thVars, committed, latched, carry, dest, ret>>

(* hardclock *)
Hardclock(c) ==
    /\ current_thread[c] # IDLE
    /\ preemption_reason[c] # "quantum"
    /\ preemption_reason' = [preemption_reason EXCEPT ![c] = "quantum"]
    /\ UNCHANGED <<q, current_thread, current_thread_status, next_thread, thVars,
                   lock, committed, on, pc, locals>>

(* dispatch_dpc: latch the reason, run the DPCs. *)
DispatchDpc(c) ==
    /\ pc[c] = "thread"
    /\ latched' = [latched EXCEPT ![c] = preemption_reason[c]]
    /\ Goto(c, "dpc")
    /\ UNCHANGED <<q, cpuVars, thVars, lock, committed, on, nxt, carry, dest, ret>>

DpcQueueEmpty(c) ==
    /\ pc[c] = "dpc"
    /\ latched' = [latched EXCEPT ![c] = "none"]
    /\ Goto(c, IF latched[c] = "quantum" THEN "resched" ELSE "preempt")
    /\ UNCHANGED <<q, cpuVars, thVars, lock, committed, on, nxt, carry, dest, ret>>

(* sched_reschedule: the insert index never stays on the run index; a      *)
(* batch thread is charged a tick.                                         *)
Separate(r) ==
    IF r.run = r.ins THEN [r EXCEPT !.ins = (@ + 1) % RUNQUEUES_N] ELSE r

SchedReschedule(c) ==
    LET t == current_thread[c]
        r == Separate(q[c])
    IN
    /\ pc[c] = "resched"
    /\ \E p \in Prios, i \in BOOLEAN :
          LET n == Select(r, IF t = IDLE THEN 0 ELSE p, t # IDLE /\ i, FALSE) IN
          /\ i => p \in InteractivePrios
          /\ IF t = IDLE
             THEN UNCHANGED <<prio, interactive>>
             ELSE /\ lock[t] = 0
                  /\ prio' = [prio EXCEPT ![t] = p]
                  /\ interactive' = [interactive EXCEPT ![t] = i]
          /\ q' = [q EXCEPT ![c] = TakeIf(r, n, FALSE)]
          /\ next_thread' = IF n = NULL THEN next_thread
                            ELSE [next_thread EXCEPT ![c] = n]
    /\ Goto(c, "preempt")
    /\ UNCHANGED <<current_thread, current_thread_status, preemption_reason,
                   state, last_cpu, lock, committed, on, locals>>

(* The end of dispatch_dpc. *)
Preempt(c) ==
    /\ pc[c] = "preempt"
    /\ preemption_reason' = [preemption_reason EXCEPT ![c] = "none"]
    /\ nxt' = [nxt EXCEPT ![c] = next_thread[c]]
    /\ Goto(c, IF next_thread[c] # NULL THEN "insert" ELSE "thread")
    /\ UNCHANGED <<q, current_thread, current_thread_status, next_thread, thVars,
                   lock, committed, on, latched, carry, dest, ret>>

Step(c) ==
    \/ Place(c) \/ SchedWait(c) \/ SchedYield(c)
    \/ SwitchInsert(c) \/ SwitchPublish(c) \/ ContextSwitch(c)
    \/ DpcQueueEmpty(c) \/ SchedReschedule(c) \/ Preempt(c)

(* Two CPUs on one stack: what they do from then on is undefined. *)
Corrupt == \E c, d \in CPUs : c # d /\ on[c] = on[d] /\ on[c] # IDLE

Next ==
    /\ ~Corrupt
    /\ \E c \in CPUs :
          \/ SchedReady(c) \/ SchedWake(c) \/ IdleThread(c) \/ BalanceLoad(c)
          \/ Commit(c) \/ Hardclock(c) \/ DispatchDpc(c) \/ Step(c)

Spec == Init /\ [][Next]_vars

(* A CPU takes its software interrupts, goes on with what it does, and     *)
(* starts the threads the kernel created.  The timer interrupts it again   *)
(* and again, and not always inside dispatch_dpc, where the end of the     *)
(* quantum can be lost: a tick comes every 10 ms, a software interrupt     *)
(* takes microseconds.                                                     *)
Fairness ==
    \A c \in CPUs : /\ WF_vars(Step(c))
                    /\ SF_vars(pc[c] = "thread" /\ Hardclock(c))
                    /\ WF_vars(DispatchDpc(c)) /\ WF_vars(SchedReady(c))

FairSpec == Spec /\ Fairness

-----------------------------------------------------------------------------
TypeOK ==
    /\ \A c \in CPUs :
          /\ \A p \in Prios : q[c].rt[p] \in Seq(Threads)
          /\ \A k \in 0..(RUNQUEUES_N - 1) : q[c].cal[k] \in Seq(Threads)
          /\ {q[c].run, q[c].ins} \subseteq 0..(RUNQUEUES_N - 1)
          /\ current_thread[c] \in Threads \cup {IDLE}
          /\ on[c] \in Threads \cup {IDLE}
          /\ next_thread[c] \in Threads \cup {NULL}
          /\ nxt[c] \in Threads \cup {IDLE, NULL}
          /\ pc[c] = "place" <=> carry[c] # NULL
          /\ pc[c] \in {"insert", "publish", "context"} <=> nxt[c] # NULL
    /\ \A t \in Threads : /\ prio[t] \in Prios
                          /\ last_cpu[t] \in 0..NCPU /\ lock[t] \in 0..NCPU
    /\ committed \subseteq Waiters

(* A pinned thread only ever runs, or is about to run, on the CPU it is    *)
(* pinned to: neither sched_ready nor the idle thread nor balance_load     *)
(* moves it, whatever the other CPU does meanwhile.                        *)
PinnedStays ==
    \A c \in CPUs, t \in Threads :
        PinnedTo[t] # 0 /\ t \in {current_thread[c], next_thread[c], on[c]}
        => PinnedTo[t] = c

(* How often t hangs in a run queue, is next_thread, is on its way to a    *)
(* CPU, is what a sched_yield has selected, or runs.                       *)
InQueues(t) ==
    Cardinality({<<c, p, k>> \in CPUs \X Prios \X (1..Cardinality(Threads)) :
                    k <= Len(q[c].rt[p]) /\ q[c].rt[p][k] = t})
      + Cardinality({<<c, i, k>> \in
                        CPUs \X (0..(RUNQUEUES_N - 1)) \X (1..Cardinality(Threads)) :
                        k <= Len(q[c].cal[i]) /\ q[c].cal[i][k] = t})

Places(t) ==
    InQueues(t)
      + Cardinality({c \in CPUs : next_thread[c] = t})
      + Cardinality({c \in CPUs : carry[c] = t})
      + Cardinality({c \in CPUs : /\ nxt[c] = t /\ next_thread[c] # t
                                  /\ pc[c] \in {"insert", "publish"}})
      + Cardinality({c \in CPUs : current_thread[c] = t /\ state[t] = "running"})

(* On one CPU no thread is in two places: the thread has one runqueue_hook *)
(* and one stack.                                                          *)
OnePlace == \A t \in Threads : Places(t) <= 1

(* "Thread that will run next on this CPU" (next_thread): no thread that   *)
(* was readied and does not wait is in no place at all, where nothing will *)
(* ever run it.                                                            *)
NoThreadLost ==
    \A t \in Threads :
        \/ state[t] = "new" \/ t \in committed
        \/ Places(t) >= 1
        \/ \E c \in CPUs : t \in {current_thread[c], on[c]}

(* A thread's stack is used by one CPU only: a committed wait that another *)
(* CPU satisfies finds "the thread is blocked".                            *)
OneCpuPerThread == ~Corrupt

(* "ALWAYS one queue ahead": the queue new threads go to is the one in     *)
(* use, or the one after it.                                               *)
InsertAhead == \A c \in CPUs : Distance(q[c], q[c].ins) \in {0, 1}

(* "Search higher priorities queues first": no interactive thread is taken *)
(* while one of a higher priority is queued on its CPU.                    *)
HigherFirst ==
    [][\A c \in CPUs, p \in Prios :
          Len(q'[c].rt[p]) < Len(q[c].rt[p])
          => \A h \in Prios : h > p => q[c].rt[h] = <<>>]_vars

(* "Nothing to run, go idle": a thread that gives up its CPU leaves it to  *)
(* the idle thread only when the CPU's queues are empty (on one CPU, where *)
(* nobody else fills them meanwhile).                                      *)
IdleIfNothing ==
    \A c \in CPUs : pc[c] = "insert" /\ nxt[c] = IDLE => Queued(q[c]) = {}

(* Readied threads of one priority take turns: one that never waits runs   *)
(* again and again, whatever the others wait for.                          *)
AllTakeTurns ==
    \A t \in Threads \ Waiters : []<>(state[t] = "new" \/ \E c \in CPUs : on[c] = t)
=============================================================================
