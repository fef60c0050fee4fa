------------------------------ MODULE Dispatch ------------------------------
(***************************************************************************)
(* Dispatch objects: kernel/core/wait.c with its clients mutex.c,          *)
(* semaphore.c and the event part of events.c.                             *)
(*                                                                         *)
(* A thread waits for any of several objects by hanging one waitblock per  *)
(* object on the object's queue; a signaller pops waitblocks and moves the *)
(* owning thread's wait_status with a compare-and-swap.  A step of a       *)
(* thread is one section under an object's spinlock, or one atomic         *)
(* operation outside of every lock.  The loop of                           *)
(* try_satisfy_dispatch_object keeps the object locked over several steps, *)
(* because the wait_status words it changes are not protected by the       *)
(* object's lock.                                                          *)
(*                                                                         *)
(* Sequences are indexed from 1, so the value 0 stands for the code's      *)
(* satisfier = -1.  sched_wait and sched_wake are a one-shot permit here;  *)
(* the timer of a timed wait fires in one step.                            *)
(***************************************************************************)
EXTENDS Integers, Sequences, FiniteSets, Queues

CONSTANTS
    Threads,        \* kernel threads
    Mutexes,        \* struct mutex objects
    Semaphores,     \* struct semaphore objects
    Events,         \* struct event objects
    Notification,   \* the events created with notification = true
    KTimers,        \* struct ktimer objects that threads wait for
    TimerOf,        \* TimerOf[t] is the struct ktimer on t's stack
    SemInit,        \* SemInit[s] is the count given to semaphore_init
    Waits,          \* Waits[t] is the set of waits thread t may start
    Posts,          \* Posts[t] is the set of objects t signals unasked
    MaxCount,       \* bound on signaled_count for such signals
    NoThread        \* NULL

Timers == {TimerOf[t] : t \in Threads}
Objects == Mutexes \cup Semaphores \cup Events \cup KTimers \cup Timers

(***************************************************************************)
(* A wait is the arguments of one call.  "fn" is the function through      *)
(* which wait_any is reached.                                              *)
(***************************************************************************)
Timeouts == {"forever", "zero", "finite"}
WaitFns == {"mutex_lock", "semaphore_acquire", "wait_any"}
WaitCall == [fn : WaitFns, objs : Seq(Objects), timeout : Timeouts]

INTERNAL_WAITBLOCKS_N == 4
WaitBlocks == 1..(INTERNAL_WAITBLOCKS_N + 1)    \* the last: timer_wb

ASSUME DispatchAssumption ==
    /\ NoThread \notin Threads
    /\ TimerOf \in [Threads -> Timers]
    /\ \A t, u \in Threads : TimerOf[t] = TimerOf[u] => t = u
    /\ Timers \cap (Mutexes \cup Semaphores \cup Events \cup KTimers) = {}
    /\ Mutexes \cap (Semaphores \cup Events \cup KTimers) = {}
    /\ Semaphores \cap (Events \cup KTimers) = {}
    /\ Events \cap KTimers = {}
    /\ Notification \subseteq Events
    /\ SemInit \in [Semaphores -> Nat]
    /\ MaxCount \in Nat
    /\ Waits \in [Threads -> SUBSET WaitCall]
    /\ Posts \in [Threads -> SUBSET (Semaphores \cup Events \cup KTimers)]
    /\ \A t \in Threads : \A w \in Waits[t] :
          /\ Len(w.objs) \in 1..INTERNAL_WAITBLOCKS_N
          /\ \A i \in 1..Len(w.objs) : w.objs[i] \notin Timers
          /\ w.fn = "semaphore_acquire" =>
                /\ w.objs[1] \in Semaphores
                /\ Len(w.objs) = 1
                /\ w.timeout = "zero"
          /\ w.fn = "mutex_lock" =>
                /\ w.objs[1] \in Mutexes
                /\ Len(w.objs) = 1
          /\ w.fn = "wait_any" =>
                \A i \in 1..Len(w.objs) : w.objs[i] \notin Mutexes

VARIABLES
    signaled_count, \* dispatch_header.signaled_count
    waitblocks,     \* dispatch_header.waitblocks: queue of <<thread, index>>
    lock,           \* holder of dispatch_header.lock between steps
    owner,          \* mutex.owner
    wait_status,    \* thread.wait_status
    wb,             \* thread.waitblocks[i].status
    pending,        \* threads whose stack timer is TIMER_PENDING
    woken,          \* threads that sched_wake woke, still in sched_wait
    pc,             \* where in the kernel the thread is
    call,           \* arguments of the wait the thread is in
    i,              \* the loop variable of wait_any
    satisfier,      \* wait_any's satisfier, 0 for -1
    obj,            \* object being signalled
    ret,            \* result of try_satisfy_dispatch_object
    held            \* objects the thread acquired and has not given back

objVars == <<signaled_count, waitblocks, lock, owner>>
waitVars == <<wait_status, wb, pending, woken, call, i, satisfier>>
sigVars == <<obj, ret>>
vars == <<objVars, waitVars, sigVars, pc, held>>

IsNotification(o) == o \in Notification \cup KTimers \cup Timers

(* "A count of >= 1 means the object is currently signaled" *)
Signaled(o) == signaled_count[o] > 0

(* Faulty variants, here and below: each is the definition that follows it *)
(* with one slip a maintainer could make.  No specification uses them;     *)
(* they stand in for the definition to show that a property notices.       *)
ConsumedNever(o) == signaled_count[o]

(* dispatch_object_consume: the count after one wait was satisfied. *)
Consumed(o) ==
    IF IsNotification(o) THEN signaled_count[o] ELSE signaled_count[o] - 1

InsertHead(q, x) == <<x>> \o q

(* TAILQ_INSERT_TAIL *)
InsertTail(q, x) == Append(q, x)

LiveAlways(u) == TRUE

(* One of the two CAS of try_satisfy_dispatch_object succeeds on u. *)
Live(u) == wait_status[u] # "satisfied"

Nobody == [fn |-> "wait_any", objs |-> <<>>, timeout |-> "forever"]

Init ==
    /\ signaled_count = [o \in Objects |->
                            IF o \in Mutexes THEN 1
                            ELSE IF o \in Semaphores THEN SemInit[o] ELSE 0]
    /\ waitblocks = [o \in Objects |-> <<>>]
    /\ lock = [o \in Objects |-> NoThread]
    /\ owner = [m \in Mutexes |-> NoThread]
    /\ wait_status = [t \in Threads |-> "in_progress"]
    /\ wb = [t \in Threads |-> [k \in WaitBlocks |-> "active"]]
    /\ pending = {}
    /\ woken = {}
    /\ pc = [t \in Threads |-> "run"]
    /\ call = [t \in Threads |-> Nobody]
    /\ i = [t \in Threads |-> 1]
    /\ satisfier = [t \in Threads |-> 0]
    /\ obj = TimerOf
    /\ ret = [t \in Threads |-> NoThread]
    /\ held = [t \in Threads |-> {}]

(***************************************************************************)
(* wait_any                                                                *)
(***************************************************************************)

(* The objects of wait w of t: the caller's and, last, the timer of a      *)
(* timed wait.                                                             *)
WaitObjs(t, w) ==
    IF w.timeout = "finite" THEN Append(w.objs, TimerOf[t]) ELSE w.objs

Objs(t) == WaitObjs(t, call[t])

Timer(t) == IF call[t].timeout = "finite" THEN Len(Objs(t)) ELSE 0

(* TAILQ_REMOVE of t's waitblock k from o's queue.  Unlinking a waitblock  *)
(* that is not on the queue writes through stale pointers: the queue has   *)
(* no defined value any more, and t never gives up the object's lock.      *)
Unlink(t, o, k, next) ==
    \/ \E n \in 1..Len(waitblocks[o]) :
          /\ waitblocks[o][n] = <<t, k>>
          /\ waitblocks' = [waitblocks EXCEPT ![o] = RemoveAt(@, n)]
          /\ pc' = [pc EXCEPT ![t] = next]
          /\ UNCHANGED lock
    \/ /\ \A n \in 1..Len(waitblocks[o]) : waitblocks[o][n] # <<t, k>>
       /\ lock' = [lock EXCEPT ![o] = t]
       /\ pc' = [pc EXCEPT ![t] = "corrupted"]
       /\ UNCHANGED waitblocks

(* Entry of wait_any; a timed wait initialises the timer on the stack. *)
WaitAny(t) ==
    /\ pc[t] = "run"
    /\ \E w \in Waits[t] :
          /\ \A k \in 1..Len(w.objs) : w.objs[k] \notin held[t]
          /\ call' = [call EXCEPT ![t] = w]
          /\ signaled_count' = IF w.timeout = "finite"
                               THEN [signaled_count EXCEPT ![TimerOf[t]] = 0]
                               ELSE signaled_count
    /\ wait_status' = [wait_status EXCEPT ![t] = "in_progress"]
    /\ satisfier' = [satisfier EXCEPT ![t] = 0]
    /\ i' = [i EXCEPT ![t] = 1]
    /\ pc' = [pc EXCEPT ![t] = "scan"]
    /\ UNCHANGED <<waitblocks, lock, owner, wb, pending, woken, sigVars, held>>

(* The object is signaled already and the wait is still ours to satisfy. *)
ScanConsume(t) ==
    LET o == Objs(t)[i[t]] IN
    /\ pc[t] = "scan"
    /\ lock[o] = NoThread
    /\ Signaled(o)
    /\ wait_status[t] = "in_progress"
    /\ wait_status' = [wait_status EXCEPT ![t] = "satisfied"]
    /\ signaled_count' = [signaled_count EXCEPT ![o] = Consumed(o)]
    /\ satisfier' = [satisfier EXCEPT ![t] = i[t]]
    /\ pc' = [pc EXCEPT ![t] = "check"]
    /\ UNCHANGED <<waitblocks, lock, owner, wb, pending, woken, call, i,
                   sigVars, held>>

(* The object is signaled, but another one satisfied the wait meanwhile. *)
ScanSatisfied(t) ==
    LET o == Objs(t)[i[t]] IN
    /\ pc[t] = "scan"
    /\ lock[o] = NoThread
    /\ Signaled(o)
    /\ wait_status[t] # "in_progress"
    /\ satisfier' = [satisfier EXCEPT ![t] = i[t]]
    /\ pc' = [pc EXCEPT ![t] = "check"]
    /\ UNCHANGED <<objVars, wait_status, wb, pending, woken, call, i,
                   sigVars, held>>

(* The object is not signaled: hang a waitblock on it. *)
ScanInsert(t) ==
    LET o == Objs(t)[i[t]] IN
    /\ pc[t] = "scan"
    /\ lock[o] = NoThread
    /\ ~Signaled(o)
    /\ waitblocks' = [waitblocks EXCEPT ![o] = InsertTail(@, <<t, i[t]>>)]
    /\ wb' = [wb EXCEPT ![t][i[t]] = "active"]
    /\ i' = [i EXCEPT ![t] = @ + 1]
    /\ pc' = [pc EXCEPT ![t] =
                 IF i[t] < Len(Objs(t)) THEN "scan"
                 ELSE CASE call[t].timeout = "zero" -> "check"
                        [] call[t].timeout = "finite" -> "timer_start"
                        [] call[t].timeout = "forever" -> "commit"]
    /\ UNCHANGED <<signaled_count, lock, owner, wait_status, pending, woken,
                   call, satisfier, sigVars, held>>

(* Before backing out, wait_any panics unless the wait is satisfied. *)
BackOut(t) ==
    /\ pc[t] = "check"
    /\ i' = [i EXCEPT ![t] = 1]
    /\ pc' = [pc EXCEPT ![t] =
                 IF wait_status[t] # "satisfied" THEN "panic"
                 ELSE IF satisfier[t] > 1 THEN "backout" ELSE "return"]
    /\ UNCHANGED <<objVars, wait_status, wb, pending, woken, call, satisfier,
                   sigVars, held>>

(* One iteration of the loop that removes the installed waitblocks. *)
BackOutRemove(t) ==
    LET o == Objs(t)[i[t]] IN
    /\ pc[t] = "backout"
    /\ lock[o] = NoThread
    /\ wb' = [wb EXCEPT ![t][i[t]] = "inactive"]
    /\ Unlink(t, o, i[t], IF i[t] + 1 < satisfier[t] THEN "backout"
                                                     ELSE "return")
    /\ i' = [i EXCEPT ![t] = @ + 1]
    /\ UNCHANGED <<signaled_count, owner, wait_status, pending, woken, call,
                   satisfier, sigVars, held>>

TimerNotStarted(t) ==
    /\ pc[t] = "timer_start"
    /\ pc' = [pc EXCEPT ![t] = "commit"]
    /\ UNCHANGED <<objVars, wait_status, wb, pending, woken, call, i,
                   satisfier, sigVars, held>>

TimerStart(t) ==
    /\ pc[t] = "timer_start"
    /\ pending' = pending \cup {t}
    /\ pc' = [pc EXCEPT ![t] = "commit"]
    /\ UNCHANGED <<objVars, wait_status, wb, woken, call, i, satisfier,
                   sigVars, held>>

(* The wait is over: where the thread goes once it runs again. *)
AfterWait(t) == IF call[t].timeout = "finite" THEN "timer_stop" ELSE "collect"

(* Commit the wait, unless it was satisfied while it was being prepared. *)
Commit(t) ==
    /\ pc[t] = "commit"
    /\ i' = [i EXCEPT ![t] = 1]
    /\ \/ /\ wait_status[t] = "in_progress"
          /\ wait_status' = [wait_status EXCEPT ![t] = "committed"]
          /\ pc' = [pc EXCEPT ![t] = "sleep"]
       \/ /\ wait_status[t] # "in_progress"
          /\ pc' = [pc EXCEPT ![t] = AfterWait(t)]
          /\ UNCHANGED wait_status
    /\ UNCHANGED <<objVars, wb, pending, woken, call, satisfier, sigVars,
                   held>>

(* sched_wait returns once sched_wake made the thread runnable. *)
Sleep(t) ==
    /\ pc[t] = "sleep"
    /\ t \in woken
    /\ woken' = woken \ {t}
    /\ pc' = [pc EXCEPT ![t] = AfterWait(t)]
    /\ UNCHANGED <<objVars, wait_status, wb, pending, call, i, satisfier,
                   sigVars, held>>

TimerStop(t) ==
    /\ pc[t] = "timer_stop"
    /\ pending' = pending \ {t}
    /\ pc' = [pc EXCEPT ![t] = "collect"]
    /\ UNCHANGED <<objVars, wait_status, wb, woken, call, i, satisfier,
                   sigVars, held>>

AfterCollect(t) == IF i[t] < Len(Objs(t)) THEN "collect" ELSE "return"

(* One iteration of the loop that finds the object that satisfied the      *)
(* wait; finding a second one is a panic.                                  *)
CollectActive(t) ==
    LET o == Objs(t)[i[t]] IN
    /\ pc[t] = "collect"
    /\ lock[o] = NoThread
    /\ wb[t][i[t]] = "active"
    /\ Unlink(t, o, i[t], AfterCollect(t))
    /\ i' = [i EXCEPT ![t] = @ + 1]
    /\ UNCHANGED <<signaled_count, owner, wait_status, wb, pending, woken,
                   call, satisfier, sigVars, held>>

CollectSignaled(t) ==
    /\ pc[t] = "collect"
    /\ lock[Objs(t)[i[t]]] = NoThread
    /\ wb[t][i[t]] = "signaled"
    /\ satisfier' = IF satisfier[t] = 0
                    THEN [satisfier EXCEPT ![t] = i[t]] ELSE satisfier
    /\ pc' = [pc EXCEPT ![t] =
                 IF satisfier[t] = 0 THEN AfterCollect(t) ELSE "panic"]
    /\ i' = [i EXCEPT ![t] = @ + 1]
    /\ UNCHANGED <<objVars, wait_status, wb, pending, woken, call, sigVars,
                   held>>

CollectInactive(t) ==
    /\ pc[t] = "collect"
    /\ lock[Objs(t)[i[t]]] = NoThread
    /\ wb[t][i[t]] = "inactive"
    /\ pc' = [pc EXCEPT ![t] = AfterCollect(t)]
    /\ i' = [i EXCEPT ![t] = @ + 1]
    /\ UNCHANGED <<objVars, wait_status, wb, pending, woken, call, satisfier,
                   sigVars, held>>

(* mutex_lock without its write of mutex.owner. *)
ReturnNoOwner(t) ==
    /\ pc[t] = "return"
    /\ held' = [held EXCEPT ![t] = @ \cup {call[t].objs[1]}]
    /\ pc' = [pc EXCEPT ![t] = "run"]
    /\ UNCHANGED <<objVars, waitVars, sigVars>>

(* wait_any returns to its caller.  mutex_lock and semaphore_acquire go on *)
(* whatever the result is; mutex_lock writes mutex.owner without the lock. *)
Return(t) ==
    LET m == call[t].objs[1]
        got == IF satisfier[t] \in {0, Timer(t)} THEN {}
               ELSE {call[t].objs[satisfier[t]]} \cap Semaphores
    IN
    /\ pc[t] = "return"
    /\ owner' = IF call[t].fn = "mutex_lock"
                THEN [owner EXCEPT ![m] = t] ELSE owner
    /\ held' = [held EXCEPT ![t] =
                   @ \cup IF call[t].fn = "wait_any" THEN got ELSE {m}]
    /\ pc' = [pc EXCEPT ![t] = "run"]
    /\ UNCHANGED <<signaled_count, waitblocks, lock, waitVars, sigVars>>

(***************************************************************************)
(* Signalling                                                              *)
(***************************************************************************)

(* t takes o's lock and enters try_satisfy_dispatch_object. *)
Enter(t, o) ==
    /\ pc[t] = "run"
    /\ lock[o] = NoThread
    /\ lock' = [lock EXCEPT ![o] = t]
    /\ obj' = [obj EXCEPT ![t] = o]
    /\ pc' = [pc EXCEPT ![t] = "satisfy"]

MutexUnlock(t) ==
    \E m \in held[t] \cap Mutexes :
        /\ Enter(t, m)
        /\ signaled_count' = [signaled_count EXCEPT ![m] = 1]
        /\ held' = [held EXCEPT ![t] = @ \ {m}]
        /\ UNCHANGED <<waitblocks, owner, waitVars, ret>>

SemaphoreRelease(t) ==
    \E s \in Semaphores :
        /\ s \in held[t] \/ (s \in Posts[t] /\ signaled_count[s] < MaxCount)
        /\ Enter(t, s)
        /\ signaled_count' = [signaled_count EXCEPT ![s] = @ + 1]
        /\ held' = [held EXCEPT ![t] = @ \ {s}]
        /\ UNCHANGED <<waitblocks, owner, waitVars, ret>>

(* event_signal tries to satisfy the waits before it raises the count; a   *)
(* call that finds the event signaled changes nothing.                     *)
EventSignal(t) ==
    \E e \in Posts[t] \cap Events :
        /\ ~Signaled(e)
        /\ Enter(t, e)
        /\ UNCHANGED <<signaled_count, waitblocks, owner, waitVars, ret, held>>

(* timer_handle_expiry reaches a timer of KTimers in the context of t. *)
TimerHandleExpiry(t) ==
    \E o \in Posts[t] \cap KTimers :
        /\ Enter(t, o)
        /\ signaled_count' = [signaled_count EXCEPT ![o] = 1]
        /\ UNCHANGED <<waitblocks, owner, waitVars, ret, held>>

(* try_satisfy_dispatch_object, one iteration: pop the first waitblock and *)
(* deliver the signal to its thread, unless that thread's wait was         *)
(* satisfied by another object.                                            *)
Delivered(t, o, u) ==
    /\ wait_status' = [wait_status EXCEPT ![u] = "satisfied"]
    /\ signaled_count' = [signaled_count EXCEPT ![o] = Consumed(o)]
    /\ woken' = IF wait_status[u] = "committed"
                THEN woken \cup {u} ELSE woken
    /\ IF IsNotification(o)
       THEN UNCHANGED <<pc, ret>>
       ELSE /\ ret' = [ret EXCEPT ![t] = u]
            /\ pc' = [pc EXCEPT ![t] = "release"]

(* TAILQ_FIRST without TAILQ_REMOVE. *)
Peeked(q) == q

(* TAILQ_FIRST, then TAILQ_REMOVE. *)
Popped(q) == Tail(q)

(* waitblock->status of a delivered signal *)
MarkSignaled == "signaled"

Satisfy(t) ==
    LET o == obj[t]
        u == Head(waitblocks[o])[1]
        k == Head(waitblocks[o])[2]
    IN
    /\ pc[t] = "satisfy"
    /\ waitblocks[o] # <<>>
    /\ Signaled(o)
    /\ waitblocks' = [waitblocks EXCEPT ![o] = Popped(@)]
    /\ \/ /\ Live(u)
          /\ wb' = [wb EXCEPT ![u][k] = MarkSignaled]
          /\ Delivered(t, o, u)
       \/ /\ ~Live(u)
          /\ wb' = [wb EXCEPT ![u][k] = "inactive"]
          /\ UNCHANGED <<wait_status, signaled_count, woken, pc, ret>>
    /\ UNCHANGED <<lock, owner, pending, call, i, satisfier, obj, held>>

(* The loop is left although a waiter could be satisfied. *)
SatisfySkipped(t) ==
    /\ pc[t] = "satisfy"
    /\ ret' = [ret EXCEPT ![t] = NoThread]
    /\ pc' = [pc EXCEPT ![t] = "release"]
    /\ UNCHANGED <<objVars, waitVars, obj, held>>

(* The loop ends without a thread to return. *)
SatisfyDone(t) ==
    /\ pc[t] = "satisfy"
    /\ waitblocks[obj[t]] = <<>> \/ ~Signaled(obj[t])
    /\ ret' = [ret EXCEPT ![t] = NoThread]
    /\ pc' = [pc EXCEPT ![t] = "release"]
    /\ UNCHANGED <<objVars, waitVars, obj, held>>

(* The end of mutex_unlock, semaphore_release and timer_handle_expiry. *)
Release(t) ==
    LET o == obj[t] IN
    /\ pc[t] = "release"
    /\ o \notin Events
    /\ owner' = IF o \in Mutexes THEN [owner EXCEPT ![o] = ret[t]] ELSE owner
    /\ lock' = [lock EXCEPT ![o] = NoThread]
    /\ pc' = [pc EXCEPT ![t] = "run"]
    /\ UNCHANGED <<signaled_count, waitblocks, waitVars, sigVars, held>>

(* The end of event_signal: there is no release of the lock on this path. *)
EventSignalEnd(t) ==
    LET e == obj[t] IN
    /\ pc[t] = "release"
    /\ e \in Events
    /\ signaled_count' = IF ret[t] = NoThread
                         THEN [signaled_count EXCEPT ![e] = 1]
                         ELSE signaled_count
    /\ pc' = [pc EXCEPT ![t] = "run"]
    /\ UNCHANGED <<waitblocks, lock, owner, waitVars, sigVars, held>>

(* timer_handle_expiry for the timer of t's wait: the only waitblock on a  *)
(* stack timer is t's own.                                                 *)
TimerExpire(t) ==
    LET o == TimerOf[t]
        k == Timer(t)
    IN
    /\ t \in pending
    /\ pending' = pending \ {t}
    /\ signaled_count' = [signaled_count EXCEPT ![o] = 1]
    /\ waitblocks' = [waitblocks EXCEPT ![o] = <<>>]
    /\ wb' = [wb EXCEPT ![t][k] = IF wait_status[t] = "satisfied"
                                  THEN "inactive" ELSE "signaled"]
    /\ wait_status' = [wait_status EXCEPT ![t] = "satisfied"]
    /\ woken' = IF wait_status[t] = "committed"
                THEN woken \cup {t} ELSE woken
    /\ UNCHANGED <<lock, owner, call, i, satisfier, sigVars, pc, held>>

-----------------------------------------------------------------------------
(* What a thread does once it is inside the kernel. *)
Kernel(t) ==
    \/ ScanConsume(t) \/ ScanSatisfied(t) \/ ScanInsert(t)
    \/ BackOut(t) \/ BackOutRemove(t)
    \/ TimerStart(t) \/ Commit(t) \/ Sleep(t) \/ TimerStop(t)
    \/ CollectActive(t) \/ CollectSignaled(t) \/ CollectInactive(t)
    \/ Return(t)
    \/ Satisfy(t) \/ SatisfyDone(t) \/ Release(t) \/ EventSignalEnd(t)

Signal(t) ==
    \/ MutexUnlock(t) \/ SemaphoreRelease(t) \/ EventSignal(t)
    \/ TimerHandleExpiry(t)

Next == \E t \in Threads : WaitAny(t) \/ Signal(t) \/ Kernel(t) \/ TimerExpire(t)

Spec == Init /\ [][Next]_vars

(* A thread inside the kernel is not stopped for ever, a thread that       *)
(* acquired an object gives it back, and a started timer fires.            *)
Fairness ==
    \A t \in Threads :
        /\ WF_vars(Kernel(t))
        /\ WF_vars(Signal(t))
        /\ WF_vars(TimerExpire(t))

FairSpec == Spec /\ Fairness

-----------------------------------------------------------------------------
WaitPcs == {"scan", "check", "backout", "timer_start", "commit", "sleep",
            "timer_stop", "collect", "return"}
SignalPcs == {"satisfy", "release"}
WaitStatus == {"in_progress", "committed", "satisfied"}
WaitBlockStatus == {"active", "inactive", "signaled"}

(* Every variable stays in its range; in particular the loop index of      *)
(* wait_any never leaves the waitblocks the thread has.                    *)
TypeOK ==
    /\ signaled_count \in [Objects -> Nat]
    /\ waitblocks \in [Objects -> Seq(Threads \X WaitBlocks)]
    /\ lock \in [Objects -> Threads \cup {NoThread}]
    /\ owner \in [Mutexes -> Threads \cup {NoThread}]
    /\ wait_status \in [Threads -> WaitStatus]
    /\ wb \in [Threads -> [WaitBlocks -> WaitBlockStatus]]
    /\ pending \subseteq Threads
    /\ woken \subseteq Threads
    /\ pc \in [Threads -> WaitPcs \cup SignalPcs
                          \cup {"run", "panic", "corrupted"}]
    /\ call \in [Threads -> WaitCall]
    /\ i \in [Threads -> 1..(INTERNAL_WAITBLOCKS_N + 2)]
    /\ satisfier \in [Threads -> 0..(INTERNAL_WAITBLOCKS_N + 1)]
    /\ obj \in [Threads -> Objects]
    /\ ret \in [Threads -> Threads \cup {NoThread}]
    /\ held \in [Threads -> SUBSET Objects]

(* Waitblock k of t's current wait has been hung on its object. *)
Installed(t, k) ==
    /\ k \in 1..Len(Objs(t))
    /\ pc[t] = "scan" => k < i[t]
    /\ (pc[t] \in {"check", "backout", "return"} /\ satisfier[t] # 0)
          => k < satisfier[t]

(* t has taken o's signal: it holds o, or the wait it is still in was      *)
(* satisfied by o.                                                         *)
Has(t, o) ==
    \/ o \in held[t]
    \/ /\ pc[t] \in WaitPcs \cup {"panic", "corrupted"}
       /\ \E k \in 1..Len(Objs(t)) :
             /\ Objs(t)[k] = o
             /\ \/ Installed(t, k) /\ wb[t][k] = "signaled"
                \/ satisfier[t] = k

(* Two threads are never both between mutex_lock and mutex_unlock of the   *)
(* same mutex, however the wake-up of one races with the scan of another.  *)
MutualExclusion ==
    \A m \in Mutexes : \A t, u \in Threads :
        (m \in held[t] /\ m \in held[u]) => t = u

(* mutex.owner names the thread inside the mutex, although mutex_lock      *)
(* writes it without the lock and mutex_unlock writes it for the next      *)
(* thread.                                                                 *)
OwnerIsHolder ==
    \A m \in Mutexes : \A t \in Threads : m \in held[t] => owner[m] = t

(* No signal of a mutex or semaphore is lost or delivered twice: the count *)
(* and the threads that took a signal add up to the initial count at every *)
(* step of scan, delivery, timeout and collection.                         *)
TokenConserved ==
    \A o \in Mutexes \cup Semaphores :
        signaled_count[o] + Cardinality({t \in Threads : Has(t, o)})
            = IF o \in Mutexes THEN 1 ELSE SemInit[o]

(* A signaled mutex, semaphore or timer that nobody is signalling has no   *)
(* waiter left on its queue: a signal never passes a queued thread by.     *)
NoWaiterLeft ==
    \A o \in Objects \ Events :
        (/\ signaled_count[o] > 0
         /\ \A t \in Threads : ~(pc[t] \in SignalPcs /\ obj[t] = o))
            => waitblocks[o] = <<>>

(* A signaled notification event has no waiter left on its queue ("When    *)
(* signaled, signaled is kept high and all waiters are woken up": enum     *)
(* dispatch_object_type).                                                  *)
EventWakesWaiters ==
    \A e \in Notification :
        (/\ signaled_count[e] > 0
         /\ \A t \in Threads : ~(pc[t] \in SignalPcs /\ obj[t] = e))
            => waitblocks[e] = <<>>

(* What hangs on an object's queue is an active waitblock of a thread that *)
(* is still in the wait that hung it there; a thread that left wait_any    *)
(* has no waitblock anywhere.                                              *)
QueuedIsActive ==
    \A o \in Objects : \A n \in 1..Len(waitblocks[o]) :
        LET t == waitblocks[o][n][1]
            k == waitblocks[o][n][2]
        IN /\ pc[t] \in WaitPcs \cup {"panic", "corrupted"}
           /\ Installed(t, k)
           /\ Objs(t)[k] = o
           /\ wb[t][k] = "active"

(* wait_any never reaches one of its panics, nor unlinks a waitblock that  *)
(* is not linked.                                                          *)
NoPanic == \A t \in Threads : pc[t] \notin {"panic", "corrupted"}

(* A wait that backs out returns the index of the object whose signal it   *)
(* took ("Returns the index of the object that was signaled"): no other    *)
(* waitblock of the wait has been signaled.                                *)
ReturnsSignaledObject ==
    \A t \in Threads : \A k \in WaitBlocks :
        (pc[t] = "check" /\ satisfier[t] # 0 /\ Installed(t, k))
            => wb[t][k] # "signaled"

(* A thread whose waitblock is on a mutex gets the mutex: the hand-over is *)
(* first come, first served, and no committed sleeper is forgotten.        *)
MutexAcquired ==
    \A t \in Threads : \A m \in Mutexes :
        (/\ pc[t] \in {"commit", "sleep", "collect", "return"}
         /\ call[t].fn = "mutex_lock"
         /\ call[t].objs[1] = m) ~> (m \in held[t])

(* A timed wait does not sleep for ever: it is woken by the signal or by   *)
(* its timer, whichever is delivered first.                                *)
TimedWaitWakes ==
    \A t \in Threads :
        (pc[t] = "sleep" /\ call[t].timeout = "finite") ~> (pc[t] # "sleep")
=============================================================================
