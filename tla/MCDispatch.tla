----------------------------- MODULE MCDispatch -----------------------------
(* Instances of Dispatch for TLC.  Threads are t1, t2, t3. *)
EXTENDS Dispatch

CONSTANTS t1, t2, t3, m1, s1, s2, e1, k1, tm1, tm2, tm3

MCTimerOf == [t \in Threads |-> CASE t = t1 -> tm1 [] t = t2 -> tm2 [] t = t3 -> tm3]

Wait(fn, objs, timeout) == [fn |-> fn, objs |-> objs, timeout |-> timeout]

NoPosts == [t \in Threads |-> {}]

(* sync_test.c, MUTEX_TEST: every thread locks and unlocks one mutex. *)
MutexWaits == [t \in Threads |-> {Wait("mutex_lock", <<m1>>, "forever")}]

(* Timed waits on a semaphore, and on an event that is never signaled. *)
TimedWaits == [t \in Threads |->
    {Wait("wait_any", <<IF t = t1 THEN e1 ELSE s1>>, "finite")}]
OneToken == [s \in Semaphores |-> 1]
NoToken == [s \in Semaphores |-> 0]

(* t1 waits for either of two semaphores, t2 for a timer or, with a        *)
(* timeout, for an event; t3 signals all of them.                          *)
AnyWaits == [t \in Threads |->
    CASE t = t1 -> {Wait("wait_any", <<s1, s2>>, "forever")}
      [] t = t2 -> {Wait("wait_any", <<k1>>, "forever"),
                    Wait("wait_any", <<e1>>, "finite")}
      [] t = t3 -> {}]
PostAll == [t \in Threads |-> IF t = t3 THEN Semaphores \cup Events \cup KTimers ELSE {}]

(* sync_test.c, SEM_TEST: every thread acquires and releases one           *)
(* semaphore.                                                              *)
SemWaits == [t \in Threads |-> {Wait("semaphore_acquire", <<s1>>, "zero")}]

(* Threads that wait for an event that t3 signals. *)
EventWaits == [t \in Threads |->
    IF t = t3 THEN {} ELSE {Wait("wait_any", <<e1>>, "forever")}]
=============================================================================
