---------------------------- MODULE DispatchMutex ---------------------------
(***************************************************************************)
(* The mutex of mutex.c on wait.c: its signal has at most one owner        *)
(* (TokenInv), so it excludes, and names its owner (OwnerInv), for every   *)
(* number of threads and objects.                                          *)
(***************************************************************************)
EXTENDS DispatchProofs

(* t owns m's signal: it is inside m, or its mutex_lock(m) has taken it. *)
Tok(t, m) ==
    \/ m \in held[t]
    \/ /\ pc[t] \in WaitPcs
       /\ call[t].fn = "mutex_lock"
       /\ call[t].objs[1] = m
       /\ \/ satisfier[t] = 1
          \/ pc[t] \in {"commit", "sleep", "collect"} /\ wb[t][1] = "signaled"

(* At most one thread owns the signal, and none while m is signaled. *)
TokenInv ==
    \A m \in Mutexes :
        /\ signaled_count[m] <= 1
        /\ \A t \in Threads : Tok(t, m) => signaled_count[m] = 0
        /\ \A t, u \in Threads : Tok(t, m) /\ Tok(u, m) => t = u

(* A signaller keeps the object's lock, and what it is about to write to   *)
(* mutex.owner is the thread that owns the signal.                         *)
SignalOK(t) ==
    pc[t] \in SignalPcs =>
        /\ lock[obj[t]] = t
        /\ obj[t] \in Mutexes =>
              IF pc[t] = "release" /\ ret[t] # NoThread
              THEN Tok(ret[t], obj[t])
              ELSE signaled_count[obj[t]] = 1

OwnerInv == OwnerIsHolder /\ \A t \in Threads : SignalOK(t)

-----------------------------------------------------------------------------
(* A step that moves no token keeps TokenInv. *)
LEMMA TokenFrame ==
    ASSUME TokenInv, NEW t \in Threads, Alone(t),
           \A m \in Mutexes : /\ signaled_count'[m] = signaled_count[m]
                              /\ Tok(t, m)' => Tok(t, m)
    PROVE  TokenInv'
<1>1. \A m \in Mutexes, u \in Threads : Tok(u, m)' => Tok(u, m)
    BY SMTT(30) DEF Tok, Alone
<1> QED BY Zenon, <1>1 DEF TokenInv

(* Steps that take no signal of a mutex and give none back. *)
LEMMA TokenKept ==
    ASSUME TypeInv, StatusInv, WaitDiscipline, NEW t \in Threads, OwnStep(t),
           ~ScanConsume(t), ~MutexUnlock(t), NEW m \in Mutexes, Tok(t, m)'
    PROVE  Tok(t, m)
<1>1. TypeOK /\ StatusOK(t)
    BY SMTT(30) DEF TypeInv, StatusInv
<1>2. CASE WaitAny(t)
    BY <1>1, <1>2 DEF WaitAny, TypeOK, Tok
<1>3. CASE SemaphoreRelease(t) \/ EventSignal(t) \/ TimerHandleExpiry(t)
    <2>1. pc'[t] = "satisfy" /\ held'[t] \subseteq held[t]
        <3>1. pc \in [Threads -> WaitPcs \cup SignalPcs \cup {"run", "panic", "corrupted"}]
              /\ held \in [Threads -> SUBSET Objects]
            BY Zenon, <1>1 DEF TypeOK
        <3>2. CASE SemaphoreRelease(t)
            BY SMTT(30), <3>1, <3>2 DEF SemaphoreRelease, Enter
        <3>3. CASE EventSignal(t)
            BY Zenon, <3>1, <3>3 DEF EventSignal, Enter
        <3>4. CASE TimerHandleExpiry(t)
            BY Zenon, <3>1, <3>4 DEF TimerHandleExpiry, Enter
        <3> QED BY Zenon, <1>3, <3>2, <3>3, <3>4
    <2>2. pc'[t] \notin WaitPcs
        BY Zenon, <2>1 DEF WaitPcs
    <2> QED BY Zenon, <2>1, <2>2 DEF Tok
<1>4. CASE ScanSatisfied(t)
    <2>1. pc[t] = "scan" /\ wait_status[t] # "in_progress"
          /\ UNCHANGED <<call, held>>
        BY Zenon, <1>4 DEF ScanSatisfied
    <2>2. ~Locking(t)
        BY Zenon, <1>1, <2>1, LockingFacts DEF StatusOK
    <2> QED BY Zenon, <2>1, <2>2 DEF Tok, Locking, WaitPcs
<1>5. CASE ScanInsert(t)
    <2>1. /\ pc[t] = "scan" /\ UNCHANGED <<call, held, satisfier>>
          /\ wb' = [wb EXCEPT ![t][i[t]] = "active"]
        BY Zenon, <1>5 DEF ScanInsert
    <2>2. satisfier[t] = 0
        BY Zenon, <1>1, <2>1 DEF StatusOK
    <2>3. Locking(t) => wb'[t][1] = "active"
        <3>1. 1 \in WaitBlocks
            BY SMTT(30) DEF WaitBlocks, INTERNAL_WAITBLOCKS_N
        <3> QED BY Zenon, <1>1, <2>1, <3>1, LockingFacts DEF TypeOK
    <2> QED BY Zenon, <2>1, <2>2, <2>3 DEF Tok, Locking, WaitPcs
<1>6. CASE BackOut(t) \/ BackOutRemove(t)
    <2>1. /\ pc[t] \in {"check", "backout"}
          /\ pc'[t] \in {"backout", "return", "panic", "corrupted"}
          /\ UNCHANGED <<call, held, satisfier>>
        BY ZenonT(30), <1>1, <1>6 DEF BackOut, BackOutRemove, Unlink, TypeOK
    <2> QED BY Zenon, <2>1 DEF Tok, WaitPcs
<1>7. CASE TimerStart(t) \/ TimerStop(t)
    <2>1. ~Locking(t) /\ UNCHANGED <<call, held>> /\ pc[t] \in WaitPcs
        BY Zenon, <1>7, LockingFacts DEF TimerStart, TimerStop, WaitPcs
    <2> QED BY Zenon, <2>1 DEF Tok, Locking
<1>8. CASE Commit(t) \/ Sleep(t)
    <2>1. pc[t] \in {"commit", "sleep"} /\ UNCHANGED <<call, held, satisfier, wb>>
        BY Zenon, <1>8 DEF Commit, Sleep
    <2> QED BY Zenon, <2>1 DEF Tok, WaitPcs
<1>9. CASE CollectActive(t) \/ CollectSignaled(t) \/ CollectInactive(t)
    <2>1. pc[t] = "collect" /\ UNCHANGED <<call, held>>
        BY Zenon, <1>9 DEF CollectActive, CollectSignaled, CollectInactive
    <2>2. Locking(t) => wb[t][1] = "signaled"
        BY Zenon, <1>1, <2>1, LockingFacts DEF StatusOK
    <2> QED BY Zenon, <2>1, <2>2 DEF Tok, Locking, WaitPcs
<1>10. CASE Return(t)
    <2>1. pc[t] = "return" /\ pc'[t] = "run"
        BY Zenon, <1>1, <1>10 DEF Return, TypeOK
    <2>2. m \in held'[t]
        BY Zenon, <2>1 DEF Tok, WaitPcs
    <2>3. call[t] \in Waits[t]
        BY Zenon, <2>1, IndexFacts DEF WaitPcs
    <2>4. call[t].fn \in WaitFns /\ Mutexes \cap Semaphores = {}
          /\ (call[t].fn = "semaphore_acquire" => call[t].objs[1] \in Semaphores)
        BY <2>3, DispatchAssumption DEF WaitCall
    <2>5. m \in held[t] \/ (call[t].fn = "mutex_lock" /\ m = call[t].objs[1])
        BY Zenon, <1>1, <1>10, <2>2, <2>4 DEF Return, TypeOK, WaitFns
    <2>6. Locking(t) => satisfier[t] = 1
        BY Zenon, <1>1, <2>1, LockingFacts DEF StatusOK
    <2> QED BY Zenon, <2>1, <2>5, <2>6 DEF Tok, Locking, WaitPcs
<1>11. CASE SatisfyDone(t) \/ Release(t) \/ EventSignalEnd(t)
    <2>1. pc'[t] \in {"run", "release"} /\ held' = held
        BY Zenon, <1>1, <1>11 DEF SatisfyDone, Release, EventSignalEnd, TypeOK
    <2> QED BY Zenon, <2>1 DEF Tok, WaitPcs
<1>12. CASE TimerExpire(t)
    <2>1. ~Locking(t) /\ UNCHANGED <<pc, call, held>>
        BY Zenon, <1>12, LockingFacts DEF TimerExpire
    <2> QED BY Zenon, <2>1 DEF Tok, Locking
<1> QED BY Zenon, <1>2, <1>3, <1>4, <1>5, <1>6, <1>7, <1>8, <1>9, <1>10, <1>11, <1>12
        DEF OwnStep, Signal

(* Only a consuming scan and mutex_unlock change the count of a mutex. *)
LEMMA CountKept ==
    ASSUME TypeInv, WaitDiscipline, NEW t \in Threads, OwnStep(t),
           ~ScanConsume(t), ~MutexUnlock(t), NEW m \in Mutexes
    PROVE  signaled_count'[m] = signaled_count[m]
<1>1. /\ m \in Objects /\ m \notin Timers /\ m \notin Semaphores
      /\ m \notin Events /\ m \notin KTimers /\ TimerOf[t] \in Timers
      /\ signaled_count \in [Objects -> Nat]
    BY Zenon, DispatchAssumption DEF Objects, Timers, TypeInv, TypeOK
<1>2. CASE signaled_count' = signaled_count
    BY Zenon, <1>2
<1>3. CASE WaitAny(t) \/ TimerExpire(t)
    BY Zenon, <1>1, <1>3 DEF WaitAny, TimerExpire
<1>4. CASE SemaphoreRelease(t) \/ TimerHandleExpiry(t) \/ EventSignalEnd(t)
    BY Zenon, <1>1, <1>4 DEF SemaphoreRelease, TimerHandleExpiry, EventSignalEnd
<1> QED BY Zenon, <1>2, <1>3, <1>4
        DEF OwnStep, Signal, EventSignal, ScanSatisfied, ScanInsert, BackOut,
            BackOutRemove, TimerStart, Commit, Sleep, TimerStop, CollectActive,
            CollectSignaled, CollectInactive, Return, SatisfyDone, Release,
            objVars

(* A signaled mutex that is taken is signaled no more. *)
LEMMA MutexConsumed ==
    ASSUME TypeInv, TokenInv, NEW m \in Mutexes, Signaled(m)
    PROVE  /\ m \in Objects
           /\ signaled_count[m] = 1
           /\ Consumed(m) = 0
           /\ \A u \in Threads : ~Tok(u, m)
<1>1. m \in Objects /\ signaled_count[m] \in Nat
    BY Zenon DEF Objects, TypeInv, TypeOK
<1>2. signaled_count[m] = 1
    BY SMTT(30), <1>1 DEF TokenInv, Signaled
<1>3. ~IsNotification(m)
    BY Zenon, DispatchAssumption DEF IsNotification
<1> QED BY <1>1, <1>2, <1>3 DEF Consumed, TokenInv

(* A scan that takes the count of a mutex keeps TokenInv. *)
LEMMA TokenConsume ==
    ASSUME TypeInv, StatusInv, TokenInv, WaitDiscipline, NEW t \in Threads,
           ScanConsume(t)
    PROVE  TokenInv'
<1>1. TypeOK /\ StatusOK(t)
    BY Zenon DEF TypeInv, StatusInv
<1>2. Alone(t)
    BY Zenon, <1>1, OwnStepAlone DEF OwnStep
<1>3. PICK o \in Objects : o = Objs(t)[i[t]]
    BY Zenon, IndexFacts DEF ScanConsume, WaitPcs
<1>4. /\ pc[t] = "scan" /\ Signaled(o)
      /\ signaled_count' = [signaled_count EXCEPT ![o] = Consumed(o)]
      /\ UNCHANGED <<call, held>>
    BY Zenon, <1>3 DEF ScanConsume
<1>5. \A m \in Mutexes \ {o} : signaled_count'[m] = signaled_count[m]
    BY Zenon, <1>1, <1>4 DEF TypeOK, Objects
<1>6. ASSUME NEW m \in Mutexes \ {o}, Tok(t, m)' PROVE Tok(t, m)
    <2>1. Locking(t) => call[t].objs[1] = o
        BY Zenon, <1>3, <1>4, LockingFacts
    <2> QED BY Zenon, <1>4, <1>6, <2>1 DEF Tok, Locking, WaitPcs
<1>7. \A m \in Mutexes, u \in Threads \ {t} : Tok(u, m)' => Tok(u, m)
    BY Zenon, <1>2 DEF Tok, Alone
<1>8. ASSUME o \in Mutexes
      PROVE  /\ signaled_count'[o] = 0
             /\ \A u \in Threads : Tok(u, o)' => u = t
    BY Zenon, <1>1, <1>4, <1>7, <1>8, MutexConsumed DEF TypeOK
<1>9. ASSUME NEW m \in Mutexes
      PROVE  /\ signaled_count'[m] <= 1
             /\ \A u \in Threads : Tok(u, m)' => signaled_count'[m] = 0
             /\ \A u, v \in Threads : Tok(u, m)' /\ Tok(v, m)' => u = v
    <2>1. CASE m = o
        BY SMTT(30), <1>8, <2>1
    <2>2. CASE m # o
        BY ZenonT(30), <1>5, <1>6, <1>7, <2>2 DEF TokenInv
    <2> QED BY Zenon, <2>1, <2>2
<1> QED BY Zenon, <1>9 DEF TokenInv

(* mutex_unlock keeps TokenInv. *)
LEMMA TokenUnlock ==
    ASSUME TypeInv, TokenInv, NEW t \in Threads, MutexUnlock(t)
    PROVE  TokenInv'
<1>1. TypeOK
    BY Zenon DEF TypeInv
<1>2. Alone(t)
    BY Zenon, <1>1, OwnStepAlone DEF OwnStep, Signal
<1>3. PICK o \in held[t] \cap Mutexes :
         /\ pc' = [pc EXCEPT ![t] = "satisfy"]
         /\ signaled_count' = [signaled_count EXCEPT ![o] = 1]
         /\ held' = [held EXCEPT ![t] = @ \ {o}]
    BY ZenonT(60) DEF MutexUnlock, Enter
<1>4. o \in Objects /\ o \in Mutexes /\ Tok(t, o)
    BY Zenon, <1>3 DEF Objects, Tok
<1>5. /\ pc'[t] = "satisfy"
      /\ held'[t] = held[t] \ {o}
      /\ signaled_count'[o] = 1
      /\ \A m \in Mutexes \ {o} : signaled_count'[m] = signaled_count[m]
    BY Zenon, <1>1, <1>3, <1>4 DEF TypeOK, Objects
<1>6. \A m \in Mutexes, u \in Threads \ {t} : Tok(u, m)' => Tok(u, m)
    BY Zenon, <1>2 DEF Tok, Alone
<1>7. \A m \in Mutexes : Tok(t, m)' => Tok(t, m) /\ m # o
    BY Zenon, <1>5 DEF Tok, WaitPcs
<1>8. \A u \in Threads : ~Tok(u, o)'
    BY Zenon, <1>4, <1>6, <1>7 DEF TokenInv
<1>9. ASSUME NEW m \in Mutexes
      PROVE  /\ signaled_count'[m] <= 1
             /\ \A u \in Threads : Tok(u, m)' => signaled_count'[m] = 0
             /\ \A u, v \in Threads : Tok(u, m)' /\ Tok(v, m)' => u = v
    <2>1. CASE m = o
        BY SMTT(30), <1>5, <1>8, <2>1
    <2>2. CASE m # o
        BY SMTT(30), <1>5, <1>6, <1>7, <2>2 DEF TokenInv
    <2> QED BY Zenon, <2>1, <2>2
<1> QED BY Zenon, <1>9 DEF TokenInv

(* What a delivery by t changes for the owners of mutexes. *)
LEMMA DeliverToken ==
    ASSUME TypeInv, QueueInv, StatusInv, WaitDiscipline, NEW t \in Threads,
           NEW o \in Objects, NEW v \in Threads, NEW k \in WaitBlocks,
           Satisfy(t), Pops(t, o, v, k)
    PROVE  /\ \A m \in Mutexes, u \in Threads :
                 Tok(u, m)' => \/ Tok(u, m)
                               \/ m = o /\ u = v /\ wait_status[v] # "satisfied"
           /\ \A m \in Mutexes, u \in Threads : Tok(u, m) => Tok(u, m)'
           /\ o \in Mutexes /\ wait_status[v] # "satisfied" => Tok(v, o)'
<1>1. TypeOK /\ StatusOK(v) /\ IndexOK(v)
    BY Zenon DEF TypeInv, StatusInv, IndexInv
<1>2. Linked(o, v, k) /\ k \in Nat /\ 1 <= k
    BY DEF Pops, WaitBlocks, INTERNAL_WAITBLOCKS_N
<1>3. \/ wait_status[v] # "satisfied" /\ wb' = [wb EXCEPT ![v][k] = "signaled"]
      \/ wait_status[v] = "satisfied" /\ wb' = [wb EXCEPT ![v][k] = "inactive"]
    BY Zenon DEF Pops
<1>4. pc[t] = "satisfy" /\ UNCHANGED <<call, satisfier, held>>
    BY ZenonT(60) DEF Satisfy
<1>5. pc'[t] \in {"satisfy", "release"} /\ \A u \in Threads \ {t} : pc'[u] = pc[u]
    <2>1. pc' = pc \/ pc' = [pc EXCEPT ![t] = "release"]
        BY Zenon DEF Pops, Delivered
    <2> QED BY Zenon, <1>1, <1>4, <2>1 DEF TypeOK
<1>6. v # t
    BY Zenon, <1>2, <1>4 DEF Linked, LinkPcs, WaitPcs
<1>7. \A u \in Threads, l \in WaitBlocks : u # v \/ l # k => wb'[u][l] = wb[u][l]
    BY SMTT(30), <1>1, <1>3 DEF TypeOK
<1>8. 1 \in WaitBlocks
    BY DEF WaitBlocks, INTERNAL_WAITBLOCKS_N
<1>9. \A m \in Mutexes : Tok(t, m)' <=> Tok(t, m)
    BY Zenon, <1>4, <1>5 DEF Tok, WaitPcs
<1>10. \A m \in Mutexes, u \in Threads \ {t, v} : Tok(u, m)' <=> Tok(u, m)
    BY ZenonT(30), <1>4, <1>5, <1>7, <1>8 DEF Tok
<1>11. Locking(v) => k = 1 /\ call[v].objs[1] = o /\ wb[v][1] = "active"
    <2>1. Locking(v) => Len(Objs(v)) = 1 /\ Objs(v) = call[v].objs
        BY Zenon, LockingFacts DEF Single
    <2>2. Len(Objs(v)) = 1 => k = 1
        BY SMTT(30), <1>2 DEF Linked
    <2> QED BY Zenon, <1>2, <2>1, <2>2 DEF Linked
<1>12. \A m \in Mutexes : Tok(v, m) => Tok(v, m)'
    BY Zenon, <1>4, <1>5, <1>6, <1>11 DEF Tok, Locking
<1>13. ASSUME NEW m \in Mutexes, Tok(v, m)', ~Tok(v, m)
       PROVE  m = o /\ wait_status[v] # "satisfied"
    <2>1. Locking(v) /\ call[v].objs[1] = m /\ wb'[v][1] = "signaled"
        BY Zenon, <1>4, <1>5, <1>6, <1>13 DEF Tok, Locking
    <2>2. m = o /\ k = 1
        BY Zenon, <1>11, <2>1
    <2>3. wait_status[v] = "satisfied" => wb'[v][1] = "inactive"
        BY <1>1, <1>3, <1>8, <2>2 DEF TypeOK
    <2> QED BY Zenon, <2>1, <2>2, <2>3
<1>14. ASSUME o \in Mutexes, wait_status[v] # "satisfied"
       PROVE  Tok(v, o)'
    <2>1. call[v] \in Waits[v] /\ Objs(v)[k] \in Mutexes /\ k <= Len(Objs(v))
        BY Zenon, <1>1, <1>2, <1>14 DEF Linked, IndexOK, LinkPcs
    <2>2. call[v].fn = "mutex_lock"
        BY Zenon, <2>1, MutexWait DEF Objs
    <2>3. Locking(v)
        BY Zenon, <1>1, <1>2, <2>2 DEF Locking, Linked, LinkPcs, StatusOK
    <2>4. pc[v] \in {"commit", "sleep", "collect"}
        <3>1. Len(Objs(v)) = 1 /\ call[v].timeout = "forever"
              /\ pc[v] \notin {"timer_start", "timer_stop"}
              /\ (pc[v] = "scan" => i[v] = 1)
            BY Zenon, <2>3, LockingFacts DEF Single
        <3>2. pc[v] # "scan"
            BY <1>2, <3>1 DEF Linked
        <3>3. satisfier[v] \in Nat /\ i[v] \in Nat
            BY SMTT(30), <1>1 DEF TypeOK
        <3>4. satisfier[v] <= 1
            BY Zenon, <1>1, <2>3, <3>1 DEF IndexOK, Locking
        <3>5. pc[v] # "check"
            <4>1. pc[v] = "check" => satisfier[v] # 0
                BY Zenon, <1>1, <3>1 DEF StatusOK
            <4> QED BY <1>2, <3>3, <3>4, <4>1 DEF Linked
        <3>6. pc[v] # "backout"
            BY SMTT(30), <1>2, <3>3, <3>4 DEF Linked
        <3> QED BY Zenon, <1>2, <2>3, <3>1, <3>2, <3>5, <3>6
                DEF Linked, LinkPcs, Locking, WaitPcs
    <2>5. wb'[v][1] = "signaled"
        BY <1>1, <1>3, <1>8, <1>11, <1>14, <2>3 DEF TypeOK
    <2>6. pc'[v] = pc[v] /\ call' = call
        BY Zenon, <1>4, <1>5, <1>6
    <2>7. pc'[v] \in WaitPcs /\ call'[v].fn = "mutex_lock"
        BY Zenon, <2>3, <2>6 DEF Locking
    <2>8. call'[v].objs[1] = o
        BY Zenon, <1>11, <2>3, <2>6
    <2>9. pc'[v] \in {"commit", "sleep", "collect"}
        BY Zenon, <2>4, <2>6
    <2> QED BY Zenon, <2>5, <2>7, <2>8, <2>9 DEF Tok
<1> QED BY Zenon, <1>9, <1>10, <1>12, <1>13, <1>14

(* Handing a mutex to a waiter keeps TokenInv. *)
LEMMA TokenSatisfy ==
    ASSUME TypeInv, QueueInv, StatusInv, TokenInv, WaitDiscipline,
           NEW t \in Threads, Satisfy(t)
    PROVE  TokenInv'
<1>1. PICK o \in Objects, v \in Threads, k \in WaitBlocks : Pops(t, o, v, k)
    BY Zenon, PopFacts
<1>2. /\ Signaled(o)
      /\ \/ /\ wait_status[v] # "satisfied"
            /\ signaled_count' = [signaled_count EXCEPT ![o] = Consumed(o)]
         \/ /\ wait_status[v] = "satisfied"
            /\ signaled_count' = signaled_count
    BY Zenon, <1>1 DEF Satisfy, Pops, Delivered
<1>3. signaled_count \in [Objects -> Nat]
    BY Zenon DEF TypeInv, TypeOK
<1>4. \A m \in Mutexes, u \in Threads :
          Tok(u, m)' => Tok(u, m) \/ (m = o /\ u = v /\ wait_status[v] # "satisfied")
    BY Zenon, <1>1, DeliverToken
<1>5. ASSUME NEW m \in Mutexes
      PROVE  /\ signaled_count'[m] <= 1
             /\ \A u \in Threads : Tok(u, m)' => signaled_count'[m] = 0
             /\ \A u, w \in Threads : Tok(u, m)' /\ Tok(w, m)' => u = w
    <2>1. CASE m = o /\ wait_status[v] # "satisfied"
        <3>1. signaled_count'[m] = 0 /\ \A u \in Threads : ~Tok(u, m)
            BY Zenon, <1>2, <1>3, <2>1, MutexConsumed
        <3> QED BY <1>4, <3>1
    <2>2. CASE ~(m = o /\ wait_status[v] # "satisfied")
        <3>1. signaled_count'[m] = signaled_count[m]
            BY Zenon, <1>2, <1>3, <2>2 DEF Objects
        <3> QED BY Zenon, <1>4, <2>2, <3>1 DEF TokenInv
    <2> QED BY Zenon, <2>1, <2>2
<1> QED BY Zenon, <1>5 DEF TokenInv

(* Every step keeps TokenInv. *)
LEMMA TokenNext ==
    ASSUME TypeInv, QueueInv, StatusInv, TokenInv, WaitDiscipline, [Next]_vars
    PROVE  TokenInv'
<1>1. CASE UNCHANGED vars
    <2>1. UNCHANGED <<signaled_count, held, pc, call, satisfier, wb>>
        BY Zenon, <1>1 DEF vars, objVars, waitVars
    <2>2. \A t \in Threads, m \in Mutexes : Tok(t, m)' <=> Tok(t, m)
        BY Zenon, <2>1 DEF Tok
    <2> QED BY Zenon, <2>1, <2>2 DEF TokenInv
<1>2. ASSUME NEW t \in Threads, OwnStep(t), ~ScanConsume(t), ~MutexUnlock(t)
      PROVE  TokenInv'
    <2>1. Alone(t)
        BY Zenon, <1>2, OwnStepAlone DEF TypeInv
    <2>2. \A m \in Mutexes : /\ signaled_count'[m] = signaled_count[m]
                             /\ Tok(t, m)' => Tok(t, m)
        BY Zenon, <1>2, CountKept, TokenKept
    <2> QED BY Zenon, <2>1, <2>2, TokenFrame
<1>3. CASE Next
    BY Zenon, <1>2, <1>3, TokenConsume, TokenUnlock, TokenSatisfy DEF Next, Kernel, OwnStep
<1> QED BY Zenon, <1>1, <1>3

-----------------------------------------------------------------------------
(* A thread gives its mutex back in mutex_unlock only. *)
LEMMA TokenStays ==
    ASSUME TypeInv, StatusInv, WaitDiscipline, NEW t \in Threads, OwnStep(t),
           ~MutexUnlock(t), NEW m \in Mutexes, Tok(t, m)
    PROVE  Tok(t, m)'
<1>1. TypeOK /\ StatusOK(t) /\ m \notin Semaphores
    BY Zenon, DispatchAssumption DEF TypeInv, StatusInv
<1>2. m \in held[t] => m \in held'[t]
    <2>1. CASE held' = held
        BY Zenon, <2>1
    <2>2. CASE SemaphoreRelease(t) \/ Return(t)
        BY <1>1, <2>2 DEF SemaphoreRelease, Return, TypeOK
    <2> QED BY Zenon, <2>1, <2>2
            DEF OwnStep, Signal, WaitAny, TimerExpire, EventSignal,
                TimerHandleExpiry, ScanConsume, ScanSatisfied, ScanInsert,
                BackOut, BackOutRemove, TimerStart, Commit, Sleep, TimerStop,
                CollectActive, CollectSignaled, CollectInactive, SatisfyDone,
                Release, EventSignalEnd
<1>3. SUFFICES ASSUME m \notin held[t] PROVE Tok(t, m)'
    BY Zenon, <1>2 DEF Tok
<1>4. /\ Locking(t)
      /\ call[t].objs[1] = m
      /\ \/ satisfier[t] = 1
         \/ pc[t] \in {"commit", "sleep", "collect"} /\ wb[t][1] = "signaled"
    BY Zenon, <1>3 DEF Tok, Locking
<1>5. /\ Single(t) /\ call[t].timeout = "forever" /\ t \notin pending
      /\ pc[t] \notin {"timer_start", "timer_stop"}
    BY Zenon, <1>4, LockingFacts
<1>6. pc[t] \in {"check", "backout", "commit", "sleep", "collect", "return"}
    BY <1>1, <1>4, <1>5 DEF StatusOK, Locking, WaitPcs
<1>7. CASE BackOut(t) \/ BackOutRemove(t)
    <2>1. pc[t] \in {"check", "backout"} /\ satisfier[t] = 1
        BY Zenon, <1>4, <1>7 DEF BackOut, BackOutRemove
    <2>2. UNCHANGED <<call, satisfier>>
        BY Zenon, <1>7 DEF BackOut, BackOutRemove
    <2>3. pc'[t] \in WaitPcs
        <3>1. StatusOK(t)'
            BY Zenon, <1>7, StatusFinish
        <3>2. pc'[t] \in WaitPcs \cup {"panic", "corrupted"}
            BY ZenonT(30), <1>1, <1>7 DEF BackOut, BackOutRemove, Unlink, TypeOK, WaitPcs
        <3> QED BY Zenon, <1>4, <2>2, <3>1, <3>2 DEF StatusOK, Locking
    <2> QED BY Zenon, <1>4, <2>1, <2>2, <2>3 DEF Tok, Locking
<1>8. CASE Commit(t) \/ Sleep(t)
    <2>1. /\ pc'[t] \in {"sleep", "collect"}
          /\ UNCHANGED <<call, satisfier, wb>>
        BY Zenon, <1>1, <1>5, <1>8 DEF Commit, Sleep, AfterWait, TypeOK
    <2> QED BY Zenon, <1>4, <2>1 DEF Tok, Locking, WaitPcs
<1>9. CASE CollectActive(t) \/ CollectSignaled(t) \/ CollectInactive(t)
    <2>1. pc[t] = "collect" /\ i[t] = 1 /\ wb[t][1] = "signaled" /\ satisfier[t] = 0
        <3>1. pc[t] = "collect"
            BY Zenon, <1>9 DEF CollectActive, CollectSignaled, CollectInactive
        <3> QED BY Zenon, <1>1, <1>4, <1>5, <3>1, LockingFacts DEF StatusOK
    <2>2. /\ satisfier'[t] = 1 /\ call' = call
          /\ pc'[t] = AfterCollect(t)
        BY ZenonT(30), <1>1, <1>9, <2>1
        DEF CollectActive, CollectSignaled, CollectInactive, TypeOK
    <2> QED BY Zenon, <1>4, <2>2 DEF Tok, Locking, WaitPcs, AfterCollect
<1>10. CASE Return(t)
    <2>1. m \in held'[t]
        BY Zenon, <1>1, <1>4, <1>10 DEF Return, TypeOK, Locking
    <2> QED BY Zenon, <2>1 DEF Tok
<1> QED BY ZenonT(30), <1>5, <1>6, <1>7, <1>8, <1>9, <1>10
        DEF OwnStep, Signal, WaitAny, TimerExpire, SemaphoreRelease, EventSignal,
            TimerHandleExpiry, Enter, ScanConsume, ScanSatisfied, ScanInsert,
            TimerStart, TimerStop, SatisfyDone, Release, EventSignalEnd

(* Under the lock of a mutex no other thread changes its count, *)
LEMMA LockedCount ==
    ASSUME TypeInv, WaitDiscipline, NEW s \in Threads, NEW t \in Threads \ {s},
           NEW o \in Mutexes, lock[o] = s, SignalOK(t), OwnStep(t) \/ Satisfy(t)
    PROVE  signaled_count'[o] = signaled_count[o]
<1>1. /\ NoThread \notin Threads /\ o \in Objects
      /\ signaled_count \in [Objects -> Nat]
    BY Zenon, DispatchAssumption DEF TypeInv, TypeOK, Objects
<1>2. CASE ScanConsume(t)
    <2>1. PICK p \in Objects : p = Objs(t)[i[t]]
        BY Zenon, <1>2, IndexFacts DEF ScanConsume, WaitPcs
    <2>2. lock[p] = NoThread
          /\ signaled_count' = [signaled_count EXCEPT ![p] = Consumed(p)]
        BY Zenon, <1>2, <2>1 DEF ScanConsume
    <2> QED BY Zenon, <1>1, <2>2
<1>3. CASE MutexUnlock(t)
    BY Zenon, <1>1, <1>3 DEF MutexUnlock, Enter
<1>4. CASE Satisfy(t)
    <2>1. lock[obj[t]] = t
        BY Zenon, <1>4 DEF Satisfy, SignalOK, SignalPcs
    <2>2. \/ signaled_count' = signaled_count
          \/ signaled_count' = [signaled_count EXCEPT ![obj[t]] = Consumed(obj[t])]
        BY Zenon, <1>4 DEF Satisfy, Delivered
    <2> QED BY Zenon, <1>1, <2>1, <2>2
<1> QED BY Zenon, <1>2, <1>3, <1>4, CountKept

(* and no token of it goes away. *)
LEMMA LockedToken ==
    ASSUME TypeInv, QueueInv, StatusInv, WaitDiscipline,
           NEW s \in Threads, NEW t \in Threads \ {s}, NEW o \in Mutexes,
           lock[o] = s, OwnStep(t) \/ Satisfy(t), NEW r \in Threads, Tok(r, o)
    PROVE  Tok(r, o)'
<1>1. CASE Satisfy(t)
    <2>1. PICK p \in Objects, v \in Threads, k \in WaitBlocks : Pops(t, p, v, k)
        BY Zenon, <1>1, PopFacts
    <2> QED BY Zenon, <1>1, <2>1, DeliverToken
<1>2. CASE OwnStep(t) /\ r # t
    <2>1. Alone(t)
        BY Zenon, <1>2, OwnStepAlone DEF TypeInv
    <2> QED BY Zenon, <1>2, <2>1 DEF Tok, Alone
<1>3. CASE OwnStep(t) /\ r = t /\ ~MutexUnlock(t)
    BY Zenon, <1>3, TokenStays
<1>4. CASE r = t /\ MutexUnlock(t)
    <2>1. PICK p \in held[t] \cap Mutexes :
             /\ lock[p] = NoThread /\ pc[t] = "run"
             /\ held' = [held EXCEPT ![t] = @ \ {p}]
        BY Zenon, <1>4 DEF MutexUnlock, Enter
    <2>2. p # o
        BY Zenon, <2>1, DispatchAssumption
    <2>3. o \in held[t]
        BY Zenon, <1>4, <2>1 DEF Tok, WaitPcs
    <2>4. o \in held'[t]
        BY Zenon, <2>1, <2>2, <2>3 DEF TypeInv, TypeOK
    <2> QED BY Zenon, <1>4, <2>4 DEF Tok
<1> QED BY Zenon, <1>1, <1>2, <1>3, <1>4

(* A step of one thread keeps SignalOK of another. *)
LEMMA SignalOther ==
    ASSUME TypeInv, QueueInv, StatusInv, WaitDiscipline, OwnerInv,
           NEW s \in Threads, NEW t \in Threads \ {s}, OwnStep(t) \/ Satisfy(t)
    PROVE  SignalOK(s)'
<1>1. TypeOK /\ SignalOK(s) /\ SignalOK(t)
    BY Zenon DEF TypeInv, OwnerInv
<1>2. pc'[s] = pc[s] /\ obj'[s] = obj[s] /\ ret'[s] = ret[s]
    <2>1. pc'[s] = pc[s] /\ obj'[s] = obj[s]
        BY Zenon, <1>1, SignalAlone
    <2>2. ret' = ret \/ \E x : ret' = [ret EXCEPT ![t] = x]
        BY ZenonT(60) DEF OwnStep, Signal, MutexUnlock, SemaphoreRelease, EventSignal,
               TimerHandleExpiry, Enter, WaitAny, TimerExpire, ScanConsume,
               ScanSatisfied, ScanInsert, BackOut, BackOutRemove, TimerStart,
               Commit, Sleep, TimerStop, CollectActive, CollectSignaled,
               CollectInactive, Return, SatisfyDone, Release, EventSignalEnd,
               Satisfy, Delivered, sigVars
    <2> QED BY Zenon, <1>1, <2>1, <2>2 DEF TypeOK
<1>3. SUFFICES ASSUME pc[s] \in SignalPcs PROVE SignalOK(s)'
    BY Zenon, <1>2 DEF SignalOK
<1>4. PICK o \in Objects : o = obj[s]
    BY Zenon, <1>1 DEF TypeOK
<1>5. lock[o] = s
    BY Zenon, <1>1, <1>3, <1>4 DEF SignalOK
<1>6. lock'[o] = s
    <2>1. pc[t] \in SignalPcs => lock[obj[t]] = t
        BY Zenon, <1>1 DEF SignalOK
    <2> QED BY Zenon, <1>1, <1>5, <2>1, LockKept
<1>7. o \in Mutexes => signaled_count'[o] = signaled_count[o]
    BY Zenon, <1>1, <1>5, LockedCount
<1>8. o \in Mutexes => \A r \in Threads : Tok(r, o) => Tok(r, o)'
    BY Zenon, <1>5, LockedToken
<1>9. PICK r \in Threads \cup {NoThread} : r = ret[s]
    BY Zenon, <1>1 DEF TypeOK
<1>10. o \in Mutexes => IF pc[s] = "release" /\ r # NoThread
                        THEN Tok(r, o)' ELSE signaled_count'[o] = 1
    BY Zenon, <1>1, <1>3, <1>4, <1>7, <1>8, <1>9 DEF SignalOK
<1>11. obj'[s] = o /\ ret'[s] = r
    BY Zenon, <1>2, <1>4, <1>9
<1> QED BY Zenon, <1>2, <1>6, <1>10, <1>11 DEF SignalOK

(* A step of a thread keeps its own SignalOK. *)
LEMMA SignalSelf ==
    ASSUME TypeInv, QueueInv, StatusInv, TokenInv, WaitDiscipline, OwnerInv,
           NEW t \in Threads, OwnStep(t) \/ Satisfy(t)
    PROVE  SignalOK(t)'
<1>1. TypeOK /\ SignalOK(t) /\ obj[t] \in Objects
    BY Zenon DEF TypeInv, TypeOK, OwnerInv
<1>2. CASE MutexUnlock(t)
    <2>1. PICK m \in Mutexes :
             /\ lock' = [lock EXCEPT ![m] = t]
             /\ obj' = [obj EXCEPT ![t] = m]
             /\ pc' = [pc EXCEPT ![t] = "satisfy"]
             /\ signaled_count' = [signaled_count EXCEPT ![m] = 1]
        BY Zenon, <1>2 DEF MutexUnlock, Enter
    <2>2. /\ lock'[m] = t /\ obj'[t] = m /\ pc'[t] = "satisfy"
          /\ signaled_count'[m] = 1
        BY Zenon, <1>1, <2>1 DEF TypeOK, Objects
    <2> QED BY Zenon, <2>2 DEF SignalOK
<1>3. CASE SemaphoreRelease(t) \/ EventSignal(t) \/ TimerHandleExpiry(t)
    <2>1. PICK p \in Semaphores \cup Events \cup KTimers : Enter(t, p)
        BY Zenon, <1>3 DEF SemaphoreRelease, EventSignal, TimerHandleExpiry
    <2>2. p \in Objects /\ p \notin Mutexes
        BY Zenon, <2>1, DispatchAssumption DEF Objects
    <2>3. lock'[p] = t /\ obj'[t] = p
        BY Zenon, <1>1, <2>1, <2>2 DEF Enter, TypeOK
    <2> QED BY Zenon, <2>2, <2>3 DEF SignalOK
<1>4. CASE SatisfyDone(t)
    <2>1. /\ pc[t] = "satisfy" /\ pc'[t] = "release" /\ ret'[t] = NoThread
          /\ UNCHANGED <<obj, lock, signaled_count>>
        BY Zenon, <1>1, <1>4 DEF SatisfyDone, TypeOK, objVars
    <2> QED BY Zenon, <1>1, <2>1 DEF SignalOK, SignalPcs
<1>5. CASE Satisfy(t)
    <2>1. PICK o \in Objects, v \in Threads, k \in WaitBlocks : Pops(t, o, v, k)
        BY Zenon, <1>5, PopFacts
    <2>2. /\ o = obj[t] /\ pc[t] = "satisfy" /\ UNCHANGED <<obj, lock>>
        BY Zenon, <1>5, <2>1 DEF Satisfy, Pops
    <2>3. CASE wait_status[v] # "satisfied" /\ ~IsNotification(o)
        <3>1. pc'[t] = "release" /\ ret'[t] = v
            BY <1>1, <2>1, <2>3 DEF Pops, Delivered, TypeOK
        <3>2. o \in Mutexes => Tok(v, o)'
            BY Zenon, <1>5, <2>1, <2>3, DeliverToken
        <3>3. obj'[t] = o /\ lock'[o] = t
            BY Zenon, <1>1, <2>2 DEF SignalOK, SignalPcs
        <3>4. v # NoThread
            BY Zenon, DispatchAssumption
        <3> QED BY Zenon, <3>1, <3>2, <3>3, <3>4 DEF SignalOK
    <2>4. CASE wait_status[v] # "satisfied" /\ IsNotification(o)
        <3>1. o \notin Mutexes
            BY Zenon, <2>4, DispatchAssumption DEF IsNotification
        <3> QED BY Zenon, <1>1, <2>2, <3>1 DEF SignalOK, SignalPcs
    <2>5. CASE wait_status[v] = "satisfied"
        <3>1. UNCHANGED <<signaled_count, pc, ret>>
            BY Zenon, <2>1, <2>5 DEF Pops
        <3> QED BY Zenon, <1>1, <2>2, <3>1 DEF SignalOK, SignalPcs
    <2> QED BY Zenon, <2>3, <2>4, <2>5
<1>6. CASE pc'[t] \notin SignalPcs
    BY Zenon, <1>6 DEF SignalOK
<1>7. CASE \/ WaitAny(t) \/ TimerExpire(t) \/ ScanConsume(t)
           \/ ScanSatisfied(t) \/ ScanInsert(t) \/ BackOut(t)
           \/ BackOutRemove(t) \/ TimerStart(t) \/ Commit(t) \/ Sleep(t)
           \/ TimerStop(t) \/ CollectActive(t) \/ CollectSignaled(t)
           \/ CollectInactive(t)
    <2>2. CASE ~TimerExpire(t)
        <3>1. call[t].timeout \in {"forever", "zero", "finite"}
            BY Zenon, <1>1 DEF TypeOK, WaitCall, Timeouts
        <3>2. pc'[t] \notin SignalPcs
            BY ZenonT(60), <1>1, <1>7, <2>2, <3>1
            DEF WaitAny, ScanConsume, ScanSatisfied, ScanInsert, BackOut,
                BackOutRemove, TimerStart, Commit, Sleep, TimerStop,
                CollectActive, CollectSignaled, CollectInactive, Unlink,
                AfterWait, AfterCollect, TypeOK, SignalPcs
        <3> QED BY Zenon, <1>6, <3>2
    <2>3. CASE TimerExpire(t)
        <3>1. pc'[t] \notin SignalPcs
            BY Zenon, <2>3, PendingFacts DEF TimerExpire, SignalPcs
        <3> QED BY <1>6, <3>1
    <2> QED BY Zenon, <2>2, <2>3
<1>8. CASE Return(t) \/ Release(t) \/ EventSignalEnd(t)
    BY Zenon, <1>1, <1>6, <1>8 DEF Return, Release, EventSignalEnd, TypeOK, SignalPcs
<1> QED BY Zenon, <1>2, <1>3, <1>4, <1>5, <1>7, <1>8 DEF OwnStep, Signal

(* mutex.owner is written by the thread that locked or by the one that     *)
(* hands over, and both write the same.                                    *)
LEMMA OwnerStep ==
    ASSUME TypeInv, QueueInv, StatusInv, TokenInv, WaitDiscipline, OwnerInv,
           NEW t \in Threads, OwnStep(t) \/ Satisfy(t)
    PROVE  OwnerIsHolder'
<1>1. /\ TypeOK /\ SignalOK(t) /\ StatusOK(t) /\ OwnerIsHolder
      /\ owner \in [Mutexes -> Threads \cup {NoThread}]
    BY SMTT(30) DEF TypeInv, TypeOK, OwnerInv, StatusInv
<1>2. ASSUME owner' = owner, \A u \in Threads : held'[u] \subseteq held[u]
      PROVE  OwnerIsHolder'
    BY Zenon, <1>1, <1>2 DEF OwnerIsHolder
<1>3. CASE held' = held /\ owner' = owner
    BY Zenon, <1>2, <1>3
<1>4. CASE MutexUnlock(t) \/ SemaphoreRelease(t)
    <2>1. owner' = owner /\ \E x : held' = [held EXCEPT ![t] = @ \ {x}]
        BY Zenon, <1>4 DEF MutexUnlock, SemaphoreRelease
    <2>2. \A u \in Threads : held'[u] \subseteq held[u]
        BY <1>1, <2>1 DEF TypeOK
    <2> QED BY Zenon, <1>2, <2>1, <2>2
<1>5. CASE Return(t)
    <2>1. pc[t] = "return" /\ call[t] \in Waits[t]
        BY Zenon, <1>5, IndexFacts DEF Return, WaitPcs
    <2>2. /\ call[t].fn \in WaitFns /\ Mutexes \cap Semaphores = {}
          /\ (call[t].fn = "semaphore_acquire" => call[t].objs[1] \in Semaphores)
        BY <2>1, DispatchAssumption DEF WaitCall
    <2>3. /\ \A u \in Threads \ {t} : held'[u] = held[u]
          /\ \A m \in Mutexes : m \in held'[t] =>
                m \in held[t] \/ (call[t].fn = "mutex_lock" /\ m = call[t].objs[1])
        BY Zenon, <1>1, <1>5, <2>2 DEF Return, TypeOK, WaitFns
    <2>4. CASE call[t].fn # "mutex_lock"
        <3>1. owner' = owner
            BY Zenon, <1>5, <2>4 DEF Return
        <3> QED BY Zenon, <1>1, <2>3, <2>4, <3>1 DEF OwnerIsHolder
    <2>5. CASE call[t].fn = "mutex_lock"
        <3>1. Locking(t)
            BY Zenon, <2>1, <2>5 DEF Locking, WaitPcs
        <3>2. PICK m \in Mutexes : m = call[t].objs[1]
            BY Zenon, <3>1, LockingFacts
        <3>3. satisfier[t] = 1
            BY Zenon, <1>1, <2>1, <3>1, LockingFacts DEF StatusOK
        <3>4. Tok(t, m)
            BY Zenon, <3>1, <3>2, <3>3 DEF Tok, Locking
        <3>5. owner' = [owner EXCEPT ![m] = t]
            BY Zenon, <1>5, <2>5, <3>2 DEF Return
        <3>6. \A u \in Threads \ {t} : m \notin held[u]
            BY Zenon, <3>4 DEF TokenInv, Tok
        <3> QED BY <1>1, <2>3, <3>2, <3>5, <3>6 DEF OwnerIsHolder
    <2> QED BY Zenon, <2>4, <2>5
<1>6. CASE Release(t)
    <2>1. held' = held /\ pc[t] = "release"
        BY Zenon, <1>6 DEF Release
    <2>2. CASE obj[t] \notin Mutexes
        BY Zenon, <1>3, <1>6, <2>1, <2>2 DEF Release
    <2>3. CASE obj[t] \in Mutexes
        <3>1. owner' = [owner EXCEPT ![obj[t]] = ret[t]]
            BY Zenon, <1>6, <2>3 DEF Release
        <3>2. ASSUME NEW r \in Threads, obj[t] \in held[r]
              PROVE  ret[t] = r
            <4>1. Tok(r, obj[t]) /\ signaled_count[obj[t]] = 0
                BY Zenon, <2>3, <3>2 DEF TokenInv, Tok
            <4>2. ret[t] \in Threads /\ Tok(ret[t], obj[t])
                BY <1>1, <2>1, <2>3, <4>1 DEF SignalOK, SignalPcs, TypeOK
            <4> QED BY Zenon, <2>3, <4>1, <4>2 DEF TokenInv
        <3> QED BY Zenon, <1>1, <2>1, <2>3, <3>1, <3>2 DEF OwnerIsHolder
    <2> QED BY Zenon, <2>2, <2>3
<1> QED BY ZenonT(30), <1>3, <1>4, <1>5, <1>6
        DEF OwnStep, Signal, EventSignal, TimerHandleExpiry, WaitAny, TimerExpire,
            ScanConsume, ScanSatisfied, ScanInsert, BackOut, BackOutRemove,
            TimerStart, Commit, Sleep, TimerStop, CollectActive, CollectSignaled,
            CollectInactive, SatisfyDone, EventSignalEnd, Satisfy, objVars

(* Every step keeps OwnerInv. *)
LEMMA OwnerNext ==
    ASSUME TypeInv, QueueInv, StatusInv, TokenInv, WaitDiscipline, OwnerInv,
           [Next]_vars
    PROVE  OwnerInv'
<1>1. CASE UNCHANGED vars
    BY Zenon, <1>1 DEF vars, objVars, waitVars, sigVars, OwnerInv, OwnerIsHolder,
                SignalOK, Tok
<1>2. CASE Next
    <2>1. PICK t \in Threads : OwnStep(t) \/ Satisfy(t)
        BY Zenon, <1>2 DEF Next, Kernel, OwnStep
    <2>2. \A s \in Threads \ {t} : SignalOK(s)'
        BY Zenon, <2>1, SignalOther
    <2> QED BY Zenon, <2>1, <2>2, SignalSelf, OwnerStep DEF OwnerInv
<1> QED BY Zenon, <1>1, <1>2

-----------------------------------------------------------------------------
(* The inductive invariant. *)
SafetyInv == TypeInv /\ QueueInv /\ StatusInv /\ TokenInv /\ OwnerInv

(* SafetyInv holds at the start. *)
LEMMA SafetyInit == Init => SafetyInv
<1> SUFFICES ASSUME Init PROVE SafetyInv
    OBVIOUS
<1>1. TypeInv
    BY Zenon, TypeInit
<1>2. QueueInv
    <2>1. Distinct(<<>>) /\ ToSet(<<>>) = {}
        BY SMTT(30) DEF Distinct, ToSet
    <2> QED BY Zenon, <2>1 DEF Init, QueueInv
<1>3. StatusInv
    BY Zenon DEF Init, StatusInv, StatusOK, Single, WaitPcs
<1>4. TokenInv
    <2>1. \A m \in Mutexes : signaled_count[m] = 1
        BY SMTT(30) DEF Init, Objects
    <2>2. \A m \in Mutexes, t \in Threads : ~Tok(t, m)
        BY SMTT(30) DEF Init, Tok, WaitPcs
    <2> QED BY <2>1, <2>2 DEF TokenInv
<1>5. OwnerInv
    BY Zenon DEF Init, OwnerInv, OwnerIsHolder, SignalOK, SignalPcs
<1> QED BY Zenon, <1>1, <1>2, <1>3, <1>4, <1>5 DEF SafetyInv

(* Every step keeps SafetyInv. *)
LEMMA SafetyNext == WaitDiscipline /\ SafetyInv /\ [Next]_vars => SafetyInv'
BY Zenon, TypeNext, QueueNext, StatusNext, TokenNext, OwnerNext DEF SafetyInv

(* Under WaitDiscipline SafetyInv always holds. *)
LEMMA Safety == ASSUME WaitDiscipline PROVE Spec => []SafetyInv
<1>1. SafetyInv /\ [Next]_vars => SafetyInv'
    BY Zenon, SafetyNext
<1> QED BY <1>1, SafetyInit, PTL DEF Spec

(* Two threads are never both between mutex_lock and mutex_unlock of one   *)
(* mutex, whatever else the threads wait for and signal.                   *)
THEOREM MutexExcludes == ASSUME WaitDiscipline PROVE Spec => []MutualExclusion
<1>1. SafetyInv => MutualExclusion
    BY Zenon DEF SafetyInv, TokenInv, Tok, MutualExclusion
<1> QED BY <1>1, Safety, PTL

(* mutex.owner names the thread inside the mutex, although mutex_lock and  *)
(* mutex_unlock write it under different locks.                            *)
THEOREM MutexOwned == ASSUME WaitDiscipline PROVE Spec => []OwnerIsHolder
<1>1. SafetyInv => OwnerIsHolder
    BY SMTT(30) DEF SafetyInv, OwnerInv
<1> QED BY <1>1, Safety, PTL
=============================================================================
