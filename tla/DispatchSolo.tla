---------------------------- MODULE DispatchSolo ----------------------------
(***************************************************************************)
(* A wait for one object, with or without a timeout: of its two waitblocks *)
(* (the object's and the timer's) exactly one takes the signal that        *)
(* satisfies the wait, and whatever wait_any unlinks is linked (SoloInv).  *)
(***************************************************************************)
EXTENDS DispatchProofs

(* Every wait is for one object, with or without a timeout; none is a poll. *)
SoloWaits ==
    \A t \in Threads : \A w \in Waits[t] : Len(w.objs) = 1 /\ w.timeout # "zero"

(* The steps at which the waitblocks of t hang on their objects, and the   *)
(* waitblocks it has hung so far.                                          *)
HangPcs == {"scan", "timer_start", "commit", "sleep", "timer_stop", "collect"}

Hung(t) == {k \in 1..Len(Objs(t)) : pc[t] = "scan" => k < i[t]}

(* Waitblock k took the signal that satisfied the wait, and no other did;  *)
(* the loop that collects has passed it or has yet to reach it.            *)
Took(t, k) ==
    /\ k \in Hung(t)
    /\ wb[t][k] = "signaled"
    /\ \A j \in Hung(t) : wb[t][j] = "signaled" => j = k
    /\ pc[t] = "collect" => IF satisfier[t] = 0 THEN i[t] <= k
                            ELSE satisfier[t] = k /\ k < i[t]

SoloOK(t) ==
    /\ pc[t] \notin {"backout", "panic", "corrupted"}
    /\ pc[t] \in SignalPcs => obj[t] \notin Timers
    /\ pc[t] \in WaitPcs => call[t].objs[1] \notin held[t]
    /\ pc[t] = "check" => satisfier[t] = 1
    /\ pc[t] = "scan" /\ call[t].timeout = "finite" => signaled_count[TimerOf[t]] = 0
    /\ pc[t] \in HangPcs =>
          /\ \A k \in Hung(t) : wb[t][k] = "active" /\ (pc[t] = "collect" => i[t] <= k)
                => <<t, k>> \in ToSet(waitblocks[Objs(t)[k]])
          /\ IF wait_status[t] = "satisfied" THEN \E k \in Hung(t) : Took(t, k)
             ELSE \A k \in Hung(t) : wb[t][k] = "active"
    /\ pc[t] \in {"timer_stop", "collect"} => wait_status[t] = "satisfied"
    /\ t \in pending \/ pc[t] = "timer_start" => wb[t][Timer(t)] = "active"
    /\ pc[t] = "return" => /\ satisfier[t] # 0
                           /\ \A k \in 1..(satisfier[t] - 1) : wb[t][k] # "signaled"

SoloInv == \A t \in Threads : SoloOK(t)

-----------------------------------------------------------------------------
(* The objects of such a wait: its object, and its timer if it has one. *)
LEMMA SoloObjs ==
    ASSUME TypeInv, SoloWaits, NEW t \in Threads,
           pc[t] \in WaitPcs \cup {"panic", "corrupted"}
    PROVE  /\ call[t] \in Waits[t]
           /\ call[t].timeout \in {"forever", "finite"}
           /\ Objs(t)[1] = call[t].objs[1]
           /\ call[t].objs[1] \in Objects \ Timers
           /\ Len(Objs(t)) \in {1, 2}
           /\ Len(Objs(t)) = 2 <=> call[t].timeout = "finite"
           /\ Len(Objs(t)) = 2 => Objs(t)[2] = TimerOf[t] /\ Timer(t) = 2
           /\ TimerOf[t] \in Timers
<1>1. call[t] \in Waits[t]
    BY Zenon DEF TypeInv, IndexInv, IndexOK
<1>2. /\ Len(call[t].objs) = 1 /\ call[t].timeout # "zero"
      /\ TimerOf[t] \in Timers
    BY Zenon, <1>1, DispatchAssumption DEF SoloWaits
<1>3. call[t].timeout \in Timeouts
    BY Zenon DEF TypeInv, TypeOK, WaitCall
<1>4. /\ Len(Objs(t)) = IF call[t].timeout = "finite" THEN 2 ELSE 1
      /\ Objs(t)[1] = call[t].objs[1]
      /\ call[t].objs[1] \in Objects \ Timers
      /\ call[t].timeout = "finite" => Objs(t)[2] = TimerOf[t]
    <2>1. 1 \in 1..Len(call[t].objs) /\ Len(call[t].objs) + 1 = 2
        BY <1>2
    <2>2. /\ Len(Objs(t)) = IF call[t].timeout = "finite" THEN Len(call[t].objs) + 1
                            ELSE Len(call[t].objs)
          /\ \A k \in 1..Len(call[t].objs) : /\ Objs(t)[k] = call[t].objs[k]
                                             /\ call[t].objs[k] \in Objects \ Timers
          /\ call[t].timeout = "finite" =>
                Objs(t)[Len(call[t].objs) + 1] = TimerOf[t]
        BY Zenon, <1>1, WaitObjsType DEF Objs
    <2> QED BY Zenon, <1>2, <2>1, <2>2
<1>5. 1 # 2
    OBVIOUS
<1>6. call[t].timeout = "finite" => Timer(t) = 2
    BY Zenon, <1>4 DEF Timer
<1> QED BY Zenon, <1>1, <1>2, <1>3, <1>4, <1>5, <1>6 DEF Timeouts

(* The waitblocks that hang are those of a wait. *)
LEMMA HungFacts ==
    ASSUME TypeInv, SoloWaits, NEW t \in Threads, pc[t] \in WaitPcs
    PROVE  /\ Hung(t) \subseteq {1, 2}
           /\ Hung(t) \subseteq WaitBlocks
           /\ \A k \in Hung(t) : /\ Objs(t)[k] \in Objects
                                 /\ Objs(t)[k] \in Timers => Objs(t)[k] = TimerOf[t] /\ k = Timer(t)
           /\ pc[t] = "scan" => \A k : k \in Hung(t) <=> k = 1 /\ i[t] = 2
           /\ pc[t] # "scan" => \A k : k \in Hung(t) <=> k = 1 \/ (k = 2 /\ Len(Objs(t)) = 2)
<1>1. /\ Len(Objs(t)) \in {1, 2} /\ Objs(t)[1] \in Objects \ Timers
      /\ Len(Objs(t)) = 2 => Objs(t)[2] = TimerOf[t] /\ Timer(t) = 2
      /\ i[t] \in Nat /\ 1 <= i[t]
      /\ pc[t] = "scan" => i[t] <= Len(Objs(t))
      /\ TimerOf[t] \in Objects
    BY Zenon, SoloObjs, IndexFacts DEF Objects
<1>2. \A k : k \in 1..Len(Objs(t)) <=> k = 1 \/ (k = 2 /\ Len(Objs(t)) = 2)
    <2>1. 1..1 = {1} /\ 1..2 = {1, 2} /\ 1 # 2
        OBVIOUS
    <2> QED BY Zenon, <1>1, <2>1
<1>3. pc[t] = "scan" => /\ 1 < i[t] <=> i[t] = 2
                        /\ ~(2 < i[t])
    <2>1. ASSUME NEW n \in {1, 2}, NEW j \in Nat, 1 <= j, j <= n
          PROVE  (1 < j <=> j = 2) /\ ~(2 < j)
        BY <2>1
    <2> QED BY Zenon, <1>1, <2>1
<1>4. /\ pc[t] = "scan" => \A k : k \in Hung(t) <=> k = 1 /\ i[t] = 2
      /\ pc[t] # "scan" => \A k : k \in Hung(t) <=> k = 1 \/ (k = 2 /\ Len(Objs(t)) = 2)
    BY Zenon, <1>2, <1>3 DEF Hung
<1>5. 1 \in WaitBlocks /\ 2 \in WaitBlocks
    BY DEF WaitBlocks, INTERNAL_WAITBLOCKS_N
<1>6. ASSUME NEW k \in Hung(t)
      PROVE  /\ k \in {1, 2} /\ Objs(t)[k] \in Objects
             /\ Objs(t)[k] \in Timers => Objs(t)[k] = TimerOf[t] /\ k = Timer(t)
    BY Zenon, <1>1, <1>4
<1> QED BY Zenon, <1>4, <1>5, <1>6

(* SoloOK(u) speaks of u's own wait, its timer and its waitblocks only. *)
LEMMA SoloSame ==
    ASSUME TypeInv, SoloWaits, NEW u \in Threads, SoloOK(u),
           pc'[u] = pc[u], call'[u] = call[u], i'[u] = i[u],
           satisfier'[u] = satisfier[u], wb'[u] = wb[u],
           wait_status'[u] = wait_status[u], held'[u] = held[u],
           obj'[u] = obj[u], u \in pending' <=> u \in pending,
           signaled_count'[TimerOf[u]] = signaled_count[TimerOf[u]],
           \A o \in Objects, k \in WaitBlocks :
               <<u, k>> \in ToSet(waitblocks[o]) => <<u, k>> \in ToSet(waitblocks'[o])
    PROVE  SoloOK(u)'
<1>1. Objs(u)' = Objs(u) /\ Timer(u)' = Timer(u)
    BY Zenon DEF Objs, Timer
<1>2. Hung(u)' = Hung(u)
    BY Zenon, <1>1 DEF Hung
<1>3. \A k : Took(u, k)' <=> Took(u, k)
    BY Zenon, <1>2 DEF Took
<1>4. pc[u] \in HangPcs =>
         \A k \in Hung(u) : k \in WaitBlocks /\ Objs(u)[k] \in Objects
    BY Zenon, HungFacts DEF HangPcs, WaitPcs
<1> QED BY ZenonT(30), <1>1, <1>2, <1>3, <1>4 DEF SoloOK

(* A waitblock appended to a queue. *)
LEMMA InsertBlock ==
    ASSUME NEW q \in Seq(Threads \X WaitBlocks), NEW x \in Threads \X WaitBlocks
    PROVE  ToSet(Append(q, x)) = ToSet(q) \cup {x}
<1> DEFINE S == Threads \X WaitBlocks
<1>1. q \in Seq(S) /\ x \in S
    OBVIOUS
<1> HIDE DEF S
<1> QED BY <1>1, AppendFacts DEF ToSet

(* A step of t leaves the timers of the other threads alone, *)
LEMMA TimersKept ==
    ASSUME TypeInv, NEW t \in Threads, OwnStep(t), NEW u \in Threads \ {t}
    PROVE  signaled_count'[TimerOf[u]] = signaled_count[TimerOf[u]]
<1>1. /\ TypeOK /\ signaled_count \in [Objects -> Nat]
      /\ TimerOf[u] \in Timers /\ TimerOf[u] # TimerOf[t] /\ TimerOf[u] \in Objects
      /\ TimerOf[u] \notin Mutexes /\ TimerOf[u] \notin Semaphores
      /\ TimerOf[u] \notin Events /\ TimerOf[u] \notin KTimers
    BY Zenon, DispatchAssumption DEF TypeInv, TypeOK, Objects
<1>2. CASE signaled_count' = signaled_count
    BY Zenon, <1>2
<1>3. CASE WaitAny(t) \/ TimerExpire(t)
    BY Zenon, <1>1, <1>3 DEF WaitAny, TimerExpire
<1>4. CASE ScanConsume(t)
    BY Zenon, <1>1, <1>4 DEF ScanConsume, Consumed, IsNotification
<1>5. CASE Signal(t)
    BY Zenon, <1>1, <1>5, SignalEnters
<1>6. CASE EventSignalEnd(t)
    BY Zenon, <1>1, <1>6 DEF EventSignalEnd
<1> QED BY Zenon, <1>2, <1>3, <1>4, <1>5, <1>6
        DEF OwnStep, ScanSatisfied, ScanInsert, BackOut, BackOutRemove, TimerStart,
            Commit, Sleep, TimerStop, CollectActive, CollectSignaled,
            CollectInactive, Return, SatisfyDone, Release, objVars

(* and so it leaves their waitblocks. *)
LEMMA BlocksKept ==
    ASSUME TypeInv, QueueInv, NEW t \in Threads, OwnStep(t),
           NEW u \in Threads \ {t}, NEW o \in Objects, NEW k \in WaitBlocks,
           TimerExpire(t) => StatusInv,
           <<u, k>> \in ToSet(waitblocks[o])
    PROVE  <<u, k>> \in ToSet(waitblocks'[o])
<1>1. /\ waitblocks \in [Objects -> Seq(Threads \X WaitBlocks)]
      /\ waitblocks[o] \in Seq(Threads \X WaitBlocks)
      /\ Distinct(waitblocks[o])
    BY Zenon DEF TypeInv, TypeOK, QueueInv
<1>2. CASE waitblocks' = waitblocks
    BY Zenon, <1>2
<1>3. CASE ScanInsert(t)
    <2>1. PICK p \in Objects : p = Objs(t)[i[t]] /\ i[t] \in WaitBlocks
        BY Zenon, <1>3, IndexFacts DEF ScanInsert, WaitPcs
    <2>2. PICK e \in Threads \X WaitBlocks : e = <<t, i[t]>>
        BY Zenon, <2>1
    <2>3. waitblocks' = [waitblocks EXCEPT ![p] = Append(@, e)]
        BY Zenon, <1>3, <2>1, <2>2 DEF ScanInsert, InsertTail
    <2>4. ToSet(Append(waitblocks[o], e)) = ToSet(waitblocks[o]) \cup {e}
        BY Zenon, <1>1, InsertBlock
    <2>5. waitblocks'[o] = waitblocks[o] \/ waitblocks'[o] = Append(waitblocks[o], e)
        BY Zenon, <1>1, <2>3
    <2>6. <<u, k>> \in ToSet(waitblocks[o]) \cup {e}
        BY Zenon
    <2> QED BY Zenon, <2>4, <2>5, <2>6
<1>4. CASE BackOutRemove(t) \/ CollectActive(t)
    <2>1. PICK p \in Objects : p = Objs(t)[i[t]]
        BY Zenon, <1>4, IndexFacts DEF BackOutRemove, CollectActive, WaitPcs
    <2>2. \/ waitblocks' = waitblocks
          \/ \E n \in 1..Len(waitblocks[p]) :
                /\ waitblocks[p][n] = <<t, i[t]>>
                /\ waitblocks' = [waitblocks EXCEPT ![p] = RemoveAt(@, n)]
        BY Zenon, <1>4, <2>1 DEF BackOutRemove, CollectActive, Unlink
    <2>3. SUFFICES ASSUME p = o, NEW n \in 1..Len(waitblocks[o]),
                          waitblocks[o][n] = <<t, i[t]>>,
                          waitblocks'[o] = RemoveAt(waitblocks[o], n)
                   PROVE  <<u, k>> \in ToSet(waitblocks'[o])
        BY Zenon, <1>1, <2>2
    <2>4. ToSet(waitblocks'[o]) = ToSet(waitblocks[o]) \ {<<t, i[t]>>}
        BY Zenon, <1>1, <2>3, RemoveElems
    <2>5. <<u, k>> # <<t, i[t]>>
        BY Zenon
    <2> QED BY Zenon, <2>4, <2>5
<1>5. CASE TimerExpire(t)
    <2>1. waitblocks' = [waitblocks EXCEPT ![TimerOf[t]] = <<>>]
        BY Zenon, <1>5 DEF TimerExpire
    <2>2. Linked(o, u, k)
        BY Zenon DEF QueueInv
    <2>3. k \in Nat /\ 1 <= k /\ k <= Len(Objs(u)) /\ Objs(u)[k] = o
          /\ pc[u] \in WaitPcs \cup {"panic", "corrupted"}
        BY <2>2 DEF Linked, LinkPcs, WaitBlocks, INTERNAL_WAITBLOCKS_N
    <2>4. call[u] \in Waits[u]
        BY Zenon, <2>3, IndexFacts
    <2>5. o \in Timers => o = TimerOf[u]
        BY Zenon, <2>3, <2>4, WaitObjsElem DEF Objs
    <2>6. o # TimerOf[t]
        <3>1. TimerOf[t] \in Timers /\ (TimerOf[t] = TimerOf[u] => t = u)
            BY Zenon, DispatchAssumption
        <3> QED BY Zenon, <2>5, <3>1
    <2> QED BY Zenon, <1>1, <2>1, <2>6
<1> QED BY Zenon, <1>2, <1>3, <1>4, <1>5
        DEF OwnStep, WaitAny, Signal, MutexUnlock, SemaphoreRelease, EventSignal,
            TimerHandleExpiry, ScanConsume, ScanSatisfied, BackOut, TimerStart,
            Commit, Sleep, TimerStop, CollectSignaled, CollectInactive, Return,
            SatisfyDone, Release, EventSignalEnd, objVars

(* A step of t that keeps SoloOK(t) keeps SoloInv. *)
LEMMA SoloFrame ==
    ASSUME TypeInv, QueueInv, StatusInv, SoloInv, SoloWaits, NEW t \in Threads,
           OwnStep(t), SoloOK(t)'
    PROVE  SoloInv'
<1> SUFFICES ASSUME NEW u \in Threads \ {t} PROVE SoloOK(u)'
    BY Zenon DEF SoloInv
<1>1. TypeOK /\ SoloOK(u)
    BY Zenon DEF TypeInv, SoloInv
<1>2. Alone(t) /\ obj'[u] = obj[u]
    BY Zenon, <1>1, OwnStepAlone, SignalAlone
<1>3. signaled_count'[TimerOf[u]] = signaled_count[TimerOf[u]]
    BY Zenon, TimersKept
<1>4. \A o \in Objects, k \in WaitBlocks :
          <<u, k>> \in ToSet(waitblocks[o]) => <<u, k>> \in ToSet(waitblocks'[o])
    BY Zenon, BlocksKept
<1> QED BY Zenon, <1>1, <1>2, <1>3, <1>4, SoloSame DEF Alone

-----------------------------------------------------------------------------
(* Starting a wait, and signalling. *)
LEMMA SoloStart ==
    ASSUME TypeInv, StatusInv, SoloInv, SoloWaits, NEW t \in Threads,
           \/ WaitAny(t) \/ Signal(t) \/ SatisfyDone(t) \/ Release(t)
           \/ EventSignalEnd(t)
    PROVE  SoloOK(t)'
<1>1. TypeOK /\ SoloOK(t) /\ StatusOK(t)
    BY Zenon DEF TypeInv, SoloInv, StatusInv
<1>2. CASE WaitAny(t)
    <2>1. /\ pc[t] = "run" /\ pc'[t] = "scan" /\ i'[t] = 1
          /\ wait_status'[t] = "in_progress" /\ pending' = pending /\ held' = held
        BY Zenon, <1>1, <1>2 DEF WaitAny, TypeOK
    <2>2. t \notin pending
        BY Zenon, <1>1, <2>1 DEF StatusOK
    <2>3. PICK w \in Waits[t] :
             /\ \A k \in 1..Len(w.objs) : w.objs[k] \notin held[t]
             /\ call'[t] = w
             /\ w.timeout = "finite" => signaled_count' = [signaled_count EXCEPT ![TimerOf[t]] = 0]
        BY Zenon, <1>1, <1>2 DEF WaitAny, TypeOK
    <2>4. w.objs[1] \notin held[t]
        <3>1. 1 \in 1..Len(w.objs)
            <4>1. Len(w.objs) = 1
                BY Zenon DEF SoloWaits
            <4> QED BY <4>1
        <3> QED BY Zenon, <2>3, <3>1
    <2>5. w.timeout = "finite" => signaled_count'[TimerOf[t]] = 0
        <3>1. TimerOf[t] \in Objects
            BY Zenon, DispatchAssumption DEF Objects
        <3> QED BY Zenon, <1>1, <2>3, <3>1 DEF TypeOK
    <2>6. Hung(t)' = {}
        <3>1. \A k \in Nat : 1 <= k => ~(k < 1)
            OBVIOUS
        <3>2. \A n : \A k \in 1..n : k \in Nat /\ 1 <= k
            OBVIOUS
        <3> QED BY Zenon, <2>1, <3>1, <3>2 DEF Hung
    <2> QED BY Zenon, <2>1, <2>2, <2>3, <2>4, <2>5, <2>6
            DEF SoloOK, SignalPcs
<1>3. CASE Signal(t)
    <2>1. PICK o \in Objects : Enter(t, o) /\ o \in Mutexes \cup Semaphores \cup Events \cup KTimers
        BY Zenon, <1>1, <1>3, SignalEnters
    <2>2. o \notin Timers
        BY Zenon, <2>1, DispatchAssumption
    <2>3. pc[t] = "run" /\ pc'[t] = "satisfy" /\ obj'[t] = o /\ pending' = pending
        BY Zenon, <1>1, <1>3, <2>1
        DEF Enter, TypeOK, Signal, MutexUnlock, SemaphoreRelease, EventSignal,
            TimerHandleExpiry, waitVars
    <2>4. t \notin pending
        BY Zenon, <1>1, <2>3 DEF StatusOK
    <2> QED BY Zenon, <2>2, <2>3, <2>4 DEF SoloOK, WaitPcs, HangPcs
<1>4. CASE SatisfyDone(t) \/ Release(t) \/ EventSignalEnd(t)
    <2>1. /\ pc[t] \in SignalPcs /\ pc'[t] \in {"run", "release"}
          /\ UNCHANGED <<obj, pending>>
        BY Zenon, <1>1, <1>4
        DEF SatisfyDone, Release, EventSignalEnd, TypeOK, SignalPcs, waitVars, sigVars
    <2>2. t \notin pending
        BY Zenon, <1>1, <2>1 DEF StatusOK, SignalPcs
    <2> QED BY Zenon, <1>1, <2>1, <2>2 DEF SoloOK, WaitPcs, HangPcs
<1> QED BY Zenon, <1>2, <1>3, <1>4

(* Scanning: the timer of a wait is not signaled before it is started, so  *)
(* the scan ends at the object or hangs a waitblock on both.               *)
LEMMA SoloConsume ==
    ASSUME TypeInv, StatusInv, SoloInv, SoloWaits, NEW t \in Threads,
           ScanConsume(t) \/ ScanSatisfied(t)
    PROVE  ScanConsume(t) /\ i[t] = 1 /\ SoloOK(t)'
<1>1. TypeOK /\ SoloOK(t) /\ StatusOK(t)
    BY Zenon DEF TypeInv, SoloInv, StatusInv
<1>2. /\ pc[t] = "scan" /\ pc'[t] = "check" /\ satisfier'[t] = i[t]
      /\ signaled_count[Objs(t)[i[t]]] > 0
      /\ UNCHANGED <<pending, call, held>>
    BY Zenon, <1>1 DEF ScanConsume, ScanSatisfied, Signaled, TypeOK
<1>3. i[t] = 1
    <2>1. SUFFICES ASSUME i[t] = 2 PROVE FALSE
        <3>1. i[t] \in Nat /\ 1 <= i[t] /\ i[t] <= Len(Objs(t))
              /\ Len(Objs(t)) \in {1, 2}
            BY Zenon, <1>2, IndexFacts, SoloObjs DEF WaitPcs
        <3>2. \A n \in {1, 2}, j \in Nat : 1 <= j /\ j <= n => j = 1 \/ j = 2
            OBVIOUS
        <3> QED BY Zenon, <3>1, <3>2
    <2>2. Len(Objs(t)) = 2
        <3>1. i[t] <= Len(Objs(t)) /\ Len(Objs(t)) \in {1, 2}
            BY Zenon, <1>2, IndexFacts, SoloObjs DEF WaitPcs
        <3> QED BY <2>1, <3>1
    <2>3. Objs(t)[2] = TimerOf[t] /\ call[t].timeout = "finite"
        BY Zenon, <1>2, <2>2, SoloObjs DEF WaitPcs
    <2>4. signaled_count[TimerOf[t]] = 0
        BY Zenon, <1>1, <1>2, <2>3 DEF SoloOK
    <2> QED BY <1>2, <2>1, <2>3, <2>4
<1>4. ScanConsume(t)
    BY Zenon, <1>1, <1>2, <1>3 DEF StatusOK, ScanSatisfied
<1>5. t \notin pending
    BY Zenon, <1>1, <1>2 DEF StatusOK
<1> QED BY Zenon, <1>1, <1>2, <1>3, <1>4, <1>5 DEF SoloOK, WaitPcs, SignalPcs, HangPcs

(* Hanging a waitblock. *)
LEMMA SoloInsert ==
    ASSUME TypeInv, StatusInv, SoloInv, SoloWaits, NEW t \in Threads, ScanInsert(t)
    PROVE  SoloOK(t)'
<1>1. TypeOK /\ SoloOK(t) /\ StatusOK(t)
    BY Zenon DEF TypeInv, SoloInv, StatusInv
<1>2. PICK o \in Objects : o = Objs(t)[i[t]]
    BY Zenon, IndexFacts DEF ScanInsert, WaitPcs
<1>3. /\ pc[t] = "scan" /\ pc[t] \in WaitPcs
      /\ i'[t] = i[t] + 1
      /\ wb' = [wb EXCEPT ![t][i[t]] = "active"]
      /\ waitblocks' = [waitblocks EXCEPT ![o] = Append(@, <<t, i[t]>>)]
      /\ UNCHANGED <<signaled_count, wait_status, pending, call, satisfier, held>>
    BY Zenon, <1>1, <1>2 DEF ScanInsert, InsertTail, TypeOK, WaitPcs
<1>4. /\ call[t].timeout \in {"forever", "finite"}
      /\ Len(Objs(t)) \in {1, 2}
      /\ Len(Objs(t)) = 2 <=> call[t].timeout = "finite"
      /\ Len(Objs(t)) = 2 => Timer(t) = 2
    BY Zenon, <1>3, SoloObjs
<1>5. \/ i[t] = 1 /\ Len(Objs(t)) = 1 /\ pc'[t] = "commit"
      \/ i[t] = 1 /\ Len(Objs(t)) = 2 /\ pc'[t] = "scan"
      \/ i[t] = 2 /\ Len(Objs(t)) = 2 /\ pc'[t] = "timer_start"
    <2>1. pc'[t] = IF i[t] < Len(Objs(t)) THEN "scan"
                   ELSE IF call[t].timeout = "finite" THEN "timer_start" ELSE "commit"
        BY Zenon, <1>1, <1>4 DEF ScanInsert, TypeOK
    <2>2. i[t] \in Nat /\ 1 <= i[t] /\ i[t] <= Len(Objs(t))
        BY Zenon, <1>3, IndexFacts
    <2>3. ASSUME NEW n \in {1, 2}, NEW j \in Nat, 1 <= j, j <= n
          PROVE  \/ j = 1 /\ n = 1 /\ ~(j < n)
                 \/ j = 1 /\ n = 2 /\ j < n
                 \/ j = 2 /\ n = 2 /\ ~(j < n)
        BY <2>3
    <2>4. \/ i[t] = 1 /\ Len(Objs(t)) = 1 /\ ~(i[t] < Len(Objs(t)))
          \/ i[t] = 1 /\ Len(Objs(t)) = 2 /\ i[t] < Len(Objs(t))
          \/ i[t] = 2 /\ Len(Objs(t)) = 2 /\ ~(i[t] < Len(Objs(t)))
        BY Zenon, <1>4, <2>2, <2>3
    <2>5. 1 # 2
        OBVIOUS
    <2> QED BY Zenon, <1>4, <2>1, <2>4, <2>5
<1>6. /\ Hung(t)' = Hung(t) \cup {i[t]}
      /\ i[t] \notin Hung(t)
      /\ Hung(t) \subseteq WaitBlocks
      /\ i[t] \in WaitBlocks
      /\ \A k \in Hung(t) : Objs(t)[k] \in Objects
    <2>1. /\ \A k : k \in Hung(t) <=> k = 1 /\ i[t] = 2
          /\ Hung(t) \subseteq WaitBlocks
          /\ \A k \in Hung(t) : Objs(t)[k] \in Objects
        BY Zenon, <1>3, HungFacts
    <2>2. Objs(t)' = Objs(t)
        BY Zenon, <1>3 DEF Objs
    <2>3. 1..1 = {1} /\ 1..2 = {1, 2} /\ 1 + 1 = 2 /\ 1 # 2 /\ 1 < 2 /\ ~(2 < 2)
        OBVIOUS
    <2>4. 1 \in WaitBlocks /\ 2 \in WaitBlocks
        BY DEF WaitBlocks, INTERNAL_WAITBLOCKS_N
    <2>5. \A k : k \in Hung(t)' <=> k \in 1..Len(Objs(t)) /\ (pc'[t] = "scan" => k < i[t] + 1)
        BY Zenon, <1>3, <2>2 DEF Hung
    <2>6. Hung(t)' = Hung(t) \cup {i[t]}
        BY ZenonT(30), <1>5, <2>1, <2>3, <2>5
    <2> QED BY Zenon, <1>5, <2>1, <2>3, <2>4, <2>6
<1>7. /\ wb'[t][i[t]] = "active"
      /\ \A k \in Hung(t) : wb'[t][k] = wb[t][k]
    BY Zenon, <1>1, <1>3, <1>6 DEF TypeOK
<1>8. \A k \in Hung(t)' : wb'[t][k] = "active" =>
                           <<t, k>> \in ToSet(waitblocks'[Objs(t)[k]])
    <2>1. /\ waitblocks \in [Objects -> Seq(Threads \X WaitBlocks)]
          /\ <<t, i[t]>> \in Threads \X WaitBlocks
        BY Zenon, <1>1, <1>6 DEF TypeOK
    <2>2. \A p \in Objects :
             ToSet(Append(waitblocks[p], <<t, i[t]>>)) = ToSet(waitblocks[p]) \cup {<<t, i[t]>>}
        BY Zenon, <2>1, InsertBlock
    <2>3. \A p \in Objects : \A x \in ToSet(waitblocks[p]) : x \in ToSet(waitblocks'[p])
        BY Zenon, <1>3, <2>1, <2>2
    <2>4. <<t, i[t]>> \in ToSet(waitblocks'[o])
        BY Zenon, <1>3, <2>1, <2>2
    <2>5. ASSUME NEW k \in Hung(t), wb'[t][k] = "active"
          PROVE  <<t, k>> \in ToSet(waitblocks'[Objs(t)[k]])
        <3>1. <<t, k>> \in ToSet(waitblocks[Objs(t)[k]])
            BY Zenon, <1>1, <1>3, <1>7, <2>5 DEF SoloOK, HangPcs
        <3> QED BY Zenon, <1>6, <2>3, <3>1
    <2> QED BY Zenon, <1>2, <1>6, <2>4, <2>5
<1>9. IF wait_status[t] = "satisfied" THEN \E k \in Hung(t)' : Took(t, k)'
      ELSE \A k \in Hung(t)' : wb'[t][k] = "active"
    <2>1. CASE wait_status[t] = "satisfied"
        <3>1. PICK k \in Hung(t) : Took(t, k)
            BY Zenon, <1>1, <1>3, <2>1 DEF SoloOK, HangPcs
        <3>2. pc'[t] # "collect"
            BY Zenon, <1>5
        <3>3. Took(t, k)'
            BY Zenon, <1>6, <1>7, <3>1, <3>2 DEF Took
        <3> QED BY Zenon, <2>1, <3>3 DEF Took
    <2>2. CASE wait_status[t] # "satisfied"
        BY Zenon, <1>1, <1>3, <1>6, <1>7, <2>2 DEF SoloOK, HangPcs
    <2> QED BY Zenon, <2>1, <2>2
<1>10. Objs(t)' = Objs(t) /\ Timer(t)' = Timer(t)
    BY Zenon, <1>3 DEF Objs, Timer
<1>11. t \notin pending
    BY Zenon, <1>1, <1>3 DEF StatusOK
<1>12. /\ pc'[t] \in {"scan", "timer_start", "commit"}
       /\ pc'[t] = "timer_start" => Timer(t) = i[t]
    BY Zenon, <1>4, <1>5
<1> QED BY Zenon, <1>1, <1>3, <1>7, <1>8, <1>9, <1>10, <1>11, <1>12
        DEF SoloOK, SignalPcs, HangPcs, WaitPcs

(* Between the scan and the loop that collects. *)
LEMMA SoloWait ==
    ASSUME TypeInv, StatusInv, SoloInv, SoloWaits, NEW t \in Threads,
           \/ BackOut(t) \/ BackOutRemove(t) \/ TimerStart(t) \/ Commit(t)
           \/ Sleep(t) \/ TimerStop(t) \/ Return(t)
    PROVE  SoloOK(t)'
<1>1. TypeOK /\ SoloOK(t) /\ StatusOK(t)
    BY Zenon DEF TypeInv, SoloInv, StatusInv
<1>2. CASE BackOut(t)
    <2>1. pc[t] = "check" /\ satisfier[t] = 1 /\ wait_status[t] = "satisfied"
        <3>1. pc[t] = "check" /\ satisfier[t] = 1
            BY Zenon, <1>1, <1>2 DEF BackOut, SoloOK
        <3>2. 1 # 0
            OBVIOUS
        <3> QED BY Zenon, <1>1, <3>1, <3>2 DEF StatusOK
    <2>2. /\ pc'[t] = "return"
          /\ UNCHANGED <<pending, call, satisfier, held>>
        <3>1. ~(1 > 1)
            OBVIOUS
        <3> QED BY Zenon, <1>1, <1>2, <2>1, <3>1 DEF BackOut, TypeOK
    <2>3. t \notin pending
        BY Zenon, <1>1, <2>1 DEF StatusOK
    <2>4. 1..(1 - 1) = {} /\ 1 # 0
        OBVIOUS
    <2> QED BY Zenon, <1>1, <2>1, <2>2, <2>3, <2>4 DEF SoloOK, SignalPcs, HangPcs, WaitPcs
<1>3. CASE BackOutRemove(t)
    BY Zenon, <1>1, <1>3 DEF BackOutRemove, SoloOK
<1>4. CASE TimerStart(t) \/ Commit(t) \/ Sleep(t) \/ TimerStop(t)
    <2>1. /\ pc[t] \in HangPcs \ {"scan", "collect"}
          /\ pc'[t] \in HangPcs \ {"scan", "timer_start"}
          /\ UNCHANGED <<signaled_count, waitblocks, wb, call, satisfier, held>>
          /\ t \in pending' => t \in pending \/ pc[t] = "timer_start"
          /\ wait_status'[t] = "satisfied" <=> wait_status[t] = "satisfied"
        BY Zenon, <1>1, <1>4
        DEF TimerStart, Commit, Sleep, TimerStop, AfterWait, TypeOK, HangPcs, objVars
    <2>2. /\ pc'[t] \in {"timer_stop", "collect"} => wait_status[t] = "satisfied"
          /\ pc'[t] = "collect" => i'[t] = 1 /\ satisfier[t] = 0
        <3>1. CASE TimerStart(t)
            BY Zenon, <1>1, <3>1 DEF TimerStart, TypeOK
        <3>2. CASE Commit(t)
            BY Zenon, <1>1, <3>2 DEF Commit, AfterWait, TypeOK, StatusOK, WaitStatus
        <3>3. CASE Sleep(t)
            <4>1. i[t] = 1
                BY Zenon, <3>3 DEF TypeInv, IndexInv, IndexOK, Sleep
            <4> QED BY Zenon, <1>1, <3>3, <4>1 DEF Sleep, AfterWait, TypeOK, StatusOK
        <3>4. CASE TimerStop(t)
            <4>1. i[t] = 1
                BY Zenon, <3>4 DEF TypeInv, IndexInv, IndexOK, TimerStop
            <4> QED BY Zenon, <1>1, <3>4, <4>1 DEF TimerStop, TypeOK, StatusOK, SoloOK
        <3> QED BY Zenon, <1>4, <3>1, <3>2, <3>3, <3>4
    <2>3. Objs(t)' = Objs(t) /\ Timer(t)' = Timer(t) /\ Hung(t)' = Hung(t)
        BY Zenon, <2>1 DEF Objs, Timer, Hung, HangPcs
    <2>4. Hung(t) \subseteq {1, 2}
        BY Zenon, <2>1, HungFacts DEF HangPcs, WaitPcs
    <2>5. 1 <= 1 /\ 1 <= 2
        OBVIOUS
    <2>6. ASSUME NEW k \in Hung(t), Took(t, k) PROVE Took(t, k)'
        BY Zenon, <2>1, <2>2, <2>3, <2>4, <2>5, <2>6 DEF Took
    <2>7. /\ \A k \in Hung(t) : wb[t][k] = "active" => <<t, k>> \in ToSet(waitblocks[Objs(t)[k]])
          /\ IF wait_status[t] = "satisfied" THEN \E k \in Hung(t) : Took(t, k)
             ELSE \A k \in Hung(t) : wb[t][k] = "active"
        BY Zenon, <1>1, <2>1 DEF SoloOK
    <2>8. /\ \A k \in Hung(t)' : wb'[t][k] = "active" => <<t, k>> \in ToSet(waitblocks'[Objs(t)'[k]])
          /\ IF wait_status'[t] = "satisfied" THEN \E k \in Hung(t)' : Took(t, k)'
             ELSE \A k \in Hung(t)' : wb'[t][k] = "active"
        BY Zenon, <2>1, <2>3, <2>6, <2>7
    <2>9. t \in pending' => wb'[t][Timer(t)'] = "active"
        BY Zenon, <1>1, <2>1, <2>3 DEF SoloOK
    <2>10. call'[t].objs[1] \notin held'[t]
        BY Zenon, <1>1, <2>1 DEF SoloOK, HangPcs, WaitPcs
    <2> QED BY Zenon, <2>1, <2>2, <2>8, <2>9, <2>10 DEF SoloOK, SignalPcs, HangPcs
<1>5. CASE Return(t)
    <2>1. pc[t] = "return" /\ pc'[t] = "run" /\ pending' = pending
        BY Zenon, <1>1, <1>5 DEF Return, TypeOK, waitVars
    <2>2. t \notin pending
        BY Zenon, <1>1, <2>1 DEF StatusOK
    <2> QED BY Zenon, <2>1, <2>2 DEF SoloOK, SignalPcs, HangPcs, WaitPcs
<1> QED BY Zenon, <1>2, <1>3, <1>4, <1>5

(* One iteration of the loop that collects, whatever the waitblock is: it  *)
(* becomes the satisfier if it is the one that was signaled.               *)
LEMMA SoloCollects ==
    ASSUME TypeInv, StatusInv, SoloInv, SoloWaits, NEW t \in Threads,
           pc[t] = "collect", pc'[t] = AfterCollect(t), i'[t] = i[t] + 1,
           UNCHANGED <<signaled_count, wb, wait_status, pending, call, held>>,
           IF wb[t][i[t]] = "signaled" THEN satisfier[t] = 0 /\ satisfier'[t] = i[t]
           ELSE satisfier'[t] = satisfier[t],
           \A k \in Hung(t) : k # i[t] /\ <<t, k>> \in ToSet(waitblocks[Objs(t)[k]])
                                 => <<t, k>> \in ToSet(waitblocks'[Objs(t)[k]])
    PROVE  SoloOK(t)'
<1>1. TypeOK /\ SoloOK(t) /\ StatusOK(t)
    BY Zenon DEF TypeInv, SoloInv, StatusInv
<1>2. /\ wait_status[t] = "satisfied"
      /\ \A k \in Hung(t) : wb[t][k] = "active" /\ i[t] <= k
             => <<t, k>> \in ToSet(waitblocks[Objs(t)[k]])
      /\ t \notin pending
      /\ call[t].objs[1] \notin held[t]
    BY Zenon, <1>1 DEF SoloOK, StatusOK, HangPcs, WaitPcs
<1>3. PICK k \in Hung(t) : Took(t, k)
    BY Zenon, <1>1, <1>2 DEF SoloOK, HangPcs
<1>4. PICK n \in Nat : n = Len(Objs(t)) /\ i[t] <= n
    BY Zenon, IndexFacts DEF WaitPcs
<1>5. PICK j \in Nat : j = i[t] /\ 1 <= j /\ j <= n
    BY Zenon, <1>4, IndexFacts
<1>6. Hung(t) = 1..n
    BY <1>4 DEF Hung
<1>7. /\ k \in Nat /\ 1 <= k /\ k <= n /\ k # 0
      /\ j \in Hung(t)
    BY <1>3, <1>5, <1>6
<1>8. /\ wb[t][k] = "signaled"
      /\ \A q \in Hung(t) : wb[t][q] = "signaled" => q = k
      /\ IF satisfier[t] = 0 THEN j <= k ELSE satisfier[t] = k /\ k < j
    BY Zenon, <1>3, <1>5 DEF Took
<1>9. pc'[t] = IF j < n THEN "collect" ELSE "return"
    BY Zenon, <1>4, <1>5 DEF AfterCollect
<1>10. \/ satisfier'[t] = 0 /\ j + 1 <= k /\ j < n
       \/ satisfier'[t] = k /\ k < j + 1
    <2>1. CASE wb[t][j] = "signaled"
        <3>1. satisfier'[t] = j /\ j = k
            BY Zenon, <1>5, <1>7, <1>8, <2>1
        <3> QED BY <1>7, <3>1
    <2>2. CASE wb[t][j] # "signaled"
        <3>1. satisfier'[t] = satisfier[t] /\ j # k
            BY Zenon, <1>5, <1>8, <2>2
        <3>2. (j <= k => j + 1 <= k /\ j < n) /\ (k < j => k < j + 1)
            BY <1>5, <1>7, <3>1
        <3> QED BY Zenon, <1>8, <3>1, <3>2
    <2> QED BY Zenon, <2>1, <2>2
<1>11. Objs(t)' = Objs(t) /\ Hung(t)' = Hung(t)
    BY Zenon, <1>9 DEF Objs, Hung
<1>12. i'[t] = j + 1
    BY Zenon, <1>5
<1>13. CASE pc'[t] = "collect"
    <2>1. Took(t, k)'
        BY Zenon, <1>7, <1>8, <1>10, <1>11, <1>12 DEF Took
    <2>2. ASSUME NEW q \in Hung(t), wb'[t][q] = "active", i'[t] <= q
          PROVE  <<t, q>> \in ToSet(waitblocks'[Objs(t)[q]])
        <3>1. q # j /\ j <= q
            BY <1>5, <1>6, <1>12, <2>2
        <3> QED BY Zenon, <1>2, <1>5, <2>2, <3>1
    <2> QED BY Zenon, <1>2, <1>11, <1>13, <2>1, <2>2
            DEF SoloOK, SignalPcs, HangPcs, WaitPcs, Took
<1>14. CASE pc'[t] = "return"
    <2>1. satisfier'[t] = k
        BY Zenon, <1>9, <1>10, <1>14
    <2>2. ASSUME NEW q \in 1..(k - 1) PROVE wb[t][q] # "signaled"
        <3>1. q \in 1..n /\ q # k
            BY <1>7
        <3> QED BY Zenon, <1>6, <1>8, <3>1
    <2> QED BY Zenon, <1>2, <1>7, <1>14, <2>1, <2>2 DEF SoloOK, SignalPcs, HangPcs, WaitPcs
<1> QED BY Zenon, <1>9, <1>13, <1>14

(* The waitblock is unlinked if it is active; it is linked then. *)
LEMMA SoloCollect ==
    ASSUME TypeInv, QueueInv, StatusInv, SoloInv, SoloWaits, NEW t \in Threads,
           CollectActive(t) \/ CollectSignaled(t) \/ CollectInactive(t)
    PROVE  SoloOK(t)'
<1>1. TypeOK /\ SoloOK(t)
    BY Zenon DEF TypeInv, SoloInv
<1>2. /\ pc[t] = "collect" /\ pc[t] \in WaitPcs /\ pc[t] \in HangPcs
      /\ i'[t] = i[t] + 1
      /\ UNCHANGED <<signaled_count, wb, wait_status, pending, call, held>>
    BY Zenon, <1>1
    DEF CollectActive, CollectSignaled, CollectInactive, TypeOK, WaitPcs, HangPcs, objVars
<1>3. PICK o \in Objects : o = Objs(t)[i[t]] /\ i[t] \in WaitBlocks
    BY Zenon, <1>2, IndexFacts
<1>4. i[t] \in Hung(t) /\ i[t] <= i[t]
    <2>1. /\ i[t] \in Nat /\ 1 <= i[t] /\ i[t] <= Len(Objs(t)) /\ Len(Objs(t)) \in Nat
        BY Zenon, <1>2, IndexFacts
    <2> QED BY <1>2, <2>1 DEF Hung
<1>5. CASE CollectActive(t)
    <2>1. wb[t][i[t]] = "active" /\ satisfier' = satisfier
        BY Zenon, <1>5 DEF CollectActive
    <2>2. <<t, i[t]>> \in ToSet(waitblocks[o])
        BY Zenon, <1>1, <1>2, <1>3, <1>4, <2>1 DEF SoloOK
    <2>3. waitblocks[o] \in Seq(Threads \X WaitBlocks) /\ Distinct(waitblocks[o])
        BY Zenon, <1>1 DEF TypeOK, QueueInv
    <2>4. \E n \in 1..Len(waitblocks[o]) : <<t, i[t]>> = waitblocks[o][n]
        BY Zenon, <2>2, <2>3, Elems
    <2>5. PICK n \in 1..Len(waitblocks[o]) :
             /\ waitblocks[o][n] = <<t, i[t]>>
             /\ waitblocks' = [waitblocks EXCEPT ![o] = RemoveAt(@, n)]
             /\ pc' = [pc EXCEPT ![t] = AfterCollect(t)]
        BY Zenon, <1>3, <1>5, <2>4 DEF CollectActive, Unlink
    <2>6. ToSet(RemoveAt(waitblocks[o], n)) = ToSet(waitblocks[o]) \ {<<t, i[t]>>}
        BY Zenon, <2>3, <2>5, RemoveElems
    <2>7. ASSUME NEW k \in Hung(t), k # i[t], <<t, k>> \in ToSet(waitblocks[Objs(t)[k]])
          PROVE  <<t, k>> \in ToSet(waitblocks'[Objs(t)[k]])
        <3>1. PICK p \in Objects : p = Objs(t)[k]
            BY Zenon, <1>2, HungFacts
        <3>2. <<t, k>> # <<t, i[t]>>
            BY <2>7
        <3>3. p = o \/ waitblocks'[p] = waitblocks[p]
            BY Zenon, <1>1, <2>5 DEF TypeOK
        <3>4. p = o => waitblocks'[p] = RemoveAt(waitblocks[o], n)
            BY Zenon, <1>1, <2>5 DEF TypeOK
        <3> QED BY Zenon, <2>6, <2>7, <3>1, <3>2, <3>3, <3>4
    <2>8. pc'[t] = AfterCollect(t)
        BY Zenon, <1>1, <2>5 DEF TypeOK
    <2>9. "active" # "signaled"
        OBVIOUS
    <2> QED BY Zenon, <1>2, <2>1, <2>7, <2>8, <2>9, SoloCollects
<1>6. CASE CollectSignaled(t)
    <2>1. wb[t][i[t]] = "signaled" /\ wait_status[t] = "satisfied"
        BY Zenon, <1>1, <1>2, <1>6 DEF CollectSignaled, SoloOK
    <2>2. satisfier[t] = 0
        <3>1. PICK k \in Hung(t) : Took(t, k)
            BY Zenon, <1>1, <1>2, <2>1 DEF SoloOK
        <3>2. satisfier[t] # 0 => i[t] < i[t]
            BY Zenon, <1>2, <1>4, <2>1, <3>1 DEF Took
        <3>3. ~(i[t] < i[t])
            <4>1. i[t] \in Nat
                BY Zenon, IndexFacts
            <4> QED BY <4>1
        <3> QED BY Zenon, <3>2, <3>3
    <2>3. /\ satisfier'[t] = i[t]
          /\ pc'[t] = AfterCollect(t)
          /\ waitblocks' = waitblocks
        BY Zenon, <1>1, <1>6, <2>2 DEF CollectSignaled, TypeOK, objVars
    <2> QED BY Zenon, <1>2, <2>1, <2>2, <2>3, SoloCollects
<1>7. CASE CollectInactive(t)
    <2>1. /\ wb[t][i[t]] = "inactive" /\ satisfier' = satisfier
          /\ pc'[t] = AfterCollect(t) /\ waitblocks' = waitblocks
        BY Zenon, <1>1, <1>7 DEF CollectInactive, TypeOK, objVars
    <2>2. "inactive" # "signaled"
        OBVIOUS
    <2> QED BY Zenon, <1>2, <2>1, <2>2, SoloCollects
<1> QED BY Zenon, <1>5, <1>6, <1>7

(* The signal of object o reaches waitblock k of thread u: it satisfies    *)
(* the wait, or finds it satisfied by the other waitblock.                 *)
LEMMA SoloHit ==
    ASSUME TypeInv, SoloWaits, NEW u \in Threads, SoloOK(u),
           pc[u] \in HangPcs, NEW k \in Hung(u), wb[u][k] = "active",
           pc[u] = "collect" => i[u] <= k,
           pc'[u] = pc[u], i'[u] = i[u], call'[u] = call[u],
           satisfier'[u] = satisfier[u],
           \A q \in WaitBlocks : q # k => wb'[u][q] = wb[u][q],
           wb'[u][k] = IF wait_status[u] = "satisfied" THEN "inactive" ELSE "signaled",
           wait_status'[u] = "satisfied",
           \A q \in Hung(u) : q # k /\ <<u, q>> \in ToSet(waitblocks[Objs(u)[q]])
                                 => <<u, q>> \in ToSet(waitblocks'[Objs(u)[q]])
    PROVE  /\ \A q \in Hung(u)' : wb'[u][q] = "active" /\ (pc'[u] = "collect" => i'[u] <= q)
                => <<u, q>> \in ToSet(waitblocks'[Objs(u)'[q]])
           /\ \E q \in Hung(u)' : Took(u, q)'
<1>1. Objs(u)' = Objs(u) /\ Hung(u)' = Hung(u)
    BY Zenon DEF Objs, Hung
<1>2. Hung(u) \subseteq WaitBlocks
    BY Zenon, HungFacts DEF HangPcs, WaitPcs
<1>3. wb'[u][k] # "active"
    BY Zenon
<1>4. \A q \in Hung(u) : wb[u][q] = "active" /\ (pc[u] = "collect" => i[u] <= q)
                => <<u, q>> \in ToSet(waitblocks[Objs(u)[q]])
    BY Zenon DEF SoloOK
<1>5. CASE wait_status[u] = "satisfied"
    <2>1. PICK q \in Hung(u) : Took(u, q)
        BY Zenon, <1>5 DEF SoloOK
    <2>2. q # k
        BY Zenon, <2>1 DEF Took
    <2>3. Took(u, q)'
        BY Zenon, <1>1, <1>2, <1>5, <2>1, <2>2 DEF Took
    <2> QED BY Zenon, <1>1, <1>2, <1>3, <1>4, <2>3
<1>6. CASE wait_status[u] # "satisfied"
    <2>1. pc[u] # "collect" /\ \A q \in Hung(u) : wb[u][q] = "active"
        BY Zenon, <1>6 DEF SoloOK
    <2>2. Took(u, k)'
        BY Zenon, <1>1, <1>2, <1>6, <2>1 DEF Took
    <2> QED BY Zenon, <1>1, <1>2, <1>3, <1>4, <2>2
<1> QED BY Zenon, <1>5, <1>6

(* The timer of a wait expires. *)
LEMMA SoloExpire ==
    ASSUME TypeInv, StatusInv, SoloInv, SoloWaits, NEW t \in Threads, TimerExpire(t)
    PROVE  SoloOK(t)'
<1>1. TypeOK /\ SoloOK(t) /\ t \in pending
    BY Zenon DEF TypeInv, SoloInv, TimerExpire
<1>2. /\ pc[t] \in {"commit", "sleep", "timer_stop"}
      /\ call[t].timeout = "finite"
      /\ Timer(t) \in WaitBlocks
      /\ TimerOf[t] \in Objects /\ Objs(t)[Timer(t)] = TimerOf[t]
    BY Zenon, <1>1, PendingFacts
<1>3. pc[t] \in WaitPcs /\ pc[t] \in HangPcs /\ pc[t] # "scan" /\ pc[t] # "collect"
    BY Zenon, <1>2 DEF WaitPcs, HangPcs
<1>4. Timer(t) \in Hung(t)
    <2>1. Len(Objs(t)) = 2 /\ Timer(t) = 2
        BY Zenon, <1>2, <1>3, SoloObjs
    <2> QED BY Zenon, <1>3, <2>1, HungFacts
<1>5. wb[t][Timer(t)] = "active"
    BY Zenon, <1>1 DEF SoloOK
<1>6. /\ UNCHANGED <<pc, i, call, satisfier, held, obj>>
      /\ \A q \in WaitBlocks : q # Timer(t) => wb'[t][q] = wb[t][q]
      /\ wb'[t][Timer(t)] = IF wait_status[t] = "satisfied" THEN "inactive" ELSE "signaled"
      /\ wait_status'[t] = "satisfied"
      /\ t \notin pending'
      /\ waitblocks' = [waitblocks EXCEPT ![TimerOf[t]] = <<>>]
    BY Zenon, <1>1, <1>2 DEF TimerExpire, TypeOK, sigVars
<1>7. ASSUME NEW q \in Hung(t), q # Timer(t), <<t, q>> \in ToSet(waitblocks[Objs(t)[q]])
      PROVE  <<t, q>> \in ToSet(waitblocks'[Objs(t)[q]])
    <2>1. Objs(t)[q] \in Objects /\ Objs(t)[q] # TimerOf[t]
        <3>1. TimerOf[t] \in Timers
            BY Zenon, DispatchAssumption
        <3> QED BY Zenon, <1>3, <1>7, <3>1, HungFacts
    <2> QED BY Zenon, <1>1, <1>6, <1>7, <2>1 DEF TypeOK
<1>8. /\ \A q \in Hung(t)' : wb'[t][q] = "active" /\ (pc'[t] = "collect" => i'[t] <= q)
             => <<t, q>> \in ToSet(waitblocks'[Objs(t)'[q]])
      /\ \E q \in Hung(t)' : Took(t, q)'
    BY ZenonT(60), <1>1, <1>3, <1>4, <1>5, <1>6, <1>7, SoloHit
<1>9. call'[t].objs[1] \notin held'[t]
    BY Zenon, <1>1, <1>3, <1>6 DEF SoloOK
<1> QED BY Zenon, <1>2, <1>6, <1>8, <1>9 DEF SoloOK, SignalPcs

(* try_satisfy_dispatch_object pops a waitblock. *)
LEMMA SoloSatisfy ==
    ASSUME TypeInv, QueueInv, StatusInv, SoloInv, SoloWaits, NEW t \in Threads, Satisfy(t)
    PROVE  SoloInv'
<1>1. PICK o \in Objects, v \in Threads, k \in WaitBlocks : Pops(t, o, v, k)
    BY Zenon, PopFacts
<1>2. /\ TypeOK /\ SoloOK(t) /\ SoloOK(v) /\ StatusOK(t) /\ StatusOK(v)
      /\ signaled_count \in [Objects -> Nat]
      /\ waitblocks \in [Objects -> Seq(Threads \X WaitBlocks)]
      /\ wb \in [Threads -> [WaitBlocks -> WaitBlockStatus]]
    BY Zenon DEF TypeInv, TypeOK, SoloInv, StatusInv
<1>3. /\ pc[t] = "satisfy" /\ o = obj[t] /\ o \notin Timers /\ Linked(o, v, k)
      /\ UNCHANGED <<pending, call, i, satisfier, obj, held>>
    BY Zenon, <1>1, <1>2 DEF Satisfy, Pops, SoloOK, SignalPcs
<1>4. /\ pc'[t] \in {"satisfy", "release"}
      /\ \A u \in Threads \ {t} : pc'[u] = pc[u]
    BY ZenonT(30), <1>1, <1>2, <1>3 DEF Pops, Delivered, TypeOK
<1>5. /\ \A u \in Threads \ {v} : wb'[u] = wb[u] /\ wait_status'[u] = wait_status[u]
      /\ \A q \in WaitBlocks : q # k => wb'[v][q] = wb[v][q]
      /\ wb'[v][k] = IF wait_status[v] = "satisfied" THEN "inactive" ELSE "signaled"
      /\ wait_status'[v] = "satisfied"
    <2>1. wait_status \in [Threads -> WaitStatus]
        BY Zenon, <1>2 DEF TypeOK
    <2>2. CASE wait_status[v] = "satisfied"
        <3>1. wb' = [wb EXCEPT ![v][k] = "inactive"] /\ wait_status' = wait_status
            BY Zenon, <1>1, <2>2 DEF Pops
        <3> QED BY Zenon, <1>2, <2>2, <3>1
    <2>3. CASE wait_status[v] # "satisfied"
        <3>1. /\ wb' = [wb EXCEPT ![v][k] = "signaled"]
              /\ wait_status' = [wait_status EXCEPT ![v] = "satisfied"]
            BY Zenon, <1>1, <2>3 DEF Pops, Delivered
        <3> QED BY Zenon, <1>2, <2>1, <2>3, <3>1
    <2> QED BY Zenon, <2>2, <2>3
<1>6. \A u \in Threads : signaled_count'[TimerOf[u]] = signaled_count[TimerOf[u]]
    <2>1. \A u \in Threads : TimerOf[u] \in Objects /\ TimerOf[u] # o
        BY Zenon, <1>3, DispatchAssumption DEF Objects
    <2> QED BY Zenon, <1>1, <1>2, <2>1 DEF Pops, Delivered
<1>7. \A p \in Objects : \A x \in ToSet(waitblocks[p]) : x # <<v, k>> => x \in ToSet(waitblocks'[p])
    <2>1. /\ waitblocks' = [waitblocks EXCEPT ![o] = Tail(waitblocks[o])]
          /\ ToSet(Tail(waitblocks[o])) = ToSet(waitblocks[o]) \ {<<v, k>>}
        BY Zenon, <1>1 DEF Pops
    <2>2. \A p \in Objects : waitblocks'[p] = IF p = o THEN Tail(waitblocks[o]) ELSE waitblocks[p]
        BY Zenon, <1>2, <2>1
    <2> QED BY Zenon, <2>1, <2>2
<1>8. v # t
    BY Zenon, <1>3 DEF Linked, LinkPcs, WaitPcs
<1>9. SoloOK(t)'
    <2>1. t \notin pending
        BY Zenon, <1>2, <1>3 DEF StatusOK
    <2> QED BY Zenon, <1>3, <1>4, <2>1 DEF SoloOK, WaitPcs, HangPcs
<1>10. ASSUME NEW u \in Threads \ {t, v} PROVE SoloOK(u)'
    <2>1. SoloOK(u)
        BY Zenon DEF SoloInv
    <2>2. \A p \in Objects, q \in WaitBlocks :
              <<u, q>> \in ToSet(waitblocks[p]) => <<u, q>> \in ToSet(waitblocks'[p])
        <3>1. \A q \in WaitBlocks : <<u, q>> # <<v, k>>
            OBVIOUS
        <3> QED BY Zenon, <1>7, <3>1
    <2> QED BY Zenon, <1>3, <1>4, <1>5, <1>6, <2>1, <2>2, SoloSame
<1>11. SoloOK(v)'
    <2>1. /\ pc[v] \in HangPcs /\ pc[v] \in WaitPcs /\ k \in Hung(v) /\ wb[v][k] = "active"
          /\ pc[v] = "collect" => i[v] <= k
          /\ Objs(v)[k] = o
        <3>1. k \in Nat /\ 1 <= k /\ k <= Len(Objs(v)) /\ k \in 1..Len(Objs(v)) /\ ~(k < 1) /\ 1 # 0
            <4>1. k \in 1..5 /\ k <= Len(Objs(v)) /\ Len(Objs(v)) \in Nat
                <5>1. 4 + 1 = 5
                    OBVIOUS
                <5>2. k <= Len(Objs(v)) /\ pc[v] \in WaitPcs \cup {"panic", "corrupted"}
                    BY Zenon, <1>3 DEF Linked, LinkPcs
                <5> QED BY Zenon, <5>1, <5>2, IndexFacts DEF WaitBlocks, INTERNAL_WAITBLOCKS_N
            <4> QED BY <4>1
        <3>2. pc[v] # "check"
            BY Zenon, <1>2, <1>3, <3>1 DEF Linked, SoloOK
        <3>3. pc[v] \in HangPcs /\ pc[v] \in WaitPcs
            BY Zenon, <1>2, <1>3, <3>2 DEF Linked, LinkPcs, SoloOK, HangPcs, WaitPcs
        <3> QED BY Zenon, <1>3, <3>1, <3>3 DEF Linked, Hung
    <2>2. /\ pc'[v] = pc[v] /\ i'[v] = i[v] /\ call'[v] = call[v] /\ satisfier'[v] = satisfier[v]
          /\ held'[v] = held[v] /\ (v \in pending' <=> v \in pending)
        BY Zenon, <1>3, <1>4, <1>8
    <2>3. ASSUME NEW q \in Hung(v), q # k, <<v, q>> \in ToSet(waitblocks[Objs(v)[q]])
          PROVE  <<v, q>> \in ToSet(waitblocks'[Objs(v)[q]])
        <3>1. <<v, q>> # <<v, k>> /\ Objs(v)[q] \in Objects
            <4>1. Objs(v)[q] \in Objects
                BY Zenon, <2>1, HungFacts
            <4>2. <<v, q>> # <<v, k>>
                BY <2>3
            <4> QED BY Zenon, <4>1, <4>2
        <3> QED BY Zenon, <1>7, <2>3, <3>1
    <2>4. /\ \A q \in Hung(v)' : wb'[v][q] = "active" /\ (pc'[v] = "collect" => i'[v] <= q)
             => <<v, q>> \in ToSet(waitblocks'[Objs(v)'[q]])
          /\ \E q \in Hung(v)' : Took(v, q)'
        BY ZenonT(60), <1>2, <1>5, <2>1, <2>2, <2>3, SoloHit
    <2>5. call'[v].objs[1] \notin held'[v]
        BY Zenon, <1>2, <2>1, <2>2 DEF SoloOK
    <2>6. v \in pending \/ pc[v] = "timer_start" => wb'[v][Timer(v)] = "active"
        <3>1. SUFFICES ASSUME v \in pending \/ pc[v] = "timer_start"
                       PROVE  wb'[v][Timer(v)] = "active"
            OBVIOUS
        <3>2. call[v].timeout = "finite" /\ wb[v][Timer(v)] = "active"
            BY Zenon, <1>2, <3>1 DEF StatusOK, SoloOK
        <3>3. Timer(v) = 2 /\ Objs(v)[2] \in Timers
            BY Zenon, <2>1, <3>2, SoloObjs
        <3>4. 2 # k
            BY Zenon, <1>3, <2>1, <3>3
        <3>5. 2 \in WaitBlocks
            BY DEF WaitBlocks, INTERNAL_WAITBLOCKS_N
        <3> QED BY Zenon, <1>5, <3>2, <3>3, <3>4, <3>5
    <2>7. Timer(v)' = Timer(v)
        BY Zenon, <2>2 DEF Timer, Objs
    <2>8. /\ pc[v] \notin SignalPcs /\ pc[v] # "check" /\ pc[v] # "return"
          /\ pc[v] \notin {"backout", "panic", "corrupted"}
        BY Zenon, <2>1 DEF HangPcs, SignalPcs
    <2>9. pc[v] = "scan" /\ call[v].timeout = "finite" => signaled_count[TimerOf[v]] = 0
        BY Zenon, <1>2 DEF SoloOK
    <2> QED BY Zenon, <1>5, <1>6, <2>2, <2>4, <2>5, <2>6, <2>7, <2>8, <2>9 DEF SoloOK
<1> QED BY Zenon, <1>9, <1>10, <1>11 DEF SoloInv

-----------------------------------------------------------------------------
(* Every step keeps SoloInv, *)
LEMMA SoloNext ==
    ASSUME TypeInv, QueueInv, StatusInv, SoloInv, SoloWaits, [Next]_vars
    PROVE  SoloInv'
<1>1. CASE UNCHANGED vars
    <2>1. UNCHANGED <<signaled_count, waitblocks, wait_status, wb, pending, pc, call,
                      i, satisfier, obj, held>>
        BY Zenon, <1>1 DEF vars, objVars, waitVars, sigVars
    <2> SUFFICES ASSUME NEW u \in Threads PROVE SoloOK(u)'
        BY Zenon DEF SoloInv
    <2>2. SoloOK(u)
        BY Zenon DEF SoloInv
    <2> QED BY Zenon, <2>1, <2>2, SoloSame
<1>2. ASSUME NEW t \in Threads, OwnStep(t) PROVE SoloInv'
    <2>1. SoloOK(t)'
        BY Zenon, <1>2, SoloStart, SoloConsume, SoloInsert, SoloWait, SoloCollect,
           SoloExpire DEF OwnStep
    <2> QED BY Zenon, <1>2, <2>1, SoloFrame
<1>3. CASE Next
    BY Zenon, <1>2, <1>3, SoloSatisfy DEF Next, Kernel, OwnStep
<1> QED BY Zenon, <1>1, <1>3

(* and it holds at the start. *)
LEMMA SoloInit == Init => SoloInv
<1> SUFFICES ASSUME Init, NEW t \in Threads PROVE SoloOK(t)
    BY Zenon DEF SoloInv
<1>1. pc[t] = "run" /\ pending = {}
    BY Zenon DEF Init
<1> QED BY Zenon, <1>1 DEF SoloOK, SignalPcs, WaitPcs, HangPcs

(* wait_any never reaches one of its panics and never unlinks a waitblock  *)
(* that is not linked, if every wait is for one object and none is a poll: *)
(* the signal, the timer and the loop that collects agree on the one       *)
(* waitblock that was signaled, in every interleaving.                     *)
THEOREM WaitNeverPanics ==
    ASSUME WaitDiscipline, SoloWaits PROVE Spec => []NoPanic
<1>1. Init => WaitInv /\ SoloInv
    BY Zenon, WaitInit, SoloInit
<1>2. WaitInv /\ SoloInv /\ [Next]_vars => WaitInv' /\ SoloInv'
    BY Zenon, WaitNext, SoloNext DEF WaitInv
<1>3. SoloInv => NoPanic
    BY Zenon DEF SoloInv, SoloOK, NoPanic
<1> QED BY <1>1, <1>2, <1>3, PTL DEF Spec
=============================================================================
