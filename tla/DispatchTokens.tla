--------------------------- MODULE DispatchTokens ---------------------------
(***************************************************************************)
(* The signals of mutexes and semaphores, under waits of one object: each  *)
(* step keeps the count and the holders of an object or moves one signal   *)
(* between them (Conserved).                                               *)
(***************************************************************************)
EXTENDS DispatchSolo, FiniteSetTheorems

(* The objects whose signals are consumed by the threads that take them. *)
Tokens == Mutexes \cup Semaphores

(* t has taken o's signal; for a wait of one object, Has says this. *)
Got(t, o) ==
    \/ o \in held[t]
    \/ /\ pc[t] \in WaitPcs
       /\ call[t].objs[1] = o
       /\ \/ satisfier[t] = 1
          \/ pc[t] \in HangPcs /\ 1 \in Hung(t) /\ wb[t][1] = "signaled"

Holders(o) == {t \in Threads : Got(t, o)}

(* No semaphore is released by a thread that has not acquired it. *)
NoPosting == \A t \in Threads : Posts[t] \cap Semaphores = {}

(* The count of a token and its holders add up to what it started with. *)
Conserved ==
    \A o \in Tokens :
        signaled_count[o] + Cardinality(Holders(o)) = IF o \in Mutexes THEN 1 ELSE SemInit[o]

-----------------------------------------------------------------------------
(* For a wait of one object Got is Has. *)
LEMMA GotIsHas ==
    ASSUME TypeInv, SoloInv, SoloWaits, NEW t \in Threads, NEW o \in Tokens
    PROVE  Has(t, o) <=> Got(t, o)
<1>1. TypeOK /\ SoloOK(t) /\ o \notin Timers
    BY Zenon, DispatchAssumption DEF TypeInv, SoloInv, Tokens
<1>2. CASE pc[t] \in WaitPcs
    <2>1. /\ Objs(t)[1] = call[t].objs[1] /\ Len(Objs(t)) \in {1, 2}
          /\ Len(Objs(t)) = 2 => Objs(t)[2] \in Timers
        BY Zenon, <1>2, SoloObjs
    <2>2. 1..1 = {1} /\ 1..2 = {1, 2} /\ 1 # 0
        OBVIOUS
    <2>3. (\E k \in 1..Len(Objs(t)) :
             /\ Objs(t)[k] = o
             /\ \/ Installed(t, k) /\ wb[t][k] = "signaled"
                \/ satisfier[t] = k)
          <=> /\ call[t].objs[1] = o
              /\ (Installed(t, 1) /\ wb[t][1] = "signaled") \/ satisfier[t] = 1
        BY Zenon, <1>1, <2>1, <2>2
    <2>4. pc[t] \in HangPcs => (Installed(t, 1) <=> 1 \in Hung(t))
        BY Zenon DEF Installed, Hung, HangPcs
    <2>5. pc[t] \notin HangPcs => pc[t] \in {"check", "return"}
        BY Zenon, <1>1, <1>2 DEF SoloOK, HangPcs, WaitPcs
    <2>6. pc[t] = "check" => satisfier[t] = 1
        BY Zenon, <1>1 DEF SoloOK
    <2>7. ASSUME pc[t] = "return", satisfier[t] # 1, Installed(t, 1)
          PROVE  wb[t][1] # "signaled"
        <3>1. satisfier[t] # 0 /\ \A k \in 1..(satisfier[t] - 1) : wb[t][k] # "signaled"
            BY Zenon, <1>1, <2>7 DEF SoloOK
        <3>2. satisfier[t] \in Nat
            BY <1>1 DEF TypeOK
        <3>3. 1 \in 1..(satisfier[t] - 1)
            BY <2>7, <3>1, <3>2
        <3> QED BY Zenon, <3>1, <3>3
    <2> QED BY Zenon, <1>2, <2>3, <2>4, <2>5, <2>6, <2>7 DEF Has, Got, HangPcs
<1>3. CASE pc[t] \notin WaitPcs
    BY Zenon, <1>1, <1>3 DEF Has, Got, SoloOK
<1> QED BY Zenon, <1>2, <1>3

(* What another thread has taken does not change in a step of t alone. *)
LEMMA GotFrame ==
    ASSUME NEW t \in Threads, Alone(t), NEW u \in Threads \ {t}, NEW o
    PROVE  Got(u, o)' <=> Got(u, o)
<1>1. Objs(u)' = Objs(u)
    BY Zenon DEF Objs, Alone
<1>2. Hung(u)' = Hung(u)
    BY Zenon, <1>1 DEF Hung, Alone
<1> QED BY Zenon, <1>2 DEF Got, Alone

(* A wait takes nothing when it starts, hangs a waitblock, sleeps or is    *)
(* timed out, *)
LEMMA GotWait ==
    ASSUME TypeInv, StatusInv, SoloInv, SoloWaits, NEW t \in Threads, NEW o \in Tokens,
           \/ WaitAny(t) \/ ScanInsert(t) \/ BackOut(t) \/ TimerStart(t) \/ Commit(t)
           \/ Sleep(t) \/ TimerStop(t) \/ TimerExpire(t)
    PROVE  Got(t, o)' <=> Got(t, o)
<1>1. TypeOK /\ SoloOK(t) /\ StatusOK(t)
    BY Zenon DEF TypeInv, SoloInv, StatusInv
<1>2. \A n : \A k \in 1..n : ~(k < 1)
    OBVIOUS
<1>3. CASE WaitAny(t)
    <2>1. /\ pc[t] = "run" /\ pc'[t] = "scan" /\ i'[t] = 1 /\ satisfier'[t] = 0 /\ held' = held
        BY Zenon, <1>1, <1>3 DEF WaitAny, TypeOK
    <2>2. 1 \notin Hung(t)'
        BY Zenon, <1>2, <2>1 DEF Hung
    <2>3. 0 # 1
        OBVIOUS
    <2> QED BY Zenon, <2>1, <2>2, <2>3 DEF Got, WaitPcs
<1>4. CASE ScanInsert(t)
    <2>1. /\ pc[t] = "scan" /\ satisfier[t] = 0 /\ satisfier'[t] = 0
          /\ pc'[t] \in {"scan", "timer_start", "commit", "check"}
          /\ wb' = [wb EXCEPT ![t][i[t]] = "active"] /\ i'[t] = i[t] + 1
          /\ UNCHANGED <<call, held>>
        BY Zenon, <1>1, <1>4 DEF ScanInsert, TypeOK, StatusOK, WaitCall, Timeouts
    <2>2. i[t] \in Nat /\ 1 <= i[t] /\ i[t] \in WaitBlocks /\ 1 \in WaitBlocks
        <3>1. 1 \in WaitBlocks
            BY DEF WaitBlocks, INTERNAL_WAITBLOCKS_N
        <3> QED BY Zenon, <2>1, <3>1, IndexFacts
    <2>3. Objs(t)' = Objs(t)
        BY Zenon, <2>1 DEF Objs
    <2>4. CASE i[t] = 1
        <3>1. 1 \notin Hung(t) /\ wb'[t][1] # "signaled"
            BY Zenon, <1>1, <1>2, <2>1, <2>2, <2>4 DEF Hung, TypeOK
        <3>2. 0 # 1
            OBVIOUS
        <3> QED BY Zenon, <2>1, <3>1, <3>2 DEF Got, WaitPcs
    <2>5. CASE i[t] # 1
        <3>1. 1 < i[t] /\ 1 < i[t] + 1
            BY <2>2, <2>5
        <3>2. wb'[t][1] = wb[t][1]
            BY Zenon, <1>1, <2>1, <2>2, <2>5 DEF TypeOK
        <3>3. 1 \in Hung(t)' <=> 1 \in Hung(t)
            BY Zenon, <2>1, <2>3, <3>1 DEF Hung
        <3>4. pc'[t] \in HangPcs
            <4>1. SoloOK(t)'
                BY Zenon, <1>4, SoloInsert
            <4>2. pc'[t] = "check" => satisfier'[t] = 1
                BY Zenon, <4>1 DEF SoloOK
            <4>3. 0 # 1
                OBVIOUS
            <4> QED BY Zenon, <2>1, <4>2, <4>3 DEF HangPcs
        <3> QED BY Zenon, <2>1, <3>2, <3>3, <3>4 DEF Got, WaitPcs, HangPcs
    <2> QED BY Zenon, <2>4, <2>5
<1>5. CASE BackOut(t)
    <2>1. pc[t] = "check" /\ satisfier[t] = 1 /\ UNCHANGED <<satisfier, call, held>>
        BY Zenon, <1>1, <1>5 DEF BackOut, SoloOK
    <2>2. pc'[t] \in WaitPcs
        <3>1. SoloOK(t)'
            BY Zenon, <1>5, SoloWait
        <3> QED BY Zenon, <1>1, <1>5, <3>1 DEF BackOut, TypeOK, WaitPcs, SoloOK
    <2> QED BY Zenon, <2>1, <2>2 DEF Got, WaitPcs
<1>6. CASE TimerStart(t) \/ Commit(t) \/ Sleep(t) \/ TimerStop(t)
    <2>1. /\ pc[t] \in HangPcs \ {"scan"} /\ pc'[t] \in HangPcs \ {"scan"}
          /\ UNCHANGED <<wb, call, satisfier, held>>
        BY Zenon, <1>1, <1>6
        DEF TimerStart, Commit, Sleep, TimerStop, AfterWait, TypeOK, HangPcs
    <2>2. Hung(t)' = Hung(t)
        BY Zenon, <2>1 DEF Hung, Objs
    <2> QED BY Zenon, <2>1, <2>2 DEF Got, HangPcs, WaitPcs
<1>7. CASE TimerExpire(t)
    <2>1. UNCHANGED <<pc, call, satisfier, held, i>> /\ wb' = [wb EXCEPT ![t][Timer(t)] =
              IF wait_status[t] = "satisfied" THEN "inactive" ELSE "signaled"]
        BY Zenon, <1>7 DEF TimerExpire
    <2>2. Hung(t)' = Hung(t)
        BY Zenon, <2>1 DEF Hung, Objs
    <2>3. wb'[t][1] = wb[t][1]
        <3>1. Timer(t) = 2
            BY Zenon, <1>7, PendingFacts, SoloObjs DEF TimerExpire, WaitPcs
        <3>2. 1 \in WaitBlocks /\ 1 # 2
            BY DEF WaitBlocks, INTERNAL_WAITBLOCKS_N
        <3> QED BY Zenon, <1>1, <2>1, <3>1, <3>2 DEF TypeOK
    <2> QED BY Zenon, <2>1, <2>2, <2>3 DEF Got
<1> QED BY Zenon, <1>3, <1>4, <1>5, <1>6, <1>7

(* nor when it collects: the satisfier it finds is what took the signal. *)
LEMMA GotCollect ==
    ASSUME TypeInv, QueueInv, StatusInv, SoloInv, SoloWaits, NEW t \in Threads,
           NEW o \in Tokens,
           CollectActive(t) \/ CollectSignaled(t) \/ CollectInactive(t)
    PROVE  Got(t, o)' <=> Got(t, o)
<1>1. TypeOK /\ SoloOK(t) /\ SoloOK(t)'
    BY Zenon, SoloCollect DEF TypeInv, SoloInv
<1>2. /\ pc[t] = "collect" /\ pc[t] \in WaitPcs /\ pc[t] \in HangPcs
      /\ UNCHANGED <<wb, call, held>>
    BY Zenon DEF CollectActive, CollectSignaled, CollectInactive, WaitPcs, HangPcs
<1>3. pc'[t] \in {"collect", "return"}
    <2>1. pc'[t] \in {"collect", "return", "panic", "corrupted"}
        BY Zenon, <1>1
        DEF CollectActive, CollectSignaled, CollectInactive, Unlink, AfterCollect, TypeOK
    <2> QED BY Zenon, <1>1, <2>1 DEF SoloOK
<1>4. PICK k \in Hung(t) : Took(t, k)
    BY Zenon, <1>1, <1>2 DEF SoloOK
<1>5. 1 \in Hung(t) /\ \A q \in Hung(t) : wb[t][q] = "signaled" <=> q = k
    BY Zenon, <1>2, <1>4, HungFacts DEF Took
<1>6. satisfier[t] = 1 => k = 1
    <2>1. 1 # 0
        OBVIOUS
    <2> QED BY Zenon, <1>2, <1>4, <2>1 DEF Took
<1>7. satisfier'[t] = 1 => k = 1
    <2>1. CASE CollectSignaled(t)
        <3>1. wb[t][i[t]] = "signaled" /\ (satisfier'[t] = satisfier[t] \/ satisfier'[t] = i[t])
            BY Zenon, <1>1, <2>1 DEF CollectSignaled, TypeOK
        <3> QED BY Zenon, <1>5, <1>6, <3>1
    <2>2. CASE CollectActive(t) \/ CollectInactive(t)
        BY Zenon, <1>6, <2>2 DEF CollectActive, CollectInactive
    <2> QED BY Zenon, <2>1, <2>2
<1>8. Hung(t)' = Hung(t)
    BY Zenon, <1>2, <1>3 DEF Hung, Objs
<1>9. pc'[t] = "return" /\ k = 1 => satisfier'[t] = 1
    <2>1. SUFFICES ASSUME pc'[t] = "return", k = 1, satisfier'[t] # 1 PROVE FALSE
        OBVIOUS
    <2>2. satisfier'[t] # 0 /\ \A q \in 1..(satisfier'[t] - 1) : wb'[t][q] # "signaled"
        BY Zenon, <1>1, <2>1 DEF SoloOK
    <2>3. satisfier'[t] \in Nat
        <3>1. satisfier[t] \in Nat /\ i[t] \in Nat
            BY <1>1 DEF TypeOK
        <3>2. satisfier'[t] = satisfier[t] \/ satisfier'[t] = i[t]
            BY Zenon, <1>1 DEF CollectActive, CollectSignaled, CollectInactive, TypeOK
        <3> QED BY Zenon, <3>1, <3>2
    <2>4. 1 \in 1..(satisfier'[t] - 1)
        BY <2>1, <2>2, <2>3
    <2> QED BY Zenon, <1>2, <1>5, <2>1, <2>2, <2>4
<1> QED BY Zenon, <1>2, <1>3, <1>5, <1>6, <1>7, <1>8, <1>9 DEF Got, WaitPcs, HangPcs

(* What a wait has taken its caller has on return. *)
LEMMA GotReturn ==
    ASSUME TypeInv, StatusInv, SoloInv, SoloWaits, WaitDiscipline, NEW t \in Threads,
           NEW o \in Tokens, Return(t)
    PROVE  Got(t, o)' <=> Got(t, o)
<1>1. TypeOK /\ SoloOK(t)
    BY Zenon DEF TypeInv, SoloInv
<1>2. /\ pc[t] = "return" /\ pc[t] \in WaitPcs /\ pc[t] \notin HangPcs
      /\ pc'[t] = "run" /\ "run" \notin WaitPcs
    BY Zenon, <1>1 DEF Return, TypeOK, WaitPcs, HangPcs
<1>3. /\ call[t] \in Waits[t]
      /\ Len(Objs(t)) \in {1, 2}
      /\ Len(Objs(t)) = 2 <=> call[t].timeout = "finite"
      /\ Len(Objs(t)) = 2 => Timer(t) = 2
      /\ Len(Objs(t)) = 1 => Timer(t) = 0
    <2>1. /\ call[t] \in Waits[t]
          /\ Len(Objs(t)) \in {1, 2}
          /\ Len(Objs(t)) = 2 <=> call[t].timeout = "finite"
          /\ Len(Objs(t)) = 2 => Timer(t) = 2
        BY Zenon, <1>2, SoloObjs
    <2>2. 1 # 2
        OBVIOUS
    <2> QED BY Zenon, <2>1, <2>2 DEF Timer
<1>4. satisfier[t] = 1 \/ (satisfier[t] = 2 /\ Len(Objs(t)) = 2)
    <2>1. satisfier[t] \in Nat
        BY <1>1 DEF TypeOK
    <2>2. satisfier[t] # 0 /\ satisfier[t] <= Len(Objs(t))
        BY Zenon, <1>1, <1>2 DEF SoloOK, TypeInv, IndexInv, IndexOK
    <2>3. \A n \in {1, 2}, q \in Nat : q # 0 /\ q <= n => q = 1 \/ (q = 2 /\ n = 2)
        OBVIOUS
    <2> QED BY Zenon, <1>3, <2>1, <2>2, <2>3
<1>5. \/ /\ call[t].fn = "mutex_lock" /\ Len(Objs(t)) # 2
      \/ call[t].fn = "wait_any" /\ call[t].objs[1] \notin Mutexes
    <2>1. call[t].fn \in WaitFns
        BY Zenon, <1>1 DEF TypeOK, WaitCall
    <2>2. /\ call[t].fn # "semaphore_acquire"
          /\ call[t].fn = "mutex_lock" => call[t].timeout # "finite"
        BY Zenon, <1>3, DispatchAssumption DEF SoloWaits, WaitDiscipline
    <2>3. call[t].fn = "wait_any" => call[t].objs[1] \notin Mutexes
        <3>1. 1 \in 1..Len(call[t].objs)
            <4>1. Len(call[t].objs) = 1
                BY Zenon, <1>3 DEF SoloWaits
            <4> QED BY <4>1
        <3> QED BY Zenon, <1>3, <3>1, DispatchAssumption
    <2> QED BY Zenon, <1>3, <2>1, <2>2, <2>3 DEF WaitFns
<1>6. 1 # 2 /\ 1 # 0
    OBVIOUS
<1>7. held'[t] = held[t] \cup IF call[t].fn = "wait_any"
                              THEN IF satisfier[t] \in {0, Timer(t)} THEN {}
                                   ELSE {call[t].objs[satisfier[t]]} \cap Semaphores
                              ELSE {call[t].objs[1]}
    BY Zenon, <1>1 DEF Return, TypeOK
<1>8. Got(t, o) <=> o \in held[t] \/ (call[t].objs[1] = o /\ satisfier[t] = 1)
    BY Zenon, <1>2 DEF Got
<1>9. Got(t, o)' <=> o \in held'[t]
    BY Zenon, <1>2 DEF Got
<1>10. CASE call[t].fn = "mutex_lock"
    BY Zenon, <1>4, <1>5, <1>7, <1>8, <1>9, <1>10
<1>11. CASE call[t].fn = "wait_any" /\ satisfier[t] = 1
    <2>1. held'[t] = held[t] \cup ({call[t].objs[1]} \cap Semaphores)
        BY Zenon, <1>3, <1>6, <1>7, <1>11
    <2> QED BY Zenon, <1>5, <1>8, <1>9, <1>11, <2>1 DEF Tokens
<1>12. CASE call[t].fn = "wait_any" /\ satisfier[t] = 2 /\ Len(Objs(t)) = 2
    <2>1. held'[t] = held[t]
        BY Zenon, <1>3, <1>7, <1>12
    <2> QED BY Zenon, <1>6, <1>8, <1>9, <1>12, <2>1
<1> QED BY Zenon, <1>4, <1>5, <1>10, <1>11, <1>12

(* A scan takes the signal of the object it finds signaled. *)
LEMMA GotScan ==
    ASSUME TypeInv, StatusInv, SoloInv, SoloWaits, NEW t \in Threads,
           NEW o \in Tokens, ScanConsume(t) \/ ScanSatisfied(t)
    PROVE  IF call[t].objs[1] = o
           THEN /\ ~Got(t, o) /\ Got(t, o)'
                /\ signaled_count[o] > 0
                /\ signaled_count'[o] = signaled_count[o] - 1
           ELSE /\ Got(t, o)' <=> Got(t, o)
                /\ signaled_count'[o] = signaled_count[o]
<1>1. /\ TypeOK /\ SoloOK(t) /\ StatusOK(t)
      /\ ScanConsume(t) /\ i[t] = 1
      /\ signaled_count \in [Objects -> Nat]
    BY Zenon, SoloConsume DEF TypeInv, TypeOK, SoloInv, StatusInv
<1>2. PICK p \in Objects : p = Objs(t)[i[t]] /\ p = call[t].objs[1]
    <2>1. pc[t] = "scan"
        BY Zenon, <1>1 DEF ScanConsume
    <2> QED BY Zenon, <1>1, <2>1, IndexFacts, SoloObjs DEF WaitPcs
<1>3. /\ pc[t] = "scan" /\ pc'[t] = "check" /\ satisfier'[t] = 1
      /\ signaled_count[p] > 0
      /\ signaled_count' = [signaled_count EXCEPT ![p] = Consumed(p)]
      /\ UNCHANGED <<call, held>>
    BY Zenon, <1>1, <1>2 DEF ScanConsume, Signaled, TypeOK
<1>4. /\ satisfier[t] = 0 /\ p \notin held[t]
    BY Zenon, <1>1, <1>2, <1>3 DEF StatusOK, SoloOK, WaitPcs
<1>5. 1 \notin Hung(t)
    <2>1. ~(1 < 1)
        OBVIOUS
    <2> QED BY Zenon, <1>1, <1>3, <2>1 DEF Hung
<1>6. 0 # 1
    OBVIOUS
<1>7. CASE p = o
    <2>1. o \notin Notification \cup KTimers \cup Timers
        BY Zenon, DispatchAssumption DEF Tokens
    <2>2. signaled_count'[o] = signaled_count[o] - 1
        BY Zenon, <1>1, <1>3, <1>7, <2>1 DEF Consumed, IsNotification
    <2>3. ~Got(t, o) /\ Got(t, o)'
        BY Zenon, <1>2, <1>3, <1>4, <1>5, <1>6, <1>7 DEF Got, WaitPcs
    <2> QED BY Zenon, <1>2, <1>3, <1>7, <2>2, <2>3
<1>8. CASE p # o
    <2>1. o \in Objects
        BY Zenon DEF Tokens, Objects
    <2> QED BY Zenon, <1>1, <1>2, <1>3, <1>8, <2>1 DEF Got
<1> QED BY Zenon, <1>7, <1>8

(* A signaller gives back the signal of the object it holds. *)
LEMMA GotSignal ==
    ASSUME TypeInv, NoPosting, NEW t \in Threads, NEW o \in Tokens, Signal(t),
           \A m \in held[t] \cap Mutexes : signaled_count[m] = 0
    PROVE  \/ /\ Got(t, o)' <=> Got(t, o)
              /\ signaled_count'[o] = signaled_count[o]
           \/ /\ Got(t, o) /\ ~Got(t, o)'
              /\ signaled_count'[o] = signaled_count[o] + 1
<1>1. /\ TypeOK /\ signaled_count \in [Objects -> Nat] /\ o \in Objects
      /\ o \notin Events /\ o \notin KTimers
    BY Zenon, DispatchAssumption DEF TypeInv, TypeOK, Tokens, Objects
<1>2. pc[t] = "run" /\ pc'[t] = "satisfy"
    <2>1. PICK x \in Objects : Enter(t, x)
        BY Zenon, <1>1, SignalEnters
    <2> QED BY Zenon, <1>1, <2>1 DEF Enter, TypeOK
<1>3. (Got(t, o) <=> o \in held[t]) /\ (Got(t, o)' <=> o \in held'[t])
    BY Zenon, <1>2 DEF Got, WaitPcs
<1>4. ASSUME NEW x \in held[t] \cap Tokens, held' = [held EXCEPT ![t] = @ \ {x}],
             signaled_count' = [signaled_count EXCEPT ![x] = signaled_count[x] + 1]
      PROVE  \/ /\ Got(t, o)' <=> Got(t, o)
                /\ signaled_count'[o] = signaled_count[o]
             \/ /\ Got(t, o) /\ ~Got(t, o)'
                /\ signaled_count'[o] = signaled_count[o] + 1
    <2>1. held'[t] = held[t] \ {x}
        BY Zenon, <1>1, <1>4 DEF TypeOK
    <2> QED BY Zenon, <1>1, <1>3, <1>4, <2>1
<1>5. CASE MutexUnlock(t)
    <2>1. PICK m \in held[t] \cap Mutexes :
             /\ signaled_count' = [signaled_count EXCEPT ![m] = 1]
             /\ held' = [held EXCEPT ![t] = @ \ {m}]
        BY Zenon, <1>5 DEF MutexUnlock
    <2>2. signaled_count[m] = 0
        BY Zenon
    <2>3. signaled_count[m] + 1 = 1
        BY <2>2
    <2> QED BY Zenon, <1>4, <2>1, <2>3 DEF Tokens
<1>6. CASE SemaphoreRelease(t)
    <2>1. PICK s \in Semaphores :
             /\ s \in held[t]
             /\ signaled_count' = [signaled_count EXCEPT ![s] = signaled_count[s] + 1]
             /\ held' = [held EXCEPT ![t] = @ \ {s}]
        BY Zenon, <1>6 DEF SemaphoreRelease, NoPosting
    <2> QED BY Zenon, <1>4, <2>1 DEF Tokens
<1>7. CASE EventSignal(t) \/ TimerHandleExpiry(t)
    BY Zenon, <1>1, <1>3, <1>7 DEF EventSignal, TimerHandleExpiry
<1> QED BY Zenon, <1>5, <1>6, <1>7 DEF Signal

(* No other step of a thread's own changes the count of a token. *)
LEMMA GotSame ==
    ASSUME TypeInv, QueueInv, StatusInv, SoloInv, SoloWaits, WaitDiscipline,
           NEW t \in Threads, NEW o \in Tokens, OwnStep(t),
           ~Signal(t), ~ScanConsume(t), ~ScanSatisfied(t)
    PROVE  /\ Got(t, o)' <=> Got(t, o)
           /\ signaled_count'[o] = signaled_count[o]
<1>1. /\ TypeOK /\ SoloOK(t) /\ signaled_count \in [Objects -> Nat]
      /\ o \in Objects /\ o \notin Events /\ o # TimerOf[t]
    <2>1. TypeOK /\ SoloOK(t) /\ signaled_count \in [Objects -> Nat] /\ o \in Objects
        BY Zenon DEF TypeInv, SoloInv, TypeOK, Tokens, Objects
    <2>2. o \notin Events /\ o \notin Timers /\ TimerOf[t] \in Timers
        BY Zenon, DispatchAssumption DEF Tokens
    <2> QED BY Zenon, <2>1, <2>2
<1>2. signaled_count'[o] = signaled_count[o]
    BY Zenon, <1>1
    DEF OwnStep, WaitAny, TimerExpire, ScanInsert, BackOut, BackOutRemove, TimerStart,
        Commit, Sleep, TimerStop, CollectActive, CollectSignaled, CollectInactive,
        Return, SatisfyDone, Release, EventSignalEnd, objVars
<1>3. ~BackOutRemove(t)
    BY Zenon, <1>1 DEF BackOutRemove, SoloOK
<1>4. CASE SatisfyDone(t) \/ Release(t) \/ EventSignalEnd(t)
    <2>1. pc[t] \in {"satisfy", "release"} /\ pc'[t] \in {"run", "release"} /\ held' = held
        BY Zenon, <1>1, <1>4 DEF SatisfyDone, Release, EventSignalEnd, TypeOK
    <2> QED BY Zenon, <1>2, <2>1 DEF Got, WaitPcs
<1> QED BY Zenon, <1>2, <1>3, <1>4, GotWait, GotCollect, GotReturn DEF OwnStep

(* A signal that is delivered goes from the object to the waiter. *)
LEMMA GotSatisfy ==
    ASSUME TypeInv, QueueInv, StatusInv, SoloInv, SoloWaits, NEW t \in Threads,
           NEW o \in Tokens, Satisfy(t)
    PROVE  \/ /\ \A u \in Threads : Got(u, o)' <=> Got(u, o)
              /\ signaled_count'[o] = signaled_count[o]
           \/ \E v \in Threads :
                /\ ~Got(v, o) /\ Got(v, o)'
                /\ \A u \in Threads \ {v} : Got(u, o)' <=> Got(u, o)
                /\ signaled_count[o] > 0
                /\ signaled_count'[o] = signaled_count[o] - 1
<1>1. PICK p \in Objects, v \in Threads, k \in WaitBlocks : Pops(t, p, v, k)
    BY Zenon, PopFacts
<1>2. /\ TypeOK /\ SoloOK(t) /\ SoloOK(v) /\ StatusOK(v)
      /\ signaled_count \in [Objects -> Nat]
      /\ wb \in [Threads -> [WaitBlocks -> WaitBlockStatus]]
      /\ o \in Objects
    BY Zenon DEF TypeInv, TypeOK, SoloInv, StatusInv, Tokens, Objects
<1>3. /\ pc[t] = "satisfy" /\ p = obj[t] /\ p \notin Timers /\ Linked(p, v, k)
      /\ signaled_count[p] > 0
      /\ UNCHANGED <<call, i, satisfier, held>>
    BY Zenon, <1>1, <1>2 DEF Satisfy, Pops, SoloOK, SignalPcs, Signaled
<1>4. /\ pc'[t] \in {"satisfy", "release"}
      /\ \A u \in Threads \ {t} : pc'[u] = pc[u]
    <2>1. pc' = pc \/ pc' = [pc EXCEPT ![t] = "release"]
        BY Zenon, <1>1 DEF Pops, Delivered
    <2>2. pc \in [Threads -> WaitPcs \cup SignalPcs \cup {"run", "panic", "corrupted"}]
        BY Zenon, <1>2 DEF TypeOK
    <2> QED BY Zenon, <1>3, <2>1, <2>2
<1>5. v # t
    BY Zenon, <1>3 DEF Linked, LinkPcs, WaitPcs
<1>6. \A u \in Threads \ {v} : wb'[u] = wb[u]
    BY Zenon, <1>1, <1>2 DEF Pops
<1>7. \A u \in Threads \ {t} : Hung(u)' = Hung(u)
    BY Zenon, <1>3, <1>4 DEF Hung, Objs
<1>8. \A u \in Threads \ {v} : Got(u, o)' <=> Got(u, o)
    <2>1. Got(t, o)' <=> Got(t, o)
        BY Zenon, <1>3, <1>4 DEF Got, WaitPcs
    <2>2. \A u \in Threads \ {t, v} : Got(u, o)' <=> Got(u, o)
        BY Zenon, <1>3, <1>4, <1>6, <1>7 DEF Got
    <2> QED BY Zenon, <2>1, <2>2
<1>9. /\ pc[v] \in WaitPcs /\ pc[v] \in HangPcs
      /\ k = 1 /\ 1 \in Hung(v) /\ call[v].objs[1] = p /\ wb[v][1] = "active"
    <2>1. k \in Nat /\ 1 <= k /\ ~(k < 1) /\ 1 # 0
        BY DEF WaitBlocks, INTERNAL_WAITBLOCKS_N
    <2>2. pc[v] # "check"
        BY Zenon, <1>2, <1>3, <2>1 DEF Linked, SoloOK
    <2>3. pc[v] \in HangPcs /\ pc[v] \in WaitPcs
        BY Zenon, <1>2, <1>3, <2>2 DEF Linked, LinkPcs, SoloOK, HangPcs, WaitPcs
    <2>4. k \in 1..Len(Objs(v)) /\ k \in Hung(v) /\ Objs(v)[k] = p
        <3>1. k <= Len(Objs(v)) /\ Len(Objs(v)) \in Nat
            BY Zenon, <1>3, <2>3, IndexFacts DEF Linked
        <3>2. k \in 1..Len(Objs(v))
            BY <2>1, <3>1
        <3> QED BY Zenon, <1>3, <3>2 DEF Linked, Hung
    <2>5. k = 1
        <3>1. k \in {1, 2} /\ (Len(Objs(v)) = 2 => Objs(v)[2] \in Timers) /\ Len(Objs(v)) \in {1, 2}
            BY Zenon, <2>3, <2>4, HungFacts, SoloObjs
        <3>2. 1..1 = {1} /\ 1 # 2
            OBVIOUS
        <3> QED BY Zenon, <1>3, <2>4, <3>1, <3>2
    <2> QED BY Zenon, <1>3, <2>3, <2>4, <2>5, SoloObjs DEF Linked
<1>10. CASE wait_status[v] = "satisfied"
    <2>1. signaled_count' = signaled_count /\ wb'[v][1] = "inactive"
        <3>1. signaled_count' = signaled_count /\ wb' = [wb EXCEPT ![v][k] = "inactive"]
            BY Zenon, <1>1, <1>10 DEF Pops
        <3> QED BY Zenon, <1>2, <1>9, <3>1
    <2>2. Got(v, o)' <=> Got(v, o)
        BY Zenon, <1>3, <1>4, <1>5, <1>9, <2>1 DEF Got
    <2> QED BY Zenon, <1>8, <2>1, <2>2
<1>11. CASE wait_status[v] # "satisfied"
    <2>1. /\ signaled_count' = [signaled_count EXCEPT ![p] = Consumed(p)]
          /\ wb' = [wb EXCEPT ![v][k] = "signaled"]
        BY Zenon, <1>1, <1>11 DEF Pops, Delivered
    <2>2. wb'[v][1] = "signaled"
        BY Zenon, <1>2, <1>9, <2>1
    <2>3. CASE p # o
        BY Zenon, <1>2, <1>3, <1>4, <1>5, <1>8, <1>9, <2>1, <2>3 DEF Got
    <2>4. CASE p = o
        <3>1. o \notin Notification \cup KTimers \cup Timers
            BY Zenon, DispatchAssumption DEF Tokens
        <3>2. signaled_count'[o] = signaled_count[o] - 1
            BY Zenon, <1>2, <2>1, <2>4, <3>1 DEF Consumed, IsNotification
        <3>3. satisfier[v] # 1
            <4>1. satisfier[v] = 0
                BY Zenon, <1>2, <1>9, <1>11 DEF SoloOK, StatusOK, HangPcs
            <4> QED BY <4>1
        <3>4. o \notin held[v]
            BY Zenon, <1>2, <1>9, <2>4 DEF SoloOK
        <3>5. ~Got(v, o)
            BY Zenon, <1>9, <3>3, <3>4 DEF Got
        <3>6. Got(v, o)'
            BY Zenon, <1>3, <1>4, <1>5, <1>7, <1>9, <2>2, <2>4 DEF Got
        <3> QED BY Zenon, <1>3, <1>8, <2>4, <3>2, <3>5, <3>6
    <2> QED BY Zenon, <2>3, <2>4
<1> QED BY Zenon, <1>10, <1>11

(* Each step keeps an object's count and holders, or moves one signal. *)
LEMMA TokenMoves ==
    ASSUME TypeInv, QueueInv, StatusInv, SoloInv, SoloWaits, WaitDiscipline,
           NoPosting, NEW o \in Tokens, Next,
           \A t \in Threads : \A m \in held[t] \cap Mutexes : signaled_count[m] = 0
    PROVE  \/ Holders(o)' = Holders(o) /\ signaled_count'[o] = signaled_count[o]
           \/ \E v \in Threads :
                \/ /\ v \notin Holders(o) /\ Holders(o)' = Holders(o) \cup {v}
                   /\ signaled_count[o] > 0
                   /\ signaled_count'[o] = signaled_count[o] - 1
                \/ /\ v \in Holders(o) /\ Holders(o)' = Holders(o) \ {v}
                   /\ signaled_count'[o] = signaled_count[o] + 1
<1>1. ASSUME NEW t \in Threads, OwnStep(t)
      PROVE  \A u \in Threads \ {t} : Got(u, o)' <=> Got(u, o)
    <2>1. Alone(t)
        BY Zenon, <1>1, OwnStepAlone DEF TypeInv
    <2> QED BY Zenon, <2>1, GotFrame
<1>2. ASSUME NEW t \in Threads, Signal(t)
      PROVE  \/ Holders(o)' = Holders(o) /\ signaled_count'[o] = signaled_count[o]
             \/ /\ t \in Holders(o) /\ Holders(o)' = Holders(o) \ {t}
                /\ signaled_count'[o] = signaled_count[o] + 1
    <2>1. \A u \in Threads \ {t} : Got(u, o)' <=> Got(u, o)
        BY Zenon, <1>1, <1>2 DEF OwnStep
    <2>2. \/ /\ Got(t, o)' <=> Got(t, o)
             /\ signaled_count'[o] = signaled_count[o]
          \/ /\ Got(t, o) /\ ~Got(t, o)'
             /\ signaled_count'[o] = signaled_count[o] + 1
        BY Zenon, <1>2, GotSignal
    <2> QED BY Zenon, <2>1, <2>2 DEF Holders
<1>3. ASSUME NEW t \in Threads, ScanConsume(t) \/ ScanSatisfied(t)
      PROVE  \/ Holders(o)' = Holders(o) /\ signaled_count'[o] = signaled_count[o]
             \/ /\ t \notin Holders(o) /\ Holders(o)' = Holders(o) \cup {t}
                /\ signaled_count[o] > 0
                /\ signaled_count'[o] = signaled_count[o] - 1
    <2>1. \A u \in Threads \ {t} : Got(u, o)' <=> Got(u, o)
        BY Zenon, <1>1, <1>3 DEF OwnStep
    <2>2. \/ /\ Got(t, o)' <=> Got(t, o)
             /\ signaled_count'[o] = signaled_count[o]
          \/ /\ ~Got(t, o) /\ Got(t, o)'
             /\ signaled_count[o] > 0
             /\ signaled_count'[o] = signaled_count[o] - 1
        BY Zenon, <1>3, GotScan
    <2> QED BY Zenon, <2>1, <2>2 DEF Holders
<1>4. ASSUME NEW t \in Threads, OwnStep(t), ~Signal(t), ~ScanConsume(t), ~ScanSatisfied(t)
      PROVE  Holders(o)' = Holders(o) /\ signaled_count'[o] = signaled_count[o]
    BY Zenon, <1>1, <1>4, GotSame DEF Holders
<1>5. ASSUME NEW t \in Threads, Satisfy(t)
      PROVE  \/ Holders(o)' = Holders(o) /\ signaled_count'[o] = signaled_count[o]
             \/ \E v \in Threads :
                 /\ v \notin Holders(o) /\ Holders(o)' = Holders(o) \cup {v}
                 /\ signaled_count[o] > 0
                 /\ signaled_count'[o] = signaled_count[o] - 1
    BY ZenonT(30), <1>5, GotSatisfy DEF Holders
<1> QED BY Zenon, <1>2, <1>3, <1>4, <1>5 DEF Next, Kernel, OwnStep

-----------------------------------------------------------------------------
(* The holders of an object are finitely many. *)
LEMMA HoldersFinite ==
    ASSUME TypeInv, IsFiniteSet(Threads), NEW o \in Tokens
    PROVE  /\ IsFiniteSet(Holders(o)) /\ Cardinality(Holders(o)) \in Nat
           /\ signaled_count[o] \in Nat
<1>1. Holders(o) \in SUBSET Threads
    BY Zenon DEF Holders
<1>2. signaled_count[o] \in Nat
    BY Zenon DEF TypeInv, TypeOK, Tokens, Objects
<1> QED BY Zenon, <1>1, <1>2, FS_Subset, FS_CardinalityType

(* A mutex that a thread holds is not signaled. *)
LEMMA HeldIsTaken ==
    ASSUME TypeInv, IsFiniteSet(Threads), Conserved, NEW t \in Threads,
           NEW m \in held[t] \cap Mutexes
    PROVE  signaled_count[m] = 0
<1>1. m \in Tokens /\ t \in Holders(m)
    BY Zenon DEF Tokens, Holders, Got
<1>2. /\ IsFiniteSet(Holders(m)) /\ Cardinality(Holders(m)) \in Nat
      /\ signaled_count[m] \in Nat
    BY Zenon, <1>1, HoldersFinite
<1>3. Cardinality(Holders(m)) # 0
    BY Zenon, <1>1, <1>2, FS_EmptySet
<1>4. signaled_count[m] + Cardinality(Holders(m)) = 1
    BY Zenon, <1>1 DEF Conserved
<1> QED BY <1>2, <1>3, <1>4

(* Every step keeps Conserved, *)
LEMMA ConservedNext ==
    ASSUME TypeInv, QueueInv, StatusInv, SoloInv, SoloWaits, WaitDiscipline,
           NoPosting, IsFiniteSet(Threads), Conserved, [Next]_vars
    PROVE  Conserved'
<1>1. CASE UNCHANGED vars
    <2>1. UNCHANGED <<signaled_count, wb, pc, call, i, satisfier, held>>
        BY Zenon, <1>1 DEF vars, objVars, waitVars
    <2>2. \A o : Holders(o)' = Holders(o)
        BY Zenon, <2>1 DEF Holders, Got, Hung, Objs
    <2> QED BY Zenon, <2>1, <2>2 DEF Conserved
<1>2. CASE Next
    <2> SUFFICES ASSUME NEW o \in Tokens
                 PROVE  signaled_count'[o] + Cardinality(Holders(o)')
                          = signaled_count[o] + Cardinality(Holders(o))
        BY Zenon DEF Conserved
    <2>1. ASSUME NEW t \in Threads, NEW m \in held[t] \cap Mutexes
          PROVE  signaled_count[m] = 0
        BY Zenon, HeldIsTaken
    <2>2. /\ IsFiniteSet(Holders(o)) /\ Cardinality(Holders(o)) \in Nat
          /\ signaled_count[o] \in Nat
        BY Zenon, HoldersFinite
    <2>3. \A v : v \notin Holders(o) =>
                 Cardinality(Holders(o) \cup {v}) = Cardinality(Holders(o)) + 1
        BY Zenon, <2>2, FS_AddElement
    <2>4. \A v : v \in Holders(o) =>
                 Cardinality(Holders(o) \ {v}) = Cardinality(Holders(o)) - 1
        BY Zenon, <2>2, FS_RemoveElement
    <2>5. \/ /\ Cardinality(Holders(o)') = Cardinality(Holders(o))
             /\ signaled_count'[o] = signaled_count[o]
          \/ /\ Cardinality(Holders(o)') = Cardinality(Holders(o)) + 1
             /\ signaled_count'[o] = signaled_count[o] - 1
          \/ /\ Cardinality(Holders(o)') = Cardinality(Holders(o)) - 1
             /\ signaled_count'[o] = signaled_count[o] + 1
        BY Zenon, <1>2, <2>3, <2>4, <2>1, TokenMoves
    <2> QED BY <2>2, <2>5
<1> QED BY Zenon, <1>1, <1>2

(* and it holds at the start. *)
LEMMA ConservedInit ==
    ASSUME Init
    PROVE  Conserved
<1> SUFFICES ASSUME NEW o \in Tokens
             PROVE  signaled_count[o] + Cardinality(Holders(o))
                      = IF o \in Mutexes THEN 1 ELSE SemInit[o]
    BY Zenon DEF Conserved
<1>1. Holders(o) = {}
    BY Zenon DEF Init, Holders, Got, WaitPcs
<1>2. signaled_count[o] = IF o \in Mutexes THEN 1 ELSE SemInit[o]
    BY Zenon DEF Init, Tokens, Objects
<1>3. signaled_count[o] \in Nat
    BY Zenon, TypeInit DEF TypeInv, TypeOK, Tokens, Objects
<1>4. Cardinality(Holders(o)) = 0
    BY Zenon, <1>1, FS_EmptySet
<1> QED BY <1>2, <1>3, <1>4

(* Conserved is TokenConserved, with Got for Has. *)
LEMMA ConservedTokens ==
    ASSUME TypeInv, SoloInv, SoloWaits, Conserved
    PROVE  TokenConserved
<1>1. \A o \in Tokens : Holders(o) = {t \in Threads : Has(t, o)}
    BY Zenon, GotIsHas DEF Holders
<1> QED BY Zenon, <1>1 DEF Conserved, TokenConserved, Tokens

(* No signal of a mutex or a semaphore is lost or delivered twice: the     *)
(* count of the object and the threads that took a signal of it add up to  *)
(* the initial count at every step of scan, delivery, timeout and          *)
(* collection, if nobody releases a semaphore it has not acquired.         *)
THEOREM SignalsConserved ==
    ASSUME WaitDiscipline, SoloWaits, NoPosting, IsFiniteSet(Threads)
    PROVE  Spec => []TokenConserved
<1> DEFINE Inv == WaitInv /\ SoloInv /\ Conserved
<1>1. Init => Inv
    BY Zenon, WaitInit, SoloInit, ConservedInit
<1>2. Inv /\ [Next]_vars => Inv'
    BY Zenon, WaitNext, SoloNext, ConservedNext DEF WaitInv
<1>3. Inv => TokenConserved
    BY Zenon, ConservedTokens DEF WaitInv
<1> QED BY <1>1, <1>2, <1>3, PTL DEF Spec
=============================================================================
