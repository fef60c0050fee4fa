--------------------------- MODULE DispatchProofs ---------------------------
(***************************************************************************)
(* Proofs about Dispatch for every number of threads, objects and waits:   *)
(* the queues of wait.c as sequences, the types of the state (TypeInv),    *)
(* that a signal passes no queued thread by (WaiterInv), what hangs on the *)
(* queues of dispatch objects (QueueInv), and that the word wait_status,   *)
(* the waitblocks and the satisfier of a wait agree (StatusInv).           *)
(***************************************************************************)
EXTENDS Dispatch, TLAPS

(* Append and the elements of the result. *)
LEMMA AppendFacts ==
    ASSUME NEW S, NEW s \in Seq(S), NEW x \in S
    PROVE  /\ Append(s, x) \in Seq(S)
           /\ Len(Append(s, x)) = Len(s) + 1
           /\ Append(s, x)[Len(s) + 1] = x
           /\ \A k \in 1..Len(s) : Append(s, x)[k] = s[k] /\ s[k] \in S
           /\ \A k \in 1..Len(Append(s, x)) : Append(s, x)[k] \in S
OBVIOUS

(* RemoveAt shifts what follows the removed element. *)
LEMMA RemoveAtFacts ==
    ASSUME NEW S, NEW s \in Seq(S), NEW n \in 1..Len(s)
    PROVE  /\ RemoveAt(s, n) \in Seq(S)
           /\ Len(RemoveAt(s, n)) = Len(s) - 1
           /\ \A k \in 1..(Len(s) - 1) :
                 RemoveAt(s, n)[k] = IF k < n THEN s[k] ELSE s[k + 1]
<1> DEFINE r == [k \in 1..(Len(s) - 1) |-> IF k < n THEN s[k] ELSE s[k + 1]]
<1>1. Len(s) - 1 \in Nat
    OBVIOUS
<1>2. \A k \in 1..(Len(s) - 1) : r[k] \in S
    OBVIOUS
<1>3. r \in Seq(S) /\ Len(r) = Len(s) - 1
    BY <1>1, <1>2
<1> QED BY <1>3 DEF RemoveAt

(* Tail shifts every element. *)
LEMMA TailFacts ==
    ASSUME NEW S, NEW s \in Seq(S), s # <<>>
    PROVE  /\ Tail(s) \in Seq(S)
           /\ Len(s) \in Nat /\ Len(s) >= 1
           /\ Len(Tail(s)) = Len(s) - 1
           /\ \A k \in 1..(Len(s) - 1) : Tail(s)[k] = s[k + 1]
           /\ Head(s) = s[1]
           /\ s[1] \in S
OBVIOUS

(* The queue has every element at most once. *)
Distinct(s) == \A m, n \in 1..Len(s) : s[m] = s[n] => m = n

(* The elements of a sequence are what is at its indices. *)
LEMMA Elems ==
    ASSUME NEW S, NEW s \in Seq(S)
    PROVE  \A x : x \in ToSet(s) <=> \E n \in 1..Len(s) : x = s[n]
BY DEF ToSet

(* Insertion at the tail of an element that is not queued. *)
LEMMA InsertElems ==
    ASSUME NEW S, NEW s \in Seq(S), NEW x \in S
    PROVE  /\ ToSet(Append(s, x)) = ToSet(s) \cup {x}
           /\ Distinct(s) /\ x \notin ToSet(s) => Distinct(Append(s, x))
BY AppendFacts DEF ToSet, Distinct

(* Removal of the first element. *)
LEMMA TailElems ==
    ASSUME NEW S, NEW s \in Seq(S), s # <<>>, Distinct(s)
    PROVE  /\ ToSet(Tail(s)) = ToSet(s) \ {Head(s)}
           /\ Head(s) \in ToSet(s)
           /\ Distinct(Tail(s))
<1>1. \A x : x \in ToSet(s) <=> \E n \in 1..Len(s) : x = s[n]
    BY Elems
<1>2. \A x : x \in ToSet(Tail(s)) <=> \E k \in 1..(Len(s) - 1) : x = s[k + 1]
    <2>1. /\ Tail(s) \in Seq(S) /\ Len(Tail(s)) = Len(s) - 1
          /\ \A k \in 1..(Len(s) - 1) : Tail(s)[k] = s[k + 1]
        BY TailFacts
    <2>2. \A x : x \in ToSet(Tail(s)) <=> \E k \in 1..Len(Tail(s)) : x = Tail(s)[k]
        BY ZenonT(30), <2>1, Elems
    <2> QED BY <2>1, <2>2
<1>3. Len(s) \in Nat /\ Len(s) >= 1 /\ Head(s) = s[1]
    BY TailFacts
<1>4. ASSUME NEW k \in 1..(Len(s) - 1)
      PROVE  s[k + 1] \in ToSet(s) \ {Head(s)}
    BY <1>1, <1>3 DEF Distinct
<1>5. ASSUME NEW n \in 1..Len(s), s[n] # Head(s)
      PROVE  s[n] \in ToSet(Tail(s))
    <2>1. n - 1 \in 1..(Len(s) - 1) /\ (n - 1) + 1 = n
        BY <1>3, <1>5
    <2> QED BY ZenonT(30), <1>2, <2>1
<1>6. ToSet(Tail(s)) = ToSet(s) \ {Head(s)}
    BY <1>1, <1>2, <1>4, <1>5
<1>7. Distinct(Tail(s))
    BY <1>3, TailFacts DEF Distinct
<1> QED BY <1>1, <1>3, <1>6, <1>7

(* Removal from the middle. *)
LEMMA RemoveElems ==
    ASSUME NEW S, NEW s \in Seq(S), NEW n \in 1..Len(s), Distinct(s)
    PROVE  /\ ToSet(RemoveAt(s, n)) = ToSet(s) \ {s[n]}
           /\ Distinct(RemoveAt(s, n))
<1> DEFINE r == RemoveAt(s, n)
           old(k) == IF k < n THEN k ELSE k + 1
<1>1. \A x : x \in ToSet(s) <=> \E m \in 1..Len(s) : x = s[m]
    BY Elems
<1>2. r \in Seq(S) /\ Len(r) = Len(s) - 1 /\ Len(s) \in Nat
    BY RemoveAtFacts
<1>3. ASSUME NEW k \in 1..(Len(s) - 1)
      PROVE  old(k) \in 1..Len(s) /\ old(k) # n /\ r[k] = s[old(k)]
    <2>1. r[k] = IF k < n THEN s[k] ELSE s[k + 1]
        BY Zenon, RemoveAtFacts
    <2>2. r[k] = s[old(k)]
        BY <2>1
    <2>3. old(k) \in 1..Len(s) /\ old(k) # n
        BY <1>2
    <2> QED BY <2>2, <2>3
<1>4. \A x : x \in ToSet(r) <=> \E k \in 1..(Len(s) - 1) : x = r[k]
    <2>1. \A x : x \in ToSet(r) <=> \E k \in 1..Len(r) : x = r[k]
        BY <1>2, Elems
    <2> QED BY <1>2, <2>1
<1>5. ASSUME NEW k \in 1..(Len(s) - 1)
      PROVE  r[k] \in ToSet(s) \ {s[n]}
    BY <1>1, <1>3 DEF Distinct
<1>6. ASSUME NEW m \in 1..Len(s), m # n
      PROVE  s[m] \in ToSet(r)
    <2>1. CASE m < n
        BY <1>2, <1>3, <1>4, <2>1
    <2>2. CASE m > n
        <3>1. m - 1 \in 1..(Len(s) - 1) /\ old(m - 1) = m
            BY <1>2, <2>2
        <3> QED BY ZenonT(30), <1>3, <1>4, <3>1
    <2> QED BY <1>6, <2>1, <2>2
<1>7. ToSet(r) = ToSet(s) \ {s[n]}
    BY <1>1, <1>4, <1>5, <1>6
<1>8. Distinct(r)
    <2> SUFFICES ASSUME NEW j \in 1..(Len(s) - 1), NEW k \in 1..(Len(s) - 1),
                        r[j] = r[k]
                 PROVE  j = k
        BY <1>2 DEF Distinct
    <2>1. old(j) = old(k)
        BY <1>3 DEF Distinct
    <2> QED BY <2>1
<1> QED BY <1>7, <1>8

-----------------------------------------------------------------------------
(* The objects of a wait are objects, and there are waitblocks for all of  *)
(* them (the loops of wait_any).                                           *)
LEMMA WaitObjsType ==
    ASSUME NEW t \in Threads, NEW w \in Waits[t]
    PROVE  /\ w \in WaitCall
           /\ Len(w.objs) \in Nat
           /\ 1 <= Len(w.objs)
           /\ Len(w.objs) <= 4
           /\ WaitObjs(t, w) \in Seq(Objects)
           /\ Len(WaitObjs(t, w)) = IF w.timeout = "finite" THEN Len(w.objs) + 1
                                    ELSE Len(w.objs)
           /\ Len(WaitObjs(t, w)) \in Nat
           /\ 1 <= Len(WaitObjs(t, w))
           /\ Len(WaitObjs(t, w)) <= 5
           /\ \A k \in 1..Len(w.objs) : /\ WaitObjs(t, w)[k] = w.objs[k]
                                        /\ w.objs[k] \in Objects \ Timers
           /\ w.timeout = "finite" =>
                 WaitObjs(t, w)[Len(w.objs) + 1] = TimerOf[t]
           /\ TimerOf[t] \in Objects
<1>1. w \in WaitCall
    BY Zenon, DispatchAssumption
<1>2. PICK q \in Seq(Objects) : q = w.objs
    BY Zenon, <1>1 DEF WaitCall
<1>3. /\ Len(q) \in Nat
      /\ 1 <= Len(q)
      /\ Len(q) <= 4
      /\ \A k \in 1..Len(q) : q[k] \in Objects \ Timers
    <2>1. /\ Len(w.objs) \in 1..4
          /\ \A k \in 1..Len(w.objs) : w.objs[k] \notin Timers
        BY Zenon, DispatchAssumption DEF INTERNAL_WAITBLOCKS_N
    <2>2. /\ Len(q) \in 1..4
          /\ \A k \in 1..Len(q) : q[k] \notin Timers
        BY Zenon, <1>2, <2>1
    <2>3. Len(q) \in Nat
        OBVIOUS
    <2>4. 1 <= Len(q) /\ Len(q) <= 4
        BY <2>2
    <2>5. \A k \in 1..Len(q) : q[k] \in Objects
        OBVIOUS
    <2> QED BY Zenon, <2>2, <2>3, <2>4, <2>5
<1>4. TimerOf[t] \in Objects
    BY Zenon, DispatchAssumption DEF Objects, Timers
<1>5. CASE w.timeout = "finite"
    <2>1. WaitObjs(t, w) = Append(q, TimerOf[t])
        BY Zenon, <1>2, <1>5 DEF WaitObjs
    <2>2. /\ Append(q, TimerOf[t]) \in Seq(Objects)
          /\ Len(Append(q, TimerOf[t])) = Len(q) + 1
          /\ Append(q, TimerOf[t])[Len(q) + 1] = TimerOf[t]
          /\ \A k \in 1..Len(q) : Append(q, TimerOf[t])[k] = q[k]
        BY <1>4, AppendFacts
    <2> QED BY <1>1, <1>2, <1>3, <1>4, <1>5, <2>1, <2>2
<1>6. CASE w.timeout # "finite"
    <2>1. WaitObjs(t, w) = q
        BY Zenon, <1>2, <1>6 DEF WaitObjs
    <2> QED BY <1>1, <1>2, <1>3, <1>4, <1>6, <2>1
<1> QED BY Zenon, <1>5, <1>6

(* The same for the object at one index of the wait. *)
LEMMA WaitObjsElem ==
    ASSUME NEW t \in Threads, NEW w \in Waits[t],
           NEW k \in Nat, 1 <= k, k <= Len(WaitObjs(t, w))
    PROVE  /\ WaitObjs(t, w)[k] \in Objects
           /\ k <= 5
           /\ Len(WaitObjs(t, w)) \in Nat
           /\ Len(WaitObjs(t, w)) <= 5
           /\ WaitObjs(t, w)[k] \in Timers =>
                 /\ w.timeout = "finite"
                 /\ k = Len(WaitObjs(t, w))
                 /\ WaitObjs(t, w)[k] = TimerOf[t]
BY SMTT(30), WaitObjsType

(* Where the loops of wait_any stand. *)
IndexOK(t) ==
    /\ pc[t] \in WaitPcs \cup {"panic", "corrupted"} =>
          /\ call[t] \in Waits[t]
          /\ satisfier[t] <= Len(Objs(t))
    /\ pc[t] = "scan" => i[t] <= Len(Objs(t))
    /\ pc[t] = "backout" => i[t] < satisfier[t]
    /\ pc[t] \in {"sleep", "timer_stop"} => i[t] = 1
    /\ pc[t] = "collect" => i[t] <= Len(Objs(t))

IndexInv == \A t \in Threads : IndexOK(t)

TypeInv == TypeOK /\ IndexInv

(* The first state is well typed. *)
LEMMA TypeInit == Init => TypeInv
<1> SUFFICES ASSUME Init PROVE TypeInv
    OBVIOUS
<1> USE DispatchAssumption
<1>1. TimerOf \in [Threads -> Objects]
    BY Zenon DEF Objects, Timers
<1>2. \A t \in Threads : call[t] \in WaitCall
    BY DEF Init, Nobody, WaitCall, WaitFns, Timeouts
<1>3. signaled_count \in [Objects -> Nat]
    BY Zenon DEF Init
<1>4. waitblocks \in [Objects -> Seq(Threads \X WaitBlocks)]
    BY DEF Init
<1>5. TypeOK
    BY <1>1, <1>2, <1>3, <1>4
    DEF Init, TypeOK, WaitBlocks, INTERNAL_WAITBLOCKS_N, WaitPcs, SignalPcs,
        WaitStatus, WaitBlockStatus, Objects
<1>6. IndexInv
    BY Zenon DEF Init, IndexInv, IndexOK, WaitPcs
<1> QED BY Zenon, <1>5, <1>6 DEF TypeInv

(* The object that wait_any looks at is an object, at the steps that look. *)
LEMMA IndexFacts ==
    ASSUME TypeInv, NEW t \in Threads
    PROVE  /\ i[t] \in Nat /\ 1 <= i[t] /\ i[t] # 0
           /\ pc[t] \in WaitPcs \cup {"panic", "corrupted"} =>
                 /\ call[t] \in Waits[t]
                 /\ Len(Objs(t)) \in Nat
                 /\ 1 <= Len(Objs(t))
                 /\ Len(Objs(t)) <= 5
           /\ pc[t] \in {"scan", "backout", "collect"} =>
                 /\ i[t] <= Len(Objs(t))
                 /\ i[t] <= 5
                 /\ i[t] \in WaitBlocks
                 /\ Objs(t)[i[t]] \in Objects
<1>1. i[t] \in Nat /\ 1 <= i[t] /\ i[t] # 0
    BY DEF TypeInv, TypeOK
<1>2. pc[t] \in WaitPcs \cup {"panic", "corrupted"} =>
                 /\ call[t] \in Waits[t]
                 /\ Len(Objs(t)) \in Nat
                 /\ 1 <= Len(Objs(t))
                 /\ Len(Objs(t)) <= 5
    BY Zenon, WaitObjsType DEF TypeInv, IndexInv, IndexOK, Objs
<1>3. ASSUME pc[t] \in {"scan", "backout", "collect"}
      PROVE  i[t] <= Len(Objs(t))
    BY <1>1, <1>2, <1>3 DEF TypeInv, TypeOK, IndexInv, IndexOK, WaitPcs
<1>4. ASSUME pc[t] \in {"scan", "backout", "collect"}
      PROVE  Objs(t)[i[t]] \in Objects
    BY Zenon, <1>1, <1>2, <1>3, <1>4, WaitObjsElem DEF Objs, WaitPcs
<1>5. ASSUME pc[t] \in {"scan", "backout", "collect"}
      PROVE  i[t] <= 5 /\ i[t] \in WaitBlocks
    BY <1>1, <1>2, <1>3, <1>5 DEF WaitBlocks, INTERNAL_WAITBLOCKS_N, WaitPcs
<1> QED BY Zenon, <1>1, <1>2, <1>3, <1>4, <1>5

(* A step of t inside its wait leaves the other threads' loops alone. *)
LEMMA IndexFrame ==
    ASSUME TypeInv, NEW t \in Threads, call' = call,
           \A u \in Threads \ {t} : /\ pc'[u] = pc[u]
                                    /\ i'[u] = i[u]
                                    /\ satisfier'[u] = satisfier[u],
           IndexOK(t)'
    PROVE  IndexInv'
<1> SUFFICES ASSUME NEW u \in Threads PROVE IndexOK(u)'
    BY Zenon DEF IndexInv
<1>1. CASE u = t
    BY Zenon, <1>1
<1>2. CASE u # t
    <2>1. IndexOK(u)
        BY Zenon DEF TypeInv, IndexInv
    <2> QED BY Zenon, <1>2, <2>1 DEF IndexOK, Objs
<1> QED BY Zenon, <1>1, <1>2

(* A step of a thread that is, and stays, outside of wait_any. *)
LEMMA IndexSignal ==
    ASSUME TypeInv, NEW t \in Threads, NEW p \in SignalPcs \cup {"run"},
           pc' = [pc EXCEPT ![t] = p], UNCHANGED <<call, i, satisfier>>
    PROVE  IndexInv'
<1>1. pc \in [Threads -> WaitPcs \cup SignalPcs \cup {"run", "panic", "corrupted"}]
    BY Zenon DEF TypeInv, TypeOK
<1>2. pc'[t] = p /\ \A u \in Threads \ {t} : pc'[u] = pc[u]
    BY Zenon, <1>1
<1>3. IndexOK(t)'
    BY Zenon, <1>2 DEF IndexOK, WaitPcs, SignalPcs
<1> QED BY Zenon, <1>2, <1>3, IndexFrame

(* Updates of the queues and of the waitblocks. *)
LEMMA QueueUpdate ==
    ASSUME NEW f \in [Objects -> Seq(Threads \X WaitBlocks)], NEW o,
           NEW q \in Seq(Threads \X WaitBlocks)
    PROVE  [f EXCEPT ![o] = q] \in [Objects -> Seq(Threads \X WaitBlocks)]
BY ZenonT(30)

(* The empty queue is a queue of waitblocks. *)
LEMMA EmptyQueue == <<>> \in Seq(Threads \X WaitBlocks)
OBVIOUS

(* Changing one waitblock keeps the array well typed. *)
LEMMA BlockUpdate ==
    ASSUME NEW f \in [Threads -> [WaitBlocks -> WaitBlockStatus]],
           NEW t \in Threads, NEW k, NEW v \in WaitBlockStatus
    PROVE  [f EXCEPT ![t][k] = v] \in [Threads -> [WaitBlocks -> WaitBlockStatus]]
BY ZenonT(30)

(* Every step keeps the types and the loop bounds. *)
LEMMA TypeNext == TypeInv /\ [Next]_vars => TypeInv'
<1> SUFFICES ASSUME TypeInv, [Next]_vars PROVE TypeInv'
    OBVIOUS
<1>1. signaled_count \in [Objects -> Nat]
    BY Zenon DEF TypeInv, TypeOK
<1>2. waitblocks \in [Objects -> Seq(Threads \X WaitBlocks)]
    BY Zenon DEF TypeInv, TypeOK
<1>3. lock \in [Objects -> Threads \cup {NoThread}]
    BY Zenon DEF TypeInv, TypeOK
<1>4. owner \in [Mutexes -> Threads \cup {NoThread}]
    BY Zenon DEF TypeInv, TypeOK
<1>5. wait_status \in [Threads -> WaitStatus]
    BY Zenon DEF TypeInv, TypeOK
<1>6. wb \in [Threads -> [WaitBlocks -> WaitBlockStatus]]
    BY Zenon DEF TypeInv, TypeOK
<1>7. pending \subseteq Threads
    BY Zenon DEF TypeInv, TypeOK
<1>8. woken \subseteq Threads
    BY Zenon DEF TypeInv, TypeOK
<1>9. pc \in [Threads -> WaitPcs \cup SignalPcs \cup {"run", "panic", "corrupted"}]
    BY Zenon DEF TypeInv, TypeOK
<1>10. call \in [Threads -> WaitCall]
    BY Zenon DEF TypeInv, TypeOK
<1>11. i \in [Threads -> 1..(INTERNAL_WAITBLOCKS_N + 2)]
    BY Zenon DEF TypeInv, TypeOK
<1>12. satisfier \in [Threads -> 0..(INTERNAL_WAITBLOCKS_N + 1)]
    BY Zenon DEF TypeInv, TypeOK
<1>13. obj \in [Threads -> Objects]
    BY Zenon DEF TypeInv, TypeOK
<1>14. ret \in [Threads -> Threads \cup {NoThread}]
    BY Zenon DEF TypeInv, TypeOK
<1>15. held \in [Threads -> SUBSET Objects]
    BY Zenon DEF TypeInv, TypeOK
<1>16. \A t \in Threads : IndexOK(t)
    BY Zenon DEF TypeInv, IndexInv
<1>17. ASSUME NEW t \in Threads, WaitAny(t)
      PROVE  TypeInv'
    <2>1. PICK w \in Waits[t] :
             /\ call' = [call EXCEPT ![t] = w]
             /\ signaled_count' = IF w.timeout = "finite"
                                  THEN [signaled_count EXCEPT ![TimerOf[t]] = 0]
                                  ELSE signaled_count
        BY Zenon, <1>17 DEF WaitAny
    <2>2. w \in WaitCall /\ 1 <= Len(WaitObjs(t, w))
        BY Zenon, WaitObjsType, Zenon
    <2>3. UNCHANGED <<waitblocks, lock, owner, wb, pending, woken, obj,
                      ret, held>>
        BY Zenon, <1>17
        DEF WaitAny, objVars, waitVars, sigVars
    <2>4. call' \in [Threads -> WaitCall]
        BY Zenon, <1>17, <1>10, <2>1, <2>2
        DEF WaitAny
    <2>5. signaled_count' \in [Objects -> Nat]
        BY Zenon, <1>17, <1>1, <2>1
        DEF WaitAny
    <2>6. wait_status' \in [Threads -> WaitStatus]
        BY Zenon, <1>17, <1>5
        DEF WaitAny, WaitStatus
    <2>7. satisfier' \in [Threads -> 0..(INTERNAL_WAITBLOCKS_N + 1)]
        BY <1>17, <1>12
        DEF WaitAny, INTERNAL_WAITBLOCKS_N
    <2>8. i' \in [Threads -> 1..(INTERNAL_WAITBLOCKS_N + 2)]
        BY <1>17, <1>11
        DEF WaitAny, INTERNAL_WAITBLOCKS_N
    <2>9. pc' \in [Threads -> WaitPcs \cup SignalPcs \cup {"run", "panic", "corrupted"}]
        BY Zenon, <1>17, <1>9
        DEF WaitAny, WaitPcs, SignalPcs
    <2>10. TypeOK'
        BY Zenon, <2>3, <2>4, <2>5, <2>6, <2>7,
            <2>8, <2>9 DEF TypeInv, TypeOK
    <2>11. IndexInv'
        <3>1. \A u \in Threads : u # t => /\ pc'[u] = pc[u]
                                          /\ call'[u] = call[u]
                                          /\ i'[u] = i[u]
                                          /\ satisfier'[u] = satisfier[u]
            BY Zenon, <1>17, <2>1 DEF TypeInv, TypeOK, WaitAny
        <3>2. /\ pc'[t] = "scan"
              /\ call'[t] = w
              /\ i'[t] = 1
              /\ satisfier'[t] = 0
            BY Zenon, <1>17, <2>1 DEF TypeInv, TypeOK, WaitAny
        <3> QED
            BY <2>2, <3>1, <3>2, WaitObjsType DEF TypeInv, IndexInv, IndexOK, Objs
    <2> QED BY Zenon, <2>10, <2>11 DEF TypeInv
<1>18. ASSUME NEW t \in Threads, MutexUnlock(t)
      PROVE  TypeInv'
    <2>1. TypeOK'
        BY SMTT(30), <1>18
        DEF TypeInv, TypeOK, MutexUnlock, Enter, objVars, waitVars, sigVars,
            WaitPcs, SignalPcs, Objects
    <2>2. IndexInv'
        BY SMTT(30), <1>18, IndexFacts
        DEF TypeInv, TypeOK, IndexInv, IndexOK, MutexUnlock, Enter, objVars,
            waitVars, sigVars, WaitPcs, Objs
    <2> QED BY Zenon, <2>1, <2>2 DEF TypeInv
<1>19. ASSUME NEW t \in Threads, SemaphoreRelease(t)
      PROVE  TypeInv'
    <2>1. TypeOK'
        BY SMTT(30), <1>19
        DEF TypeInv, TypeOK, SemaphoreRelease, Enter, objVars, waitVars,
            sigVars, WaitPcs, SignalPcs, Objects
    <2>2. IndexInv'
        BY <1>19, IndexFacts
        DEF TypeInv, TypeOK, IndexInv, IndexOK, SemaphoreRelease, Enter,
            objVars, waitVars, sigVars, WaitPcs, Objs
    <2> QED BY <2>1, <2>2 DEF TypeInv
<1>20. ASSUME NEW t \in Threads, EventSignal(t)
      PROVE  TypeInv'
    <2>1. TypeOK'
        BY SMTT(30), <1>20
        DEF TypeInv, TypeOK, EventSignal, Enter, objVars, waitVars, sigVars,
            WaitPcs, SignalPcs, Objects
    <2>2. IndexInv'
        BY SMTT(30), <1>20, IndexFacts
        DEF TypeInv, TypeOK, IndexInv, IndexOK, EventSignal, Enter, objVars,
            waitVars, sigVars, WaitPcs, Objs
    <2> QED BY <2>1, <2>2 DEF TypeInv
<1>21. ASSUME NEW t \in Threads, TimerHandleExpiry(t)
      PROVE  TypeInv'
    <2>1. TypeOK'
        BY SMTT(30), <1>21
        DEF TypeInv, TypeOK, TimerHandleExpiry, Enter, objVars, waitVars,
            sigVars, WaitPcs, SignalPcs, Objects
    <2>2. IndexInv'
        BY SMTT(30), <1>21, IndexFacts
        DEF TypeInv, TypeOK, IndexInv, IndexOK, TimerHandleExpiry, Enter,
            objVars, waitVars, sigVars, WaitPcs, Objs
    <2> QED BY <2>1, <2>2 DEF TypeInv
<1>22. ASSUME NEW t \in Threads, ScanConsume(t)
      PROVE  TypeInv'
    <2>1. /\ i[t] \in WaitBlocks
          /\ i[t] \in 1..5
          /\ Objs(t)[i[t]] \in Objects
          /\ Len(Objs(t)) \in Nat
        BY <1>22, IndexFacts DEF ScanConsume, WaitPcs
    <2>2. UNCHANGED <<waitblocks, lock, owner, wb, pending, woken,
                      call, i, obj, ret, held>>
        BY Zenon, <1>22
        DEF ScanConsume, Consumed, Signaled, objVars, waitVars, sigVars
    <2>3. wait_status' \in [Threads -> WaitStatus]
        BY Zenon, <1>22, <1>5
        DEF ScanConsume, Consumed, Signaled, WaitStatus
    <2>4. signaled_count' \in [Objects -> Nat]
        BY <1>22, <1>1, <2>1
        DEF ScanConsume, Consumed, Signaled
    <2>5. satisfier' \in [Threads -> 0..(INTERNAL_WAITBLOCKS_N + 1)]
        BY <1>22, <1>12, <2>1
        DEF ScanConsume, Consumed, Signaled, INTERNAL_WAITBLOCKS_N
    <2>6. pc' \in [Threads -> WaitPcs \cup SignalPcs \cup {"run", "panic", "corrupted"}]
        BY Zenon, <1>22, <1>9
        DEF ScanConsume, Consumed, Signaled, WaitPcs, SignalPcs
    <2>7. TypeOK'
        BY Zenon, <2>2, <2>3, <2>4, <2>5, <2>6 DEF TypeInv, TypeOK
    <2>8. \A u \in Threads \ {t} : /\ pc'[u] = pc[u]
                                   /\ i'[u] = i[u]
                                   /\ satisfier'[u] = satisfier[u]
        BY Zenon, <1>22, <1>9, <1>11, <1>12
        DEF ScanConsume, Consumed, Signaled, waitVars
    <2>9. Objs(t)' = Objs(t)
        BY Zenon, <2>2 DEF Objs
    <2>10. IndexOK(t)'
        BY Zenon, <1>22, <1>9, <1>11, <1>12, <1>16, <2>2, <2>9, <2>1
        DEF IndexOK, ScanConsume, Consumed, Signaled, WaitPcs
    <2>11. IndexInv'
        BY Zenon, <2>2, <2>8, <2>10, IndexFrame
    <2> QED BY <2>7, <2>11 DEF TypeInv
<1>23. ASSUME NEW t \in Threads, ScanSatisfied(t)
      PROVE  TypeInv'
    <2>1. TypeOK'
        BY SMTT(30), <1>23, IndexFacts
        DEF TypeInv, TypeOK, ScanSatisfied, objVars, waitVars, sigVars,
            WaitPcs, SignalPcs, INTERNAL_WAITBLOCKS_N
    <2>2. IndexInv'
        BY Zenon, <1>23, IndexFacts
        DEF TypeInv, TypeOK, IndexInv, IndexOK, ScanSatisfied, objVars,
            waitVars, sigVars, WaitPcs, Objs
    <2> QED BY <2>1, <2>2 DEF TypeInv
<1>24. ASSUME NEW t \in Threads, ScanInsert(t)
      PROVE  TypeInv'
    <2> DEFINE o == Objs(t)[i[t]]
    <2>1. /\ i[t] \in WaitBlocks
          /\ i[t] \in 1..5
          /\ Objs(t)[i[t]] \in Objects
          /\ Len(Objs(t)) \in Nat
        BY SMTT(30), <1>24, IndexFacts DEF ScanInsert, WaitPcs
    <2>2. waitblocks' \in [Objects -> Seq(Threads \X WaitBlocks)]
        <3>1. waitblocks' = [waitblocks EXCEPT
                                ![o] = Append(waitblocks[o], <<t, i[t]>>)]
            BY Zenon, <1>24 DEF ScanInsert, InsertTail
        <3>2. <<t, i[t]>> \in Threads \X WaitBlocks
            BY Zenon, <2>1
        <3>3. waitblocks[o] \in Seq(Threads \X WaitBlocks)
            BY Zenon, <2>1, <1>2
        <3>4. Append(waitblocks[o], <<t, i[t]>>) \in Seq(Threads \X WaitBlocks)
            BY Zenon, <3>2, <3>3, AppendFacts
        <3> QED BY Zenon, <3>1, <3>4, QueueUpdate, <1>2
    <2>3. /\ pc'[t] \in {"scan", "check", "timer_start", "commit"}
          /\ pc' = [pc EXCEPT ![t] = pc'[t]]
          /\ pc'[t] = "scan" => i[t] < Len(Objs(t))
          /\ pc[t] = "scan"
          /\ i'[t] = i[t] + 1
        <3>1. call[t].timeout \in {"forever", "zero", "finite"}
            BY Zenon DEF TypeInv, TypeOK, WaitCall, Timeouts
        <3> QED BY Zenon, <1>24, <3>1, <1>9, <1>11 DEF ScanInsert
    <2>4. UNCHANGED <<signaled_count, lock, owner, wait_status,
                      pending, woken, call, satisfier, obj, ret, held>>
        BY Zenon, <1>24
        DEF ScanInsert, objVars, waitVars, sigVars
    <2>5. wb' \in [Threads -> [WaitBlocks -> WaitBlockStatus]]
        BY Zenon, <1>24, <1>6, BlockUpdate
        DEF ScanInsert, WaitBlockStatus
    <2>6. i' \in [Threads -> 1..(INTERNAL_WAITBLOCKS_N + 2)]
        BY <1>24, <1>11, <2>1
        DEF ScanInsert, INTERNAL_WAITBLOCKS_N
    <2>7. pc' \in [Threads -> WaitPcs \cup SignalPcs \cup {"run", "panic", "corrupted"}]
        BY Zenon, <1>24, <1>9, <2>3
        DEF ScanInsert, WaitPcs, SignalPcs
    <2>8. TypeOK'
        BY Zenon, <2>4, <2>2, <2>5, <2>6, <2>7 DEF TypeInv, TypeOK
    <2>9. \A u \in Threads \ {t} : /\ pc'[u] = pc[u]
                                   /\ i'[u] = i[u]
                                   /\ satisfier'[u] = satisfier[u]
        BY Zenon, <1>24, <1>9, <1>11, <1>12
        DEF ScanInsert, waitVars
    <2>10. Objs(t)' = Objs(t)
        BY <2>4 DEF Objs
    <2>11. IndexOK(t)'
        BY SMTT(30), <1>9, <1>11, <1>12, <1>16, <2>4, <2>10, <2>1, <2>3
        DEF IndexOK, WaitPcs
    <2>12. IndexInv'
        BY Zenon, <2>4, <2>9, <2>11, IndexFrame
    <2> QED BY <2>8, <2>12 DEF TypeInv
<1>25. ASSUME NEW t \in Threads, BackOut(t)
      PROVE  TypeInv'
    <2>1. TypeOK'
        BY SMTT(30), <1>25
        DEF TypeInv, TypeOK, BackOut, objVars, waitVars, sigVars, WaitPcs,
            SignalPcs, INTERNAL_WAITBLOCKS_N
    <2>2. IndexInv'
        BY Zenon, <1>25, IndexFacts
        DEF TypeInv, TypeOK, IndexInv, IndexOK, BackOut, objVars, waitVars,
            sigVars, WaitPcs, Objs
    <2> QED BY <2>1, <2>2 DEF TypeInv
<1>26. ASSUME NEW t \in Threads, BackOutRemove(t)
      PROVE  TypeInv'
    <2> DEFINE o == Objs(t)[i[t]]
    <2>1. /\ i[t] \in WaitBlocks
          /\ i[t] \in 1..5
          /\ Objs(t)[i[t]] \in Objects
          /\ Len(Objs(t)) \in Nat
        BY SMTT(30), <1>26, IndexFacts DEF BackOutRemove, WaitPcs
    <2>2. \/ UNCHANGED waitblocks
          \/ \E n \in 1..Len(waitblocks[o]) :
                waitblocks' = [waitblocks EXCEPT ![o] = RemoveAt(waitblocks[o], n)]
        BY Zenon, <1>26 DEF BackOutRemove, Unlink
    <2>3. /\ pc'[t] \in {"corrupted", "backout", "return"}
          /\ pc' = [pc EXCEPT ![t] = pc'[t]]
          /\ pc'[t] \notin {"return", "corrupted"} => i[t] + 1 < satisfier[t]
        BY Zenon, <1>26, <1>9 DEF BackOutRemove, Unlink, AfterCollect
    <2>4. lock' \in [Objects -> Threads \cup {NoThread}]
        BY Zenon, <1>26, <1>3 DEF BackOutRemove, Unlink
    <2>5. waitblocks' \in [Objects -> Seq(Threads \X WaitBlocks)]
        <3>0. waitblocks[o] \in Seq(Threads \X WaitBlocks)
            BY <2>1, <1>2
        <3>1. CASE UNCHANGED waitblocks
            BY Zenon, <3>1, <1>2
        <3>2. ASSUME NEW n \in 1..Len(waitblocks[o]),
                     waitblocks' = [waitblocks EXCEPT
                                       ![o] = RemoveAt(waitblocks[o], n)]
              PROVE  waitblocks' \in [Objects -> Seq(Threads \X WaitBlocks)]
            <4>1. RemoveAt(waitblocks[o], n) \in Seq(Threads \X WaitBlocks)
                BY Zenon, <3>0, RemoveAtFacts
            <4> QED BY Zenon, <3>2, <4>1, QueueUpdate, <1>2
        <3> QED BY Zenon, <2>2, <3>1, <3>2
    <2>6. UNCHANGED <<signaled_count, owner, wait_status, pending,
                      woken, call, satisfier, obj, ret, held>>
        BY Zenon, <1>26
        DEF BackOutRemove, objVars, waitVars, sigVars
    <2>7. pc' \in [Threads -> WaitPcs \cup SignalPcs \cup {"run", "panic", "corrupted"}]
        BY Zenon, <1>26, <1>9, <2>3
        DEF BackOutRemove, WaitPcs, SignalPcs
    <2>8. i' \in [Threads -> 1..(INTERNAL_WAITBLOCKS_N + 2)]
        BY <1>26, <1>11, <2>1
        DEF BackOutRemove, INTERNAL_WAITBLOCKS_N
    <2>9. wb' \in [Threads -> [WaitBlocks -> WaitBlockStatus]]
        BY Zenon, <1>26, <1>6, BlockUpdate
        DEF BackOutRemove, WaitBlockStatus
    <2>10. TypeOK'
        BY Zenon, <2>6, <2>5, <2>7, <2>4, <2>8, <2>9 DEF TypeInv, TypeOK
    <2>11. \A u \in Threads \ {t} : /\ pc'[u] = pc[u]
                                   /\ i'[u] = i[u]
                                   /\ satisfier'[u] = satisfier[u]
        BY Zenon, <1>26, <2>3, <1>9, <1>11, <1>12
        DEF BackOutRemove, waitVars
    <2>12. Objs(t)' = Objs(t)
        BY Zenon, <2>6 DEF Objs
    <2>13. IndexOK(t)'
        BY Zenon, <1>26, <1>9, <1>11, <1>12, <1>16, <2>6, <2>12, <2>1, <2>3
        DEF IndexOK, BackOutRemove, WaitPcs
    <2>14. IndexInv'
        BY Zenon, <2>6, <2>11, <2>13, IndexFrame
    <2> QED BY <2>10, <2>14 DEF TypeInv
<1>27. ASSUME NEW t \in Threads, TimerStart(t)
      PROVE  TypeInv'
    <2>1. TypeOK'
        BY Zenon, <1>27
        DEF TypeInv, TypeOK, TimerStart, objVars, waitVars, sigVars, WaitPcs,
            SignalPcs
    <2>2. IndexInv'
        BY Zenon, <1>27, IndexFacts
        DEF TypeInv, TypeOK, IndexInv, IndexOK, TimerStart, objVars, waitVars,
            sigVars, WaitPcs, Objs
    <2> QED BY <2>1, <2>2 DEF TypeInv
<1>28. ASSUME NEW t \in Threads, Commit(t)
      PROVE  TypeInv'
    <2>1. Len(Objs(t)) \in Nat /\ 1 <= Len(Objs(t))
        BY Zenon, <1>28, IndexFacts DEF Commit, WaitPcs
    <2>2. UNCHANGED <<signaled_count, waitblocks, lock, owner, wb,
                      pending, woken, call, satisfier, obj, ret, held>>
        BY Zenon, <1>28
        DEF Commit, AfterWait, objVars, waitVars, sigVars
    <2>3. i' \in [Threads -> 1..(INTERNAL_WAITBLOCKS_N + 2)]
        BY <1>28, <1>11
        DEF Commit, AfterWait, INTERNAL_WAITBLOCKS_N
    <2>4. wait_status' \in [Threads -> WaitStatus]
        BY Zenon, <1>28, <1>5
        DEF Commit, AfterWait, WaitStatus
    <2>5. pc' \in [Threads -> WaitPcs \cup SignalPcs \cup {"run", "panic", "corrupted"}]
        BY Zenon, <1>28, <1>9
        DEF Commit, AfterWait, WaitPcs, SignalPcs
    <2>6. TypeOK'
        BY Zenon, <2>2, <2>3, <2>4, <2>5 DEF TypeInv, TypeOK
    <2>7. \A u \in Threads \ {t} : /\ pc'[u] = pc[u]
                                   /\ i'[u] = i[u]
                                   /\ satisfier'[u] = satisfier[u]
        BY Zenon, <1>28, <1>9, <1>11, <1>12
        DEF Commit, AfterWait, waitVars
    <2>8. Objs(t)' = Objs(t)
        BY Zenon, <2>2 DEF Objs
    <2>9. IndexOK(t)'
        BY Zenon, <1>28, <1>9, <1>11, <1>12, <1>16, <2>2, <2>8, <2>1
        DEF IndexOK, Commit, AfterWait, WaitPcs
    <2>10. IndexInv'
        BY Zenon, <2>2, <2>7, <2>9, IndexFrame
    <2> QED BY <2>6, <2>10 DEF TypeInv
<1>29. ASSUME NEW t \in Threads, Sleep(t)
      PROVE  TypeInv'
    <2>1. TypeOK'
        BY Zenon, <1>29
        DEF TypeInv, TypeOK, Sleep, AfterWait, objVars, waitVars, sigVars,
            WaitPcs, SignalPcs
    <2>2. IndexInv'
        BY Zenon, <1>29, IndexFacts
        DEF TypeInv, TypeOK, IndexInv, IndexOK, Sleep, AfterWait, objVars,
            waitVars, sigVars, WaitPcs, Objs
    <2> QED BY <2>1, <2>2 DEF TypeInv
<1>30. ASSUME NEW t \in Threads, TimerStop(t)
      PROVE  TypeInv'
    <2>1. TypeOK'
        BY Zenon, <1>30
        DEF TypeInv, TypeOK, TimerStop, objVars, waitVars, sigVars, WaitPcs,
            SignalPcs
    <2>2. IndexInv'
        BY Zenon, <1>30, IndexFacts
        DEF TypeInv, TypeOK, IndexInv, IndexOK, TimerStop, objVars, waitVars,
            sigVars, WaitPcs, Objs
    <2> QED BY <2>1, <2>2 DEF TypeInv
<1>31. ASSUME NEW t \in Threads, CollectActive(t)
      PROVE  TypeInv'
    <2> DEFINE o == Objs(t)[i[t]]
    <2>0. pc[t] = "collect"
        BY Zenon, <1>31 DEF CollectActive
    <2>1. /\ i[t] \in WaitBlocks
          /\ i[t] \in 1..5
          /\ Objs(t)[i[t]] \in Objects
          /\ Len(Objs(t)) \in Nat
        BY SMTT(30), <2>0, IndexFacts DEF WaitPcs
    <2>2. \/ UNCHANGED waitblocks
          \/ \E n \in 1..Len(waitblocks[o]) :
                waitblocks' = [waitblocks EXCEPT ![o] = RemoveAt(waitblocks[o], n)]
        BY Zenon, <1>31 DEF CollectActive, Unlink
    <2>3. /\ pc'[t] \in {"corrupted", "collect", "return"}
          /\ pc' = [pc EXCEPT ![t] = pc'[t]]
          /\ pc'[t] \notin {"return", "corrupted"} => i[t] < Len(Objs(t))
        BY Zenon, <1>31, <1>9 DEF CollectActive, Unlink, AfterCollect
    <2>4. lock' \in [Objects -> Threads \cup {NoThread}]
        BY Zenon, <1>31, <1>3 DEF CollectActive, Unlink
    <2>5. waitblocks' \in [Objects -> Seq(Threads \X WaitBlocks)]
        <3>0. waitblocks[o] \in Seq(Threads \X WaitBlocks)
            BY <2>1, <1>2
        <3>1. CASE UNCHANGED waitblocks
            BY <3>1, <1>2
        <3>2. ASSUME NEW n \in 1..Len(waitblocks[o]),
                     waitblocks' = [waitblocks EXCEPT
                                       ![o] = RemoveAt(waitblocks[o], n)]
              PROVE  waitblocks' \in [Objects -> Seq(Threads \X WaitBlocks)]
            <4>1. RemoveAt(waitblocks[o], n) \in Seq(Threads \X WaitBlocks)
                BY <3>0, RemoveAtFacts
            <4> QED BY ZenonT(30), <3>2, <4>1, QueueUpdate, <1>2
        <3> QED BY <2>2, <3>1, <3>2
    <2>6. UNCHANGED <<signaled_count, owner, wait_status, wb, pending,
                      woken, call, satisfier, obj, ret, held>>
        BY Zenon, <1>31
        DEF CollectActive, objVars, waitVars, sigVars
    <2>7. pc' \in [Threads -> WaitPcs \cup SignalPcs \cup {"run", "panic", "corrupted"}]
        BY Zenon, <1>31, <1>9, <2>3
        DEF CollectActive, WaitPcs, SignalPcs
    <2>8. i' \in [Threads -> 1..(INTERNAL_WAITBLOCKS_N + 2)]
        BY <1>31, <1>11, <2>1
        DEF CollectActive, INTERNAL_WAITBLOCKS_N
    <2>9. TypeOK'
        BY Zenon, <2>6, <2>5, <2>7, <2>4, <2>8 DEF TypeInv, TypeOK
    <2>10. \A u \in Threads \ {t} : /\ pc'[u] = pc[u]
                                   /\ i'[u] = i[u]
                                   /\ satisfier'[u] = satisfier[u]
        BY Zenon, <1>31, <2>3, <1>9, <1>11, <1>12
        DEF CollectActive, waitVars
    <2>11. Objs(t)' = Objs(t)
        BY <2>6 DEF Objs
    <2>12. IndexOK(t)'
        BY SMTT(30), <1>31, <1>9, <1>11, <1>12, <1>16, <2>6, <2>11, <2>1, <2>3
        DEF IndexOK, CollectActive, WaitPcs
    <2>13. IndexInv'
        BY Zenon, <2>6, <2>10, <2>12, IndexFrame
    <2> QED BY <2>9, <2>13 DEF TypeInv
<1>32. ASSUME NEW t \in Threads, CollectSignaled(t)
      PROVE  TypeInv'
    <2>0. pc[t] = "collect"
        BY Zenon, <1>32 DEF CollectSignaled
    <2>1. /\ i[t] \in WaitBlocks
          /\ i[t] \in 1..5
          /\ Objs(t)[i[t]] \in Objects
          /\ Len(Objs(t)) \in Nat
        BY SMTT(30), <2>0, IndexFacts DEF WaitPcs
    <2>2. UNCHANGED <<signaled_count, waitblocks, lock, owner,
                      wait_status, wb, pending, woken, call, obj, ret,
                      held>>
        BY Zenon, <1>32
        DEF CollectSignaled, AfterCollect, objVars, waitVars, sigVars
    <2>3. satisfier' \in [Threads -> 0..(INTERNAL_WAITBLOCKS_N + 1)]
        BY <1>32, <1>12, <2>1
        DEF CollectSignaled, AfterCollect, INTERNAL_WAITBLOCKS_N
    <2>4. pc' \in [Threads -> WaitPcs \cup SignalPcs \cup {"run", "panic", "corrupted"}]
        BY Zenon, <1>32, <1>9
        DEF CollectSignaled, AfterCollect, WaitPcs, SignalPcs
    <2>5. i' \in [Threads -> 1..(INTERNAL_WAITBLOCKS_N + 2)]
        BY SMTT(30), <1>32, <1>11, <2>1
        DEF CollectSignaled, AfterCollect, INTERNAL_WAITBLOCKS_N
    <2>6. TypeOK'
        BY Zenon, <2>2, <2>3, <2>4, <2>5 DEF TypeInv, TypeOK
    <2>7. \A u \in Threads \ {t} : /\ pc'[u] = pc[u]
                                   /\ i'[u] = i[u]
                                   /\ satisfier'[u] = satisfier[u]
        BY Zenon, <1>32, <1>9, <1>11, <1>12
        DEF CollectSignaled, AfterCollect, waitVars
    <2>8. Objs(t)' = Objs(t)
        BY Zenon, <2>2 DEF Objs
    <2>9. IndexOK(t)'
        BY SMTT(30), <1>32, <1>9, <1>11, <1>12, <1>16, <2>2, <2>8, <2>1
        DEF IndexOK, CollectSignaled, AfterCollect, WaitPcs
    <2>10. IndexInv'
        BY Zenon, <2>2, <2>7, <2>9, IndexFrame
    <2> QED BY <2>6, <2>10 DEF TypeInv
<1>33. ASSUME NEW t \in Threads, CollectInactive(t)
      PROVE  TypeInv'
    <2>0. pc[t] = "collect"
        BY Zenon, <1>33 DEF CollectInactive
    <2>1. /\ i[t] \in WaitBlocks
          /\ i[t] \in 1..5
          /\ Objs(t)[i[t]] \in Objects
          /\ Len(Objs(t)) \in Nat
        BY SMTT(30), <2>0, IndexFacts DEF WaitPcs
    <2>2. UNCHANGED <<signaled_count, waitblocks, lock, owner,
                      wait_status, wb, pending, woken, call, satisfier,
                      obj, ret, held>>
        BY Zenon, <1>33
        DEF CollectInactive, AfterCollect, objVars, waitVars, sigVars
    <2>3. pc' \in [Threads -> WaitPcs \cup SignalPcs \cup {"run", "panic", "corrupted"}]
        BY Zenon, <1>33, <1>9
        DEF CollectInactive, AfterCollect, WaitPcs, SignalPcs
    <2>4. i' \in [Threads -> 1..(INTERNAL_WAITBLOCKS_N + 2)]
        BY <1>33, <1>11, <2>1
        DEF CollectInactive, AfterCollect, INTERNAL_WAITBLOCKS_N
    <2>5. TypeOK'
        BY Zenon, <2>2, <2>3, <2>4 DEF TypeInv, TypeOK
    <2>6. \A u \in Threads \ {t} : /\ pc'[u] = pc[u]
                                   /\ i'[u] = i[u]
                                   /\ satisfier'[u] = satisfier[u]
        BY Zenon, <1>33, <1>9, <1>11, <1>12
        DEF CollectInactive, AfterCollect, waitVars
    <2>7. Objs(t)' = Objs(t)
        BY Zenon, <2>2 DEF Objs
    <2>8. IndexOK(t)'
        BY SMTT(30), <1>33, <1>9, <1>11, <1>12, <1>16, <2>2, <2>7, <2>1
        DEF IndexOK, CollectInactive, AfterCollect, WaitPcs
    <2>9. IndexInv'
        BY Zenon, <2>2, <2>6, <2>8, IndexFrame
    <2> QED BY <2>5, <2>9 DEF TypeInv
<1>34. ASSUME NEW t \in Threads, Return(t)
      PROVE  TypeInv'
    <2>1. /\ call[t].objs[1] \in Objects
          /\ {call[t].objs[satisfier[t]]} \cap Semaphores \subseteq Objects
        BY <1>34, IndexFacts, WaitObjsType DEF Return, WaitPcs, Objects
    <2>2. UNCHANGED <<signaled_count, waitblocks, lock, wait_status,
                      wb, pending, woken, call, i, satisfier, obj, ret>>
        BY Zenon, <1>34
        DEF Return, objVars, waitVars, sigVars
    <2>3. owner' \in [Mutexes -> Threads \cup {NoThread}]
        BY Zenon, <1>34, <1>4
        DEF Return
    <2>4. held' \in [Threads -> SUBSET Objects]
        BY Zenon, <1>34, <1>15, <2>1
        DEF Return
    <2>5. pc' \in [Threads -> WaitPcs \cup SignalPcs \cup {"run", "panic", "corrupted"}]
        BY Zenon, <1>34, <1>9
        DEF Return, WaitPcs, SignalPcs
    <2>6. TypeOK'
        BY Zenon, <2>2, <2>3, <2>4, <2>5 DEF TypeInv, TypeOK
    <2>7. \A u \in Threads \ {t} : /\ pc'[u] = pc[u]
                                   /\ i'[u] = i[u]
                                   /\ satisfier'[u] = satisfier[u]
        BY Zenon, <1>34, <1>9, <1>11, <1>12
        DEF Return, waitVars
    <2>8. Objs(t)' = Objs(t)
        BY <2>2 DEF Objs
    <2>9. IndexOK(t)'
        BY Zenon, <1>34, <1>9, <1>11, <1>12, <1>16, <2>2, <2>8
        DEF IndexOK, Return, WaitPcs
    <2>10. IndexInv'
        BY Zenon, <2>2, <2>7, <2>9, IndexFrame
    <2> QED BY <2>6, <2>10 DEF TypeInv
<1>35. ASSUME NEW t \in Threads, Satisfy(t)
      PROVE  TypeInv'
    <2>1. /\ waitblocks[obj[t]] \in Seq(Threads \X WaitBlocks)
          /\ waitblocks[obj[t]] # <<>>
          /\ obj[t] \in Objects
        BY Zenon, <1>35, <1>2, <1>13 DEF Satisfy
    <2>2. /\ Head(waitblocks[obj[t]]) \in Threads \X WaitBlocks
          /\ Tail(waitblocks[obj[t]]) \in Seq(Threads \X WaitBlocks)
        BY Zenon, <2>1, TailFacts
    <2>3. PICK o \in Objects, v \in Threads, k \in WaitBlocks :
             /\ o = obj[t]
             /\ v = Head(waitblocks[obj[t]])[1]
             /\ k = Head(waitblocks[obj[t]])[2]
        BY Zenon, <2>1, <2>2
    <2>4. \/ /\ wait_status' = [wait_status EXCEPT ![v] = "satisfied"]
             /\ wb' = [wb EXCEPT ![v][k] = "signaled"]
             /\ signaled_count' = [signaled_count EXCEPT ![o] = Consumed(o)]
             /\ woken' \in {woken, woken \cup {v}}
             /\ \/ UNCHANGED <<pc, ret>>
                \/ /\ ret' = [ret EXCEPT ![t] = v]
                   /\ pc' = [pc EXCEPT ![t] = "release"]
          \/ /\ wb' = [wb EXCEPT ![v][k] = "inactive"]
             /\ UNCHANGED <<wait_status, signaled_count, woken, pc, ret>>
        BY Zenon, <1>35, <2>3 DEF Satisfy, Delivered, MarkSignaled
    <2>5. Consumed(o) \in Nat
        <3>1. signaled_count[o] \in Nat /\ signaled_count[o] > 0
            BY Zenon, <1>35, <1>1, <2>3 DEF Satisfy, Signaled
        <3> QED BY SMTT(30), <3>1 DEF Consumed
    <2>6. waitblocks' \in [Objects -> Seq(Threads \X WaitBlocks)]
        <3>1. waitblocks' = [waitblocks EXCEPT ![obj[t]] = Tail(waitblocks[obj[t]])]
            BY Zenon, <1>35 DEF Satisfy, Popped
        <3> QED BY Zenon, <2>2, <3>1, QueueUpdate, <1>2
    <2>7. signaled_count' \in [Objects -> Nat]
        BY Zenon, <2>4, <2>5, <1>1
    <2>8. woken' \subseteq Threads
        BY Zenon, <2>4, <1>8
    <2>9. wb' \in [Threads -> [WaitBlocks -> WaitBlockStatus]]
        <3>1. "signaled" \in WaitBlockStatus /\ "inactive" \in WaitBlockStatus
            BY Zenon DEF WaitBlockStatus
        <3>2. \A x \in WaitBlockStatus :
                 [wb EXCEPT ![v][k] = x] \in [Threads -> [WaitBlocks -> WaitBlockStatus]]
            BY Zenon, <1>6, BlockUpdate
        <3>3. wb' = [wb EXCEPT ![v][k] = "signaled"]
              \/ wb' = [wb EXCEPT ![v][k] = "inactive"]
            BY Zenon, <2>4
        <3> QED BY Zenon, <3>1, <3>2, <3>3
    <2>10. UNCHANGED <<lock, owner, pending, call, i, satisfier, obj,
                      held>>
        BY Zenon, <1>35
        DEF Satisfy, objVars, waitVars, sigVars
    <2>11. wait_status' \in [Threads -> WaitStatus]
        BY Zenon, <1>5, <2>4
        DEF WaitStatus
    <2>12. pc' \in [Threads -> WaitPcs \cup SignalPcs \cup {"run", "panic", "corrupted"}]
        BY Zenon, <1>9, <2>4
        DEF WaitPcs, SignalPcs
    <2>13. ret' \in [Threads -> Threads \cup {NoThread}]
        BY Zenon, <1>14, <2>4
    <2>14. TypeOK'
        BY Zenon, <2>10, <2>6, <2>9, <2>11, <2>7,
            <2>8, <2>12, <2>13 DEF TypeInv, TypeOK
    <2>15. \A u \in Threads \ {t} : /\ pc'[u] = pc[u]
                                   /\ i'[u] = i[u]
                                   /\ satisfier'[u] = satisfier[u]
        BY Zenon, <2>10, <2>4, <1>9, <1>11, <1>12
    <2>16. Objs(t)' = Objs(t)
        BY Zenon, <2>10 DEF Objs
    <2>17. IndexOK(t)'
        BY Zenon, <1>9, <1>11, <1>12, <1>16, <2>10, <2>16, <2>4
        DEF IndexOK, WaitPcs
    <2>18. IndexInv'
        BY Zenon, <2>10, <2>15, <2>17, IndexFrame
    <2> QED BY Zenon, <2>14, <2>18 DEF TypeInv
<1>36. ASSUME NEW t \in Threads, SatisfyDone(t)
      PROVE  TypeInv'
    <2>1. TypeOK'
        BY Zenon, <1>36
        DEF TypeInv, TypeOK, SatisfyDone, objVars, waitVars, sigVars, WaitPcs,
            SignalPcs
    <2>2. pc' = [pc EXCEPT ![t] = "release"] /\ UNCHANGED <<call, i, satisfier>>
        BY Zenon, <1>36 DEF SatisfyDone, objVars, waitVars, sigVars
    <2>3. IndexInv'
        BY Zenon, <2>2, IndexSignal DEF SignalPcs
    <2> QED BY <2>1, <2>3 DEF TypeInv
<1>37. ASSUME NEW t \in Threads, Release(t)
      PROVE  TypeInv'
    <2>1. TypeOK'
        BY Zenon, <1>37
        DEF TypeInv, TypeOK, Release, objVars, waitVars, sigVars, WaitPcs,
            SignalPcs
    <2>2. pc' = [pc EXCEPT ![t] = "run"] /\ UNCHANGED <<call, i, satisfier>>
        BY Zenon, <1>37 DEF Release, objVars, waitVars, sigVars
    <2>3. IndexInv'
        BY Zenon, <2>2, IndexSignal DEF SignalPcs
    <2> QED BY <2>1, <2>3 DEF TypeInv
<1>38. ASSUME NEW t \in Threads, EventSignalEnd(t)
      PROVE  TypeInv'
    <2>1. TypeOK'
        BY Zenon, <1>38
        DEF TypeInv, TypeOK, EventSignalEnd, objVars, waitVars, sigVars,
            WaitPcs, SignalPcs
    <2>2. pc' = [pc EXCEPT ![t] = "run"] /\ UNCHANGED <<call, i, satisfier>>
        BY Zenon, <1>38 DEF EventSignalEnd, objVars, waitVars, sigVars
    <2>3. IndexInv'
        BY Zenon, <2>2, IndexSignal DEF SignalPcs
    <2> QED BY <2>1, <2>3 DEF TypeInv
<1>39. ASSUME NEW t \in Threads, TimerExpire(t)
      PROVE  TypeInv'
    <2>1. UNCHANGED <<lock, owner, pc, call, i, satisfier, obj, ret,
                      held>>
        BY Zenon, <1>39
        DEF TimerExpire, objVars, waitVars, sigVars
    <2>2. pending' \subseteq Threads
        BY Zenon, <1>39, <1>7
        DEF TimerExpire
    <2>3. signaled_count' \in [Objects -> Nat]
        BY Zenon, <1>39, <1>1
        DEF TimerExpire
    <2>4. waitblocks' \in [Objects -> Seq(Threads \X WaitBlocks)]
        BY Zenon, <1>39, <1>2, EmptyQueue, QueueUpdate
        DEF TimerExpire
    <2>5. wb' \in [Threads -> [WaitBlocks -> WaitBlockStatus]]
        BY Zenon, <1>39, <1>6, BlockUpdate
        DEF TimerExpire, WaitBlockStatus
    <2>6. wait_status' \in [Threads -> WaitStatus]
        BY Zenon, <1>39, <1>5
        DEF TimerExpire, WaitStatus
    <2>7. woken' \subseteq Threads
        BY Zenon, <1>39, <1>8
        DEF TimerExpire
    <2>8. TypeOK'
        BY Zenon, <2>1, <2>2, <2>3, <2>4, <2>5,
            <2>6, <2>7 DEF TypeInv, TypeOK
    <2>9. \A u \in Threads \ {t} : /\ pc'[u] = pc[u]
                                   /\ i'[u] = i[u]
                                   /\ satisfier'[u] = satisfier[u]
        BY Zenon, <1>39, <1>9, <1>11, <1>12
        DEF TimerExpire, waitVars
    <2>10. Objs(t)' = Objs(t)
        BY Zenon, <2>1 DEF Objs
    <2>11. IndexOK(t)'
        BY Zenon, <1>39, <1>9, <1>11, <1>12, <1>16, <2>1, <2>10
        DEF IndexOK, TimerExpire, WaitPcs
    <2>12. IndexInv'
        BY Zenon, <2>1, <2>9, <2>11, IndexFrame
    <2> QED BY <2>8, <2>12 DEF TypeInv
<1>40. ASSUME UNCHANGED vars
      PROVE  TypeInv'
    BY Zenon, <1>40 DEF TypeInv, TypeOK, IndexInv, IndexOK, Objs, vars, objVars, waitVars,
              sigVars
<1> QED
    BY Zenon, <1>17, <1>18, <1>19, <1>20, <1>21, <1>22, <1>23, <1>24, <1>25, <1>26,
        <1>27, <1>28, <1>29, <1>30, <1>31, <1>32, <1>33, <1>34, <1>35, <1>36,
        <1>37, <1>38, <1>39, <1>40
    DEF Next, Signal, Kernel

(* Type correctness: every variable stays in its range, and the loops of   *)
(* wait_any and try_satisfy_dispatch_object never index a waitblock or an  *)
(* object that the thread does not have.                                   *)
THEOREM TypeCorrect == Spec => []TypeOK
<1>1. TypeInv => TypeOK
    BY Zenon DEF TypeInv
<1> QED BY <1>1, TypeInit, TypeNext, PTL DEF Spec

-----------------------------------------------------------------------------
(* What a step of t leaves alone: the waits of the other threads. *)
Alone(t) ==
    \A u \in Threads \ {t} :
        /\ pc'[u] = pc[u]
        /\ call'[u] = call[u]
        /\ i'[u] = i[u]
        /\ satisfier'[u] = satisfier[u]
        /\ wb'[u] = wb[u]
        /\ wait_status'[u] = wait_status[u]
        /\ held'[u] = held[u]
        /\ u \in pending' <=> u \in pending
        /\ u \in woken' <=> u \in woken

(* Every step but a delivery by try_satisfy_dispatch_object. *)
OwnStep(t) ==
    \/ WaitAny(t) \/ Signal(t) \/ TimerExpire(t)
    \/ ScanConsume(t) \/ ScanSatisfied(t) \/ ScanInsert(t)
    \/ BackOut(t) \/ BackOutRemove(t)
    \/ TimerStart(t) \/ Commit(t) \/ Sleep(t) \/ TimerStop(t)
    \/ CollectActive(t) \/ CollectSignaled(t) \/ CollectInactive(t)
    \/ Return(t) \/ SatisfyDone(t) \/ Release(t) \/ EventSignalEnd(t)

(* A step of a thread in its own call changes nothing of other threads. *)
LEMMA OwnStepAlone ==
    ASSUME TypeOK, NEW t \in Threads, OwnStep(t)
    PROVE  Alone(t)
<1> USE DEF TypeOK, Alone, objVars, waitVars, sigVars
<1>1. CASE WaitAny(t)
    BY ZenonT(30), <1>1 DEF WaitAny
<1>2. CASE Signal(t)
    BY <1>2 DEF Signal, MutexUnlock, SemaphoreRelease, EventSignal,
                TimerHandleExpiry, Enter
<1>3. CASE TimerExpire(t)
    BY Zenon, <1>3 DEF TimerExpire
<1>4. CASE ScanConsume(t) \/ ScanSatisfied(t) \/ ScanInsert(t)
    BY ZenonT(30), <1>4 DEF ScanConsume, ScanSatisfied, ScanInsert
<1>5. CASE BackOut(t) \/ BackOutRemove(t)
    BY ZenonT(30), <1>5 DEF BackOut, BackOutRemove, Unlink
<1>6. CASE TimerStart(t) \/ Commit(t) \/ Sleep(t) \/ TimerStop(t)
    BY ZenonT(30), <1>6 DEF TimerStart, Commit, Sleep, TimerStop
<1>7. CASE CollectActive(t) \/ CollectSignaled(t) \/ CollectInactive(t)
    BY ZenonT(60), <1>7 DEF CollectActive, CollectSignaled, CollectInactive, Unlink
<1>8. CASE Return(t) \/ SatisfyDone(t) \/ Release(t) \/ EventSignalEnd(t)
    BY ZenonT(30), <1>8 DEF Return, SatisfyDone, Release, EventSignalEnd
<1> QED BY Zenon, <1>1, <1>2, <1>3, <1>4, <1>5, <1>6, <1>7, <1>8 DEF OwnStep

(* A signaller holds the lock of the object it signals. *)
LockInv == \A t \in Threads : pc[t] \in SignalPcs => lock[obj[t]] = t

(* A signal that a waiter could take is being handed on: o's signaller is  *)
(* in the loop of try_satisfy_dispatch_object, with one signal to give     *)
(* unless o wakes every waiter.                                            *)
WaiterOK(o) ==
    (signaled_count[o] > 0 /\ waitblocks[o] # <<>>) =>
        \E s \in Threads :
            /\ pc[s] = "satisfy"
            /\ obj[s] = o
            /\ ~IsNotification(o) => signaled_count[o] = 1

WaiterInv == LockInv /\ \A o \in Objects \ Events : WaiterOK(o)

-----------------------------------------------------------------------------
(* No step of another thread touches a lock that s holds. *)
LEMMA LockKept ==
    ASSUME TypeOK, NEW s \in Threads, NEW t \in Threads \ {s}, NEW o \in Objects,
           lock[o] = s, pc[t] \in SignalPcs => lock[obj[t]] = t,
           OwnStep(t) \/ Satisfy(t)
    PROVE  lock'[o] = s
<1>1. NoThread \notin Threads /\ lock \in [Objects -> Threads \cup {NoThread}]
    BY Zenon, DispatchAssumption DEF TypeOK
<1>2. CASE lock' = lock
    BY Zenon, <1>2
<1>3. CASE Signal(t)
    BY ZenonT(30), <1>1, <1>3 DEF Signal, MutexUnlock, SemaphoreRelease, EventSignal,
                      TimerHandleExpiry, Enter
<1>4. CASE BackOutRemove(t) \/ CollectActive(t)
    BY Zenon, <1>1, <1>4 DEF BackOutRemove, CollectActive, Unlink
<1>5. CASE Release(t)
    <2>1. lock[obj[t]] = t /\ lock' = [lock EXCEPT ![obj[t]] = NoThread]
        BY Zenon, <1>5 DEF Release, SignalPcs
    <2> QED BY Zenon, <1>1, <2>1
<1> QED BY ZenonT(30), <1>2, <1>3, <1>4, <1>5
        DEF OwnStep, WaitAny, TimerExpire, ScanConsume, ScanSatisfied, ScanInsert,
            BackOut, TimerStart, Commit, Sleep, TimerStop, CollectSignaled,
            CollectInactive, Return, SatisfyDone, EventSignalEnd, Satisfy, objVars

(* A step of t leaves the signals of other threads alone. *)
LEMMA SignalAlone ==
    ASSUME TypeOK, NEW t \in Threads, OwnStep(t) \/ Satisfy(t)
    PROVE  \A s \in Threads \ {t} : pc'[s] = pc[s] /\ obj'[s] = obj[s]
<1>1. /\ pc \in [Threads -> WaitPcs \cup SignalPcs \cup {"run", "panic", "corrupted"}]
      /\ obj \in [Threads -> Objects]
    BY Zenon DEF TypeOK
<1>2. CASE Satisfy(t)
    BY Zenon, <1>1, <1>2 DEF Satisfy, Delivered
<1>3. CASE Signal(t)
    BY ZenonT(30), <1>1, <1>3 DEF Signal, MutexUnlock, SemaphoreRelease, EventSignal,
                      TimerHandleExpiry, Enter
<1>4. CASE OwnStep(t) /\ ~Signal(t)
    <2>1. Alone(t)
        BY Zenon, <1>4, OwnStepAlone
    <2>2. obj' = obj
        BY ZenonT(30), <1>4
        DEF OwnStep, WaitAny, TimerExpire, ScanConsume, ScanSatisfied, ScanInsert,
            BackOut, BackOutRemove, TimerStart, Commit, Sleep, TimerStop,
            CollectActive, CollectSignaled, CollectInactive, Return, SatisfyDone,
            Release, EventSignalEnd, sigVars
    <2> QED BY Zenon, <2>1, <2>2 DEF Alone
<1> QED BY Zenon, <1>2, <1>3, <1>4

(* A call that signals takes the lock of its object and changes the count  *)
(* of that object only.                                                    *)
LEMMA SignalEnters ==
    ASSUME TypeOK, NEW t \in Threads, Signal(t)
    PROVE  \E o \in Objects :
              /\ Enter(t, o)
              /\ waitblocks' = waitblocks
              /\ \A p \in Objects \ {o} : signaled_count'[p] = signaled_count[p]
              /\ \/ o \in Mutexes /\ signaled_count'[o] = 1
                 \/ o \in Semaphores /\ signaled_count'[o] = signaled_count[o] + 1
                 \/ o \in Events
                 \/ o \in KTimers
<1>1. /\ signaled_count \in [Objects -> Nat]
      /\ Mutexes \subseteq Objects /\ Semaphores \subseteq Objects
      /\ Events \subseteq Objects /\ KTimers \subseteq Objects
    BY Zenon DEF TypeOK, Objects
<1>2. CASE MutexUnlock(t)
    BY Zenon, <1>1, <1>2 DEF MutexUnlock
<1>3. CASE SemaphoreRelease(t)
    BY Zenon, <1>1, <1>3 DEF SemaphoreRelease
<1>4. CASE EventSignal(t)
    BY Zenon, <1>1, <1>4 DEF EventSignal
<1>5. CASE TimerHandleExpiry(t)
    BY Zenon, <1>1, <1>5 DEF TimerHandleExpiry
<1> QED BY Zenon, <1>2, <1>3, <1>4, <1>5 DEF Signal

(* The steps of a thread that is signalling, and those that start to. *)
SignalStep(t) ==
    Signal(t) \/ Satisfy(t) \/ SatisfyDone(t) \/ Release(t) \/ EventSignalEnd(t)

(* A step inside wait_any neither starts nor ends a signal. *)
LEMMA WaitStep ==
    ASSUME TypeOK, NEW t \in Threads, OwnStep(t), ~SignalStep(t)
    PROVE  /\ pc[t] \notin SignalPcs \/ pc'[t] = pc[t]
           /\ pc'[t] \notin SignalPcs \/ pc'[t] = pc[t]
           /\ obj' = obj
<1>1. pc \in [Threads -> WaitPcs \cup SignalPcs \cup {"run", "panic", "corrupted"}]
    BY Zenon DEF TypeOK
<1>2. CASE WaitAny(t) \/ TimerExpire(t) \/ Return(t)
    BY Zenon, <1>1, <1>2 DEF WaitAny, TimerExpire, Return, SignalPcs, sigVars
<1>3. CASE ScanConsume(t) \/ ScanSatisfied(t)
    BY Zenon, <1>1, <1>3 DEF ScanConsume, ScanSatisfied, SignalPcs, sigVars
<1>4. CASE ScanInsert(t)
    <2>1. call[t].timeout \in {"forever", "zero", "finite"}
        BY Zenon DEF TypeOK, WaitCall, Timeouts
    <2> QED BY Zenon, <1>1, <1>4, <2>1 DEF ScanInsert, SignalPcs, sigVars
<1>5. CASE BackOut(t) \/ BackOutRemove(t)
    BY ZenonT(30), <1>1, <1>5 DEF BackOut, BackOutRemove, Unlink, SignalPcs, sigVars
<1>6. CASE TimerStart(t) \/ Commit(t) \/ Sleep(t) \/ TimerStop(t)
    BY ZenonT(30), <1>1, <1>6
    DEF TimerStart, Commit, Sleep, TimerStop, AfterWait, SignalPcs, sigVars
<1>7. CASE CollectActive(t) \/ CollectSignaled(t) \/ CollectInactive(t)
    BY ZenonT(30), <1>1, <1>7
    DEF CollectActive, CollectSignaled, CollectInactive, Unlink, AfterCollect,
        SignalPcs, sigVars
<1> QED BY Zenon, <1>2, <1>3, <1>4, <1>5, <1>6, <1>7 DEF OwnStep, SignalStep

(* Every step keeps LockInv. *)
LEMMA LockNext ==
    ASSUME TypeOK, LockInv, NEW t \in Threads, OwnStep(t) \/ Satisfy(t)
    PROVE  LockInv'
<1>1. /\ pc \in [Threads -> WaitPcs \cup SignalPcs \cup {"run", "panic", "corrupted"}]
      /\ obj \in [Threads -> Objects]
      /\ lock \in [Objects -> Threads \cup {NoThread}]
    BY Zenon DEF TypeOK
<1>2. ASSUME NEW s \in Threads \ {t}, pc'[s] \in SignalPcs
      PROVE  lock'[obj'[s]] = s
    <2>1. pc'[s] = pc[s] /\ obj'[s] = obj[s] /\ obj[s] \in Objects
        BY Zenon, <1>1, SignalAlone
    <2>2. lock[obj[s]] = s /\ (pc[t] \in SignalPcs => lock[obj[t]] = t)
        BY Zenon, <1>2, <2>1 DEF LockInv
    <2> QED BY Zenon, <2>1, <2>2, LockKept
<1>3. ASSUME pc'[t] \in SignalPcs
      PROVE  lock'[obj'[t]] = t
    <2>1. CASE Signal(t)
        <3>1. PICK o \in Objects : Enter(t, o)
            BY Zenon, <1>1, <2>1, SignalEnters
        <3>2. obj'[t] = o /\ lock'[o] = t
            BY Zenon, <1>1, <3>1 DEF Enter
        <3> QED BY Zenon, <3>2
    <2>2. CASE Satisfy(t) \/ SatisfyDone(t)
        <3>1. pc[t] = "satisfy" /\ UNCHANGED <<lock, obj>>
            BY Zenon, <2>2 DEF Satisfy, SatisfyDone, objVars
        <3> QED BY Zenon, <3>1 DEF LockInv, SignalPcs
    <2>3. CASE Release(t) \/ EventSignalEnd(t)
        BY Zenon, <1>1, <1>3, <2>3 DEF Release, EventSignalEnd, SignalPcs
    <2>4. CASE OwnStep(t) /\ ~SignalStep(t)
        <3>1. pc[t] \in SignalPcs /\ pc'[t] = pc[t] /\ obj' = obj
            BY Zenon, <1>3, <2>4, WaitStep
        <3>2. lock' = lock
            BY ZenonT(30), <2>4, <3>1
            DEF OwnStep, SignalStep, WaitAny, TimerExpire, ScanConsume,
                ScanSatisfied, ScanInsert, BackOut, BackOutRemove, TimerStart,
                Commit, Sleep, TimerStop, CollectActive, CollectSignaled,
                CollectInactive, Return, SignalPcs
        <3> QED BY Zenon, <3>1, <3>2 DEF LockInv
    <2> QED BY Zenon, <2>1, <2>2, <2>3, <2>4 DEF SignalStep
<1> QED BY Zenon, <1>2, <1>3 DEF LockInv

(* An object whose lock is free has no signal that a waiter could take. *)
LEMMA Unlocked ==
    ASSUME LockInv, NEW o \in Objects, WaiterOK(o), lock[o] = NoThread
    PROVE  ~(signaled_count[o] > 0) \/ waitblocks[o] = <<>>
<1>1. NoThread \notin Threads
    BY Zenon, DispatchAssumption
<1> QED BY Zenon, <1>1 DEF WaiterOK, LockInv, SignalPcs

(* A step that brings o no signal and no waiter, nor takes its signaller   *)
(* out of the loop.                                                        *)
LEMMA WaiterFrame ==
    ASSUME NEW t \in Threads, NEW o, WaiterOK(o),
           \A s \in Threads \ {t} : pc'[s] = pc[s] /\ obj'[s] = obj[s],
           pc[t] = "satisfy" /\ obj[t] = o => pc'[t] = "satisfy" /\ obj'[t] = o,
           signaled_count'[o] = signaled_count[o],
           waitblocks[o] = <<>> => waitblocks'[o] = <<>>
    PROVE  WaiterOK(o)'
BY Zenon DEF WaiterOK, IsNotification

(* Steps inside wait_any. *)
LEMMA WaiterWait ==
    ASSUME TypeInv, WaiterInv, NEW t \in Threads, OwnStep(t), ~SignalStep(t),
           NEW o \in Objects \ Events
    PROVE  WaiterOK(o)'
<1>1. /\ TypeOK /\ LockInv /\ WaiterOK(o)
      /\ signaled_count \in [Objects -> Nat]
      /\ waitblocks \in [Objects -> Seq(Threads \X WaitBlocks)]
    BY Zenon DEF TypeInv, TypeOK, WaiterInv
<1>2. /\ \A s \in Threads \ {t} : pc'[s] = pc[s] /\ obj'[s] = obj[s]
      /\ pc[t] \notin SignalPcs \/ pc'[t] = pc[t]
      /\ obj' = obj
    BY Zenon, <1>1, SignalAlone, WaitStep
<1>3. pc[t] = "satisfy" /\ obj[t] = o => pc'[t] = "satisfy" /\ obj'[t] = o
    BY Zenon, <1>2 DEF SignalPcs
<1>4. CASE /\ signaled_count'[o] = signaled_count[o]
           /\ waitblocks[o] = <<>> => waitblocks'[o] = <<>>
    BY Zenon, <1>1, <1>2, <1>3, <1>4, WaiterFrame
<1>5. CASE WaitAny(t)
    <2>1. waitblocks' = waitblocks
          /\ (signaled_count'[o] = signaled_count[o] \/ signaled_count'[o] = 0)
        BY Zenon, <1>1, <1>5 DEF WaitAny
    <2>2. CASE signaled_count'[o] = 0
        BY <2>2 DEF WaiterOK
    <2> QED BY Zenon, <1>4, <2>1, <2>2
<1>6. CASE ScanConsume(t)
    <2>1. PICK p \in Objects : p = Objs(t)[i[t]]
        BY Zenon, <1>6, IndexFacts DEF ScanConsume, WaitPcs
    <2>2. /\ lock[p] = NoThread /\ signaled_count[p] > 0
          /\ signaled_count' = [signaled_count EXCEPT ![p] = Consumed(p)]
          /\ waitblocks' = waitblocks
        BY Zenon, <1>6, <2>1 DEF ScanConsume, Signaled
    <2>3. CASE p = o
        BY Zenon, <1>1, <2>2, <2>3, Unlocked DEF WaiterOK
    <2>4. CASE p # o
        BY Zenon, <1>1, <1>4, <2>2, <2>4
    <2> QED BY Zenon, <2>3, <2>4
<1>7. CASE ScanInsert(t)
    <2>1. PICK p \in Objects : p = Objs(t)[i[t]]
        BY Zenon, <1>7, IndexFacts DEF ScanInsert, WaitPcs
    <2>2. /\ ~(signaled_count[p] > 0) /\ signaled_count' = signaled_count
          /\ \A r \in Objects \ {p} : waitblocks'[r] = waitblocks[r]
        BY Zenon, <1>1, <1>7, <2>1 DEF ScanInsert, Signaled
    <2>3. CASE p = o
        BY Zenon, <2>2, <2>3 DEF WaiterOK
    <2>4. CASE p # o
        BY Zenon, <1>4, <2>2, <2>4
    <2> QED BY Zenon, <2>3, <2>4
<1>8. CASE BackOutRemove(t) \/ CollectActive(t)
    <2>1. PICK p \in Objects : p = Objs(t)[i[t]]
        BY Zenon, <1>8, IndexFacts DEF BackOutRemove, CollectActive, WaitPcs
    <2>2. /\ lock[p] = NoThread /\ signaled_count' = signaled_count
          /\ \A r \in Objects \ {p} : waitblocks'[r] = waitblocks[r]
          /\ waitblocks' = waitblocks \/ \E n \in 1..Len(waitblocks[p]) : TRUE
        BY ZenonT(30), <1>1, <1>8, <2>1 DEF BackOutRemove, CollectActive, Unlink
    <2>3. CASE p = o /\ \E n \in 1..Len(waitblocks[p]) : TRUE
        <3>1. waitblocks[p] # <<>>
            BY <1>1, <2>3
        <3> QED BY Zenon, <1>1, <2>2, <2>3, <3>1, Unlocked DEF WaiterOK
    <2> QED BY Zenon, <1>4, <2>2, <2>3
<1>9. CASE TimerExpire(t)
    <2>1. /\ signaled_count' = [signaled_count EXCEPT ![TimerOf[t]] = 1]
          /\ waitblocks' = [waitblocks EXCEPT ![TimerOf[t]] = <<>>]
        BY Zenon, <1>9 DEF TimerExpire
    <2>2. CASE o = TimerOf[t]
        BY Zenon, <1>1, <2>1, <2>2 DEF WaiterOK
    <2>3. CASE o # TimerOf[t]
        BY Zenon, <1>1, <1>4, <2>1, <2>3
    <2> QED BY Zenon, <2>2, <2>3
<1>10. CASE UNCHANGED <<signaled_count, waitblocks>>
    BY Zenon, <1>4, <1>10
<1> QED BY ZenonT(30), <1>5, <1>6, <1>7, <1>8, <1>9, <1>10
        DEF OwnStep, SignalStep, ScanSatisfied, BackOut, TimerStart, Commit, Sleep,
            TimerStop, CollectSignaled, CollectInactive, Return, objVars

(* Steps of a signaller. *)
LEMMA WaiterSignal ==
    ASSUME TypeInv, WaiterInv, NEW t \in Threads, SignalStep(t),
           NEW o \in Objects \ Events
    PROVE  WaiterOK(o)'
<1>1. /\ TypeOK /\ LockInv /\ WaiterOK(o)
      /\ signaled_count \in [Objects -> Nat]
      /\ waitblocks \in [Objects -> Seq(Threads \X WaitBlocks)]
      /\ obj \in [Threads -> Objects]
      /\ pc \in [Threads -> WaitPcs \cup SignalPcs \cup {"run", "panic", "corrupted"}]
    BY Zenon DEF TypeInv, TypeOK, WaiterInv
<1>2. \A s \in Threads \ {t} : pc'[s] = pc[s] /\ obj'[s] = obj[s]
    BY Zenon, <1>1, SignalAlone DEF SignalStep, OwnStep
<1>3. CASE Signal(t)
    <2>1. PICK p \in Objects :
             /\ Enter(t, p)
             /\ waitblocks' = waitblocks
             /\ \A r \in Objects \ {p} : signaled_count'[r] = signaled_count[r]
             /\ \/ p \in Mutexes /\ signaled_count'[p] = 1
                \/ p \in Semaphores /\ signaled_count'[p] = signaled_count[p] + 1
                \/ p \in Events
                \/ p \in KTimers
        BY Zenon, <1>1, <1>3, SignalEnters
    <2>2. /\ pc[t] = "run" /\ lock[p] = NoThread
          /\ pc'[t] = "satisfy" /\ obj'[t] = p
        BY Zenon, <1>1, <2>1 DEF Enter
    <2>3. CASE p = o
        <3>1. SUFFICES ASSUME waitblocks[o] # <<>>, ~IsNotification(o)
                       PROVE  signaled_count'[o] = 1
            BY Zenon, <2>1, <2>2, <2>3 DEF WaiterOK, IsNotification
        <3>2. o \notin KTimers
            BY Zenon, <3>1 DEF IsNotification
        <3>3. ~(signaled_count[o] > 0) /\ signaled_count[o] \in Nat
            BY Zenon, <1>1, <2>2, <2>3, <3>1, Unlocked
        <3>4. signaled_count[o] + 1 = 1
            BY <3>3
        <3> QED BY Zenon, <2>1, <2>3, <3>2, <3>4
    <2>4. CASE p # o
        BY Zenon, <1>1, <1>2, <2>1, <2>2, <2>4, WaiterFrame
    <2> QED BY Zenon, <2>3, <2>4
<1>4. CASE Satisfy(t)
    <2>1. /\ pc[t] = "satisfy" /\ obj' = obj /\ obj[t] \in Objects
          /\ waitblocks[obj[t]] # <<>> /\ signaled_count[obj[t]] > 0
          /\ waitblocks' = [waitblocks EXCEPT ![obj[t]] = Tail(@)]
          /\ \/ signaled_count' = signaled_count /\ pc' = pc
             \/ /\ signaled_count' = [signaled_count EXCEPT ![obj[t]] = Consumed(obj[t])]
                /\ IsNotification(obj[t]) => pc' = pc
        BY Zenon, <1>1, <1>4 DEF Satisfy, Delivered, Signaled, Popped
    <2>2. CASE obj[t] # o
        BY Zenon, <1>1, <1>2, <2>1, <2>2, WaiterFrame
    <2>3. CASE obj[t] = o /\ signaled_count'[o] = signaled_count[o] /\ pc' = pc
        BY Zenon, <2>1, <2>3, <1>1 DEF WaiterOK, IsNotification
    <2>4. CASE obj[t] = o /\ ~IsNotification(o)
               /\ signaled_count' = [signaled_count EXCEPT ![o] = Consumed(o)]
        <3>1. signaled_count[o] = 1
            BY Zenon, <1>1, <2>1, <2>4 DEF WaiterOK
        <3>2. signaled_count'[o] = signaled_count[o] - 1
            BY Zenon, <1>1, <2>4 DEF Consumed
        <3>3. ~(signaled_count'[o] > 0)
            BY <3>1, <3>2
        <3> QED BY Zenon, <3>3 DEF WaiterOK
    <2> QED BY Zenon, <1>1, <2>1, <2>2, <2>3, <2>4 DEF Consumed
<1>5. CASE SatisfyDone(t)
    <2>1. /\ pc[t] = "satisfy" /\ UNCHANGED <<signaled_count, waitblocks, obj>>
          /\ waitblocks[obj[t]] = <<>> \/ ~(signaled_count[obj[t]] > 0)
        BY Zenon, <1>5 DEF SatisfyDone, Signaled, objVars
    <2>2. CASE obj[t] = o
        BY Zenon, <2>1, <2>2 DEF WaiterOK
    <2>3. CASE obj[t] # o
        BY Zenon, <1>1, <1>2, <2>1, <2>3, WaiterFrame
    <2> QED BY Zenon, <2>2, <2>3
<1>6. CASE Release(t) \/ EventSignalEnd(t)
    <2>1. /\ pc[t] = "release" /\ waitblocks' = waitblocks
          /\ \/ signaled_count' = signaled_count
             \/ obj[t] \in Events /\ signaled_count' = [signaled_count EXCEPT ![obj[t]] = 1]
        BY Zenon, <1>6 DEF Release, EventSignalEnd
    <2>2. signaled_count'[o] = signaled_count[o]
        BY Zenon, <1>1, <2>1
    <2> QED BY Zenon, <1>1, <1>2, <2>1, <2>2, WaiterFrame
<1> QED BY Zenon, <1>3, <1>4, <1>5, <1>6 DEF SignalStep

(* Every step keeps WaiterInv. *)
LEMMA WaiterNext ==
    ASSUME TypeInv, WaiterInv, [Next]_vars
    PROVE  WaiterInv'
<1>1. CASE UNCHANGED vars
    BY Zenon, <1>1
    DEF vars, objVars, waitVars, sigVars, WaiterInv, LockInv, WaiterOK, IsNotification
<1>2. CASE Next
    <2>1. PICK t \in Threads : OwnStep(t) \/ Satisfy(t)
        BY Zenon, <1>2 DEF Next, Kernel, OwnStep
    <2>2. LockInv'
        BY Zenon, <2>1, LockNext DEF TypeInv, WaiterInv
    <2>3. \A o \in Objects \ Events : WaiterOK(o)'
        BY Zenon, <2>1, WaiterWait, WaiterSignal DEF SignalStep
    <2> QED BY Zenon, <2>2, <2>3 DEF WaiterInv
<1> QED BY Zenon, <1>1, <1>2

(* A signal never passes a queued thread by: once the signaller of a       *)
(* mutex, semaphore or timer has left try_satisfy_dispatch_object, either  *)
(* the count is zero or nobody is queued.  No hypothesis on the waits.     *)
THEOREM SignalReachesWaiter == Spec => []NoWaiterLeft
<1>1. Init => WaiterInv
    <2> SUFFICES ASSUME Init PROVE WaiterInv
        OBVIOUS
    <2>1. LockInv
        BY Zenon DEF Init, LockInv, SignalPcs
    <2>2. \A o \in Objects : waitblocks[o] = <<>>
        BY Zenon DEF Init
    <2> QED BY Zenon, <2>1, <2>2 DEF WaiterInv, WaiterOK
<1>2. WaiterInv => NoWaiterLeft
    BY Zenon DEF WaiterInv, WaiterOK, NoWaiterLeft, SignalPcs
<1>3. Init => TypeInv
    BY Zenon, TypeInit
<1>4. TypeInv /\ WaiterInv /\ [Next]_vars => TypeInv' /\ WaiterInv'
    BY Zenon, TypeNext, WaiterNext
<1> QED BY <1>1, <1>2, <1>3, <1>4, PTL DEF Spec

-----------------------------------------------------------------------------
(* How the kernel calls wait_any: mutex_lock without a timeout, and a poll *)
(* (timeout 0) of one object at a time.                                    *)
WaitDiscipline ==
    \A t \in Threads : \A w \in Waits[t] :
        /\ w.fn = "mutex_lock" => w.timeout = "forever"
        /\ w.timeout = "zero" => Len(w.objs) = 1

(* The steps of wait_any during which a waitblock may be on a queue. *)
LinkPcs == (WaitPcs \ {"return"}) \cup {"panic", "corrupted"}

(* t's waitblock k may hang on o. *)
Linked(o, t, k) ==
    /\ pc[t] \in LinkPcs
    /\ k <= Len(Objs(t))
    /\ Objs(t)[k] = o
    /\ wb[t][k] = "active"
    /\ pc[t] = "scan" => k < i[t]
    /\ (pc[t] = "check" /\ satisfier[t] # 0) => k < satisfier[t]
    /\ pc[t] = "backout" => i[t] <= k /\ k < satisfier[t]
    /\ pc[t] = "collect" => i[t] <= k

QueueInv ==
    \A o \in Objects :
        /\ Distinct(waitblocks[o])
        /\ \A t \in Threads, k \in WaitBlocks :
              <<t, k>> \in ToSet(waitblocks[o]) => Linked(o, t, k)

(* t waits for one object and has no timer. *)
Single(t) ==
    /\ pc[t] \in WaitPcs
    /\ Len(call[t].objs) = 1
    /\ call[t].timeout # "finite"

(* The wait_status word, the waitblock and the satisfier agree. *)
StatusOK(t) ==
    /\ t \in pending => /\ pc[t] \in {"commit", "sleep", "timer_stop"}
                        /\ call[t].timeout = "finite"
    /\ pc[t] \in {"scan", "timer_start", "commit", "sleep", "timer_stop"} =>
          satisfier[t] = 0
    /\ pc[t] = "scan" /\ i[t] = 1 => wait_status[t] = "in_progress"
    /\ wait_status[t] = "committed" => pc[t] = "sleep"
    /\ t \in woken => pc[t] = "sleep" /\ wait_status[t] = "satisfied"
    /\ pc[t] = "check" /\ satisfier[t] # 0 => wait_status[t] = "satisfied"
    /\ pc[t] = "check" /\ satisfier[t] = 0 => call[t].timeout = "zero"
    /\ pc[t] = "timer_start" => call[t].timeout = "finite"
    /\ pc[t] = "timer_stop" => call[t].timeout = "finite"
    /\ pc[t] \in {"panic", "corrupted"} => call[t].fn # "mutex_lock"
    /\ Single(t) =>
          /\ pc[t] \in {"commit", "sleep"}
                \/ (pc[t] = "check" /\ satisfier[t] = 0) =>
                IF wait_status[t] = "satisfied" THEN wb[t][1] = "signaled"
                                                ELSE wb[t][1] = "active"
          /\ pc[t] = "collect" => wb[t][1] = "signaled" /\ satisfier[t] = 0
          /\ pc[t] = "return" => satisfier[t] = 1 \/ call[t].timeout = "zero"

StatusInv == \A t \in Threads : StatusOK(t)

-----------------------------------------------------------------------------
(* A wait that reaches a mutex is a mutex_lock of it. *)
LEMMA MutexWait ==
    ASSUME WaitDiscipline, NEW t \in Threads, NEW w \in Waits[t]
    PROVE  /\ w.fn = "mutex_lock" =>
                 /\ Len(w.objs) = 1
                 /\ w.timeout = "forever"
                 /\ w.objs[1] \in Mutexes
                 /\ WaitObjs(t, w) = w.objs
           /\ \A k \in WaitBlocks :
                 k <= Len(WaitObjs(t, w)) /\ WaitObjs(t, w)[k] \in Mutexes =>
                    /\ w.fn = "mutex_lock"
                    /\ k = 1
                    /\ w.objs[1] = WaitObjs(t, w)[k]
<1>1. /\ w.fn = "mutex_lock" => w.objs[1] \in Mutexes /\ Len(w.objs) = 1
      /\ w.fn = "semaphore_acquire" => w.objs[1] \in Semaphores /\ Len(w.objs) = 1
      /\ w.fn = "wait_any" => \A k \in 1..Len(w.objs) : w.objs[k] \notin Mutexes
      /\ w.fn \in WaitFns
    BY DispatchAssumption DEF WaitCall
<1>2. w.fn = "mutex_lock" => w.timeout = "forever"
    BY Zenon DEF WaitDiscipline
<1>3. w.timeout # "finite" => WaitObjs(t, w) = w.objs
    BY Zenon DEF WaitObjs
<1>4. Mutexes \cap Timers = {} /\ Mutexes \cap Semaphores = {}
    BY Zenon, DispatchAssumption
<1>5. ASSUME NEW k \in WaitBlocks, k <= Len(WaitObjs(t, w)),
             WaitObjs(t, w)[k] \in Mutexes
      PROVE  w.fn = "mutex_lock" /\ k = 1 /\ w.objs[1] = WaitObjs(t, w)[k]
    <2>1. k \in Nat /\ 1 <= k
        BY DEF WaitBlocks, INTERNAL_WAITBLOCKS_N
    <2>2. WaitObjs(t, w)[k] \notin Timers
        BY Zenon, <1>4, <1>5
    <2>3. k <= Len(w.objs) /\ Len(w.objs) \in Nat /\ WaitObjs(t, w)[k] = w.objs[k]
        BY <1>5, <2>1, <2>2, WaitObjsType DEF Timers
    <2> QED BY <1>1, <1>4, <1>5, <2>1, <2>3 DEF WaitFns
<1> QED BY Zenon, <1>1, <1>2, <1>3, <1>5

(* A step of t that changes no queue. *)
LEMMA QueueFrame ==
    ASSUME QueueInv, NEW t \in Threads, Alone(t), waitblocks' = waitblocks,
           \A o \in Objects, k \in WaitBlocks : Linked(o, t, k) => Linked(o, t, k)'
    PROVE  QueueInv'
<1> SUFFICES ASSUME NEW o \in Objects, NEW u \in Threads, NEW k \in WaitBlocks,
                    <<u, k>> \in ToSet(waitblocks[o])
             PROVE  Linked(o, u, k)'
    BY Zenon DEF QueueInv
<1>1. Linked(o, u, k)
    BY Zenon DEF QueueInv
<1>2. CASE u = t
    BY Zenon, <1>1, <1>2
<1>3. CASE u # t
    BY Zenon, <1>1, <1>3 DEF Linked, Alone, Objs
<1> QED BY Zenon, <1>2, <1>3

(* A step of t that changes the queue of one object o. *)
LEMMA QueueChange ==
    ASSUME QueueInv, NEW t \in Threads, Alone(t), NEW o \in Objects, NEW q,
           waitblocks' = [waitblocks EXCEPT ![o] = q],
           waitblocks \in [Objects -> Seq(Threads \X WaitBlocks)],
           Distinct(q),
           \A u \in Threads \ {t}, k \in WaitBlocks :
               <<u, k>> \in ToSet(q) => <<u, k>> \in ToSet(waitblocks[o]),
           \A k \in WaitBlocks : <<t, k>> \in ToSet(q) => Linked(o, t, k)',
           \A p \in Objects \ {o}, k \in WaitBlocks :
               Linked(p, t, k) => Linked(p, t, k)'
    PROVE  QueueInv'
<1>1. waitblocks'[o] = q /\ \A p \in Objects \ {o} : waitblocks'[p] = waitblocks[p]
    OBVIOUS
<1>2. \A p \in Objects : Distinct(waitblocks'[p])
    BY Zenon, <1>1 DEF QueueInv
<1>3. ASSUME NEW p \in Objects, NEW u \in Threads, NEW k \in WaitBlocks,
             <<u, k>> \in ToSet(waitblocks'[p])
      PROVE  Linked(p, u, k)'
    <2>1. CASE u = t
        BY Zenon, <1>1, <1>3, <2>1 DEF QueueInv
    <2>2. CASE u # t
        <3>1. Linked(p, u, k)
            BY Zenon, <1>1, <1>3, <2>2 DEF QueueInv
        <3> QED BY Zenon, <2>2, <3>1 DEF Linked, Alone, Objs
    <2> QED BY Zenon, <2>1, <2>2
<1> QED BY Zenon, <1>2, <1>3 DEF QueueInv

(* The types a step on a linked waitblock needs. *)
LEMMA LinkedTypes ==
    ASSUME TypeInv, NEW t \in Threads, NEW o \in Objects, NEW k \in WaitBlocks,
           Linked(o, t, k)
    PROVE  /\ pc \in [Threads -> WaitPcs \cup SignalPcs
                                 \cup {"run", "panic", "corrupted"}]
           /\ i \in [Threads -> Int]
           /\ satisfier \in [Threads -> Int]
           /\ k \in Int /\ 1 <= k
           /\ pc[t] \in LinkPcs
           /\ pc[t] \notin {"run", "return"} \cup SignalPcs
<1>1. TypeOK
    BY Zenon DEF TypeInv
<1>2. /\ pc \in [Threads -> WaitPcs \cup SignalPcs
                              \cup {"run", "panic", "corrupted"}]
      /\ i \in [Threads -> Int]
      /\ satisfier \in [Threads -> Int]
      /\ k \in Int /\ 1 <= k
    BY SMTT(30), <1>1 DEF TypeOK, WaitBlocks, INTERNAL_WAITBLOCKS_N
<1>3. pc[t] \in LinkPcs
    BY Zenon DEF Linked
<1> QED BY Zenon, <1>2, <1>3 DEF LinkPcs, WaitPcs, SignalPcs

(* A waitblock stays linked while its thread takes a signaled object. *)
LEMMA KeptScan ==
    ASSUME TypeInv, NEW t \in Threads, ScanConsume(t) \/ ScanSatisfied(t),
           NEW o \in Objects, NEW k \in WaitBlocks, Linked(o, t, k)
    PROVE  Linked(o, t, k)'
<1>1. /\ pc[t] = "scan" /\ pc'[t] = "check" /\ satisfier'[t] = i[t]
      /\ UNCHANGED <<wb, call>>
    BY Zenon, LinkedTypes DEF ScanConsume, ScanSatisfied
<1> QED BY Zenon, <1>1 DEF Linked, Objs, LinkPcs, WaitPcs

(* It stays linked while its thread backs out of others, *)
LEMMA KeptBackOut ==
    ASSUME TypeInv, StatusInv, WaitDiscipline, NEW t \in Threads, BackOut(t),
           NEW o \in Objects, NEW k \in WaitBlocks, Linked(o, t, k)
    PROVE  Linked(o, t, k)'
<1>1. IndexOK(t) /\ StatusOK(t)
    BY Zenon DEF TypeInv, IndexInv, StatusInv
<1>2. satisfier[t] \in Int /\ k \in Int /\ 1 <= k
    BY Zenon, LinkedTypes
<1>3. /\ pc[t] = "check" /\ i'[t] = 1
      /\ pc'[t] = IF wait_status[t] # "satisfied" THEN "panic"
                  ELSE IF satisfier[t] > 1 THEN "backout" ELSE "return"
      /\ UNCHANGED <<wb, call, satisfier>>
    BY Zenon, LinkedTypes DEF BackOut
<1>4. pc'[t] # "return"
    <2>1. SUFFICES ASSUME satisfier[t] = 0, wait_status[t] = "satisfied"
                   PROVE  FALSE
        BY SMTT(30), <1>2, <1>3 DEF Linked
    <2>2. call[t] \in Waits[t] /\ call[t].timeout = "zero"
        BY Zenon, <1>1, <1>3, <2>1 DEF StatusOK, IndexOK, WaitPcs
    <2>3. Len(call[t].objs) = 1 /\ Objs(t) = call[t].objs
        BY Zenon, <2>2 DEF WaitDiscipline, Objs, WaitObjs
    <2>4. wb[t][1] = "signaled"
        BY Zenon, <1>1, <1>3, <2>1, <2>2, <2>3 DEF StatusOK, Single, WaitPcs
    <2>5. k = 1
        BY <1>2, <2>3 DEF Linked
    <2> QED BY Zenon, <2>4, <2>5 DEF Linked
<1> QED BY <1>2, <1>3, <1>4 DEF Linked, Objs, LinkPcs, WaitPcs

(* while its thread starts or stops the timer, or sleeps, *)
LEMMA KeptWait ==
    ASSUME TypeInv, NEW t \in Threads,
           TimerStart(t) \/ Commit(t) \/ Sleep(t) \/ TimerStop(t),
           NEW o \in Objects, NEW k \in WaitBlocks, Linked(o, t, k)
    PROVE  Linked(o, t, k)'
<1>1. IndexOK(t)
    BY SMTT(30) DEF TypeInv, IndexInv
<1>2. /\ pc'[t] \in {"commit", "sleep", "timer_stop", "collect"}
      /\ pc'[t] = "collect" => i'[t] = 1
      /\ UNCHANGED <<wb, call>>
    BY Zenon, <1>1, LinkedTypes
    DEF TimerStart, Commit, Sleep, TimerStop, AfterWait, IndexOK
<1>3. k \in Int /\ 1 <= k
    BY Zenon, LinkedTypes
<1> QED BY Zenon, <1>2, <1>3 DEF Linked, Objs, LinkPcs, WaitPcs

(* and while its thread collects others. *)
LEMMA KeptCollect ==
    ASSUME TypeInv, NEW t \in Threads, CollectSignaled(t) \/ CollectInactive(t),
           NEW o \in Objects, NEW k \in WaitBlocks, Linked(o, t, k)
    PROVE  Linked(o, t, k)'
<1>1. /\ pc[t] = "collect" /\ i'[t] = i[t] + 1
      /\ pc'[t] = AfterCollect(t) \/ pc'[t] = "panic"
      /\ wb[t][i[t]] # "active"
      /\ UNCHANGED <<wb, call>>
    BY Zenon, LinkedTypes DEF CollectSignaled, CollectInactive
<1>2. i[t] <= k /\ k <= Len(Objs(t)) /\ wb[t][k] = "active"
    BY Zenon, <1>1 DEF Linked
<1>3. i[t] \in Int /\ k \in Int
    BY Zenon, LinkedTypes
<1>4. Len(Objs(t)) \in Int
    BY <1>1, IndexFacts DEF WaitPcs
<1>5. i[t] # k
    BY Zenon, <1>1, <1>2
<1>6. i[t] + 1 <= k
    BY <1>2, <1>3, <1>5
<1> QED BY SMTT(30), <1>1, <1>2, <1>3, <1>4, <1>6
        DEF Linked, Objs, LinkPcs, WaitPcs, AfterCollect

(* Steps that change no queue: what is hung stays where it belongs. *)
LEMMA QueueKept ==
    ASSUME TypeInv, QueueInv, StatusInv, WaitDiscipline, NEW t \in Threads,
           \/ WaitAny(t) \/ Signal(t) \/ ScanConsume(t) \/ ScanSatisfied(t)
           \/ BackOut(t) \/ TimerStart(t) \/ Commit(t) \/ Sleep(t)
           \/ TimerStop(t) \/ CollectSignaled(t) \/ CollectInactive(t)
           \/ Return(t) \/ SatisfyDone(t) \/ Release(t) \/ EventSignalEnd(t)
    PROVE  QueueInv'
<1>1. Alone(t)
    BY ZenonT(30), OwnStepAlone DEF OwnStep, TypeInv
<1>2. waitblocks' = waitblocks
    BY ZenonT(60) DEF WaitAny, Signal, MutexUnlock, SemaphoreRelease, EventSignal,
           TimerHandleExpiry, ScanConsume, ScanSatisfied, BackOut, TimerStart,
           Commit, Sleep, TimerStop, CollectSignaled, CollectInactive, Return,
           SatisfyDone, Release, EventSignalEnd, objVars
<1>3. ASSUME NEW o \in Objects, NEW k \in WaitBlocks, Linked(o, t, k)
      PROVE  Linked(o, t, k)'
    <2>1. pc[t] \notin {"run", "return"} \cup SignalPcs
        BY Zenon, <1>3, LinkedTypes
    <2>2. \/ ScanConsume(t) \/ ScanSatisfied(t) \/ BackOut(t)
          \/ TimerStart(t) \/ Commit(t) \/ Sleep(t) \/ TimerStop(t)
          \/ CollectSignaled(t) \/ CollectInactive(t)
        BY Zenon, <2>1
        DEF WaitAny, Signal, MutexUnlock, SemaphoreRelease, EventSignal,
            TimerHandleExpiry, Enter, Return, SatisfyDone, Release,
            EventSignalEnd, SignalPcs
    <2> QED BY Zenon, <1>3, <2>2, KeptScan, KeptBackOut, KeptWait, KeptCollect
<1> QED BY Zenon, <1>1, <1>2, <1>3, QueueFrame

(* Hanging a waitblock on an object. *)
LEMMA QueueInsert ==
    ASSUME TypeInv, QueueInv, StatusInv, NEW t \in Threads, ScanInsert(t)
    PROVE  QueueInv'
<1>0. PICK o \in Objects : o = Objs(t)[i[t]]
    BY Zenon, IndexFacts DEF ScanInsert, WaitPcs
<1>1. TypeOK /\ StatusOK(t)
    BY Zenon DEF TypeInv, StatusInv
<1>2. Alone(t)
    BY Zenon, <1>1, OwnStepAlone DEF OwnStep
<1>3. /\ i[t] \in WaitBlocks /\ i[t] \in Int
      /\ Len(Objs(t)) \in Int /\ i[t] <= Len(Objs(t))
    BY IndexFacts DEF ScanInsert, WaitPcs
<1>4. /\ waitblocks \in [Objects -> Seq(Threads \X WaitBlocks)]
      /\ waitblocks[o] \in Seq(Threads \X WaitBlocks)
      /\ <<t, i[t]>> \in Threads \X WaitBlocks
    BY Zenon, <1>1, <1>3 DEF TypeOK
<1>5. <<t, i[t]>> \notin ToSet(waitblocks[o])
    BY <1>0, <1>3 DEF QueueInv, Linked, ScanInsert
<1> DEFINE q == Append(waitblocks[o], <<t, i[t]>>)
<1>6. Distinct(q) /\ ToSet(q) = ToSet(waitblocks[o]) \cup {<<t, i[t]>>}
    BY ZenonT(60), <1>3, <1>4, <1>5, InsertElems DEF QueueInv
<1>7. /\ pc[t] = "scan" /\ i'[t] = i[t] + 1 /\ satisfier'[t] = 0
      /\ pc'[t] \in {"scan", "check", "timer_start", "commit"}
      /\ wb' = [wb EXCEPT ![t][i[t]] = "active"]
      /\ call' = call
    <2>1. call[t].timeout \in {"forever", "zero", "finite"}
        BY Zenon, <1>1 DEF TypeOK, WaitCall, Timeouts
    <2>2. satisfier[t] = 0
        BY Zenon, <1>1 DEF StatusOK, ScanInsert
    <2> QED BY Zenon, <1>1, <2>1, <2>2 DEF ScanInsert, TypeOK
<1>8. /\ wb'[t][i[t]] = "active"
      /\ \A k \in WaitBlocks : wb[t][k] = "active" => wb'[t][k] = "active"
    BY Zenon, <1>1, <1>3, <1>7 DEF TypeOK
<1>9. ASSUME NEW p \in Objects, NEW k \in WaitBlocks,
             Linked(p, t, k) \/ (p = o /\ k = i[t])
      PROVE  Linked(p, t, k)'
    <2>1. k \in Int
        BY DEF WaitBlocks, INTERNAL_WAITBLOCKS_N
    <2> QED BY <1>0, <1>3, <1>7, <1>8, <1>9, <2>1 DEF Linked, Objs, LinkPcs, WaitPcs
<1>10. waitblocks' = [waitblocks EXCEPT ![o] = q]
    BY Zenon, <1>0 DEF ScanInsert, InsertTail
<1>11. \A u \in Threads \ {t}, k \in WaitBlocks :
           <<u, k>> \in ToSet(q) => <<u, k>> \in ToSet(waitblocks[o])
    BY Zenon, <1>6
<1>12. \A k \in WaitBlocks : <<t, k>> \in ToSet(q) => Linked(o, t, k)'
    BY Zenon, <1>6, <1>3, <1>9 DEF QueueInv
<1>13. \A p \in Objects \ {o}, k \in WaitBlocks : Linked(p, t, k) => Linked(p, t, k)'
    BY Zenon, <1>9
<1> HIDE DEF q
<1> QED BY Zenon, <1>2, <1>3, <1>4, <1>6, <1>10, <1>11, <1>12, <1>13, QueueChange

(* Unlinking one's own waitblock, or failing to. *)
LEMMA QueueUnlink ==
    ASSUME TypeInv, QueueInv, NEW t \in Threads,
           BackOutRemove(t) \/ CollectActive(t)
    PROVE  QueueInv'
<1>0. PICK o \in Objects : o = Objs(t)[i[t]]
    BY Zenon, IndexFacts DEF BackOutRemove, CollectActive, WaitPcs
<1> DEFINE next == IF pc[t] = "collect" THEN AfterCollect(t)
                   ELSE IF i[t] + 1 < satisfier[t] THEN "backout" ELSE "return"
<1>1. TypeOK
    BY Zenon DEF TypeInv
<1>2. Alone(t)
    BY Zenon, <1>1, OwnStepAlone DEF OwnStep
<1>3. /\ i[t] \in WaitBlocks /\ i[t] \in Int
      /\ Len(Objs(t)) \in Int
    BY IndexFacts DEF BackOutRemove, CollectActive, WaitPcs
<1>4. /\ waitblocks \in [Objects -> Seq(Threads \X WaitBlocks)]
      /\ waitblocks[o] \in Seq(Threads \X WaitBlocks)
    BY Zenon, <1>1, <1>3 DEF TypeOK
<1>5. /\ pc[t] \in {"backout", "collect"}
      /\ Unlink(t, o, i[t], next)
      /\ i'[t] = i[t] + 1
      /\ UNCHANGED <<call, satisfier>>
      /\ wb' = wb \/ wb' = [wb EXCEPT ![t][i[t]] = "inactive"]
    BY Zenon, <1>0, <1>1 DEF BackOutRemove, CollectActive, TypeOK
<1>6. \A k \in WaitBlocks : k # i[t] => wb'[t][k] = wb[t][k]
    BY <1>1, <1>5 DEF TypeOK
<1>7. satisfier[t] \in Int
    BY SMTT(30), <1>1 DEF TypeOK
<1>8. ASSUME NEW p \in Objects, NEW k \in WaitBlocks, Linked(p, t, k), k # i[t],
             pc'[t] \in {next, "corrupted"}
      PROVE  Linked(p, t, k)'
    <2>1. k \in Int
        BY DEF WaitBlocks, INTERNAL_WAITBLOCKS_N
    <2>2. i[t] < k /\ k <= Len(Objs(t)) /\ (pc[t] = "backout" => k < satisfier[t])
        BY SMTT(30), <1>3, <1>5, <1>8, <2>1 DEF Linked
    <2>3. pc'[t] \in {"corrupted", pc[t]}
        BY <1>3, <1>5, <1>7, <1>8, <2>1, <2>2 DEF AfterCollect
    <2>4. wb'[t][k] = "active"
        BY Zenon, <1>6, <1>8 DEF Linked
    <2> QED BY SMTT(30), <1>3, <1>5, <1>7, <1>8, <2>1, <2>2, <2>3, <2>4
            DEF Linked, Objs, LinkPcs, WaitPcs
<1>9. ASSUME NEW n \in 1..Len(waitblocks[o]),
             waitblocks[o][n] = <<t, i[t]>>,
             waitblocks' = [waitblocks EXCEPT ![o] = RemoveAt(@, n)],
             pc' = [pc EXCEPT ![t] = next]
      PROVE  QueueInv'
    <2> DEFINE q == RemoveAt(waitblocks[o], n)
    <2>1. Distinct(q) /\ ToSet(q) = ToSet(waitblocks[o]) \ {<<t, i[t]>>}
        BY Zenon, <1>3, <1>4, <1>9, RemoveElems DEF QueueInv
    <2>2. pc'[t] = next
        BY Zenon, <1>1, <1>9 DEF TypeOK
    <2>3. \A k \in WaitBlocks : <<t, k>> \in ToSet(q) => Linked(o, t, k)'
        BY Zenon, <1>3, <1>8, <2>1, <2>2 DEF QueueInv
    <2>4. \A p \in Objects \ {o}, k \in WaitBlocks :
              Linked(p, t, k) => Linked(p, t, k)'
        BY Zenon, <1>0, <1>8, <2>2 DEF Linked
    <2>5. \A u \in Threads \ {t}, k \in WaitBlocks :
              <<u, k>> \in ToSet(q) => <<u, k>> \in ToSet(waitblocks[o])
        BY Zenon, <2>1
    <2>6. waitblocks' = [waitblocks EXCEPT ![o] = q]
        BY Zenon, <1>9
    <2> HIDE DEF q
    <2> QED BY Zenon, <1>2, <1>3, <1>4, <2>1, <2>3, <2>4, <2>5, <2>6, QueueChange
<1>10. ASSUME \A n \in 1..Len(waitblocks[o]) : waitblocks[o][n] # <<t, i[t]>>,
              pc' = [pc EXCEPT ![t] = "corrupted"],
              waitblocks' = waitblocks
       PROVE  QueueInv'
    <2>1. pc'[t] = "corrupted"
        BY Zenon, <1>1, <1>10 DEF TypeOK
    <2>2. <<t, i[t]>> \notin ToSet(waitblocks[o])
        BY Zenon, <1>4, <1>10, Elems
    <2>3. waitblocks' = [waitblocks EXCEPT ![o] = waitblocks[o]]
        BY Zenon, <1>4, <1>10
    <2>4. \A k \in WaitBlocks : <<t, k>> \in ToSet(waitblocks[o]) => Linked(o, t, k)'
        BY Zenon, <1>3, <1>8, <2>1, <2>2 DEF QueueInv
    <2>5. \A p \in Objects \ {o}, k \in WaitBlocks :
              Linked(p, t, k) => Linked(p, t, k)'
        BY Zenon, <1>0, <1>8, <2>1 DEF Linked
    <2>6. Distinct(waitblocks[o])
        BY Zenon, <1>3 DEF QueueInv
    <2> QED BY Zenon, <1>2, <1>3, <1>4, <2>3, <2>4, <2>5, <2>6, QueueChange
<1> QED BY Zenon, <1>5, <1>9, <1>10 DEF Unlink

(* The waitblock of a running wait timer is the last one of its thread. *)
LEMMA PendingFacts ==
    ASSUME TypeInv, StatusInv, NEW t \in pending
    PROVE  /\ t \in Threads
           /\ call[t] \in Waits[t]
           /\ call[t].timeout = "finite"
           /\ pc[t] \in {"commit", "sleep", "timer_stop"}
           /\ TimerOf[t] \in Objects
           /\ Timer(t) = Len(call[t].objs) + 1
           /\ Timer(t) \in WaitBlocks
           /\ Timer(t) >= 2
           /\ Objs(t)[Timer(t)] = TimerOf[t]
<1>1. t \in Threads
    BY SMTT(30) DEF TypeInv, TypeOK
<1>2. call[t].timeout = "finite" /\ pc[t] \in {"commit", "sleep", "timer_stop"}
    BY Zenon, <1>1 DEF StatusInv, StatusOK
<1>3. call[t] \in Waits[t]
    BY Zenon, <1>1, <1>2 DEF TypeInv, IndexInv, IndexOK, WaitPcs
<1>4. /\ Len(call[t].objs) \in Nat /\ 1 <= Len(call[t].objs)
      /\ Len(call[t].objs) <= 4
      /\ Len(Objs(t)) = Len(call[t].objs) + 1
      /\ Objs(t)[Len(call[t].objs) + 1] = TimerOf[t]
      /\ TimerOf[t] \in Objects
    BY Zenon, <1>1, <1>2, <1>3, WaitObjsType DEF Objs
<1> QED BY SMTT(30), <1>1, <1>2, <1>3, <1>4
        DEF Timer, WaitBlocks, INTERNAL_WAITBLOCKS_N

(* The expiry of a wait timer empties the queue of the timer only. *)
LEMMA QueueExpire ==
    ASSUME TypeInv, QueueInv, StatusInv, NEW t \in Threads, TimerExpire(t)
    PROVE  QueueInv'
<1>1. TypeOK
    BY Zenon DEF TypeInv
<1>2. Alone(t)
    BY Zenon, <1>1, OwnStepAlone DEF OwnStep
<1>3. /\ TimerOf[t] \in Objects
      /\ Timer(t) \in WaitBlocks
      /\ Objs(t)[Timer(t)] = TimerOf[t]
    BY Zenon, PendingFacts DEF TimerExpire
<1>4. \A k \in WaitBlocks : k # Timer(t) => wb'[t][k] = wb[t][k]
    BY Zenon, <1>1 DEF TypeOK, TimerExpire
<1>5. UNCHANGED <<pc, call, i, satisfier>>
    BY SMTT(30) DEF TimerExpire
<1>6. \A p \in Objects \ {TimerOf[t]}, k \in WaitBlocks :
          Linked(p, t, k) => Linked(p, t, k)'
    BY Zenon, <1>3, <1>4, <1>5 DEF Linked, Objs
<1>7. Distinct(<<>>) /\ ToSet(<<>>) = {}
    BY SMTT(30) DEF Distinct, ToSet
<1>8. /\ waitblocks' = [waitblocks EXCEPT ![TimerOf[t]] = <<>>]
      /\ waitblocks \in [Objects -> Seq(Threads \X WaitBlocks)]
    BY Zenon, <1>1 DEF TimerExpire, TypeOK
<1> QED BY Zenon, <1>2, <1>3, <1>6, <1>7, <1>8, QueueChange

(* try_satisfy_dispatch_object pops waitblock k of v from o's queue. *)
Pops(t, o, v, k) ==
    /\ o = obj[t]
    /\ Linked(o, v, k)
    /\ Distinct(Tail(waitblocks[o]))
    /\ ToSet(Tail(waitblocks[o])) = ToSet(waitblocks[o]) \ {<<v, k>>}
    /\ waitblocks' = [waitblocks EXCEPT ![o] = Tail(waitblocks[o])]
    /\ \/ /\ wait_status[v] # "satisfied"
          /\ wb' = [wb EXCEPT ![v][k] = "signaled"]
          /\ Delivered(t, o, v)
       \/ /\ wait_status[v] = "satisfied"
          /\ wb' = [wb EXCEPT ![v][k] = "inactive"]
          /\ UNCHANGED <<wait_status, signaled_count, woken, pc, ret>>

(* What Satisfy takes is the head of the queue of an object. *)
LEMMA PopFacts ==
    ASSUME TypeInv, QueueInv, NEW t \in Threads, Satisfy(t)
    PROVE  \E o \in Objects, v \in Threads, k \in WaitBlocks :
              Pops(t, o, v, k)
<1>1. /\ obj[t] \in Objects
      /\ waitblocks[obj[t]] \in Seq(Threads \X WaitBlocks)
      /\ waitblocks[obj[t]] # <<>>
    BY Zenon DEF TypeInv, TypeOK, Satisfy
<1>2. PICK o \in Objects : o = obj[t]
    BY Zenon, <1>1
<1>3. Distinct(waitblocks[o])
    BY SMTT(30) DEF QueueInv
<1>4. /\ ToSet(Tail(waitblocks[o])) = ToSet(waitblocks[o]) \ {Head(waitblocks[o])}
      /\ Head(waitblocks[o]) \in ToSet(waitblocks[o])
      /\ Distinct(Tail(waitblocks[o]))
    BY Zenon, <1>1, <1>2, <1>3, TailElems
<1>5. Head(waitblocks[o]) \in Threads \X WaitBlocks
    BY ZenonT(30), <1>1, <1>2, TailFacts
<1>6. PICK v \in Threads, k \in WaitBlocks :
         /\ Head(waitblocks[o]) = <<v, k>>
         /\ v = Head(waitblocks[o])[1]
         /\ k = Head(waitblocks[o])[2]
    BY <1>5
<1>7. Linked(o, v, k)
    BY Zenon, <1>4, <1>6 DEF QueueInv
<1>8. waitblocks' = [waitblocks EXCEPT ![o] = Tail(waitblocks[o])]
    BY Zenon, <1>2 DEF Satisfy, Popped
<1>9. \/ /\ wait_status[v] # "satisfied"
         /\ wb' = [wb EXCEPT ![v][k] = "signaled"]
         /\ Delivered(t, o, v)
      \/ /\ wait_status[v] = "satisfied"
         /\ wb' = [wb EXCEPT ![v][k] = "inactive"]
         /\ UNCHANGED <<wait_status, signaled_count, woken, pc, ret>>
    BY Zenon, <1>2, <1>6 DEF Satisfy, Live, MarkSignaled
<1>10. Pops(t, o, v, k)
    BY Zenon, <1>2, <1>4, <1>6, <1>7, <1>8, <1>9 DEF Pops
<1> QED BY Zenon, <1>10

(* Satisfy keeps QueueInv. *)
LEMMA QueueSatisfy ==
    ASSUME TypeInv, QueueInv, NEW t \in Threads, Satisfy(t)
    PROVE  QueueInv'
<1>0. PICK o \in Objects, v \in Threads, k \in WaitBlocks : Pops(t, o, v, k)
    BY Zenon, PopFacts
<1>1. /\ Linked(o, v, k)
      /\ Distinct(Tail(waitblocks[o]))
      /\ ToSet(Tail(waitblocks[o])) = ToSet(waitblocks[o]) \ {<<v, k>>}
      /\ waitblocks' = [waitblocks EXCEPT ![o] = Tail(waitblocks[o])]
    BY Zenon, <1>0 DEF Pops
<1>2. TypeOK
    BY SMTT(30) DEF TypeInv
<1>3. /\ waitblocks'[o] = Tail(waitblocks[o])
      /\ \A p \in Objects \ {o} : waitblocks'[p] = waitblocks[p]
    BY Zenon, <1>1, <1>2 DEF TypeOK
<1>4. \A u \in Threads, l \in WaitBlocks :
          u # v \/ l # k => wb'[u][l] = wb[u][l]
    <2>1. \/ wb' = [wb EXCEPT ![v][k] = "signaled"]
          \/ wb' = [wb EXCEPT ![v][k] = "inactive"]
        BY Zenon, <1>0 DEF Pops
    <2> QED BY SMTT(30), <1>2, <2>1 DEF TypeOK
<1>5. UNCHANGED <<call, i, satisfier>>
    BY ZenonT(60) DEF Satisfy
<1>6. pc[t] = "satisfy" /\ \A u \in Threads \ {t} : pc'[u] = pc[u]
    <2>1. pc \in [Threads -> WaitPcs \cup SignalPcs
                              \cup {"run", "panic", "corrupted"}]
        BY Zenon, <1>2 DEF TypeOK
    <2>2. pc' = pc \/ pc' = [pc EXCEPT ![t] = "release"]
        BY Zenon, <1>0 DEF Pops, Delivered
    <2> QED BY Zenon, <2>1, <2>2 DEF Satisfy
<1>7. ASSUME NEW p \in Objects, NEW u \in Threads, NEW l \in WaitBlocks,
             <<u, l>> \in ToSet(waitblocks'[p])
      PROVE  Linked(p, u, l)'
    <2>1. Linked(p, u, l)
        BY Zenon, <1>1, <1>3, <1>7 DEF QueueInv
    <2>2. u # v \/ l # k
        <3>1. CASE p = o
            BY Zenon, <1>1, <1>3, <1>7, <3>1
        <3>2. CASE p # o
            BY Zenon, <1>1, <2>1, <3>2 DEF Linked
        <3> QED BY Zenon, <3>1, <3>2
    <2>3. u # t
        BY Zenon, <1>6, <2>1 DEF Linked, LinkPcs, WaitPcs
    <2> QED BY Zenon, <1>4, <1>5, <1>6, <2>1, <2>2, <2>3 DEF Linked, Objs
<1>8. \A p \in Objects : Distinct(waitblocks'[p])
    BY Zenon, <1>1, <1>3 DEF QueueInv
<1> QED BY Zenon, <1>7, <1>8 DEF QueueInv

(* Every step keeps QueueInv. *)
LEMMA QueueNext ==
    ASSUME TypeInv, QueueInv, StatusInv, WaitDiscipline, [Next]_vars
    PROVE  QueueInv'
<1>1. CASE UNCHANGED vars
    BY <1>1 DEF vars, objVars, waitVars, QueueInv, Linked, Objs
<1>2. CASE Next
    BY Zenon, <1>2, QueueKept, QueueInsert, QueueUnlink, QueueExpire, QueueSatisfy
    DEF Next, Kernel
<1> QED BY Zenon, <1>1, <1>2

-----------------------------------------------------------------------------
(* A thread in mutex_lock waits for the mutex only, without a timeout. *)
Locking(t) == pc[t] \in WaitPcs /\ call[t].fn = "mutex_lock"

(* mutex_lock waits for one mutex, without a timeout. *)
LEMMA LockingFacts ==
    ASSUME TypeInv, StatusInv, WaitDiscipline, NEW t \in Threads, Locking(t)
    PROVE  /\ Single(t)
           /\ call[t].timeout = "forever"
           /\ call[t].objs[1] \in Mutexes
           /\ Objs(t) = call[t].objs
           /\ t \notin pending
           /\ pc[t] \notin {"timer_start", "timer_stop"}
           /\ pc[t] \in {"scan", "collect"} => i[t] = 1
<1>1. call[t] \in Waits[t] /\ IndexOK(t) /\ StatusOK(t)
    BY Zenon DEF TypeInv, IndexInv, IndexOK, Locking, StatusInv
<1>2. /\ Len(call[t].objs) = 1
      /\ call[t].timeout = "forever"
      /\ call[t].objs[1] \in Mutexes
      /\ Objs(t) = call[t].objs
    BY Zenon, <1>1, MutexWait DEF Locking, Objs
<1>3. Single(t) /\ t \notin pending /\ pc[t] \notin {"timer_start", "timer_stop"}
    BY Zenon, <1>1, <1>2 DEF Single, Locking, StatusOK
<1>4. ASSUME pc[t] \in {"scan", "collect"} PROVE i[t] = 1
    <2>1. i[t] \in Nat /\ 1 <= i[t] /\ i[t] <= Len(Objs(t)) /\ Len(Objs(t)) = 1
        BY ZenonT(30), <1>2, <1>4, IndexFacts
    <2> QED BY <2>1
<1> QED BY Zenon, <1>2, <1>3, <1>4

(* A step that keeps StatusOK of its own thread keeps StatusInv. *)
LEMMA StatusFrame ==
    ASSUME StatusInv, NEW t \in Threads, Alone(t), StatusOK(t)'
    PROVE  StatusInv'
<1> SUFFICES ASSUME NEW u \in Threads, u # t
             PROVE  StatusOK(u)'
    BY Zenon DEF StatusInv
<1> QED BY DEF StatusInv, StatusOK, Single, Alone

(* Preparing the wait. *)
LEMMA StatusScan ==
    ASSUME TypeInv, StatusInv, WaitDiscipline, NEW t \in Threads,
           \/ WaitAny(t) \/ ScanConsume(t) \/ ScanSatisfied(t) \/ ScanInsert(t)
           \/ TimerStart(t)
    PROVE  StatusOK(t)'
<1>1. /\ TypeOK /\ IndexOK(t) /\ StatusOK(t)
      /\ i[t] \in Nat /\ 1 <= i[t]
    BY Zenon, IndexFacts DEF TypeInv, IndexInv, StatusInv
<1>2. CASE WaitAny(t)
    <2>1. /\ pc[t] = "run" /\ pc'[t] = "scan" /\ satisfier'[t] = 0 /\ i'[t] = 1
          /\ wait_status'[t] = "in_progress"
          /\ UNCHANGED <<pending, woken>>
        BY ZenonT(30), <1>1, <1>2 DEF WaitAny, TypeOK
    <2> QED BY Zenon, <1>1, <2>1 DEF StatusOK, Single
<1>3. CASE ScanConsume(t) \/ ScanSatisfied(t)
    <2>1. /\ pc[t] = "scan" /\ pc'[t] = "check" /\ satisfier'[t] = i[t]
          /\ wait_status'[t] = "satisfied"
          /\ UNCHANGED <<pending, woken, call>>
        BY SMTT(30), <1>1, <1>3 DEF ScanConsume, ScanSatisfied, TypeOK, StatusOK, WaitStatus
    <2>2. satisfier'[t] # 0
        BY Zenon, <2>1, IndexFacts
    <2> QED BY ZenonT(30), <1>1, <2>1, <2>2 DEF StatusOK, Single
<1>4. CASE ScanInsert(t)
    <2>1. call[t].timeout \in {"forever", "zero", "finite"}
        BY Zenon, <1>1 DEF TypeOK, WaitCall, Timeouts
    <2>2. /\ pc[t] = "scan" /\ i'[t] = i[t] + 1
          /\ pc'[t] = IF i[t] < Len(Objs(t)) THEN "scan"
                      ELSE CASE call[t].timeout = "zero" -> "check"
                             [] call[t].timeout = "finite" -> "timer_start"
                             [] call[t].timeout = "forever" -> "commit"
          /\ wb' = [wb EXCEPT ![t][i[t]] = "active"]
          /\ UNCHANGED <<pending, woken, call, satisfier, wait_status>>
        BY Zenon, <1>1, <1>4 DEF ScanInsert, TypeOK
    <2>3. /\ pc'[t] \in {"scan", "check", "timer_start", "commit"}
          /\ pc'[t] = "check" => call[t].timeout = "zero"
          /\ pc'[t] = "timer_start" => call[t].timeout = "finite"
        BY Zenon, <2>1, <2>2
    <2>4. Single(t) => i[t] = 1 /\ wb'[t][1] = "active"
        <3>1. SUFFICES ASSUME Single(t) PROVE i[t] = 1 /\ wb'[t][1] = "active"
            OBVIOUS
        <3>2. Objs(t) = call[t].objs /\ Len(Objs(t)) = 1
            BY Zenon, <3>1 DEF Single, Objs, WaitObjs
        <3>3. i[t] = 1
            BY <1>1, <2>2, <3>2 DEF IndexOK
        <3>4. 1 \in WaitBlocks
            BY DEF WaitBlocks, INTERNAL_WAITBLOCKS_N
        <3> QED BY Zenon, <1>1, <2>2, <3>3, <3>4 DEF TypeOK
    <2>5. Single(t)' => Single(t)
        BY Zenon, <2>2 DEF Single, WaitPcs
    <2>6. /\ pc[t] = "scan" /\ i'[t] # 1
          /\ UNCHANGED <<pending, woken, call, satisfier, wait_status>>
        BY <1>1, <2>2
    <2>7. Single(t)' => wait_status[t] = "in_progress" /\ wb'[t][1] = "active"
        BY Zenon, <1>1, <2>4, <2>5, <2>6 DEF StatusOK
    <2> QED BY Zenon, <1>1, <2>3, <2>6, <2>7 DEF StatusOK
<1>5. CASE TimerStart(t)
    <2>1. /\ pc[t] = "timer_start" /\ pc'[t] = "commit"
          /\ UNCHANGED <<woken, call, satisfier, wait_status, wb>>
          /\ call[t].timeout = "finite"
        BY Zenon, <1>1, <1>5 DEF TimerStart, TypeOK, StatusOK
    <2> QED BY Zenon, <1>1, <2>1 DEF StatusOK, Single
<1> QED BY Zenon, <1>2, <1>3, <1>4, <1>5

(* Backing out, committing, collecting and returning. *)
LEMMA StatusFinish ==
    ASSUME TypeInv, StatusInv, WaitDiscipline, NEW t \in Threads,
           \/ BackOut(t) \/ BackOutRemove(t) \/ Commit(t) \/ Sleep(t)
           \/ TimerStop(t) \/ CollectActive(t) \/ CollectSignaled(t)
           \/ CollectInactive(t) \/ Return(t)
    PROVE  StatusOK(t)'
<1>1. /\ TypeOK /\ IndexOK(t) /\ StatusOK(t)
      /\ i[t] \in Nat /\ 1 <= i[t] /\ satisfier[t] \in Nat
    <2>1. TypeOK /\ IndexOK(t) /\ StatusOK(t)
        BY Zenon DEF TypeInv, IndexInv, StatusInv
    <2>2. satisfier \in [Threads -> 0..(INTERNAL_WAITBLOCKS_N + 1)]
        BY Zenon, <2>1 DEF TypeOK
    <2>3. satisfier[t] \in Nat
        BY SMTT(30), <2>2 DEF INTERNAL_WAITBLOCKS_N
    <2> QED BY Zenon, <2>1, <2>3, IndexFacts
<1>2. Single(t) => Len(Objs(t)) = 1
    BY ZenonT(30) DEF Single, Objs, WaitObjs
<1>3. CASE BackOut(t)
    <2>1. /\ pc[t] = "check"
          /\ pc'[t] = IF wait_status[t] # "satisfied" THEN "panic"
                      ELSE IF satisfier[t] > 1 THEN "backout" ELSE "return"
          /\ UNCHANGED <<pending, woken, call, satisfier, wait_status, wb>>
        BY Zenon, <1>1, <1>3 DEF BackOut, TypeOK
    <2>2. Locking(t) => wait_status[t] = "satisfied"
        BY Zenon, <1>1, <2>1, LockingFacts DEF StatusOK
    <2> QED BY <1>1, <2>1, <2>2 DEF StatusOK, Single, Locking, WaitPcs
<1>4. CASE BackOutRemove(t)
    <2>1. /\ pc[t] = "backout"
          /\ pc'[t] \in {"backout", "return", "corrupted"}
          /\ UNCHANGED <<pending, woken, call, satisfier, wait_status>>
        BY Zenon, <1>1, <1>4 DEF BackOutRemove, Unlink, TypeOK
    <2>2. ~Single(t)
        <3>1. i[t] < satisfier[t] /\ satisfier[t] <= Len(Objs(t))
            BY Zenon, <1>1, <2>1 DEF IndexOK, WaitPcs
        <3>2. Len(Objs(t)) \in Nat
            BY Zenon, <2>1, IndexFacts DEF WaitPcs
        <3>3. ASSUME Len(Objs(t)) = 1 PROVE FALSE
            BY SMTT(30), <1>1, <3>1, <3>2, <3>3
        <3> QED BY Zenon, <1>2, <3>3
    <2>3. call[t].fn # "mutex_lock"
        BY Zenon, <2>1, <2>2, LockingFacts DEF Locking, WaitPcs
    <2> QED BY Zenon, <1>1, <2>1, <2>2, <2>3 DEF StatusOK, Single, WaitPcs
<1>5. CASE Commit(t)
    <2>1. /\ pc[t] = "commit"
          /\ \/ /\ wait_status[t] = "in_progress"
                /\ wait_status'[t] = "committed"
                /\ pc'[t] = "sleep"
             \/ /\ wait_status[t] = "satisfied"
                /\ pc'[t] = AfterWait(t)
                /\ wait_status'[t] = "satisfied"
          /\ UNCHANGED <<pending, woken, call, satisfier, wb>>
        BY Zenon, <1>1, <1>5 DEF Commit, TypeOK, WaitStatus, StatusOK
    <2> QED BY Zenon, <1>1, <2>1 DEF StatusOK, Single, WaitPcs, AfterWait
<1>6. CASE Sleep(t)
    <2>1. /\ pc[t] = "sleep" /\ wait_status[t] = "satisfied"
          /\ pc'[t] = AfterWait(t)
          /\ t \notin woken'
          /\ UNCHANGED <<pending, wait_status, call, satisfier, wb>>
        BY Zenon, <1>1, <1>6 DEF Sleep, TypeOK, StatusOK
    <2> QED BY Zenon, <1>1, <2>1 DEF StatusOK, Single, WaitPcs, AfterWait
<1>7. CASE TimerStop(t)
    <2>1. /\ pc[t] = "timer_stop" /\ pc'[t] = "collect"
          /\ t \notin pending'
          /\ call[t].timeout = "finite"
          /\ UNCHANGED <<woken, wait_status, call, satisfier, wb>>
        BY Zenon, <1>1, <1>7 DEF TimerStop, TypeOK, StatusOK
    <2> QED BY Zenon, <1>1, <2>1 DEF StatusOK, Single
<1>8. CASE CollectActive(t) \/ CollectSignaled(t) \/ CollectInactive(t)
    <2>1. /\ pc[t] = "collect"
          /\ pc'[t] \in {AfterCollect(t), "panic", "corrupted"}
          /\ UNCHANGED <<pending, woken, wait_status, call, wb>>
          /\ CollectSignaled(t) => satisfier'[t] = IF satisfier[t] = 0 THEN i[t]
                                                   ELSE satisfier[t]
          /\ ~CollectSignaled(t) => wb[t][i[t]] # "signaled"
        BY ZenonT(30), <1>1, <1>8
        DEF CollectActive, CollectSignaled, CollectInactive, Unlink, TypeOK
    <2>2. Single(t) => i[t] = 1 /\ satisfier'[t] = 1 /\ AfterCollect(t) = "return"
        <3>1. i[t] <= Len(Objs(t))
            BY Zenon, <1>1, <2>1 DEF IndexOK
        <3>2. Single(t) => i[t] = 1 /\ AfterCollect(t) = "return"
            <4>1. Len(Objs(t)) \in Nat
                BY Zenon, <2>1, IndexFacts DEF WaitPcs
            <4>2. ASSUME Len(Objs(t)) = 1
                  PROVE  i[t] = 1 /\ ~(i[t] < Len(Objs(t)))
                BY SMTT(30), <1>1, <3>1, <4>1, <4>2
            <4> QED BY Zenon, <1>2, <4>2 DEF AfterCollect
        <3>3. Single(t) => wb[t][1] = "signaled" /\ satisfier[t] = 0
            BY Zenon, <1>1, <2>1 DEF StatusOK
        <3> QED BY Zenon, <2>1, <3>2, <3>3
    <2>3. AfterCollect(t) \in {"collect", "return"}
        BY SMTT(30) DEF AfterCollect
    <2>4. Single(t)' => Single(t)
        BY Zenon, <2>1 DEF Single, WaitPcs
    <2>5. Single(t)' => pc'[t] # "collect" /\ satisfier'[t] = 1
        BY Zenon, <2>1, <2>2, <2>4
    <2>6. Locking(t) => pc'[t] = AfterCollect(t)
        <3>1. Locking(t) => i[t] = 1 /\ wb[t][1] = "signaled" /\ satisfier[t] = 0
            BY Zenon, <1>1, <2>1, LockingFacts DEF StatusOK
        <3> QED BY Zenon, <1>1, <1>8, <3>1
                DEF CollectActive, CollectSignaled, CollectInactive, TypeOK
    <2>7. pc'[t] \in {"panic", "corrupted"} => call[t].fn # "mutex_lock"
        BY Zenon, <2>1, <2>3, <2>6 DEF Locking, WaitPcs
    <2> QED BY Zenon, <1>1, <2>1, <2>3, <2>5, <2>7 DEF StatusOK
<1>9. CASE Return(t)
    <2>1. /\ pc[t] = "return" /\ pc'[t] = "run"
          /\ UNCHANGED <<pending, woken, wait_status, call, satisfier, wb>>
        BY Zenon, <1>1, <1>9 DEF Return, TypeOK, waitVars
    <2> QED BY Zenon, <1>1, <2>1 DEF StatusOK, Single, WaitPcs
<1> QED BY Zenon, <1>3, <1>4, <1>5, <1>6, <1>7, <1>8, <1>9

(* Signalling, and the expiry of the thread's own timer. *)
LEMMA StatusSignal ==
    ASSUME TypeInv, StatusInv, NEW t \in Threads,
           \/ Signal(t) \/ SatisfyDone(t) \/ Release(t) \/ EventSignalEnd(t)
           \/ TimerExpire(t)
    PROVE  StatusOK(t)'
<1>1. TypeOK /\ StatusOK(t)
    BY Zenon DEF TypeInv, StatusInv
<1>2. CASE Signal(t) \/ SatisfyDone(t) \/ Release(t) \/ EventSignalEnd(t)
    <2>1. /\ pc[t] \in {"run", "satisfy", "release"}
          /\ pc'[t] \in {"run", "satisfy", "release"}
          /\ UNCHANGED <<pending, woken, wait_status>>
        BY ZenonT(30), <1>1, <1>2
        DEF Signal, MutexUnlock, SemaphoreRelease, EventSignal, Enter, TypeOK,
            TimerHandleExpiry, SatisfyDone, Release, EventSignalEnd, waitVars
    <2> QED BY Zenon, <1>1, <2>1 DEF StatusOK, Single, WaitPcs
<1>3. CASE TimerExpire(t)
    <2>1. /\ pc[t] \in {"commit", "sleep", "timer_stop"}
          /\ call[t].timeout = "finite"
        BY Zenon, <1>3, PendingFacts DEF TimerExpire
    <2>2. /\ wait_status'[t] = "satisfied"
          /\ t \notin pending'
          /\ woken' = IF wait_status[t] = "committed" THEN woken \cup {t} ELSE woken
          /\ UNCHANGED <<pc, call, satisfier>>
        BY Zenon, <1>1, <1>3 DEF TimerExpire, TypeOK
    <2> QED BY Zenon, <1>1, <2>1, <2>2 DEF StatusOK, Single
<1> QED BY Zenon, <1>2, <1>3

(* A delivery changes the status and one waitblock of the waiting thread. *)
LEMMA StatusSatisfy ==
    ASSUME TypeInv, QueueInv, StatusInv, NEW t \in Threads, Satisfy(t)
    PROVE  StatusInv'
<1>1. TypeOK
    BY Zenon DEF TypeInv
<1>2. PICK o \in Objects, v \in Threads, k \in WaitBlocks : Pops(t, o, v, k)
    BY Zenon, PopFacts
<1>3. /\ Linked(o, v, k)
      /\ \/ /\ wait_status[v] # "satisfied"
            /\ wait_status' = [wait_status EXCEPT ![v] = "satisfied"]
            /\ wb' = [wb EXCEPT ![v][k] = "signaled"]
            /\ woken' = IF wait_status[v] = "committed" THEN woken \cup {v} ELSE woken
         \/ /\ wait_status[v] = "satisfied"
            /\ wb' = [wb EXCEPT ![v][k] = "inactive"]
            /\ UNCHANGED <<wait_status, woken>>
    BY Zenon, <1>2 DEF Pops, Delivered
<1>4. pc' = pc \/ pc' = [pc EXCEPT ![t] = "release"]
    BY ZenonT(30), <1>2 DEF Pops, Delivered
<1>5. pc[t] = "satisfy" /\ UNCHANGED <<pending, call, i, satisfier>>
    BY ZenonT(60) DEF Satisfy
<1>6. /\ pc'[t] \in {"satisfy", "release"}
      /\ \A u \in Threads \ {t} : pc'[u] = pc[u]
    BY Zenon, <1>1, <1>4, <1>5 DEF TypeOK
<1>7. v # t
    BY Zenon, <1>3, <1>5 DEF Linked, LinkPcs, WaitPcs
<1>8. \A u \in Threads \ {v} : /\ wb'[u] = wb[u]
                               /\ wait_status'[u] = wait_status[u]
                               /\ u \in woken' <=> u \in woken
    BY ZenonT(30), <1>1, <1>3 DEF TypeOK
<1>9. StatusOK(t)'
    BY Zenon, <1>5, <1>6, <1>7, <1>8 DEF StatusInv, StatusOK, Single, WaitPcs
<1>10. ASSUME NEW u \in Threads \ {t, v} PROVE StatusOK(u)'
    BY SMTT(30), <1>5, <1>6, <1>8 DEF StatusInv, StatusOK, Single
<1>11. StatusOK(v)'
    <2>1. /\ StatusOK(v) /\ k \in Nat /\ 1 <= k
          /\ pc'[v] = pc[v]
        BY SMTT(30), <1>6, <1>7 DEF StatusInv, WaitBlocks, INTERNAL_WAITBLOCKS_N
    <2>2. ~(pc[v] = "scan" /\ i[v] = 1)
        BY <1>3, <2>1 DEF Linked
    <2>3. Single(v) => k = 1
        <3>1. Single(v) => Len(Objs(v)) = 1
            BY Zenon DEF Single, Objs, WaitObjs
        <3>2. Len(Objs(v)) = 1 => k = 1
            BY SMTT(30), <1>3, <2>1 DEF Linked
        <3> QED BY Zenon, <3>1, <3>2
    <2>4. Single(v)' => Single(v)
        BY Zenon, <1>5, <2>1 DEF Single
    <2>5. /\ wait_status'[v] = "satisfied"
          /\ v \in woken' => v \in woken \/ wait_status[v] = "committed"
          /\ wait_status[v] # "satisfied" => wb'[v][k] = "signaled"
          /\ wb[v][k] = "active"
        BY SMTT(30), <1>1, <1>3 DEF TypeOK, Linked
    <2> QED BY ZenonT(30), <1>5, <2>1, <2>2, <2>3, <2>4, <2>5 DEF StatusOK
<1> QED BY Zenon, <1>9, <1>10, <1>11 DEF StatusInv

(* Every step keeps StatusInv. *)
LEMMA StatusNext ==
    ASSUME TypeInv, QueueInv, StatusInv, WaitDiscipline, [Next]_vars
    PROVE  StatusInv'
<1>1. CASE UNCHANGED vars
    BY <1>1 DEF vars, objVars, waitVars, StatusInv, StatusOK, Single
<1>2. ASSUME NEW t \in Threads, OwnStep(t)
      PROVE  StatusInv'
    <2>1. Alone(t)
        BY Zenon, <1>2, OwnStepAlone DEF TypeInv
    <2>2. StatusOK(t)'
        BY Zenon, <1>2, StatusScan, StatusFinish, StatusSignal DEF OwnStep
    <2> QED BY Zenon, <2>1, <2>2, StatusFrame
<1>3. CASE Next
    BY Zenon, <1>2, <1>3, StatusSatisfy DEF Next, Kernel, OwnStep
<1> QED BY Zenon, <1>1, <1>3

-----------------------------------------------------------------------------
(* What is true of every wait: its variables have their types, its         *)
(* waitblocks hang where it believes, and its words agree.                 *)
WaitInv == TypeInv /\ QueueInv /\ StatusInv

(* The first state has no wait. *)
LEMMA WaitInit == Init => WaitInv
<1> SUFFICES ASSUME Init PROVE WaitInv
    OBVIOUS
<1>1. TypeInv
    BY Zenon, TypeInit
<1>2. QueueInv
    BY SMTT(30) DEF Init, QueueInv, Distinct, ToSet
<1>3. StatusInv
    BY SMTT(30) DEF Init, StatusInv, StatusOK, Single, WaitPcs
<1> QED BY Zenon, <1>1, <1>2, <1>3 DEF WaitInv

(* Every step keeps WaitInv. *)
LEMMA WaitNext == WaitDiscipline /\ WaitInv /\ [Next]_vars => WaitInv'
BY Zenon, TypeNext, QueueNext, StatusNext DEF WaitInv

(* Under WaitDiscipline WaitInv always holds. *)
LEMMA Waiting == ASSUME WaitDiscipline PROVE Spec => []WaitInv
<1>1. WaitInv /\ [Next]_vars => WaitInv'
    BY Zenon, WaitNext
<1> QED BY <1>1, WaitInit, PTL DEF Spec

(* Nothing but active waitblocks of waits in progress hangs on a queue: no *)
(* interleaving of wait_any, try_satisfy_dispatch_object and the wait      *)
(* timer leaves a waitblock behind.                                        *)
THEOREM NoStaleWaitblock == ASSUME WaitDiscipline PROVE Spec => []QueuedIsActive
<1>1. ASSUME WaitInv, NEW o \in Objects, NEW n \in 1..Len(waitblocks[o]),
             NEW t, NEW k, t = waitblocks[o][n][1], k = waitblocks[o][n][2]
      PROVE  /\ pc[t] \in WaitPcs \cup {"panic", "corrupted"}
             /\ Installed(t, k)
             /\ Objs(t)[k] = o
             /\ wb[t][k] = "active"
    <2>1. waitblocks[o] \in Seq(Threads \X WaitBlocks)
        BY Zenon, <1>1 DEF WaitInv, TypeInv, TypeOK
    <2>2. waitblocks[o][n] \in Threads \X WaitBlocks
        BY <2>1
    <2>3. t \in Threads /\ k \in WaitBlocks /\ waitblocks[o][n] = <<t, k>>
        BY <1>1, <2>2
    <2>4. <<t, k>> \in ToSet(waitblocks[o])
        BY Zenon, <2>1, <2>3, Elems
    <2>5. Linked(o, t, k)
        BY Zenon, <1>1, <2>3, <2>4 DEF WaitInv, QueueInv
    <2>6. pc[t] \in WaitPcs \cup {"panic", "corrupted"} /\ pc[t] # "return"
        BY Zenon, <2>5 DEF Linked, LinkPcs, WaitPcs
    <2>7. Len(Objs(t)) \in Nat /\ k \in Nat /\ 1 <= k
        BY SMTT(30), <1>1, <2>3, <2>6, IndexFacts
        DEF WaitInv, WaitBlocks, INTERNAL_WAITBLOCKS_N
    <2> QED BY SMTT(30), <2>5, <2>6, <2>7 DEF Linked, Installed
<1>2. WaitInv => QueuedIsActive
    BY <1>1 DEF QueuedIsActive
<1> QED BY <1>2, Waiting, PTL
=============================================================================
