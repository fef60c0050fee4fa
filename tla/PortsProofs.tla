---------------------------- MODULE PortsProofs -----------------------------
(***************************************************************************)
(* Proofs about objects, handles and ports: the messages of a port stay in *)
(* order for any number of threads (OrderInv); and no handle outlives its  *)
(* object as long as one thread of the process makes the calls and names   *)
(* handles it has (RefInv).                                                *)
(***************************************************************************)
EXTENDS Ports, FiniteSetTheorems, WellFoundedInduction, TLAPS

Pcs == {"idle", "bitmap_alloc", "bind", "retain", "bitmap_free", "release", "received"}

Bindings == [obj : Objects \cup {NoObject}, access : SUBSET Rights]
Messages == [id : Nat, reply : Objects \cup {NoObject}]

(* The locals of a call; h is not always a handle. *)
LocOK(l) ==
    /\ l = [h |-> l.h, obj |-> l.obj, access |-> l.access]
    /\ l.obj \in Objects \cup {NoObject}
    /\ l.access \in SUBSET Rights

(* The shape of the table, the calls and the queues. *)
ShapeInv ==
    /\ values \in [Handles -> Bindings]
    /\ pc \in [Threads -> Pcs]
    /\ loc = [t \in Threads |-> loc[t]]
    /\ \A t \in Threads : LocOK(loc[t])
    /\ queue \in [Objects -> Seq(Messages)]
    /\ sent \in 0..MaxSent

(* A queue has messages that were sent, in order, each once. *)
Ordered(q) ==
    /\ Len(q) <= sent
    /\ \A k \in 1..Len(q) : q[k].id < sent
    /\ \A j, k \in 1..Len(q) : j < k => q[j].id < q[k].id

OrderInv == ShapeInv /\ \A o \in Objects : Ordered(queue[o])

-----------------------------------------------------------------------------
(* What a call assigns to its locals keeps their shape. *)
LEMMA LocSet ==
    ASSUME loc = [t \in Threads |-> loc[t]], \A u \in Threads : LocOK(loc[u]),
           NEW t \in Threads, NEW l, LocOK(l), NEW m, m = [loc EXCEPT ![t] = l]
    PROVE  /\ m = [u \in Threads |-> m[u]]
           /\ \A u \in Threads : LocOK(m[u])
           /\ m[t] = l
    BY Zenon

LEMMA LocHandle ==
    ASSUME NEW l, LocOK(l), NEW x
    PROVE  /\ LocOK([l EXCEPT !.h = x])
           /\ [l EXCEPT !.h = x].h = x
           /\ [l EXCEPT !.h = x].obj = l.obj
<1>1. [l EXCEPT !.h = x] = [h |-> x, obj |-> l.obj, access |-> l.access]
    BY DEF LocOK
<1> DEFINE m == [h |-> x, obj |-> l.obj, access |-> l.access]
<1>2. m.h = x /\ m.obj = l.obj /\ m.access = l.access
    OBVIOUS
<1>3. LocOK(m)
    BY <1>2, Zenon DEF LocOK
<1> QED BY <1>1, <1>2, <1>3, Zenon

LEMMA LocNoCall == LocOK(NoCall)
    BY DEF LocOK, NoCall

(* A message at the end of a queue, and one taken from its front. *)
LEMMA OrderedAppend ==
    ASSUME NEW q \in Seq(Messages), NEW n \in Nat, NEW r \in Objects \cup {NoObject},
           Len(q) <= n, \A k \in 1..Len(q) : q[k].id < n,
           \A j, k \in 1..Len(q) : j < k => q[j].id < q[k].id,
           NEW p, p = Append(q, [id |-> n, reply |-> r])
    PROVE  /\ p \in Seq(Messages)
           /\ Len(p) <= n + 1
           /\ \A k \in 1..Len(p) : p[k].id < n + 1
           /\ \A j, k \in 1..Len(p) : j < k => p[j].id < p[k].id
<1> DEFINE e == [id |-> n, reply |-> r]
<1>1. e \in Messages /\ e.id = n
    BY DEF Messages
<1>2. p \in Seq(Messages) /\ Len(p) = Len(q) + 1 /\ Len(q) \in Nat
    BY <1>1
<1>3. \A k \in 1..Len(q) : p[k] = q[k] /\ q[k] \in Messages
    BY <1>1
<1>4. p[Len(q) + 1] = e
    BY <1>1
<1>5. \A k \in 1..Len(q) : p[k].id \in Nat /\ p[k].id < n
    BY <1>3 DEF Messages
<1>6. \A j, k \in 1..Len(q) : j < k => p[j].id < p[k].id
    BY <1>3, Zenon
<1>7. p[Len(q) + 1].id = n
    BY <1>1, <1>4, Zenon
<1> HIDE DEF e
<1>8. \A k \in 1..Len(p) : k \in 1..Len(q) \/ k = Len(q) + 1
    BY <1>2
<1>9. ASSUME NEW k \in 1..Len(p) PROVE p[k].id < n + 1
    BY <1>5, <1>7, <1>8
<1>10. ASSUME NEW j \in 1..Len(p), NEW k \in 1..Len(p), j < k PROVE p[j].id < p[k].id
    <2>1. \A i \in Nat : \A a, b \in 1..(i + 1) : a < b => a \in 1..i
        OBVIOUS
    <2>2. j \in 1..(Len(q) + 1) /\ k \in 1..(Len(q) + 1)
        BY Zenon, <1>2
    <2>3. j \in 1..Len(q)
        BY Zenon, <1>2, <1>10, <2>1, <2>2
    <2>4. CASE k \in 1..Len(q)
        BY Zenon, <1>6, <1>10, <2>3, <2>4
    <2>5. CASE k = Len(q) + 1
        <3>1. p[k].id = n /\ p[j].id < n
            BY Zenon, <1>5, <1>7, <2>3, <2>5
        <3> QED BY Zenon, <3>1
    <2> QED BY <1>8, <2>4, <2>5, Zenon
<1>11. Len(p) <= n + 1
    BY <1>2
<1> QED BY Zenon, <1>2, <1>9, <1>10, <1>11

LEMMA OrderedTail ==
    ASSUME NEW q \in Seq(Messages), q # <<>>, NEW n \in Nat,
           Len(q) <= n, \A k \in 1..Len(q) : q[k].id < n,
           \A j, k \in 1..Len(q) : j < k => q[j].id < q[k].id,
           NEW p, p = Tail(q)
    PROVE  /\ p \in Seq(Messages)
           /\ Len(p) <= n
           /\ \A k \in 1..Len(p) : p[k].id < n
           /\ \A j, k \in 1..Len(p) : j < k => p[j].id < p[k].id
<1>1. p \in Seq(Messages) /\ Len(p) = Len(q) - 1 /\ Len(q) \in Nat
    OBVIOUS
<1>2. ASSUME NEW k \in 1..Len(p) PROVE k + 1 \in 1..Len(q) /\ p[k] = q[k + 1]
    BY <1>1
<1>3. ASSUME NEW k \in 1..Len(p) PROVE p[k].id < n
    BY <1>2, Zenon
<1>4. ASSUME NEW j \in 1..Len(p), NEW k \in 1..Len(p), j < k PROVE p[j].id < p[k].id
    <2>1. j + 1 < k + 1
        BY <1>4, <1>1
    <2> QED BY <1>2, <2>1, Zenon
<1>5. Len(p) <= n
    BY <1>1
<1> QED BY <1>1, <1>3, <1>4, <1>5

LEMMA OrderInit == Init => OrderInv
<1> SUFFICES ASSUME Init PROVE OrderInv
    OBVIOUS
<1> USE DEF Init
<1>1. values \in [Handles -> Bindings]
    <2>1. Unbound \in Bindings
        BY DEF Unbound, Bindings
    <2> QED BY <2>1, Zenon
<1>2. pc \in [Threads -> Pcs]
    BY DEF Pcs
<1>3. loc = [t \in Threads |-> loc[t]] /\ \A t \in Threads : LocOK(loc[t])
    BY LocNoCall, Zenon
<1>4. queue \in [Objects -> Seq(Messages)]
    OBVIOUS
<1>5. sent \in 0..MaxSent
    BY PortsAssumption
<1>6. ASSUME NEW o \in Objects PROVE Ordered(queue[o])
    <2>1. queue[o] = <<>> /\ Len(<<>>) = 0 /\ sent = 0
        OBVIOUS
    <2> QED BY <2>1 DEF Ordered
<1> QED BY <1>1, <1>2, <1>3, <1>4, <1>5, <1>6, Zenon DEF OrderInv, ShapeInv

(* The steps that do not touch a queue. *)
LEMMA OrderSame ==
    ASSUME OrderInv, queue' = queue, sent' = sent,
           values' \in [Handles -> Bindings], pc' \in [Threads -> Pcs],
           loc' = [t \in Threads |-> loc'[t]], \A t \in Threads : LocOK(loc'[t])
    PROVE  OrderInv'
<1>1. ShapeInv'
    BY Zenon DEF OrderInv, ShapeInv
<1>2. ASSUME NEW o \in Objects PROVE Ordered(queue[o])'
    BY Zenon DEF OrderInv, Ordered
<1> QED BY <1>1, <1>2, Zenon DEF OrderInv

(* Every step keeps the messages of a port in order. *)
LEMMA OrderNext == OrderInv /\ [Next]_vars => OrderInv'
<1> SUFFICES ASSUME OrderInv, [Next]_vars PROVE OrderInv'
    OBVIOUS
<1>0. /\ values \in [Handles -> Bindings] /\ pc \in [Threads -> Pcs]
      /\ loc = [t \in Threads |-> loc[t]] /\ \A t \in Threads : LocOK(loc[t])
      /\ queue \in [Objects -> Seq(Messages)] /\ sent \in 0..MaxSent
      /\ \A o \in Objects : Ordered(queue[o])
    BY Zenon DEF OrderInv, ShapeInv
<1>3. sent \in Nat
    BY <1>0
<1>1. CASE UNCHANGED vars
    BY Zenon, <1>0, <1>1, OrderSame DEF vars, objVars
<1>2. CASE Next
    <2>1. PICK t \in Threads :
              \/ CreateObj(t) \/ DuplicateObj(t) \/ BitmapAlloc(t) \/ Bind(t) \/ Retain(t)
              \/ DestroyObj(t) \/ BitmapFree(t) \/ Release(t)
              \/ Refused(t) \/ MessageSend(t) \/ MessageReceive(t) \/ Received(t)
        BY Zenon, <1>2 DEF Next
    <2>2. ASSUME NEW l \in Pcs, Goto(t, l) PROVE pc' \in [Threads -> Pcs]
        BY <1>0, <2>2 DEF Goto
    <2>3. ASSUME NEW l, LocOK(l), loc' = [loc EXCEPT ![t] = l]
          PROVE  loc' = [u \in Threads |-> loc'[u]] /\ \A u \in Threads : LocOK(loc'[u])
        BY Zenon, <1>0, <2>3, LocSet
    <2>4. /\ "idle" \in Pcs /\ "bitmap_alloc" \in Pcs /\ "bind" \in Pcs /\ "retain" \in Pcs
          /\ "bitmap_free" \in Pcs /\ "release" \in Pcs /\ "received" \in Pcs
        BY Zenon DEF Pcs
    <2>5. \A h \in Handles : values[h].obj \in Objects \cup {NoObject}
                             /\ values[h].access \in SUBSET Rights
        BY <1>0 DEF Bindings
    <2>6. ASSUME NEW o \in Objects \cup {NoObject}, NEW a \in SUBSET Rights, NEW h
          PROVE  LocOK([h |-> h, obj |-> o, access |-> a])
        BY DEF LocOK
    <2>7. ASSUME NEW h PROVE LocOK([loc[t] EXCEPT !.h = h])
        BY Zenon, <1>0, LocHandle
    <2>8. CASE CreateObj(t)
        <3>1. PICK o \in Objects, a \in SUBSET Rights :
                  loc' = [loc EXCEPT ![t] = [h |-> 0, obj |-> o, access |-> a]]
            BY Zenon, <2>8 DEF CreateObj
        <3> QED BY Zenon, <1>0, <2>2, <2>3, <2>4, <2>6, <2>8, <3>1, OrderSame
                DEF CreateObj, tableVars
    <2>9. CASE DuplicateObj(t)
        <3>1. PICK h \in Handles, a \in SUBSET Rights :
                  loc' = [loc EXCEPT ![t] = [h |-> 0, obj |-> values[h].obj, access |-> a]]
            BY Zenon, <2>9 DEF DuplicateObj
        <3> QED BY Zenon, <1>0, <2>2, <2>3, <2>4, <2>5, <2>6, <2>9, <3>1, OrderSame
                DEF DuplicateObj
    <2>10. CASE BitmapAlloc(t)
        BY Zenon, <1>0, <2>2, <2>3, <2>4, <2>7, <2>10, OrderSame DEF BitmapAlloc, objVars
    <2>11. CASE Bind(t)
        <3>1. [obj |-> loc[t].obj, access |-> loc[t].access] \in Bindings
            BY <1>0 DEF LocOK, Bindings
        <3>2. values' \in [Handles -> Bindings]
            BY <1>0, <2>11, <3>1 DEF Bind
        <3> QED BY Zenon, <1>0, <2>2, <2>4, <2>11, <3>2, OrderSame DEF Bind, objVars
    <2>12. CASE Retain(t)
        BY Zenon, <1>0, <2>2, <2>3, <2>4, <2>12, LocNoCall, OrderSame DEF Retain, tableVars
    <2>13. CASE DestroyObj(t)
        <3>1. PICK h \in Handles : loc' = [loc EXCEPT ![t].h = h]
            BY Zenon, <2>13 DEF DestroyObj
        <3> QED BY Zenon, <1>0, <2>2, <2>3, <2>4, <2>7, <2>13, <3>1, OrderSame
                DEF DestroyObj, objVars
    <2>14. CASE BitmapFree(t)
        BY Zenon, <1>0, <2>2, <2>4, <2>14, OrderSame DEF BitmapFree, objVars
    <2>15. CASE Release(t)
        BY Zenon, <1>0, <2>2, <2>3, <2>4, <2>15, LocNoCall, OrderSame DEF Release, tableVars
    <2>16. CASE Refused(t)
        BY Zenon, <1>0, <2>16, OrderSame DEF Refused, objVars
    <2>17. CASE Received(t)
        BY Zenon, <1>0, <2>2, <2>3, <2>4, <2>17, LocNoCall, OrderSame
        DEF Received, tableVars, objVars
    <2>18. CASE MessageSend(t)
        <3>1. PICK d \in Handles, r \in Handles :
                  queue' = [queue EXCEPT ![values[d].obj] =
                               Append(@, [id |-> sent, reply |-> values[r].obj])]
            BY Zenon, <2>18 DEF MessageSend
        <3>2. sent \in Nat /\ sent' = sent + 1 /\ sent' \in 0..MaxSent
            BY <1>0, <2>18, PortsAssumption DEF MessageSend
        <3> DEFINE m(o) == Append(queue[o], [id |-> sent, reply |-> values[r].obj])
        <3>3. ASSUME NEW o \in Objects
              PROVE  /\ m(o) \in Seq(Messages)
                     /\ Len(m(o)) <= sent + 1
                     /\ \A k \in 1..Len(m(o)) : m(o)[k].id < sent + 1
                     /\ \A j, k \in 1..Len(m(o)) : j < k => m(o)[j].id < m(o)[k].id
            <4>1. queue[o] \in Seq(Messages)
                BY Zenon, <1>0
            <4>2. /\ Len(queue[o]) <= sent /\ \A k \in 1..Len(queue[o]) : queue[o][k].id < sent
                  /\ \A j, k \in 1..Len(queue[o]) : j < k => queue[o][j].id < queue[o][k].id
                BY Zenon, <1>0 DEF Ordered
            <4> HIDE DEF m
            <4>3. m(o) = Append(queue[o], [id |-> sent, reply |-> values[r].obj])
                BY Zenon DEF m
            <4> QED BY Zenon, <4>1, <4>2, <4>3, <3>2, <2>5, OrderedAppend
        <3>4. ASSUME NEW o \in Objects PROVE queue'[o] = queue[o] \/ queue'[o] = m(o)
            BY Zenon, <1>0, <3>1
        <3> HIDE DEF m
        <3>5. queue' \in [Objects -> Seq(Messages)]
            <4>1. queue' = [o \in Objects |-> queue'[o]]
                BY Zenon, <1>0, <3>1
            <4>2. \A o \in Objects : queue'[o] \in Seq(Messages)
                BY Zenon, <1>0, <3>3, <3>4
            <4> QED BY Zenon, <4>1, <4>2
        <3>6. ASSUME NEW o \in Objects PROVE Ordered(queue[o])'
            <4>1. CASE queue'[o] = queue[o]
                <5>1. /\ Len(queue[o]) <= sent
                      /\ \A k \in 1..Len(queue[o]) : queue[o][k].id < sent /\ queue[o][k].id \in Nat
                      /\ Len(queue[o]) \in Nat
                    <6>1. Len(queue[o]) <= sent /\ \A k \in 1..Len(queue[o]) : queue[o][k].id < sent
                        BY Zenon, <1>0 DEF Ordered
                    <6>2. queue[o] \in Seq(Messages)
                        BY Zenon, <1>0
                    <6>3. \A k \in 1..Len(queue[o]) : queue[o][k].id \in Nat
                        <7>1. \A q \in Seq(Messages) : \A k \in 1..Len(q) : q[k] \in Messages
                            OBVIOUS
                        <7>2. \A e \in Messages : e.id \in Nat
                            BY DEF Messages
                        <7> QED BY Zenon, <6>2, <7>1, <7>2
                    <6>4. Len(queue[o]) \in Nat
                        BY <6>2
                    <6> QED BY Zenon, <6>1, <6>3, <6>4
                <5>2. \A a \in Nat : (a <= sent => a <= sent + 1) /\ (a < sent => a < sent + 1)
                    BY <3>2
                <5>3. Len(queue[o]) <= sent + 1 /\ \A k \in 1..Len(queue[o]) : queue[o][k].id < sent + 1
                    BY Zenon, <5>1, <5>2
                <5> QED BY Zenon, <1>0, <3>2, <4>1, <5>3 DEF Ordered
            <4>2. CASE queue'[o] = m(o)
                BY Zenon, <3>2, <3>3, <4>2 DEF Ordered
            <4> QED BY Zenon, <3>4, <4>1, <4>2
        <3>7. ShapeInv'
            BY Zenon, <1>0, <2>18, <3>2, <3>5 DEF MessageSend, ShapeInv
        <3> QED BY Zenon, <3>6, <3>7 DEF OrderInv
    <2>19. CASE MessageReceive(t)
        <3>1. PICK h \in Handles :
                  /\ \/ queue' = queue
                     \/ /\ queue[values[h].obj] # <<>>
                        /\ queue' = [queue EXCEPT ![values[h].obj] = Tail(@)]
                  /\ loc' = [loc EXCEPT ![t].h = h]
            BY Zenon, <2>19 DEF MessageReceive
        <3>2. /\ values' = values /\ sent' = sent /\ pc' \in [Threads -> Pcs]
              /\ loc' = [u \in Threads |-> loc'[u]] /\ \A u \in Threads : LocOK(loc'[u])
            BY Zenon, <2>2, <2>3, <2>4, <2>7, <2>19, <3>1 DEF MessageReceive
        <3>3. CASE queue' = queue
            BY Zenon, <1>0, <3>2, <3>3, OrderSame
        <3>4. CASE queue' # queue
            <4> DEFINE x == values[h].obj
            <4> HIDE DEF x
            <4>1. queue[x] # <<>> /\ queue' = [queue EXCEPT ![x] = Tail(@)]
                BY Zenon, <3>1, <3>4 DEF x
            <4>2. ASSUME NEW o \in Objects, o # x PROVE queue'[o] = queue[o]
                BY Zenon, <1>0, <4>1, <4>2
            <4>3. ASSUME x \in Objects
                  PROVE  queue'[x] \in Seq(Messages) /\ Ordered(queue'[x])
                <5>1. queue[x] \in Seq(Messages) /\ sent \in Nat
                    BY Zenon, <1>0, <1>3, <4>3
                <5>2. queue'[x] = Tail(queue[x])
                    BY Zenon, <1>0, <4>1, <4>3
                <5> QED BY Zenon, <1>0, <4>1, <4>3, <5>1, <5>2, OrderedTail DEF Ordered
            <4>4. queue' = [o \in Objects |-> queue'[o]]
                BY Zenon, <1>0, <4>1
            <4>5. \A o \in Objects : queue'[o] \in Seq(Messages) /\ Ordered(queue'[o])
                BY Zenon, <1>0, <4>2, <4>3
            <4>6. queue' \in [Objects -> Seq(Messages)]
                BY Zenon, <4>4, <4>5
            <4>7. \A o \in Objects : Ordered(queue[o])'
                BY Zenon, <3>2, <4>5 DEF Ordered
            <4>8. ShapeInv'
                BY Zenon, <1>0, <3>2, <4>6 DEF ShapeInv
            <4> QED BY Zenon, <4>7, <4>8 DEF OrderInv
        <3> QED BY Zenon, <3>3, <3>4
    <2> QED BY Zenon, <2>1, <2>8, <2>9, <2>10, <2>11, <2>12, <2>13, <2>14, <2>15, <2>16,
               <2>17, <2>18, <2>19
<1> QED BY Zenon, <1>1, <1>2

(* The messages of a port are in the order in which message_send put them  *)
(* there, for any number of threads, objects and handles, and also for     *)
(* calls that name handles already destroyed.                              *)
THEOREM PortsInOrder == Spec => []QueuesInOrder
<1>1. OrderInv => QueuesInOrder
    BY Zenon DEF OrderInv, Ordered, QueuesInOrder
<1> QED BY <1>1, OrderInit, OrderNext, PTL DEF Spec

-----------------------------------------------------------------------------
(* The process has one thread. *)
OneThread == \E t : Threads = {t}

Making == {"bitmap_alloc", "bind", "retain"}
Dropping == {"bitmap_free", "release"}

(* The handles that have a reference, also the one t is dropping, and      *)
(* those that name o.                                                      *)
Owned(t) == held \cup (IF pc[t] \in Dropping THEN {loc[t].h} ELSE {})
Names(t, o) == {h \in Owned(t) : values[h].obj = o}

(* What t is in the middle of. *)
CallInv(t) ==
    /\ pc[t] = "bitmap_alloc" => Handles \ bitmap # {}
    /\ pc[t] \in Making => loc[t].obj \in allocated /\ refcount[loc[t].obj] <= MaxRefs
    /\ pc[t] \in {"bind", "retain"} => loc[t].h \in bitmap \ held
    /\ pc[t] = "retain" => values[loc[t].h].obj = loc[t].obj
    /\ pc[t] \in Dropping => /\ loc[t].h \in Handles \ held
                             /\ values[loc[t].h].obj # NoObject

(* References are counted, never below the handles that have them, and     *)
(* never up to where the count would wrap.                                 *)
RefInv ==
    /\ bitmap \subseteq Handles /\ held \subseteq bitmap
    /\ allocated \subseteq Objects /\ fault \in BOOLEAN
    /\ \A h \in held : values[h].obj # NoObject
    /\ refcount \in [Objects -> 0..(MaxRefs + 1)]
    /\ \A o \in Objects : o \notin allocated => refcount[o] = 0
    /\ \A t \in Threads :
          /\ CallInv(t)
          /\ \A o \in Objects : Cardinality(Names(t, o)) <= refcount[o]

-----------------------------------------------------------------------------
(* bitmap_alloc takes a bit that is clear. *)
LEMMA LeastIn ==
    ASSUME NEW S, S \subseteq Nat, S # {}
    PROVE  Least(S) \in S
<1>1. PICK x \in S : \A y \in S : ~(<<y, x>> \in OpToRel(<, Nat))
    BY NatLessThanWellFounded, WFMin, Zenon
<1>2. ASSUME NEW y \in S PROVE x <= y
    <2>1. x \in Nat /\ y \in Nat
        OBVIOUS
    <2>2. ~(y < x)
        BY ZenonT(30), <1>1, <2>1 DEF OpToRel
    <2> QED BY <2>1, <2>2
<1> QED BY <1>2, Zenon DEF Least

(* A count below its modulus does not wrap. *)
LEMMA NoWrap ==
    ASSUME NEW n \in 0..(MaxRefs + 1)
    PROVE  n % RefModulus = n
<1>1. RefModulus \in Nat \ {0} /\ n \in 0..(RefModulus - 1)
    BY PortsAssumption
<1>2. ASSUME NEW m \in Nat \ {0}, NEW x \in 0..(m - 1) PROVE x % m = x
    OBVIOUS
<1> QED BY Zenon, <1>1, <1>2

LEMMA HandlesFinite == Handles \subseteq Nat /\ IsFiniteSet(Handles) /\ Cardinality(Handles) = NHandles
<1>1. NHandles \in Nat /\ 0 \in Int /\ NHandles - 1 \in Int
    BY PortsAssumption
<1>2. /\ IsFiniteSet(0..(NHandles - 1))
      /\ Cardinality(0..(NHandles - 1)) = IF 0 > NHandles - 1 THEN 0 ELSE NHandles - 1 - 0 + 1
    BY Zenon, <1>1, FS_Interval
<1>3. (IF 0 > NHandles - 1 THEN 0 ELSE NHandles - 1 - 0 + 1) = NHandles
    BY <1>1
<1>4. 0..(NHandles - 1) \subseteq Nat
    BY <1>1
<1>5. Cardinality(0..(NHandles - 1)) = NHandles
    BY <1>2, <1>3
<1> QED BY <1>2, <1>4, <1>5 DEF Handles

(* With room for one more handle, some bit is clear. *)
LEMMA RoomLeaves ==
    ASSUME NEW t, Threads = {t}, Room, bitmap \subseteq Handles
    PROVE  Handles \ bitmap # {}
<1> SUFFICES ASSUME Handles \ bitmap = {} PROVE FALSE
    OBVIOUS
<1>1. bitmap = Handles
    BY Zenon
<1> DEFINE A == {u \in Threads : pc[u] = "bitmap_alloc"}
<1>2. IsFiniteSet(Threads)
    BY Zenon, FS_Singleton
<1>3. Cardinality(A) \in Nat
    BY Zenon, <1>2, FS_Subset, FS_CardinalityType
<1>4. Cardinality(bitmap) + Cardinality(A) < NHandles
    BY Zenon DEF Room
<1>5. Cardinality(bitmap) = NHandles
    BY Zenon, <1>1, HandlesFinite
<1> HIDE DEF A
<1> QED BY <1>3, <1>4, <1>5, PortsAssumption

(* What an object's handles depend on. *)
LEMMA NamesSame ==
    ASSUME NEW t, NEW o, Owned(t)' = Owned(t),
           \A h \in Owned(t) : values'[h].obj = values[h].obj
    PROVE  Names(t, o)' = Names(t, o)
    BY Zenon DEF Names

LEMMA NamesFinite ==
    ASSUME NEW t, NEW o, Owned(t) \subseteq Handles
    PROVE  IsFiniteSet(Names(t, o)) /\ Cardinality(Names(t, o)) \in Nat
<1>1. Names(t, o) \in SUBSET Handles
    BY Zenon DEF Names
<1> QED BY Zenon, <1>1, HandlesFinite, FS_Subset, FS_CardinalityType

LEMMA RefInit == Init => RefInv
<1> SUFFICES ASSUME Init PROVE RefInv
    OBVIOUS
<1> USE DEF Init
<1>1. refcount \in [Objects -> 0..(MaxRefs + 1)]
    BY PortsAssumption
<1>2. ASSUME NEW t \in Threads, NEW o \in Objects PROVE Cardinality(Names(t, o)) <= refcount[o]
    <2>1. Names(t, o) = {}
        BY DEF Names, Owned, Dropping
    <2>2. Cardinality({}) = 0 /\ refcount[o] = 0 /\ 0 <= 0
        BY FS_EmptySet
    <2> QED BY <2>1, <2>2, Zenon
<1>3. ASSUME NEW t \in Threads PROVE CallInv(t)
    BY DEF CallInv, Making, Dropping
<1> QED BY Zenon, <1>1, <1>2, <1>3 DEF RefInv

(* An object that a handle has a reference to is counted, and was not      *)
(* freed.                                                                  *)
LEMMA NamedAlive ==
    ASSUME RefInv, NEW t \in Threads, Owned(t) \subseteq Handles,
           NEW o \in Objects, NEW h \in Owned(t), values[h].obj = o
    PROVE  refcount[o] \in Nat /\ refcount[o] >= 1 /\ o \in allocated
<1>1. IsFiniteSet(Names(t, o)) /\ Cardinality(Names(t, o)) \in Nat
    BY Zenon, NamesFinite
<1>2. Names(t, o) # {}
    BY Zenon DEF Names
<1>3. Cardinality(Names(t, o)) # 0
    BY Zenon, <1>1, <1>2, FS_EmptySet
<1>4. Cardinality(Names(t, o)) <= refcount[o]
    BY Zenon DEF RefInv
<1>5. refcount[o] \in 0..(MaxRefs + 1)
    BY Zenon DEF RefInv
<1>6. refcount[o] \in Nat /\ refcount[o] >= 1
    BY <1>1, <1>3, <1>4, <1>5
<1>7. refcount[o] # 0
    BY <1>6
<1> QED BY Zenon, <1>6, <1>7 DEF RefInv

LEMMA OwnedHandles ==
    ASSUME RefInv, NEW t \in Threads
    PROVE  Owned(t) \subseteq Handles
<1>1. held \subseteq Handles
    BY Zenon DEF RefInv
<1>2. pc[t] \in Dropping => loc[t].h \in Handles
    BY Zenon DEF RefInv, CallInv
<1> QED BY Zenon, <1>1, <1>2 DEF Owned

(* The steps that keep the references: what is left to show of them is     *)
(* where they leave the call.                                              *)
LEMMA RefSame ==
    ASSUME RefInv, NEW t, Threads = {t}, allocated' = allocated, refcount' = refcount,
           bitmap' \subseteq Handles, held' \subseteq bitmap', fault' \in BOOLEAN,
           \A h \in held' : values'[h].obj # NoObject,
           Owned(t)' = Owned(t), \A h \in Owned(t) : values'[h].obj = values[h].obj,
           CallInv(t)'
    PROVE  RefInv'
<1>1. \A o \in Objects : Names(t, o)' = Names(t, o)
    BY Zenon, NamesSame
<1>2. \A o \in Objects : Cardinality(Names(t, o)') <= refcount'[o]
    BY Zenon, <1>1 DEF RefInv
<1> QED BY Zenon, <1>2 DEF RefInv

(* Every step keeps the count of references, for a process of one thread   *)
(* that names handles it has.                                              *)
LEMMA RefNext ==
    ASSUME NEW t, Threads = {t}, ~StaleHandles, OrderInv, RefInv, [Next]_vars
    PROVE  RefInv'
<1>0. /\ t \in Threads
      /\ values \in [Handles -> Bindings] /\ pc \in [Threads -> Pcs]
      /\ loc = [u \in Threads |-> loc[u]] /\ LocOK(loc[t])
    BY Zenon DEF OrderInv, ShapeInv
<1>1. /\ bitmap \subseteq Handles /\ held \subseteq bitmap
      /\ allocated \subseteq Objects /\ fault \in BOOLEAN
      /\ \A h \in held : values[h].obj # NoObject
      /\ refcount \in [Objects -> 0..(MaxRefs + 1)]
      /\ \A o \in Objects : o \notin allocated => refcount[o] = 0
      /\ CallInv(t)
      /\ \A o \in Objects : Cardinality(Names(t, o)) <= refcount[o]
    BY Zenon, <1>0 DEF RefInv
<1>2. CASE UNCHANGED vars
    <2>1. CallInv(t)' /\ Owned(t)' = Owned(t)
        BY Zenon, <1>1, <1>2 DEF vars, objVars, CallInv, Owned
    <2> QED BY Zenon, <1>1, <1>2, <2>1, RefSame DEF vars, objVars
<1>3. CASE Next
    <2>1. \/ CreateObj(t) \/ DuplicateObj(t) \/ BitmapAlloc(t) \/ Bind(t) \/ Retain(t)
          \/ DestroyObj(t) \/ BitmapFree(t) \/ Release(t)
          \/ Refused(t) \/ MessageSend(t) \/ MessageReceive(t) \/ Received(t)
        BY Zenon, <1>3 DEF Next
    <2>2. ASSUME NEW l, Goto(t, l) PROVE pc'[t] = l
        BY Zenon, <1>0, <2>2 DEF Goto
    <2>3. ASSUME NEW l, loc' = [loc EXCEPT ![t] = l] PROVE loc'[t] = l
        BY Zenon, <1>0, <2>3
    <2>4. ASSUME NEW h PROVE /\ [loc[t] EXCEPT !.h = h].h = h
                             /\ [loc[t] EXCEPT !.h = h].obj = loc[t].obj
        BY Zenon, <1>0, LocHandle
    <2>5. ASSUME NEW h \in held
          PROVE  /\ h \in Handles /\ h \in bitmap /\ h \in Owned(t)
                 /\ values[h].obj \in Objects
                 /\ refcount[values[h].obj] \in Nat /\ refcount[values[h].obj] >= 1
                 /\ values[h].obj \in allocated
        <3>1. h \in Handles /\ h \in bitmap /\ h \in Owned(t)
            BY Zenon, <1>1 DEF Owned
        <3>2. values[h].obj \in Objects
            <4>1. values[h].obj \in Objects \cup {NoObject}
                BY <1>0, <3>1 DEF Bindings
            <4> QED BY Zenon, <1>1, <4>1
        <3> QED BY Zenon, <1>0, <3>1, <3>2, OwnedHandles, NamedAlive
    <2>6. ASSUME NEW h, Named(h) PROVE h \in held
        BY Zenon, <2>6 DEF Named
    <2>7. ASSUME NEW h \in held, Lookup({h}) PROVE bitmap' = bitmap
        BY Zenon, <1>1, <2>7 DEF Lookup
    <2>8. ASSUME pc[t] \notin Dropping, pc'[t] \notin Dropping, held' = held
          PROVE  Owned(t) = held /\ Owned(t)' = Owned(t)
        BY Zenon, <2>8 DEF Owned
    <2>9. /\ "idle" \notin Dropping /\ "bitmap_alloc" \notin Dropping /\ "bind" \notin Dropping
          /\ "retain" \notin Dropping /\ "received" \notin Dropping
          /\ "bitmap_free" \in Dropping /\ "release" \in Dropping
        BY DEF Dropping
    <2>10. /\ "idle" \notin Making /\ "bitmap_free" \notin Making /\ "release" \notin Making
           /\ "received" \notin Making
           /\ "bitmap_alloc" \in Making /\ "bind" \in Making /\ "retain" \in Making
        BY DEF Making
    <2>11. ASSUME pc'[t] \in {"idle", "received"} PROVE CallInv(t)'
        BY <2>11 DEF CallInv, Making, Dropping
    <2>12. CASE Refused(t)
        <3>1. pc[t] = "idle" /\ pc' = pc /\ bitmap' = bitmap
            BY Zenon, <2>6, <2>7, <2>12 DEF Refused
        <3>2. CallInv(t)' /\ Owned(t)' = Owned(t)
            BY Zenon, <2>8, <2>9, <2>11, <2>12, <3>1 DEF Refused
        <3> QED BY Zenon, <1>1, <2>12, <3>1, <3>2, RefSame DEF Refused, objVars
    <2>13. CASE MessageSend(t)
        <3>1. pc[t] = "idle" /\ pc' = pc
            BY Zenon, <2>13 DEF MessageSend
        <3>2. bitmap' = bitmap
            <4>1. PICK d \in Handles, r \in Handles : Named(d) /\ Named(r) /\ Lookup({d, r})
                BY Zenon, <2>13 DEF MessageSend
            <4> QED BY Zenon, <1>1, <2>6, <4>1 DEF Lookup
        <3>3. CallInv(t)' /\ Owned(t)' = Owned(t)
            BY Zenon, <2>8, <2>9, <2>11, <2>13, <3>1 DEF MessageSend
        <3> QED BY Zenon, <1>1, <2>13, <3>2, <3>3, RefSame DEF MessageSend
    <2>14. CASE MessageReceive(t)
        <3>1. pc[t] = "idle" /\ pc'[t] = "received"
            BY Zenon, <2>2, <2>14 DEF MessageReceive
        <3>2. bitmap' = bitmap /\ fault' \in BOOLEAN
            BY Zenon, <1>1, <2>6, <2>7, <2>14 DEF MessageReceive
        <3>3. CallInv(t)' /\ Owned(t)' = Owned(t)
            BY Zenon, <2>8, <2>9, <2>11, <2>14, <3>1 DEF MessageReceive
        <3> QED BY Zenon, <1>1, <2>14, <3>2, <3>3, RefSame DEF MessageReceive
    <2>15. CASE Received(t)
        <3>1. pc[t] = "received" /\ pc'[t] = "idle"
            BY Zenon, <2>2, <2>15 DEF Received
        <3>2. CallInv(t)' /\ Owned(t)' = Owned(t)
            BY Zenon, <2>8, <2>9, <2>11, <2>15, <3>1 DEF Received
        <3> QED BY Zenon, <1>1, <2>15, <3>2, RefSame DEF Received, tableVars, objVars
    <2>16. CASE BitmapAlloc(t)
        <3> DEFINE h == Least(Handles \ bitmap)
        <3>1. pc[t] = "bitmap_alloc" /\ pc'[t] = "bind"
            BY Zenon, <2>2, <2>16 DEF BitmapAlloc
        <3>2. h \in Handles \ bitmap
            BY Zenon, <1>1, <3>1, LeastIn, HandlesFinite DEF CallInv
        <3>3. loc'[t].h = h /\ loc'[t].obj = loc[t].obj
            BY Zenon, <2>3, <2>4, <2>16 DEF BitmapAlloc
        <3>4. bitmap' = bitmap \cup {h} /\ held' = held /\ allocated' = allocated
              /\ refcount' = refcount /\ values' = values /\ fault' = fault
            BY Zenon, <2>16 DEF BitmapAlloc, objVars
        <3> HIDE DEF h
        <3>5. loc[t].obj \in allocated /\ refcount[loc[t].obj] <= MaxRefs
            BY Zenon, <1>1, <2>10, <3>1 DEF CallInv
        <3>6. CallInv(t)'
            <4>1. "bind" # "bitmap_alloc" /\ "bind" # "retain"
                OBVIOUS
            <4>2. h \in bitmap' \ held'
                BY Zenon, <1>1, <3>2, <3>4
            <4> QED BY Zenon, <2>9, <3>1, <3>3, <3>4, <3>5, <4>1, <4>2 DEF CallInv
        <3>7. Owned(t)' = Owned(t)
            BY Zenon, <2>8, <2>9, <3>1, <3>4
        <3>8. bitmap' \subseteq Handles /\ held' \subseteq bitmap'
            BY Zenon, <1>1, <3>2, <3>4
        <3> QED BY Zenon, <1>1, <3>4, <3>6, <3>7, <3>8, RefSame
    <2>17. CASE Bind(t)
        <3> DEFINE h == loc[t].h
        <3>1. pc[t] = "bind" /\ pc'[t] = "retain" /\ loc' = loc
            BY Zenon, <2>2, <2>17 DEF Bind
        <3>2. h \in bitmap \ held /\ h \in Handles
            BY Zenon, <1>1, <3>1 DEF CallInv
        <3>3. /\ values' = [values EXCEPT ![h] = [obj |-> loc[t].obj, access |-> loc[t].access]]
              /\ bitmap' = bitmap /\ held' = held /\ allocated' = allocated
              /\ refcount' = refcount /\ fault' = fault
            BY Zenon, <2>17 DEF Bind, objVars
        <3> HIDE DEF h
        <3>4. values'[h].obj = loc[t].obj
            <4>1. values'[h] = [obj |-> loc[t].obj, access |-> loc[t].access]
                BY Zenon, <1>0, <3>2, <3>3
            <4> QED BY <4>1
        <3>5. \A g \in held : values'[g] = values[g]
            BY Zenon, <1>0, <1>1, <3>2, <3>3
        <3>6. Owned(t) = held /\ Owned(t)' = Owned(t)
            BY Zenon, <2>8, <2>9, <3>1, <3>3
        <3>7. loc[t].obj \in allocated /\ refcount[loc[t].obj] <= MaxRefs
            BY Zenon, <1>1, <2>10, <3>1 DEF CallInv
        <3>8. CallInv(t)'
            <4>1. "retain" # "bitmap_alloc"
                OBVIOUS
            <4> QED BY Zenon, <2>9, <3>1, <3>2, <3>3, <3>4, <3>7, <4>1 DEF CallInv, h
        <3> QED BY Zenon, <1>1, <3>3, <3>5, <3>6, <3>8, RefSame
    <2>18. CASE DestroyObj(t)
        <3>1. pc[t] = "idle" /\ pc'[t] = "bitmap_free"
            BY Zenon, <2>2, <2>18 DEF DestroyObj
        <3>2. PICK h \in Handles : /\ Named(h) /\ Lookup({h})
                                   /\ loc' = [loc EXCEPT ![t].h = h]
                                   /\ held' = held \ {h}
            BY Zenon, <2>18 DEF DestroyObj
        <3>3. h \in held /\ bitmap' = bitmap /\ loc'[t].h = h
            BY Zenon, <2>3, <2>4, <2>6, <2>7, <3>2
        <3>4. values' = values /\ allocated' = allocated /\ refcount' = refcount /\ fault' = fault
            BY Zenon, <2>18 DEF DestroyObj, objVars
        <3>5. Owned(t) = held /\ Owned(t)' = held
            BY Zenon, <2>9, <3>1, <3>2, <3>3 DEF Owned
        <3>6. CallInv(t)'
            <4>1. "bitmap_free" # "bitmap_alloc" /\ "bitmap_free" \notin {"bind", "retain"}
                  /\ "bitmap_free" # "retain"
                OBVIOUS
            <4>2. loc'[t].h \in Handles \ held' /\ values'[loc'[t].h].obj # NoObject
                <5>1. h \in Handles \ held' /\ values'[h].obj # NoObject
                    BY Zenon, <1>1, <3>2, <3>3, <3>4
                <5> QED BY Zenon, <3>3, <5>1
            <4> QED BY Zenon, <2>10, <3>1, <4>1, <4>2 DEF CallInv
        <3> QED BY Zenon, <1>1, <3>2, <3>3, <3>4, <3>5, <3>6, RefSame
    <2>19. CASE BitmapFree(t)
        <3>1. pc[t] = "bitmap_free" /\ pc'[t] = "release" /\ loc' = loc
            BY Zenon, <2>2, <2>19 DEF BitmapFree
        <3>2. /\ bitmap' = bitmap \ {loc[t].h} /\ held' = held /\ values' = values
              /\ allocated' = allocated /\ refcount' = refcount /\ fault' = fault
            BY Zenon, <2>19 DEF BitmapFree, objVars
        <3>3. loc[t].h \in Handles \ held /\ values[loc[t].h].obj # NoObject
            BY Zenon, <1>1, <2>9, <3>1 DEF CallInv
        <3>4. Owned(t)' = Owned(t)
            BY Zenon, <2>9, <3>1, <3>2 DEF Owned
        <3>5. CallInv(t)'
            <4>1. "release" # "bitmap_alloc" /\ "release" \notin {"bind", "retain"}
                  /\ "release" # "retain"
                OBVIOUS
            <4> QED BY Zenon, <2>10, <3>1, <3>2, <3>3, <4>1 DEF CallInv
        <3> QED BY Zenon, <1>1, <3>2, <3>3, <3>4, <3>5, RefSame
    <2>20. CASE CreateObj(t)
        <3>1. pc[t] = "idle" /\ pc'[t] = "bitmap_alloc" /\ Room
            BY Zenon, <2>2, <2>20 DEF CreateObj
        <3>2. PICK o \in Objects \ allocated, a \in SUBSET Rights :
                  /\ allocated' = allocated \cup {o}
                  /\ loc' = [loc EXCEPT ![t] = [h |-> 0, obj |-> o, access |-> a]]
            BY Zenon, <2>20 DEF CreateObj
        <3>3. loc'[t].obj = o
            <4>1. loc'[t] = [h |-> 0, obj |-> o, access |-> a]
                BY Zenon, <2>3, <3>2
            <4> QED BY <4>1
        <3>4. /\ bitmap' = bitmap /\ held' = held /\ values' = values
              /\ refcount' = refcount /\ fault' = fault
            BY Zenon, <2>20 DEF CreateObj, tableVars
        <3>5. refcount[o] <= MaxRefs
            <4>1. refcount[o] = 0
                BY Zenon, <1>1, <3>2
            <4> QED BY <4>1, PortsAssumption
        <3>6. CallInv(t)'
            <4>1. "bitmap_alloc" \notin {"bind", "retain"} /\ "bitmap_alloc" # "retain"
                OBVIOUS
            <4>2. Handles \ bitmap # {}
                BY Zenon, <1>1, <3>1, RoomLeaves
            <4>3. o \in allocated'
                BY Zenon, <3>2
            <4>4. loc'[t].obj \in allocated' /\ refcount'[loc'[t].obj] <= MaxRefs
                BY Zenon, <3>3, <3>4, <3>5, <4>3
            <4> QED BY Zenon, <2>9, <3>1, <3>4, <4>1, <4>2, <4>4 DEF CallInv
        <3>7. Owned(t)' = Owned(t)
            BY Zenon, <2>8, <2>9, <3>1, <3>4
        <3>8. \A p \in Objects : Cardinality(Names(t, p)') <= refcount'[p]
            BY Zenon, <1>1, <3>4, <3>7, NamesSame
        <3> QED BY Zenon, <1>1, <3>2, <3>4, <3>6, <3>8 DEF RefInv
    <2>21. CASE DuplicateObj(t)
        <3>1. pc[t] = "idle" /\ pc'[t] = "bitmap_alloc" /\ Room
            BY Zenon, <2>2, <2>21 DEF DuplicateObj
        <3>2. PICK h \in Handles, a \in SUBSET Rights :
                  /\ Named(h) /\ Lookup({h}) /\ refcount[values[h].obj] < MaxRefs
                  /\ refcount' = [refcount EXCEPT ![values[h].obj] = (@ + 1) % RefModulus]
                  /\ loc' = [loc EXCEPT ![t] = [h |-> 0, obj |-> values[h].obj, access |-> a]]
            BY Zenon, <2>21 DEF DuplicateObj
        <3> DEFINE o == values[h].obj
        <3>3. /\ bitmap' = bitmap /\ o \in Objects /\ o \in allocated
              /\ refcount[o] \in Nat /\ refcount[o] < MaxRefs
            BY Zenon, <2>5, <2>6, <2>7, <3>2
        <3>4. loc'[t].obj = o
            <4>1. loc'[t] = [h |-> 0, obj |-> o, access |-> a]
                BY Zenon, <2>3, <3>2
            <4> QED BY <4>1
        <3>5. refcount' = [refcount EXCEPT ![o] = (@ + 1) % RefModulus]
            BY Zenon, <3>2
        <3>6. held' = held /\ values' = values /\ allocated' = allocated /\ fault' = fault
            BY Zenon, <2>21 DEF DuplicateObj
        <3> HIDE DEF o
        <3>7. /\ refcount[o] + 1 \in 0..(MaxRefs + 1) /\ refcount[o] + 1 <= MaxRefs
              /\ refcount[o] <= refcount[o] + 1
            BY <3>3, PortsAssumption
        <3>8. /\ refcount'[o] = refcount[o] + 1
              /\ \A p \in Objects : p # o => refcount'[p] = refcount[p]
              /\ refcount' \in [Objects -> 0..(MaxRefs + 1)]
            <4>1. (refcount[o] + 1) % RefModulus = refcount[o] + 1
                BY Zenon, <3>7, NoWrap
            <4>2. refcount' = [refcount EXCEPT ![o] = refcount[o] + 1]
                BY Zenon, <3>5, <4>1
            <4> QED BY Zenon, <1>1, <3>3, <3>7, <4>2
        <3>9. CallInv(t)'
            <4>1. "bitmap_alloc" \notin {"bind", "retain"} /\ "bitmap_alloc" # "retain"
                OBVIOUS
            <4>2. Handles \ bitmap # {}
                BY Zenon, <1>1, <3>1, RoomLeaves
            <4> QED BY Zenon, <2>9, <3>1, <3>3, <3>4, <3>6, <3>7, <3>8, <4>1, <4>2 DEF CallInv
        <3>10. \A p \in Objects : Names(t, p)' = Names(t, p)
            BY Zenon, <2>8, <2>9, <3>1, <3>6, NamesSame
        <3>11. ASSUME NEW p \in Objects PROVE Cardinality(Names(t, p)') <= refcount'[p]
            <4>1. CASE p # o
                BY Zenon, <1>1, <3>8, <3>10, <4>1
            <4>2. CASE p = o
                <5>1. Cardinality(Names(t, o)) <= refcount[o] /\ Cardinality(Names(t, o)) \in Nat
                    BY Zenon, <1>0, <1>1, <3>3, OwnedHandles, NamesFinite
                <5>2. Cardinality(Names(t, o)) <= refcount[o] + 1
                    BY <3>3, <5>1
                <5> QED BY Zenon, <3>8, <3>10, <4>2, <5>2
            <4> QED BY Zenon, <4>1, <4>2
        <3>12. \A p \in Objects : p \notin allocated' => refcount'[p] = 0
            BY Zenon, <1>1, <3>3, <3>6, <3>8
        <3> QED BY Zenon, <1>1, <3>3, <3>6, <3>8, <3>9, <3>11, <3>12 DEF RefInv
    <2>22. CASE Retain(t)
        <3> DEFINE h == loc[t].h
                   o == loc[t].obj
        <3>1. pc[t] = "retain" /\ pc'[t] = "idle"
            BY Zenon, <2>2, <2>22 DEF Retain
        <3>2. /\ h \in bitmap \ held /\ values[h].obj = o
              /\ o \in allocated /\ refcount[o] <= MaxRefs
            BY Zenon, <1>1, <2>10, <3>1 DEF CallInv
        <3>3. /\ refcount' = [refcount EXCEPT ![o] = (@ + 1) % RefModulus]
              /\ held' = held \cup {h} /\ bitmap' = bitmap /\ values' = values
              /\ allocated' = allocated /\ fault' = fault
            BY Zenon, <2>22 DEF Retain, tableVars
        <3> HIDE DEF h, o
        <3>4. o \in Objects /\ o # NoObject /\ refcount[o] \in Nat
            <4>1. o \in Objects /\ refcount[o] \in 0..(MaxRefs + 1)
                BY Zenon, <1>1, <3>2
            <4> QED BY <4>1, PortsAssumption
        <3>5. refcount[o] + 1 \in 0..(MaxRefs + 1)
            BY <3>2, <3>4, PortsAssumption
        <3>6. /\ refcount'[o] = refcount[o] + 1
              /\ \A p \in Objects : p # o => refcount'[p] = refcount[p]
              /\ refcount' \in [Objects -> 0..(MaxRefs + 1)]
            <4>1. (refcount[o] + 1) % RefModulus = refcount[o] + 1
                BY Zenon, <3>5, NoWrap
            <4>2. refcount' = [refcount EXCEPT ![o] = refcount[o] + 1]
                BY Zenon, <3>3, <4>1
            <4> QED BY Zenon, <1>1, <3>4, <3>5, <4>2
        <3>7. Owned(t) = held /\ Owned(t)' = held \cup {h}
            BY Zenon, <2>9, <3>1, <3>3 DEF Owned
        <3>8. ASSUME NEW p \in Objects PROVE Cardinality(Names(t, p)') <= refcount'[p]
            <4>1. CASE p # o
                <5>1. Names(t, p)' = Names(t, p)
                    BY Zenon, <3>2, <3>3, <3>7, <4>1 DEF Names
                <5> QED BY Zenon, <1>1, <3>6, <4>1, <5>1
            <4>2. CASE p = o
                <5>1. Names(t, p)' = Names(t, o) \cup {h}
                    BY Zenon, <3>2, <3>3, <3>7, <4>2 DEF Names
                <5>2. h \notin Names(t, o)
                    BY Zenon, <3>2, <3>7 DEF Names
                <5>3. /\ Cardinality(Names(t, o)) <= refcount[o] /\ Cardinality(Names(t, o)) \in Nat
                      /\ IsFiniteSet(Names(t, o))
                    BY Zenon, <1>0, <1>1, <3>4, OwnedHandles, NamesFinite
                <5>4. Cardinality(Names(t, o) \cup {h}) = Cardinality(Names(t, o)) + 1
                    BY Zenon, <5>2, <5>3, FS_AddElement
                <5>5. Cardinality(Names(t, o)) + 1 <= refcount[o] + 1
                    BY <3>4, <5>3
                <5> QED BY Zenon, <3>6, <4>2, <5>1, <5>4, <5>5
            <4> QED BY Zenon, <4>1, <4>2
        <3>9. /\ \A g \in held' : values'[g].obj # NoObject
              /\ \A p \in Objects : p \notin allocated' => refcount'[p] = 0
              /\ held' \subseteq bitmap' /\ CallInv(t)'
            BY Zenon, <1>1, <2>11, <3>1, <3>2, <3>3, <3>4, <3>6
        <3> QED BY Zenon, <1>1, <3>3, <3>6, <3>8, <3>9 DEF RefInv
    <2>23. CASE Release(t)
        <3> DEFINE h == loc[t].h
                   o == values[loc[t].h].obj
        <3>1. pc[t] = "release" /\ pc'[t] = "idle"
            BY Zenon, <2>2, <2>23 DEF Release
        <3>2. h \in Handles \ held /\ o # NoObject
            BY Zenon, <1>1, <2>9, <3>1 DEF CallInv
        <3>3. o \in Objects
            <4>1. o \in Objects \cup {NoObject}
                BY <1>0, <3>2 DEF Bindings
            <4> QED BY Zenon, <3>2, <4>1
        <3>4. /\ refcount' = [refcount EXCEPT ![o] = (@ - 1) % RefModulus]
              /\ allocated' = IF refcount[o] = 1 THEN allocated \ {o} ELSE allocated
              /\ held' = held /\ bitmap' = bitmap /\ values' = values /\ fault' = FALSE
            BY Zenon, <2>23, <3>2 DEF Release, tableVars
        <3>5. h \in Owned(t) /\ values[h].obj = o
            BY Zenon, <2>9, <3>1 DEF Owned
        <3> HIDE DEF h, o
        <3>6. refcount[o] \in Nat /\ refcount[o] >= 1 /\ o \in allocated
            BY Zenon, <1>0, <3>3, <3>5, OwnedHandles, NamedAlive
        <3>7. refcount[o] - 1 \in 0..(MaxRefs + 1) /\ (refcount[o] # 1 => refcount[o] - 1 # 0)
            <4>1. refcount[o] \in 0..(MaxRefs + 1)
                BY Zenon, <1>1, <3>3
            <4> QED BY <3>6, <4>1, PortsAssumption
        <3>8. /\ refcount'[o] = refcount[o] - 1
              /\ \A p \in Objects : p # o => refcount'[p] = refcount[p]
              /\ refcount' \in [Objects -> 0..(MaxRefs + 1)]
            <4>1. (refcount[o] - 1) % RefModulus = refcount[o] - 1
                BY Zenon, <3>7, NoWrap
            <4>2. refcount' = [refcount EXCEPT ![o] = refcount[o] - 1]
                BY Zenon, <3>4, <4>1
            <4> QED BY Zenon, <1>1, <3>3, <3>7, <4>2
        <3>9. Owned(t) = held \cup {h} /\ Owned(t)' = held
            BY Zenon, <2>9, <3>1, <3>4 DEF Owned, h
        <3>10. ASSUME NEW p \in Objects PROVE Cardinality(Names(t, p)') <= refcount'[p]
            <4>1. CASE p # o
                <5>1. Names(t, p)' = Names(t, p)
                    BY Zenon, <3>4, <3>5, <3>9, <4>1 DEF Names
                <5> QED BY Zenon, <1>1, <3>8, <4>1, <5>1
            <4>2. CASE p = o
                <5>1. Names(t, p)' = Names(t, o) \ {h}
                    BY Zenon, <3>2, <3>4, <3>9, <4>2 DEF Names
                <5>2. h \in Names(t, o)
                    BY Zenon, <3>5 DEF Names
                <5>3. /\ Cardinality(Names(t, o)) <= refcount[o] /\ Cardinality(Names(t, o)) \in Nat
                      /\ IsFiniteSet(Names(t, o))
                    BY Zenon, <1>0, <1>1, <3>3, OwnedHandles, NamesFinite
                <5>4. Cardinality(Names(t, o) \ {h}) = Cardinality(Names(t, o)) - 1
                    BY Zenon, <5>2, <5>3, FS_RemoveElement
                <5>5. Cardinality(Names(t, o)) - 1 <= refcount[o] - 1
                    BY <3>6, <5>3
                <5> QED BY Zenon, <3>8, <4>2, <5>1, <5>4, <5>5
            <4> QED BY Zenon, <4>1, <4>2
        <3>11. ASSUME NEW p \in Objects, p \notin allocated' PROVE refcount'[p] = 0
            <4>1. CASE p # o
                BY Zenon, <1>1, <3>4, <3>8, <3>11, <4>1
            <4>2. CASE p = o
                <5>1. refcount[o] = 1
                    BY Zenon, <3>4, <3>6, <3>11, <4>2
                <5>2. refcount[o] - 1 = 0
                    BY <5>1
                <5> QED BY Zenon, <3>8, <4>2, <5>2
            <4> QED BY Zenon, <4>1, <4>2
        <3>12. allocated' \subseteq Objects /\ CallInv(t)'
            BY Zenon, <1>1, <2>11, <3>1, <3>4
        <3> QED BY Zenon, <1>1, <3>4, <3>8, <3>10, <3>11, <3>12 DEF RefInv
    <2> QED BY Zenon, <2>1, <2>12, <2>13, <2>14, <2>15, <2>16, <2>17, <2>18, <2>19,
               <2>20, <2>21, <2>22, <2>23
<1> QED BY Zenon, <1>2, <1>3

(* No handle that a process of one thread has outlives its object: with    *)
(* StaleHandles or with two threads this is false, and so they are         *)
(* excluded.  duplicate_obj and capability_create, capability_destroy and  *)
(* object_release keep the count of references at or above the handles,    *)
(* and every variable stays in its range.                                  *)
THEOREM HandlesStayLive ==
    ASSUME OneThread, ~StaleHandles
    PROVE  Spec => []HandlesLive
<1>1. PICK t : Threads = {t}
    BY Zenon DEF OneThread
<1> DEFINE Inv == OrderInv /\ RefInv
<1>2. Init => Inv
    BY Zenon, OrderInit, RefInit
<1>3. Inv /\ [Next]_vars => Inv'
    BY Zenon, <1>1, OrderNext, RefNext
<1>4. Inv => HandlesLive
    <2> SUFFICES ASSUME Inv PROVE HandlesLive
        OBVIOUS
    <2>1. refcount \in [Objects -> 0..(RefModulus - 1)]
        <3>1. 0..(MaxRefs + 1) \subseteq 0..(RefModulus - 1)
            BY PortsAssumption
        <3> QED BY Zenon, <3>1 DEF RefInv
    <2>2. \A h \in Handles : /\ values[h].obj \in Objects \cup {NoObject}
                             /\ values[h].access \subseteq Rights
        <3>1. values \in [Handles -> Bindings]
            BY Zenon DEF OrderInv, ShapeInv
        <3> QED BY <3>1 DEF Bindings
    <2>3. TypeOK
        BY Zenon, <2>1, <2>2 DEF TypeOK, RefInv, OrderInv, ShapeInv, Ordered
    <2>4. ASSUME NEW o \in Objects, HandlesOf(o) \cap held # {} PROVE o \in allocated
        <3>1. PICK h \in held : values[h].obj = o
            BY Zenon, <2>4 DEF HandlesOf
        <3>2. h \in Owned(t) /\ t \in Threads
            BY Zenon, <1>1 DEF Owned
        <3> QED BY Zenon, <3>1, <3>2, OwnedHandles, NamedAlive
    <2> QED BY Zenon, <2>3, <2>4 DEF HandlesLive, LiveHandles
<1> QED BY <1>2, <1>3, <1>4, PTL DEF Spec
=============================================================================
