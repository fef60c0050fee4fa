-------------------------------- MODULE Slab --------------------------------
(***************************************************************************)
(* One cache of the slab allocator, kernel/mm/slab.c: per-CPU magazines, a *)
(* depot of full and of empty magazines, and below them slabs with their   *)
(* free lists.                                                             *)
(*                                                                         *)
(* A step is what happens under one lock.  The loops of kmem_cache_alloc   *)
(* and kmem_cache_free hold the lock of a kmem_cpu over several steps,     *)
(* because they take the depot's lock in between; kmem_cache_free drops it *)
(* to allocate a magazine, kmem_cache_alloc drops the cache's lock to      *)
(* create a slab.                                                          *)
(*                                                                         *)
(* A magazine keeps stale pointers in the slots above its rounds, as the   *)
(* arrays of the code do.  The cache that magazines come from is external: *)
(* it hands out a magazine that is in no use, or NULL.                     *)
(***************************************************************************)
EXTENDS Integers, Sequences, SequencesExt, FiniteSets

CONSTANTS
    Threads, CPUs,
    Magazines,      \* struct kmem_magazine objects
    Slabs,          \* pages for struct kmem_slab
    Capacity,       \* buffers of a slab
    MagazineSize,   \* magtype->rounds
    NULL

SlabAssumption ==
    /\ Capacity \in Nat \ {0}
    /\ MagazineSize \in Nat \ {0}
    /\ NULL \notin Threads \cup CPUs \cup Magazines \cup Slabs

Buffers == Slabs \X (1..Capacity)
Slot == 1..MagazineSize

NULLIsNoBuffer == NULL \notin Buffers

VARIABLES
    magazines_enabled,
    cpu_lock, loaded, previous, rounds, rounds_previous,    \* kmem_cpu
    slots,          \* kmem_magazine.rounds
    full_magazines, empty_magazines,                        \* the depot
    fresh,          \* magazines never handed out by the magazine cache
    slabs, full_slabs,      \* the two lists of the cache
    buflist, refcount,      \* kmem_slab
    unused,         \* pages that are no slab
    allocated,      \* buffers that clients have
    pc, cpu, buf, mag, slab \* a thread's position and locals

cpuVars == <<cpu_lock, loaded, previous, rounds, rounds_previous>>
depotVars == <<slots, full_magazines, empty_magazines, fresh>>
slabVars == <<slabs, full_slabs, buflist, refcount, unused>>
locals == <<cpu, buf, mag, slab>>
vars == <<magazines_enabled, cpuVars, depotVars, slabVars, allocated, pc,
          locals>>

Init ==
    /\ magazines_enabled = FALSE
    /\ cpu_lock = [c \in CPUs |-> NULL]
    /\ loaded = [c \in CPUs |-> NULL]
    /\ previous = [c \in CPUs |-> NULL]
    /\ rounds = [c \in CPUs |-> -1]
    /\ rounds_previous = [c \in CPUs |-> -1]
    /\ slots = [m \in Magazines |-> [k \in Slot |-> NULL]]
    /\ full_magazines = <<>>
    /\ empty_magazines = <<>>
    /\ fresh = Magazines
    /\ slabs = <<>>
    /\ full_slabs = <<>>
    /\ buflist = [s \in Slabs |-> <<>>]
    /\ refcount = [s \in Slabs |-> 0]
    /\ unused = Slabs
    /\ allocated = {}
    /\ pc = [t \in Threads |-> "run"]
    /\ cpu = [t \in Threads |-> NULL]
    /\ buf = [t \in Threads |-> NULL]
    /\ mag = [t \in Threads |-> NULL]
    /\ slab = [t \in Threads |-> NULL]

(* kmem_init, which the boot processor runs before it starts the others. *)
KmemInit ==
    /\ ~magazines_enabled
    /\ \A t \in Threads : pc[t] = "run"
    /\ magazines_enabled' = TRUE
    /\ UNCHANGED <<cpuVars, depotVars, slabVars, allocated, pc, locals>>

(***************************************************************************)
(* Magazine layer                                                          *)
(***************************************************************************)
CpuReloadKeepRounds(c, m, n) ==
    /\ previous' = [previous EXCEPT ![c] = loaded[c]]
    /\ loaded' = [loaded EXCEPT ![c] = m]
    /\ rounds' = [rounds EXCEPT ![c] = n]
    /\ UNCHANGED rounds_previous

(* cpu_reload *)
CpuReload(c, m, n) ==
    /\ previous' = [previous EXCEPT ![c] = loaded[c]]
    /\ rounds_previous' = [rounds_previous EXCEPT ![c] = rounds[c]]
    /\ loaded' = [loaded EXCEPT ![c] = m]
    /\ rounds' = [rounds EXCEPT ![c] = n]

(* Bound on the pages: a thread allocates only while every thread that may *)
(* still need a page or a buffer of the listed slabs will find one.        *)
PagesLeft ==
    Cardinality({t \in Threads : pc[t] \in {"alloc", "alloc_reload",
                                            "slab_alloc", "slab_create"}})
        < Cardinality(unused)
          + Cardinality({b \in Buffers : /\ b[1] \in ToSet(slabs)
                                         /\ b \in ToSet(buflist[b[1]])})

KmemCacheAlloc(t) ==
    /\ pc[t] = "run"
    /\ PagesLeft
    /\ \/ /\ magazines_enabled
          /\ \E c \in CPUs :
                /\ cpu_lock[c] = NULL
                /\ cpu_lock' = [cpu_lock EXCEPT ![c] = t]
                /\ cpu' = [cpu EXCEPT ![t] = c]
          /\ pc' = [pc EXCEPT ![t] = "alloc"]
       \/ /\ ~magazines_enabled
          /\ pc' = [pc EXCEPT ![t] = "slab_alloc"]
          /\ UNCHANGED <<cpu_lock, cpu>>
    /\ UNCHANGED <<magazines_enabled, loaded, previous, rounds,
                   rounds_previous, depotVars, slabVars, allocated, buf, mag,
                   slab>>

(* The thread gives up its kmem_cpu; its local is dead unless the loop     *)
(* takes the lock again.                                                   *)
Unlock(t, next) ==
    /\ cpu_lock' = [cpu_lock EXCEPT ![cpu[t]] = NULL]
    /\ cpu' = IF next = "new_mag" THEN cpu ELSE [cpu EXCEPT ![t] = NULL]
    /\ pc' = [pc EXCEPT ![t] = next]

AllocRound(t) ==
    LET c == cpu[t] IN
    /\ pc[t] = "alloc"
    /\ rounds[c] > 0
    /\ allocated' = allocated \cup {slots[loaded[c]][rounds[c]]}
    /\ rounds' = [rounds EXCEPT ![c] = @ - 1]
    /\ Unlock(t, "run")
    /\ UNCHANGED <<magazines_enabled, loaded, previous, rounds_previous,
                   depotVars, slabVars, buf, mag, slab>>

AllocExchange(t) ==
    LET c == cpu[t] IN
    /\ pc[t] = "alloc"
    /\ rounds[c] <= 0
    /\ rounds_previous[c] > 0
    /\ CpuReload(c, previous[c], rounds_previous[c])
    /\ UNCHANGED <<magazines_enabled, cpu_lock, depotVars, slabVars,
                   allocated, pc, locals>>

(* alloc_from_depot(cp, &cp->full_magazines) *)
AllocDepot(t) ==
    LET c == cpu[t] IN
    /\ pc[t] = "alloc"
    /\ rounds[c] <= 0
    /\ rounds_previous[c] <= 0
    /\ \/ /\ full_magazines = <<>>
          /\ Unlock(t, "slab_alloc")
          /\ UNCHANGED <<full_magazines, mag>>
       \/ /\ full_magazines # <<>>
          /\ mag' = [mag EXCEPT ![t] = Head(full_magazines)]
          /\ full_magazines' = Tail(full_magazines)
          /\ pc' = [pc EXCEPT ![t] = "alloc_reload"]
          /\ UNCHANGED <<cpu_lock, cpu>>
    /\ UNCHANGED <<magazines_enabled, loaded, previous, rounds,
                   rounds_previous, slots, empty_magazines, fresh, slabVars,
                   allocated, buf, slab>>

(* maglist_free *)
Push(list, m) == IF m = NULL THEN list ELSE <<m>> \o list

AllocReload(t) ==
    LET c == cpu[t] IN
    /\ pc[t] = "alloc_reload"
    /\ empty_magazines' = Push(empty_magazines, previous[c])
    /\ CpuReload(c, mag[t], MagazineSize)
    /\ mag' = [mag EXCEPT ![t] = NULL]
    /\ pc' = [pc EXCEPT ![t] = "alloc"]
    /\ UNCHANGED <<magazines_enabled, cpu_lock, slots, full_magazines, fresh,
                   slabVars, allocated, cpu, buf, slab>>

(* A client frees a buffer it has. *)
KmemCacheFree(t) ==
    /\ pc[t] = "run"
    /\ \E b \in allocated :
          /\ buf' = [buf EXCEPT ![t] = b]
          /\ allocated' = allocated \ {b}
    /\ \/ /\ magazines_enabled
          /\ \E c \in CPUs :
                /\ cpu_lock[c] = NULL
                /\ cpu_lock' = [cpu_lock EXCEPT ![c] = t]
                /\ cpu' = [cpu EXCEPT ![t] = c]
          /\ pc' = [pc EXCEPT ![t] = "free"]
       \/ /\ ~magazines_enabled
          /\ pc' = [pc EXCEPT ![t] = "slab_free"]
          /\ UNCHANGED <<cpu_lock, cpu>>
    /\ UNCHANGED <<magazines_enabled, loaded, previous, rounds,
                   rounds_previous, depotVars, slabVars, mag, slab>>

(* (size_t)cpu->rounds < cpu->magazine_size: -1 is the largest size_t. *)
HasSpace(c) == rounds[c] >= 0 /\ rounds[c] < MagazineSize

FreeRound(t) ==
    LET c == cpu[t] IN
    /\ pc[t] = "free"
    /\ HasSpace(c)
    /\ slots' = [slots EXCEPT ![loaded[c]][rounds[c] + 1] = buf[t]]
    /\ rounds' = [rounds EXCEPT ![c] = @ + 1]
    /\ buf' = [buf EXCEPT ![t] = NULL]
    /\ Unlock(t, "run")
    /\ UNCHANGED <<magazines_enabled, loaded, previous, rounds_previous,
                   full_magazines, empty_magazines, fresh, slabVars,
                   allocated, mag, slab>>

FreeExchange(t) ==
    LET c == cpu[t] IN
    /\ pc[t] = "free"
    /\ ~HasSpace(c)
    /\ rounds_previous[c] = 0
    /\ CpuReload(c, previous[c], 0)
    /\ UNCHANGED <<magazines_enabled, cpu_lock, depotVars, slabVars,
                   allocated, pc, locals>>

FreeDepotKeepsListed(t) ==
    LET c == cpu[t] IN
    /\ pc[t] = "free"
    /\ ~HasSpace(c)
    /\ rounds_previous[c] # 0
    /\ \/ /\ empty_magazines = <<>>
          /\ Unlock(t, "new_mag")
          /\ UNCHANGED mag
       \/ /\ empty_magazines # <<>>
          /\ mag' = [mag EXCEPT ![t] = Head(empty_magazines)]
          /\ pc' = [pc EXCEPT ![t] = "free_reload"]
          /\ UNCHANGED <<cpu_lock, cpu>>
    /\ UNCHANGED <<magazines_enabled, loaded, previous, rounds,
                   rounds_previous, depotVars, slabVars, allocated, buf, slab>>

(* alloc_from_depot(cp, &cp->empty_magazines); without one, the lock is    *)
(* dropped to allocate a magazine.                                         *)
FreeDepot(t) ==
    LET c == cpu[t] IN
    /\ pc[t] = "free"
    /\ ~HasSpace(c)
    /\ rounds_previous[c] # 0
    /\ \/ /\ empty_magazines = <<>>
          /\ Unlock(t, "new_mag")
          /\ UNCHANGED <<empty_magazines, mag>>
       \/ /\ empty_magazines # <<>>
          /\ mag' = [mag EXCEPT ![t] = Head(empty_magazines)]
          /\ empty_magazines' = Tail(empty_magazines)
          /\ pc' = [pc EXCEPT ![t] = "free_reload"]
          /\ UNCHANGED <<cpu_lock, cpu>>
    /\ UNCHANGED <<magazines_enabled, loaded, previous, rounds,
                   rounds_previous, slots, full_magazines, fresh, slabVars,
                   allocated, buf, slab>>

FreeReload(t) ==
    LET c == cpu[t] IN
    /\ pc[t] = "free_reload"
    /\ full_magazines' = Push(full_magazines, previous[c])
    /\ CpuReload(c, mag[t], 0)
    /\ mag' = [mag EXCEPT ![t] = NULL]
    /\ pc' = [pc EXCEPT ![t] = "free"]
    /\ UNCHANGED <<magazines_enabled, cpu_lock, slots, empty_magazines, fresh,
                   slabVars, allocated, cpu, buf, slab>>

(* kmem_cache_alloc(cp->magtype->cache), without any lock. *)
NewMagazine(t) ==
    /\ pc[t] = "new_mag"
    /\ \/ \E m \in fresh : /\ mag' = [mag EXCEPT ![t] = m]
                           /\ fresh' = fresh \ {m}
       \/ fresh = {} /\ UNCHANGED <<mag, fresh>>
    /\ pc' = [pc EXCEPT ![t] = "add_mag"]
    /\ UNCHANGED <<magazines_enabled, cpuVars, slots, full_magazines,
                   empty_magazines, slabVars, allocated, cpu, buf, slab>>

(* The new magazine goes to the depot and the loop starts again; without   *)
(* one the buffer goes back to its slab.                                   *)
AddMagazine(t) ==
    /\ pc[t] = "add_mag"
    /\ cpu_lock[cpu[t]] = NULL
    /\ \/ /\ mag[t] # NULL
          /\ cpu_lock' = [cpu_lock EXCEPT ![cpu[t]] = t]
          /\ empty_magazines' = Push(empty_magazines, mag[t])
          /\ mag' = [mag EXCEPT ![t] = NULL]
          /\ pc' = [pc EXCEPT ![t] = "free"]
          /\ UNCHANGED cpu
       \/ /\ mag[t] = NULL
          /\ pc' = [pc EXCEPT ![t] = "slab_free"]
          /\ cpu' = [cpu EXCEPT ![t] = NULL]
          /\ UNCHANGED <<cpu_lock, empty_magazines, mag>>
    /\ UNCHANGED <<magazines_enabled, loaded, previous, rounds,
                   rounds_previous, slots, full_magazines, fresh, slabVars,
                   allocated, buf, slab>>

(***************************************************************************)
(* Slab layer                                                              *)
(***************************************************************************)

(* Take the first buffer of s, given the two lists of slabs. *)
Take(t, s, list) ==
    /\ allocated' = allocated \cup {Head(buflist[s])}
    /\ buflist' = [buflist EXCEPT ![s] = Tail(@)]
    /\ refcount' = [refcount EXCEPT ![s] = @ + 1]
    /\ slabs' = SelectSeq(list, LAMBDA x : x # s \/ Len(buflist[s]) > 1)
    /\ full_slabs' = IF Len(buflist[s]) > 1 THEN full_slabs
                     ELSE Append(full_slabs, s)
    /\ pc' = [pc EXCEPT ![t] = "run"]

SlabAlloc(t) ==
    /\ pc[t] = "slab_alloc"
    /\ \/ /\ slabs # <<>>
          /\ Take(t, Head(slabs), slabs)
       \/ /\ slabs = <<>>
          /\ pc' = [pc EXCEPT ![t] = "slab_create"]
          /\ UNCHANGED <<slabs, full_slabs, buflist, refcount, allocated>>
    /\ UNCHANGED <<magazines_enabled, cpuVars, depotVars, unused, locals>>

(* slab_create: a page with all its buffers on the free list. *)
SlabCreate(t) ==
    /\ pc[t] = "slab_create"
    /\ \E s \in unused :
          /\ unused' = unused \ {s}
          /\ slab' = [slab EXCEPT ![t] = s]
          /\ buflist' = [buflist EXCEPT ![s] =
                            [k \in 1..Capacity |-> <<s, Capacity + 1 - k>>]]
    /\ pc' = [pc EXCEPT ![t] = "slab_insert"]
    /\ UNCHANGED <<magazines_enabled, cpuVars, depotVars, slabs, full_slabs,
                   refcount, allocated, cpu, buf, mag>>

SlabInsert(t) ==
    /\ pc[t] = "slab_insert"
    /\ Take(t, slab[t], Append(slabs, slab[t]))
    /\ slab' = [slab EXCEPT ![t] = NULL]
    /\ UNCHANGED <<magazines_enabled, cpuVars, depotVars, unused, cpu, buf,
                   mag>>

(* The slab free path as if the slab were on the free list already. *)
SlabFreeNotMoved(t) ==
    LET s == buf[t][1] IN
    /\ pc[t] = "slab_free"
    /\ buflist' = [buflist EXCEPT ![s] = <<buf[t]>> \o @]
    /\ refcount' = [refcount EXCEPT ![s] = @ - 1]
    /\ pc' = [pc EXCEPT ![t] = "run"]
    /\ buf' = [buf EXCEPT ![t] = NULL]
    /\ UNCHANGED <<magazines_enabled, cpuVars, depotVars, slabs, full_slabs,
                   unused, allocated, cpu, mag, slab>>

(* The end of kmem_cache_free: the buffer goes back to its slab; a slab    *)
(* without outstanding buffers is taken off the list and destroyed.        *)
SlabFree(t) ==
    LET s == buf[t][1]
        list == IF buflist[s] = <<>> THEN <<s>> \o slabs ELSE slabs
    IN
    /\ pc[t] = "slab_free"
    /\ full_slabs' = IF buflist[s] = <<>>
                     THEN SelectSeq(full_slabs, LAMBDA x : x # s)
                     ELSE full_slabs
    /\ buflist' = [buflist EXCEPT ![s] = <<buf[t]>> \o @]
    /\ refcount' = [refcount EXCEPT ![s] = @ - 1]
    /\ buf' = [buf EXCEPT ![t] = NULL]
    /\ \/ /\ refcount[s] = 1
          /\ slabs' = SelectSeq(list, LAMBDA x : x # s)
          /\ slab' = [slab EXCEPT ![t] = s]
          /\ pc' = [pc EXCEPT ![t] = "slab_destroy"]
       \/ /\ refcount[s] # 1
          /\ slabs' = list
          /\ pc' = [pc EXCEPT ![t] = "run"]
          /\ UNCHANGED slab
    /\ UNCHANGED <<magazines_enabled, cpuVars, depotVars, unused, allocated,
                   cpu, mag>>

SlabDestroy(t) ==
    /\ pc[t] = "slab_destroy"
    /\ unused' = unused \cup {slab[t]}
    /\ buflist' = [buflist EXCEPT ![slab[t]] = <<>>]
    /\ slab' = [slab EXCEPT ![t] = NULL]
    /\ pc' = [pc EXCEPT ![t] = "run"]
    /\ UNCHANGED <<magazines_enabled, cpuVars, depotVars, slabs, full_slabs,
                   refcount, allocated, cpu, buf, mag>>

-----------------------------------------------------------------------------
Step(t) ==
    \/ AllocRound(t) \/ AllocExchange(t) \/ AllocDepot(t) \/ AllocReload(t)
    \/ FreeRound(t) \/ FreeExchange(t) \/ FreeDepot(t) \/ FreeReload(t)
    \/ NewMagazine(t) \/ AddMagazine(t)
    \/ SlabAlloc(t) \/ SlabCreate(t) \/ SlabInsert(t)
    \/ SlabFree(t) \/ SlabDestroy(t)

Next ==
    \/ KmemInit
    \/ \E t \in Threads : KmemCacheAlloc(t) \/ KmemCacheFree(t) \/ Step(t)

Spec == Init /\ [][Next]_vars

-----------------------------------------------------------------------------
MagPcs == {"alloc", "alloc_reload", "free", "free_reload"}  \* kmem_cpu locked
Pcs == MagPcs \cup {"run", "new_mag", "add_mag", "slab_alloc", "slab_create",
                    "slab_insert", "slab_free", "slab_destroy"}

(* Every variable stays in its range; the rounds of a CPU never leave the  *)
(* array of the magazine.                                                  *)
TypeOK ==
    /\ magazines_enabled \in BOOLEAN
    /\ cpu_lock \in [CPUs -> Threads \cup {NULL}]
    /\ loaded \in [CPUs -> Magazines \cup {NULL}]
    /\ previous \in [CPUs -> Magazines \cup {NULL}]
    /\ rounds \in [CPUs -> -1..MagazineSize]
    /\ rounds_previous \in [CPUs -> {-1, 0, MagazineSize}]
    /\ slots \in [Magazines -> [Slot -> Buffers \cup {NULL}]]
    /\ full_magazines \in Seq(Magazines)
    /\ empty_magazines \in Seq(Magazines)
    /\ fresh \subseteq Magazines
    /\ slabs \in Seq(Slabs)
    /\ full_slabs \in Seq(Slabs)
    /\ buflist \in [Slabs -> Seq(Buffers)]
    /\ refcount \in [Slabs -> Nat]
    /\ unused \subseteq Slabs
    /\ allocated \subseteq Buffers
    /\ pc \in [Threads -> Pcs]
    /\ cpu \in [Threads -> CPUs \cup {NULL}]
    /\ buf \in [Threads -> Buffers \cup {NULL}]
    /\ mag \in [Threads -> Magazines \cup {NULL}]
    /\ slab \in [Threads -> Slabs \cup {NULL}]

(* The rounds magazine m holds, given where it is.  A magazine that a      *)
(* thread carries is full on its way out of the full list.                 *)
Rounds(m) ==
    IF \E c \in CPUs : loaded[c] = m
    THEN rounds[CHOOSE c \in CPUs : loaded[c] = m]
    ELSE IF \E c \in CPUs : previous[c] = m
         THEN rounds_previous[CHOOSE c \in CPUs : previous[c] = m]
         ELSE IF \/ m \in ToSet(full_magazines)
                 \/ \E t \in Threads : mag[t] = m /\ pc[t] = "alloc_reload"
              THEN MagazineSize ELSE 0

(* The places that refer to buffer b: a client, a thread that frees it,    *)
(* the live slots of the magazines and the free list of its slab.          *)
Places(b) ==
    (IF b \in allocated THEN {<<"client">>} ELSE {})
    \cup {<<"thread", t>> : t \in {u \in Threads : buf[u] = b}}
    \cup {<<"round", p[1], p[2]>> :
             p \in {q \in Magazines \X Slot :
                       q[2] <= Rounds(q[1]) /\ slots[q[1]][q[2]] = b}}
    \cup {<<"buflist", k>> :
             k \in {j \in 1..Len(buflist[b[1]]) : buflist[b[1]][j] = b}}

(* A buffer of a slab is always in exactly one place, whatever the threads *)
(* do on whichever CPU: it is never handed out twice and never lost.       *)
EveryBufferOnce ==
    \A b \in Buffers :
        Cardinality(Places(b)) = IF b[1] \in unused THEN 0 ELSE 1

(* The CPUs that have m, the threads that carry it and the lists it is on. *)
MagPlaces(m) ==
    {<<"loaded", c>> : c \in {d \in CPUs : loaded[d] = m}}
    \cup {<<"previous", c>> : c \in {d \in CPUs : previous[d] = m}}
    \cup {<<"thread", t>> : t \in {u \in Threads : mag[u] = m}}
    \cup {<<"full", k>> : k \in {j \in 1..Len(full_magazines) :
                                    full_magazines[j] = m}}
    \cup {<<"empty", k>> : k \in {j \in 1..Len(empty_magazines) :
                                    empty_magazines[j] = m}}
    \cup (IF m \in fresh THEN {<<"fresh">>} ELSE {})

(* A magazine belongs to one CPU, one thread or one list of the depot: two *)
(* CPUs never fill the same magazine.                                      *)
EveryMagazineOnce == \A m \in Magazines : Cardinality(MagPlaces(m)) = 1

(* A slab counts its buffers that are elsewhere, and is on the list that   *)
(* says whether it has buffers left, unless a thread is creating or        *)
(* destroying it.                                                          *)
SlabAccounts ==
    \A s \in Slabs :
        LET owned == \E t \in Threads : slab[t] = s IN
        /\ s \notin unused => refcount[s] + Len(buflist[s]) = Capacity
        /\ s \in ToSet(slabs) <=>
              s \notin unused /\ ~owned /\ buflist[s] # <<>>
        /\ s \in ToSet(full_slabs) <=>
              s \notin unused /\ ~owned /\ buflist[s] = <<>>
        /\ s \in ToSet(slabs) => refcount[s] > 0
=============================================================================
