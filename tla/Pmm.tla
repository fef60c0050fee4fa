-------------------------------- MODULE Pmm ---------------------------------
(***************************************************************************)
(* The physical memory manager, kernel/mm/physical.c: one bitmap for each  *)
(* usable region, a hint where to search, and a walk over the regions.     *)
(* Addresses are page numbers.  What is done under the lock of a region is *)
(* one step, so that allocations of several threads interleave between     *)
(* regions.                                                                *)
(***************************************************************************)
EXTENDS Integers, Sequences, FiniteSets

CONSTANTS
    Threads,
    Regions,    \* the pmm_modules in list order: [base, len] in pages
    Requests    \* what callers ask for: [cnt, align]

ASSUME PmmAssumption ==
    /\ Regions \in Seq([base : Nat, len : Nat \ {0}])
    /\ Regions # <<>>
    /\ Requests \subseteq [cnt : Nat \ {0}, align : Nat \ {0}]

Modules == 1..Len(Regions)
Base(m) == Regions[m].base
EntryCnt(m) == Regions[m].len       \* bitmap_entry_cnt
Entries(m) == 0..(EntryCnt(m) - 1)

VARIABLES
    bitmap,     \* the bits set in a module's bitmap
    last_free,
    blocks,     \* what callers have: [base, cnt]
    module,     \* where the walk of a thread in pmm_alloc is, or 0
    request     \* and its arguments

vars == <<bitmap, last_free, blocks, module, request>>

(* pmm_init_module *)
Init ==
    /\ bitmap = [m \in Modules |-> {}]
    /\ last_free = [m \in Modules |-> 0]
    /\ blocks = {}
    /\ module = [t \in Threads |-> 0]
    /\ request = [t \in Threads |-> [cnt |-> 1, align |-> 1]]

PmmAlloc(t) ==
    /\ module[t] = 0
    /\ \E q \in Requests : request' = [request EXCEPT ![t] = q]
    /\ module' = [module EXCEPT ![t] = 1]
    /\ UNCHANGED <<bitmap, last_free, blocks>>

FoundUnaligned(m, q) ==
    {i \in last_free[m]..(EntryCnt(m) - 1) :
        /\ i + q.cnt <= EntryCnt(m)
        /\ \A j \in i..(i + q.cnt - 1) : j \notin bitmap[m]}

(* Where the search of pmm_module_alloc can succeed: from the hint up, in  *)
(* steps of the alignment, until a run no longer fits.                     *)
Found(m, q) ==
    {i \in last_free[m]..(EntryCnt(m) - 1) :
        /\ (Base(m) + i) % q.align = 0
        /\ i + q.cnt <= EntryCnt(m)
        /\ \A j \in i..(i + q.cnt - 1) : j \notin bitmap[m]}

HintStays(m, j, bits) ==
    LET clear == {z \in j..(EntryCnt(m) - 1) : z \notin bits} IN
    IF clear = {} THEN j ELSE CHOOSE z \in clear : \A y \in clear : z <= y

HintOfFirstModule(m, j, bits) ==
    LET clear == {z \in j..(EntryCnt(1) - 1) : z \notin bits} IN
    IF clear = {} THEN 0 ELSE CHOOSE z \in clear : \A y \in clear : z <= y

(* The new hint: the first clear bit from the last page of the run, or 0. *)
Hint(m, j, bits) ==
    LET clear == {z \in j..(EntryCnt(m) - 1) : z \notin bits} IN
    IF clear = {} THEN 0 ELSE CHOOSE z \in clear : \A y \in clear : z <= y

(* pmm_module_alloc and the rest of pmm_alloc's loop body. *)
PmmModuleAlloc(t) ==
    LET m == module[t]
        q == request[t]
    IN
    /\ m # 0
    /\ \/ \E i \in Found(m, q) :
            LET bits == bitmap[m] \cup i..(i + q.cnt - 1) IN
            /\ \A j \in Found(m, q) : i <= j
            /\ bitmap' = [bitmap EXCEPT ![m] = bits]
            /\ last_free' = [last_free EXCEPT ![m] =
                                Hint(m, i + q.cnt - 1, bits)]
            /\ blocks' = blocks \cup {[base |-> Base(m) + i, cnt |-> q.cnt]}
            /\ module' = [module EXCEPT ![t] = 0]
       \/ /\ Found(m, q) = {}
          /\ module' = [module EXCEPT ![t] = IF m = Len(Regions) THEN 0
                                             ELSE m + 1]
          /\ UNCHANGED <<bitmap, last_free, blocks>>
    /\ UNCHANGED request

(* The bits pmm_module_free clears. *)
Cleared(base, cnt) == base..(base + cnt - 1)

(* The module pmm_free chooses. *)
Accepts(m, b) == b.base >= Base(m) /\ b.cnt <= EntryCnt(m)

(* Whose bitmap is cleared, and where, when b is freed in m: the bits may  *)
(* lie behind the end of m's bitmap, and what is there may be the bitmap   *)
(* of a later module.                                                      *)
Hit(m, b) ==
    {m} \cup IF Cleared(b.base - Base(m), b.cnt) \subseteq Entries(m) THEN {}
             ELSE (m + 1)..Len(Regions)
HitBits(n, m, b) ==
    IF n = m THEN {Cleared(b.base - Base(m), b.cnt)}
    ELSE {Cleared(i, b.cnt) : i \in Entries(n)}

(* pmm_free and pmm_module_free *)
PmmFree ==
    \E b \in blocks, m \in Modules :
        /\ Accepts(m, b)
        /\ \A n \in 1..(m - 1) : ~Accepts(n, b)
        /\ \E n \in Hit(m, b) : \E bits \in HitBits(n, m, b) :
              bitmap' = [bitmap EXCEPT ![n] = @ \ bits]
        /\ blocks' = blocks \ {b}
        /\ UNCHANGED <<last_free, module, request>>

Next == PmmFree \/ \E t \in Threads : PmmAlloc(t) \/ PmmModuleAlloc(t)

Spec == Init /\ [][Next]_vars

-----------------------------------------------------------------------------
Pages == UNION {Base(m)..(Base(m) + EntryCnt(m) - 1) : m \in Modules}
Run(b) == b.base..(b.base + b.cnt - 1)
Taken == UNION {{Base(m) + i : i \in bitmap[m]} : m \in Modules}

TypeOK ==
    /\ bitmap \in [Modules -> SUBSET Nat]
    /\ \A m \in Modules : bitmap[m] \subseteq Entries(m)
    /\ last_free \in [Modules -> Nat]
    /\ \A m \in Modules : last_free[m] \in Entries(m)
    /\ blocks \subseteq [base : Nat, cnt : Nat \ {0}]
    /\ module \in [Threads -> 0..Len(Regions)]
    /\ request \in [Threads -> [cnt : Nat \ {0}, align : Nat \ {0}]]

(* Two callers never have the same page, and the pages they have are the   *)
(* ones marked in the bitmaps: pmm_alloc never gives out a page twice, and *)
(* pmm_free gives back exactly what was taken, while the hint moves.       *)
BitmapExact ==
    /\ \A b, c \in blocks : b # c => Run(b) \cap Run(c) = {}
    /\ Taken = UNION {Run(b) : b \in blocks}

(* A request for one page fails in a module only when all its pages are    *)
(* taken, wherever last_free points after any history of requests and      *)
(* frees.                                                                  *)
PageFoundIfAny ==
    \A m \in Modules :
        bitmap[m] # Entries(m) => Found(m, [cnt |-> 1, align |-> 1]) # {}

(* "create bitmap modules for all usable regions" (physical.c:150): a page *)
(* of a usable region that no caller has is free in its module.            *)
EveryPageManaged == Taken \subseteq UNION {Run(b) : b \in blocks}

(* With one region the bitmap, the hint and the walk implement the pool of *)
(* pages that callers rely on.                                             *)
Pool == INSTANCE PageAllocator WITH free <- Pages \ Taken
ImplementsPool == Pool!Spec
=============================================================================
