------------------------------ MODULE Paging --------------------------------
(***************************************************************************)
(* The page tables of kernel/arch/amd64/paging.c: pmap_new, pmap_map,      *)
(* pmap_unmap and pmap_translate on tables in physical memory.             *)
(*                                                                         *)
(* A virtual address is the number of its page, a table has Fan entries    *)
(* (512 in the code), and pml4, pml3, ... are the levels 4, 3, ....  The   *)
(* frames of tables come from pmm_alloc, which zeroes the first free one;  *)
(* when there is none it returns -1, whose address is frame NoFrame here.  *)
(* The frames that are mapped are numbers apart from those.  Addresses are *)
(* aligned to the page size they are mapped with.                          *)
(***************************************************************************)
EXTENDS Integers, FiniteSets

CONSTANTS
    Spaces, Kernel,         \* pmaps, and kernel_pmap
    Fan,                    \* entries of a table
    Pml5, GibPages,         \* pml5_supported, gib_pages_supported
    NTables,                \* bound: frames for tables
    Frames,                 \* frames that are mapped
    Vaddrs,                 \* pages pmap_map is called with
    ProtsAt, FlagsAt        \* protections and vm_flags they are mapped with

ASSUME PagingAssumption ==
    /\ Fan \in Nat /\ Fan % 2 = 0 /\ NTables \in Nat /\ Fan \div 2 < NTables
    /\ Kernel \in Spaces /\ Pml5 \in BOOLEAN /\ GibPages \in BOOLEAN
    /\ \A f \in Frames : f \in Nat /\ f > NTables
    /\ FlagsAt \in [Vaddrs -> SUBSET {{}, {"LARGE"}, {"HUGE"}}]
    /\ ProtsAt \in [Vaddrs -> SUBSET SUBSET {"P", "W", "X", "U"}]

VARIABLES
    pmlt,       \* the root table of each pmap, 0 if there is none yet
    mem,        \* the tables: what is in the frames that hold one
    wild        \* a table was looked for where there is none

vars == <<pmlt, mem, wild>>

Top == IF Pml5 THEN 5 ELSE 4
NPages == Fan ^ Top

(* compute_table_indices *)
Index(v, l) == (v \div Fan ^ (l - 1)) % Fan

(* vm_prot_to_x86 and x86_to_vm_prot: "NX" is the absence of "X". *)
ToX86(prot, flags) ==
    (prot \cap {"P", "W", "U"})
      \cup (IF "X" \in prot THEN {} ELSE {"NX"})
      \cup (IF flags \cap {"LARGE", "HUGE"} # {} THEN {"PS"} ELSE {})
ToProt(f) == (f \cap {"P", "W", "U"}) \cup (IF "NX" \in f THEN {} ELSE {"X"})

VM_PROT_ALL == {"P", "W", "X", "U"}
Zero == [a |-> 0, f |-> {}]
EmptyTable == [i \in 0..(Fan - 1) |-> Zero]

(* A place in a walk: the tables m and the table t it has come to. *)
At(m, t) == [m |-> m, t |-> t]

NoFrame == 0
AllFlags == {"P", "W", "U", "NX", "PS"}

PmmAlloc(m) ==
    LET free == (1..NTables) \ DOMAIN m IN
    IF free = {} THEN NoFrame ELSE CHOOSE f \in free : \A g \in free : f <= g

(* The tables m with an entry written, and with one table more, in frame f. *)
WithEntry(m, t, i, e) == [m EXCEPT ![t][i] = e]
WithTable(m, f, table) == [t \in DOMAIN m \cup {f} |-> IF t = f THEN table ELSE m[t]]

IsTable(w) == w.t \in DOMAIN w.m

Descended(f) ==
    [a |-> f, f |-> IF f = NoFrame THEN AllFlags ELSE ToX86(VM_PROT_ALL, {})]

(* descend_table with alloc: a present entry is followed, also one of a    *)
(* large page.  An error of pmm_alloc is stored like a frame.              *)
Attach(w, i, f) ==
    LET m == WithEntry(w.m, w.t, i, Descended(f)) IN
    At(IF f = NoFrame THEN m ELSE WithTable(m, f, EmptyTable), f)

Descend(w, i) ==
    IF ~IsTable(w) THEN w
    ELSE IF "P" \in w.m[w.t][i].f THEN At(w.m, w.m[w.t][i].a)
    ELSE Attach(w, i, PmmAlloc(w.m))

Store(w, i, e) == IF IsTable(w) THEN At(WithEntry(w.m, w.t, i, e), w.t) ELSE w

MapDescendNoGib(m, s, v, paddr, prot, flags) ==
    LET e == [a |-> paddr, f |-> ToX86(prot, flags)]
        w5 == At(m, pmlt[s])
        w4 == IF Pml5 THEN Descend(w5, Index(v, 5)) ELSE w5
        w3 == Descend(w4, Index(v, 4))
        w2 == Descend(w3, Index(v, 3))
        w1 == Descend(w2, Index(v, 2))
    IN IF flags \cap {"HUGE", "LARGE"} # {} THEN Store(w2, Index(v, 2), e)
       ELSE Store(w1, Index(v, 1), e)

(* pmap_map, on the tables m. *)
MapDescend(m, s, v, paddr, prot, flags) ==
    LET e == [a |-> paddr, f |-> ToX86(prot, flags)]
        w5 == At(m, pmlt[s])
        w4 == IF Pml5 THEN Descend(w5, Index(v, 5)) ELSE w5
        w3 == Descend(w4, Index(v, 4))
        w2 == Descend(w3, Index(v, 3))
        w1 == Descend(w2, Index(v, 2))
    IN IF "HUGE" \in flags /\ GibPages THEN Store(w3, Index(v, 3), e)
       ELSE IF flags \cap {"HUGE", "LARGE"} # {} THEN Store(w2, Index(v, 2), e)
       ELSE Store(w1, Index(v, 1), e)

(* The pages that one entry written with these flags maps. *)
SizeOf(flags) ==
    IF "HUGE" \in flags /\ GibPages THEN Fan ^ 2
    ELSE IF flags \cap {"HUGE", "LARGE"} # {} THEN Fan ELSE 1

KernelHalf(i) == i >= Fan \div 2

(* pmap_init_kernel: the root, and a table for every entry of its upper    *)
(* half.                                                                   *)
Preallocated ==
    LET n == Fan \div 2
        entry(i) == IF KernelHalf(i)
                    THEN [a |-> i - n + 2, f |-> ToX86(VM_PROT_ALL, {})] ELSE Zero
        root == [i \in 0..(Fan - 1) |-> entry(i)]
    IN At([t \in 1..(n + 1) |-> IF t = 1 THEN root ELSE EmptyTable], 1)

Init ==
    /\ mem = Preallocated.m
    /\ pmlt = [s \in Spaces |-> IF s = Kernel THEN Preallocated.t ELSE 0]
    /\ wild = FALSE

PmapNewWholeRoot(s) ==
    LET f == PmmAlloc(mem)
        root == mem[pmlt[Kernel]]
    IN
    /\ pmlt[s] = 0
    /\ wild' = (f = NoFrame)
    /\ pmlt' = [pmlt EXCEPT ![s] = f]
    /\ mem' = IF f = NoFrame THEN mem ELSE WithTable(mem, f, root)

(* pmap_new: its root shares the tables of the kernel half.  P2V of an     *)
(* error is no null pointer, and is written to like a root.                *)
PmapNew(s) ==
    LET f == PmmAlloc(mem)
        root == [i \in 0..(Fan - 1) |->
                    IF KernelHalf(i) THEN mem[pmlt[Kernel]][i] ELSE Zero]
    IN
    /\ pmlt[s] = 0
    /\ wild' = (f = NoFrame)
    /\ pmlt' = [pmlt EXCEPT ![s] = f]
    /\ mem' = IF f = NoFrame THEN mem ELSE WithTable(mem, f, root)

PmapMap(s) ==
    /\ pmlt[s] # 0
    /\ \E v \in Vaddrs : \E paddr \in Frames, prot \in ProtsAt[v], flags \in FlagsAt[v] :
          LET w == MapDescend(mem, s, v, paddr, prot, flags) IN
          mem' = w.m /\ wild' = ~IsTable(w)
    /\ UNCHANGED pmlt

(* The walk of pmap_unmap, pmap_translate and amd64_page_entry.  A place   *)
(* in it is a table and its level; the set of places is empty where        *)
(* descend_table, without alloc, returns NULL.                             *)
EntryAt(w, v) == mem[w[1]][Index(v, w[2])]

Down(W, v) ==
    UNION {LET e == EntryAt(w, v) IN
           IF w[2] = 1 \/ (w[2] <= 3 /\ "PS" \in e.f) THEN {w}
           ELSE IF "P" \in e.f THEN {<<e.a, w[2] - 1>>} ELSE {} : w \in W}

Root(s) == IF pmlt[s] = 0 THEN {} ELSE {<<pmlt[s], Top>>}
ToLevel3(s, v) == IF Pml5 THEN Down(Down(Root(s), v), v) ELSE Down(Root(s), v)

Walk(s, v) == Down(Down(ToLevel3(s, v), v), v)

PmapUnmap(s) ==
    /\ pmlt[s] # 0
    /\ \E v \in Vaddrs : \E w \in Walk(s, v) :
          mem' = WithEntry(mem, w[1], Index(v, w[2]), Zero)
    /\ UNCHANGED <<pmlt, wild>>

(* pmap_translate, as the set of what it returns: the protections of a     *)
(* large page are read from the entry above it.                            *)
PmapTranslate(s, v) ==
    {[frame |-> EntryAt(w, v).a,
      prot |-> IF w[2] = 2
               THEN UNION {ToProt(EntryAt(u, v).f) : u \in ToLevel3(s, v)}
               ELSE ToProt(EntryAt(w, v).f)] :
        w \in {w \in Walk(s, v) : w[2] > 1 \/ "P" \in EntryAt(w, v).f}}

Next == ~wild /\ \E s \in Spaces : PmapNew(s) \/ PmapMap(s) \/ PmapUnmap(s)

Spec == Init /\ [][Next]_vars

-----------------------------------------------------------------------------
TypeOK ==
    /\ pmlt \in [Spaces -> 0..NTables]
    /\ DOMAIN mem \subseteq 1..NTables
    /\ \A t \in DOMAIN mem, i \in 0..(Fan - 1) :
          mem[t][i].a \in Frames \cup 0..NTables
          /\ mem[t][i].f \subseteq {"P", "W", "U", "NX", "PS"}

(* What the processor's page walk finds for v, with the frame of the page  *)
(* itself inside a large one.                                              *)
Mmu(s, v) ==
    {[frame |-> EntryAt(w, v).a + (v % Fan ^ (w[2] - 1)),
      prot |-> ToProt(EntryAt(w, v).f)] :
        w \in {w \in Walk(s, v) : "P" \in EntryAt(w, v).f}}

(* The page tables implement the map of AddressMap: a call changes the     *)
(* pages it names and no other page of any space, and the kernel half is   *)
(* common to all, also what is mapped there after a space was made.        *)
Abstract ==
    INSTANCE AddressMap WITH
        spaces <- {s \in Spaces : pmlt[s] # 0},
        map <- [s \in Spaces |-> [v \in 0..(NPages - 1) |-> Mmu(s, v)]],
        KernelBase <- NPages \div 2,
        Calls <- UNION {{<<v, SizeOf(flags), ProtsAt[v]>> : flags \in FlagsAt[v]} : v \in Vaddrs}

ImplementsMap == Abstract!Spec

(* No table has two parents, except that the tables right under the roots' *)
(* kernel half are the kernel's own: what one space maps in its user half  *)
(* stays its own.                                                          *)
TablesNotShared ==
    \A t, u \in DOMAIN mem, i, j \in 0..(Fan - 1) :
        LET e == mem[t][i] IN
        <<t, i>> # <<u, j>> /\ "P" \in e.f /\ e.a \in DOMAIN mem /\ e.a = mem[u][j].a
        => i = j /\ KernelHalf(i) /\ \E r, s \in Spaces : pmlt[r] = t /\ pmlt[s] = u

(* "Allocate a new page for the entry": when pmm_alloc has none,           *)
(* descend_table panics and leaves no entry that is present.               *)
EntriesAllocated ==
    \A t \in DOMAIN mem, i \in 0..(Fan - 1) :
        "P" \in mem[t][i].f => mem[t][i].a # NoFrame

(* "Entry is already present": what descend_table follows is a table, and  *)
(* not the frame of a large page.                                          *)
FollowsTables == ~wild

(* "2 mb page mapping": pmap_translate reports for every mapped page the   *)
(* protections the processor enforces.                                     *)
TranslateAgrees ==
    \A s \in Spaces, v \in 0..(NPages - 1) :
        \A m \in Mmu(s, v), p \in PmapTranslate(s, v) : p.prot = m.prot
=============================================================================
