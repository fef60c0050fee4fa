------------------------------ MODULE PmmInit -------------------------------
(***************************************************************************)
(* pmm_init of kernel/mm/physical.c: three passes over the memory map of   *)
(* the bootloader.  The first sizes the metadata buffer and drops the      *)
(* first megabyte, the second carves the buffer out of a region, the third *)
(* puts a struct pmm_module and a bitmap into it for every usable region.  *)
(* Addresses are bytes.                                                    *)
(***************************************************************************)
EXTENDS Integers, Sequences

CONSTANTS
    Maps,           \* memory maps: sequences of [usable, base, length]
    ModuleSize      \* sizeof(struct pmm_module)

PAGE_SIZE == 4096
Low == 1048576      \* 0x100000
NoBuffer == -1

AlignUp(x, a) == ((x + a - 1) \div a) * a
DivRoundup(x, a) == (x + a - 1) \div a

(* The bootloader's regions are whole pages and in order.  On a PC no      *)
(* usable one reaches up to the end of the first megabyte.                 *)
MapsAssumption ==
    /\ ModuleSize \in Nat \ {0}
    /\ \A map \in Maps : \A i \in 1..Len(map) :
          /\ map[i].base % PAGE_SIZE = 0 /\ map[i].length % PAGE_SIZE = 0
          /\ i > 1 => map[i - 1].base + map[i - 1].length <= map[i].base
          /\ map[i].usable /\ map[i].base < Low =>
                map[i].base + map[i].length < Low

VARIABLES
    given,          \* the map as the bootloader left it
    mmap, pass, i,
    buffer_size, meta_buffer,
    modules         \* the list: [base, pages, start, end], with the bytes
                    \* of the structure and of its bitmap

vars == <<given, mmap, pass, i, buffer_size, meta_buffer, modules>>

Init ==
    /\ given \in Maps
    /\ mmap = given
    /\ pass = 1 /\ i = 1
    /\ buffer_size = 0
    /\ meta_buffer = NoBuffer
    /\ modules = <<>>

(* The end of an iteration. *)
Advance(last) ==
    /\ i' = IF last THEN 1 ELSE i + 1
    /\ pass' = IF last THEN pass + 1 ELSE pass

MetaSize(length) ==
    ModuleSize * 2 + DivRoundup(DivRoundup(length, PAGE_SIZE), 8)

(* What the first pass makes of a region that starts in the first          *)
(* megabyte.  A region that reaches beyond it moves up and keeps its       *)
(* length: the code subtracts the distance from the base it has already    *)
(* moved.                                                                  *)
Trim(e) == IF e.base >= Low THEN e
           ELSE IF Low - e.base > e.length THEN [e EXCEPT !.length = 0]
                ELSE [e EXCEPT !.base = Low]

SizeBuffer ==
    /\ pass = 1
    /\ buffer_size' = IF mmap[i].usable
                      THEN buffer_size + MetaSize(mmap[i].length)
                      ELSE buffer_size
    /\ mmap' = [mmap EXCEPT ![i] = Trim(mmap[i])]
    /\ Advance(i = Len(mmap))
    /\ UNCHANGED <<given, meta_buffer, modules>>

CarveWhole(e, size) == [e EXCEPT !.length = 0]

(* The region that gives up the buffer keeps the whole pages behind it. *)
Carve(e, size) ==
    [e EXCEPT !.base = AlignUp(@ + size, PAGE_SIZE),
              !.length = ((@ - size) \div PAGE_SIZE) * PAGE_SIZE]

PlaceBuffer ==
    LET fits == mmap[i].usable /\ mmap[i].length >= buffer_size IN
    /\ pass = 2
    /\ meta_buffer' = IF fits THEN mmap[i].base ELSE meta_buffer
    /\ mmap' = [mmap EXCEPT ![i] = IF fits THEN Carve(@, buffer_size) ELSE @]
    /\ Advance(fits \/ i = Len(mmap))
    /\ UNCHANGED <<given, buffer_size, modules>>

(* pmm_init_module: the structure is aligned to its size and two of them   *)
(* are skipped before the bitmap.                                          *)
CreateModule ==
    /\ pass = 3
    /\ IF mmap[i].usable /\ mmap[i].length # 0
       THEN LET start == AlignUp(meta_buffer, ModuleSize)
                pages == DivRoundup(mmap[i].length, PAGE_SIZE)
                end == start + ModuleSize * 2 + DivRoundup(pages, 8)
            IN /\ modules' = Append(modules,
                                [base |-> mmap[i].base, pages |-> pages,
                                 start |-> start, end |-> end])
               /\ meta_buffer' = end
       ELSE UNCHANGED <<modules, meta_buffer>>
    /\ Advance(i = Len(mmap))
    /\ UNCHANGED <<given, mmap, buffer_size>>

Done == pass = 4 /\ UNCHANGED vars

Next == SizeBuffer \/ PlaceBuffer \/ CreateModule \/ Done

Spec == Init /\ [][Next]_vars

-----------------------------------------------------------------------------
(* The pages of every module are whole pages of a region the bootloader    *)
(* called usable, above the first megabyte, and no page is in two modules  *)
(* or under the space set aside for the metadata.                          *)
End(m) == m.base + m.pages * PAGE_SIZE

ModulesUsable ==
    \A k \in 1..Len(modules) :
        LET m == modules[k] IN
        /\ m.base % PAGE_SIZE = 0 /\ m.base >= Low
        /\ \E j \in 1..Len(given) :
              /\ given[j].usable
              /\ given[j].base <= m.base
              /\ End(m) <= given[j].base + given[j].length
        /\ \A n \in 1..(k - 1) : End(modules[n]) <= m.base

(* Every usable region above the first megabyte is in a module up to its   *)
(* last page, and starts there no later than the metadata requires.        *)
NothingLost ==
    pass = 4 =>
        \A j \in 1..Len(given) :
            given[j].usable /\ given[j].base >= Low
            /\ given[j].length > AlignUp(buffer_size, PAGE_SIZE) =>
                \E k \in 1..Len(modules) :
                    /\ End(modules[k]) = given[j].base + given[j].length
                    /\ modules[k].base <=
                          given[j].base + AlignUp(buffer_size, PAGE_SIZE)

(* "calcuate the size the metabuffer needs to be" (physical.c:114): the    *)
(* modules and bitmaps never reach into pages that a module hands out.     *)
MetaFits ==
    \A k, n \in 1..Len(modules) :
        \/ modules[k].end <= modules[n].base
        \/ modules[k].start >= End(modules[n])
=============================================================================
