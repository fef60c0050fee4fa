------------------------------ MODULE MCMemory ------------------------------
(***************************************************************************)
(* The kernel's memory, for TLC: how pmm_init reads the memory map         *)
(* (PmmInit), the bitmaps of frames (Pmm), the object caches (Slab) and    *)
(* the layout of a slab (SlabLayout).  The models share no state, so a     *)
(* behaviour follows one of them, the part, and leaves the others in one   *)
(* of their initial states.                                                *)
(***************************************************************************)
EXTENDS Pmm, TLC

-----------------------------------------------------------------------------
(* Pmm: a region of six pages, requests of several sizes and alignments. *)
OneRegion == <<[base |-> 1, len |-> 6]>>
Mixed == {[cnt |-> 1, align |-> 1], [cnt |-> 2, align |-> 2],
          [cnt |-> 3, align |-> 1], [cnt |-> 4, align |-> 2]}

(* And two regions, where pmm_free may choose the wrong one, which has     *)
(* variables of its own: the first instance implements a pool of pages.    *)
VARIABLES bitmaps, hints, handed_out, walk, wanted

regionVars == <<bitmaps, hints, handed_out, walk, wanted>>

TwoRegions == <<[base |-> 2, len |-> 3], [base |-> 6, len |-> 2]>>
Few == {[cnt |-> 1, align |-> 1], [cnt |-> 2, align |-> 2]}

Several == INSTANCE Pmm WITH
    Regions <- TwoRegions, Requests <- Few, bitmap <- bitmaps,
    last_free <- hints, blocks <- handed_out, module <- walk, request <- wanted

-----------------------------------------------------------------------------
(* PmmInit: the map of a virtual machine, with low memory, a reserved      *)
(* hole, and usable regions of the given numbers of pages, each with 16    *)
(* reserved pages after it.                                                *)
VARIABLES given, mmap, pass, i, buffer_size, meta_buffer, modules

bootVars == <<given, mmap, pass, i, buffer_size, meta_buffer, modules>>

Entry(usable, page, pages) ==
    [usable |-> usable, base |-> page * 4096, length |-> pages * 4096]
Map(a, b, c) ==
    <<Entry(TRUE, 1, 158), Entry(FALSE, 159, 97), Entry(TRUE, 256, a),
      Entry(FALSE, 256 + a, 16), Entry(TRUE, 272 + a, b),
      Entry(TRUE, 288 + a + b, c), Entry(TRUE, 304 + a + b + c, c),
      Entry(TRUE, 320 + a + b + 2 * c, c)>>

SmallMaps == {Map(a, b, c) : a \in {1, 2, 3, 9}, b \in {1, 8, 200}, c \in 1..9}

Boot == INSTANCE PmmInit WITH Maps <- SmallMaps, ModuleSize <- 56

ASSUME BootAssumption == Boot!MapsAssumption

-----------------------------------------------------------------------------
(* Slab: two threads on two CPUs, three magazines of one round and two     *)
(* slabs of two buffers; and a thread with magazines of two rounds, which  *)
(* can be partly filled.  Threads, CPUs, magazines and pages are           *)
(* interchangeable.                                                        *)
CONSTANTS CPUs, Magazines, Slabs, Capacity, MagazineSize, NULL,
          OneThread, OneCPU, OneSlab

VARIABLES
    magazines_enabled, cpu_lock, loaded, previous, rounds, rounds_previous,
    slots, full_magazines, empty_magazines, fresh, slabs, full_slabs, buflist,
    refcount, unused, allocated, pc, cpu, buf, mag, slab

cacheVars ==
    <<magazines_enabled, cpu_lock, loaded, previous, rounds, rounds_previous,
      slots, full_magazines, empty_magazines, fresh, slabs, full_slabs, buflist,
      refcount, unused, allocated, pc, cpu, buf, mag, slab>>

Cache == INSTANCE Slab
Rounds == INSTANCE Slab WITH
    Threads <- {OneThread}, CPUs <- {OneCPU}, Slabs <- {OneSlab},
    Capacity <- 4, MagazineSize <- 2

ASSUME CacheAssumption ==
    /\ Cache!SlabAssumption /\ Cache!NULLIsNoBuffer
    /\ Rounds!SlabAssumption /\ Rounds!NULLIsNoBuffer

Symmetric == Permutations(Threads) \cup Permutations(CPUs)
                \cup Permutations(Magazines) \cup Permutations(Slabs)

-----------------------------------------------------------------------------
(* SlabLayout: sizes around every boundary the code compares with. *)
VARIABLES cp, color, buffers, block

layoutVars == <<cp, color, buffers, block>>

AllSizes == 1..72 \cup {100, 120, 128, 250, 256, 264, 384, 500, 511, 512, 513, 520,
                        768, 1000, 1024, 1152, 2048, 5000}
AllMallocSizes == {0, 1, 8, 9, 504, 505, 1016, 1017, 2040, 2041, 2048, 4088, 4089}

Layout == INSTANCE SlabLayout WITH
    Sizes <- AllSizes, Aligns <- {0, 16, 64}, MallocSizes <- AllMallocSizes

ASSUME LayoutSizes == Layout!LayoutAssumption

-----------------------------------------------------------------------------
VARIABLE part

MCInit ==
    /\ part \in {"boot", "frames", "regions", "caches", "rounds", "layout"}
    /\ Boot!Init /\ (part # "boot" => given = Map(1, 1, 1))
    /\ Layout!Init /\ (part # "layout" => cp = Layout!KmemCacheCreate(8, 0))
    /\ IF part = "rounds" THEN Rounds!Init ELSE Cache!Init
    /\ Several!Init
    /\ Init

MCNext ==
    /\ \/ /\ part = "frames" /\ Next
          /\ UNCHANGED <<regionVars, bootVars, cacheVars, layoutVars>>
       \/ /\ part = "regions" /\ Several!Next
          /\ UNCHANGED <<vars, bootVars, cacheVars, layoutVars>>
       \/ /\ part = "boot" /\ Boot!Next
          /\ UNCHANGED <<vars, regionVars, cacheVars, layoutVars>>
       \/ /\ part = "caches" /\ Cache!Next
          /\ UNCHANGED <<vars, regionVars, bootVars, layoutVars>>
       \/ /\ part = "rounds" /\ Rounds!Next
          /\ UNCHANGED <<vars, regionVars, bootVars, layoutVars>>
       \/ /\ part = "layout" /\ Layout!Next
          /\ UNCHANGED <<vars, regionVars, bootVars, cacheVars>>
    /\ UNCHANGED part

MCSpec ==
    MCInit /\ [][MCNext]_<<vars, regionVars, bootVars, cacheVars, layoutVars, part>>

-----------------------------------------------------------------------------
(* The properties of the parts; their modules say what they mean. *)

(* With several regions, and pages that pmm_free clears in the bitmap of   *)
(* another region, the hint still hides no region's last free page.        *)
FoundInEach == part = "regions" => Several!PageFoundIfAny

(* Every usable page above the first megabyte is in exactly one of the     *)
(* modules pmm_init makes, or was taken for their bitmaps.                 *)
ModulesExact == part = "boot" => Boot!ModulesUsable /\ Boot!NothingLost

(* kmem_cache_alloc and kmem_cache_free neither lose nor double a buffer.  *)
EveryBufferOnce ==
    /\ part = "caches" => Cache!EveryBufferOnce
    /\ part = "rounds" => Rounds!EveryBufferOnce

(* A magazine is in one place: loaded, previous, in the depot or on its    *)
(* way between them.                                                       *)
EveryMagazineOnce ==
    /\ part = "caches" => Cache!EveryMagazineOnce
    /\ part = "rounds" => Rounds!EveryMagazineOnce

(* The refcount of a slab counts the buffers that are out of it, and every *)
(* variable of a cache stays in its range.                                 *)
SlabAccounts ==
    /\ part = "caches" => Cache!TypeOK /\ Cache!SlabAccounts
    /\ part = "rounds" => Rounds!TypeOK /\ Rounds!SlabAccounts

(* slab_create puts aligned buffers, each with its link inside, before the *)
(* slab's header or end, as many with a colour as without; and kmem_malloc *)
(* serves the size asked for and the hidden word.                          *)
LayoutFits ==
    part = "layout" =>
        /\ Layout!BuffersFit /\ Layout!ColorCostsNothing
        /\ Layout!BufctlInChunk /\ Layout!MallocFits
=============================================================================
