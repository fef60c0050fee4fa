----------------------------- MODULE SlabLayout -----------------------------
(***************************************************************************)
(* Sizes, offsets and colours of kernel/mm/slab.c: what kmem_cache_create  *)
(* computes for a cache, where slab_create puts the buffers of successive  *)
(* slabs, and which cache serves a kmem_malloc.  Addresses are offsets     *)
(* from the start of the slab, which is page aligned.                      *)
(***************************************************************************)
EXTENDS Integers

CONSTANTS
    Sizes,          \* object sizes passed to kmem_cache_create
    Aligns,         \* alignments passed to it; 0 asks for the default
    MallocSizes     \* sizes passed to kmem_malloc

LayoutAssumption ==
    /\ Sizes \subseteq Nat \ {0}
    /\ Aligns \subseteq {0, 8, 16, 32, 64}
    /\ MallocSizes \subseteq Nat

PAGE_SIZE == 4096
SLAB_ALIGN == 8
SMALL_SLAB_SIZE == 512
OBJECTS_PER_SLAB == 16
KmemSlabSize == 32      \* sizeof(struct kmem_slab)
WordSize == 8           \* sizeof(size_t), sizeof(void *)

AlignUp(x, a) == ((x + a - 1) \div a) * a

(* generic_caches[0..8] *)
GenericSizes == {8, 16, 32, 64, 128, 256, 512, 1024, 2048}

VARIABLES
    cp,         \* the struct kmem_cache
    color,      \* cp->color
    buffers,    \* the buffers of the last slab created
    block       \* what kmem_malloc gave out: at most one [size, served]

vars == <<cp, color, buffers, block>>

(* The space that no chunk uses; a small slab keeps its header there too. *)
Maxcolor(slab_size, object_size, chunk_size) ==
    IF object_size <= SMALL_SLAB_SIZE
    THEN (slab_size - KmemSlabSize) % chunk_size
    ELSE slab_size % chunk_size

(* The link of a free buffer is in the last word of the object. *)
BufctlOffset(size) == AlignUp(size, SLAB_ALIGN) - SLAB_ALIGN

(* kmem_cache_create; every alignment in use is at least SLAB_ALIGN. *)
KmemCacheCreate(size, align) ==
    LET object_align == IF align = 0 THEN SLAB_ALIGN ELSE align
        chunk_size == AlignUp(AlignUp(size, SLAB_ALIGN), object_align)
        slab_size == IF size <= SMALL_SLAB_SIZE
                     THEN PAGE_SIZE
                     ELSE AlignUp(chunk_size * OBJECTS_PER_SLAB, PAGE_SIZE)
    IN [object_size |-> size, object_align |-> object_align,
        chunk_size |-> chunk_size, slab_size |-> slab_size,
        offset |-> BufctlOffset(size),
        maxcolor |-> Maxcolor(slab_size, size, chunk_size)]

Init ==
    /\ \E size \in Sizes, align \in Aligns : cp = KmemCacheCreate(size, align)
    /\ color = 0
    /\ buffers = {}
    /\ block = {}

(* The room for buffers: slab_create_small keeps the header in the page,   *)
(* slab_create_large has it elsewhere.                                     *)
Room == IF cp.object_size <= SMALL_SLAB_SIZE
        THEN PAGE_SIZE - KmemSlabSize
        ELSE cp.slab_size

ShiftColorUnchecked(c) == c + cp.object_align

(* The colour of the next slab. *)
ShiftColor(c) ==
    IF c + cp.object_align > cp.maxcolor THEN 0 ELSE c + cp.object_align

SlabCreate ==
    /\ color' = ShiftColor(color)
    /\ buffers' = {color' + i * cp.chunk_size :
                      i \in 0..(((Room - color') \div cp.chunk_size) - 1)}
    /\ UNCHANGED <<cp, block>>

(* The block kmem_malloc serves: get_cache_index on the size with a hidden *)
(* word finds the smallest generic cache that holds both, or else the      *)
(* block is whole pages.  kmem_free reads the size back from that word.    *)
ServedSize(size) ==
    LET real_size == size + WordSize IN
    IF real_size > 2048
    THEN AlignUp(real_size, PAGE_SIZE)
    ELSE CHOOSE g \in GenericSizes :
            /\ g >= real_size
            /\ \A h \in GenericSizes : h >= real_size => g <= h

KmemMalloc ==
    /\ block = {}
    /\ \E size \in MallocSizes : block' = {[size |-> size, served |-> ServedSize(size)]}
    /\ UNCHANGED <<cp, color, buffers>>

KmemFree ==
    /\ block # {} /\ block' = {}
    /\ UNCHANGED <<cp, color, buffers>>

Next == SlabCreate \/ KmemMalloc \/ KmemFree

Spec == Init /\ [][Next]_vars

-----------------------------------------------------------------------------
(* Every buffer slab_create hands out is aligned as asked and lies before  *)
(* the slab's header (or the end of a large slab), whatever the colour.    *)
BuffersFit ==
    \A b \in buffers :
        /\ b % cp.object_align = 0
        /\ b + cp.object_size <=
              IF cp.object_size <= SMALL_SLAB_SIZE
              THEN PAGE_SIZE - KmemSlabSize ELSE cp.slab_size

(* The colour uses only the space that is left over: every slab of a cache *)
(* has as many buffers as one without colour.                              *)
ColorCostsNothing ==
    buffers # {} =>
        \E b \in buffers : b \div cp.chunk_size + 1 = Room \div cp.chunk_size

(* The link that a free buffer carries is aligned and inside its chunk, so *)
(* that freeing a buffer never writes to its neighbour.                    *)
BufctlInChunk ==
    /\ cp.offset % WordSize = 0
    /\ cp.offset >= 0
    /\ cp.offset + WordSize <= cp.chunk_size
    /\ cp.object_size <= cp.chunk_size

(* What kmem_malloc returns holds the hidden size word and all the bytes   *)
(* that were asked for, across the boundary from caches to pages, and      *)
(* kmem_free, which only has that word, gives it back where it came from.  *)
MallocFits ==
    \A b \in block : b.size + WordSize <= b.served /\ b.served = ServedSize(b.size)
=============================================================================
