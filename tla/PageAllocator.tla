--------------------------- MODULE PageAllocator ----------------------------
(***************************************************************************)
(* What callers of pmm_alloc and pmm_free rely on: a pool of pages from    *)
(* which aligned runs are taken and to which they return.                  *)
(***************************************************************************)
EXTENDS Integers

CONSTANTS
    Pages,      \* the page numbers of usable memory
    Requests    \* the pairs of a count and an alignment that callers pass

VARIABLES
    free,       \* the pages nobody has
    blocks      \* the allocated runs, [base, cnt]

Run(b) == b.base .. (b.base + b.cnt - 1)

Init == free = Pages /\ blocks = {}

(* A run of free pages, no longer than asked and aligned. *)
Alloc ==
    \E q \in Requests, base \in Pages :
        LET b == [base |-> base, cnt |-> q.cnt] IN
        /\ base % q.align = 0
        /\ Run(b) \subseteq free
        /\ free' = free \ Run(b)
        /\ blocks' = blocks \cup {b}

Free ==
    \E b \in blocks :
        /\ free' = free \cup Run(b)
        /\ blocks' = blocks \ {b}

Next == Alloc \/ Free

Spec == Init /\ [][Next]_<<free, blocks>>
=============================================================================
