----------------------------- MODULE AddressMap ------------------------------
(***************************************************************************)
(* What the page tables of a set of address spaces promise: each space     *)
(* maps virtual pages to physical pages with protections, and the pages of *)
(* the kernel half are mapped alike in all of them.                        *)
(***************************************************************************)
EXTENDS Integers

CONSTANTS
    Spaces, Kernel,     \* all address spaces, and the kernel's
    NPages, KernelBase, \* virtual pages are numbered; the kernel's come last
    Calls,              \* a page, a number of pages, and their protections
    Frames

VARIABLES
    spaces,     \* the spaces that exist
    map         \* what a page of a space is mapped to: a set of one, or none

NotMapped == {}

Pages == 0..(NPages - 1)

Init ==
    /\ spaces = {Kernel}
    /\ map = [s \in Spaces |-> [v \in Pages |-> NotMapped]]

(* A new space maps no user page, and what the kernel maps. *)
New(s) ==
    /\ s \in Spaces \ spaces
    /\ spaces' = spaces \cup {s}
    /\ map' = [map EXCEPT ![s] = [v \in Pages |->
                  IF v >= KernelBase THEN map[Kernel][v] ELSE NotMapped]]

(* The n pages from v of space s become E(page); all spaces see it if they *)
(* are the kernel's.  (The second conjunct follows from the third.)        *)
Change(s, v, n, E(_)) ==
    /\ s \in spaces
    /\ \A x \in v..(v + n - 1) : map'[s][x] = E(x)
    /\ map' = [u \in Spaces |-> [x \in Pages |->
                  IF x \in v..(v + n - 1) /\ (u = s \/ (v >= KernelBase /\ u \in spaces))
                  THEN E(x) ELSE map[u][x]]]
    /\ UNCHANGED spaces

Map(s, v, n, p, prot) ==
    Change(s, v, n, LAMBDA x : IF "P" \in prot THEN {[frame |-> p + (x - v), prot |-> prot]}
                               ELSE NotMapped)

Unmap(s, v, n) == Change(s, v, n, LAMBDA x : NotMapped)

Next ==
    \E s \in Spaces :
        \/ New(s)
        \/ \E c \in Calls :
              \/ Unmap(s, c[1], c[2])
              \/ \E p \in Frames, prot \in c[3] : Map(s, c[1], c[2], p, prot)

Spec == Init /\ [][Next]_<<spaces, map>>
=============================================================================
