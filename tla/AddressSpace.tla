----------------------------- MODULE AddressSpace -----------------------------
(***************************************************************************)
(* Address spaces and the as_action system call (mm/address.c), for        *)
(* callers that do not run at the same time: nothing in address.c takes    *)
(* the lock of struct address_space.                                       *)
(*                                                                         *)
(* A capability is the number of the address space it stands for; what     *)
(* capability_lookup does is in Ports.  as_insert_hole is never called, so *)
(* that the list of holes is empty.  Addresses have Width bits.            *)
(***************************************************************************)
EXTENDS Integers, FiniteSets

CONSTANTS
    Width,      \* bits of uintptr_t and size_t
    Base,       \* 0xa0000000 in address_space_construct
    Limit,      \* 0x0000fffffffff0ff
    MaxSpaces,  \* bound: address spaces constructed
    Sizes       \* the lengths callers ask for

Wrap(n) == n % 2^Width

(* No length makes as->current + size wrap: that takes one of more than    *)
(* 2^64 - 2^48 - 2^32 bytes.                                               *)
AddressSpaceAssumption ==
    /\ Width \in Nat /\ Base \in Nat /\ Limit \in Nat /\ MaxSpaces \in Nat
    /\ Base + Limit < 2^Width
    /\ Sizes \subseteq 0..(2^Width - 1 - Base - Limit)

VARIABLES
    as_table,   \* the address spaces, by asid
    asid_bump,
    given       \* every range a caller was given: asid, first and last byte

vars == <<as_table, asid_bump, given>>

Init == as_table = <<>> /\ asid_bump = 0 /\ given = {}

(* AS_ACTION_CONSTRUCT: address_push_as numbers the new space. *)
Construct ==
    /\ asid_bump < MaxSpaces
    /\ as_table' = [i \in 0..asid_bump |->
           IF i = asid_bump THEN [current |-> Base, base |-> Base, limit |-> Limit]
           ELSE as_table[i]]
    /\ asid_bump' = asid_bump + 1
    /\ UNCHANGED given

(* The test of as_address *)
Fits(as, size) == size # 0 /\ Wrap(as.current + size) <= Wrap(as.base + as.limit)

AdvanceFromBase(as, size) == [as EXCEPT !.current = Wrap(as.base + size)]

(* as_address moves as->current past what it gives out. *)
Advance(as, size) == [as EXCEPT !.current = Wrap(@ + size)]

(* AS_ACTION_ALLOCATE *)
Allocate(asid, size) ==
    /\ Fits(as_table[asid], size)
    /\ as_table' = [as_table EXCEPT ![asid] = Advance(@, size)]
    /\ given' = given \cup {[asid |-> asid, first |-> as_table[asid].current,
                             last |-> Wrap(as_table[asid].current + size - 1)]}
    /\ UNCHANGED asid_bump

(* An allocation that as_address refuses, and AS_ACTION_FREE, which only   *)
(* looks the space up, change nothing.                                     *)
Refuse(asid, size) == ~Fits(as_table[asid], size) /\ UNCHANGED vars

Free(asid) == UNCHANGED vars

Next ==
    \/ Construct
    \/ \E asid \in DOMAIN as_table :
          \/ \E size \in Sizes : Allocate(asid, size) \/ Refuse(asid, size)
          \/ Free(asid)

Spec == Init /\ [][Next]_vars

-----------------------------------------------------------------------------
(* Two ranges that as_action gave out of one address space never have an   *)
(* address in common, whatever was asked for or freed in between.          *)
RangesApart ==
    \A r, s \in given : r # s /\ r.asid = s.asid => r.last < s.first \/ s.last < r.first

(* Every range lies between the base and the limit of its space, and does  *)
(* not wrap around.                                                        *)
RangesInside ==
    \A r \in given :
        Base <= r.first /\ r.first <= r.last /\ r.last < Base + Limit
=============================================================================
