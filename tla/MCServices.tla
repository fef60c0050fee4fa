----------------------------- MODULE MCServices -----------------------------
(***************************************************************************)
(* What servers get from the kernel by system calls, for TLC: ports and    *)
(* their handles (Ports), ranges of an address space (AddressSpace) and    *)
(* portals (Portal).  The models share no state, so a behaviour follows    *)
(* one of them, the part, and leaves the others in their initial states.   *)
(***************************************************************************)
EXTENDS Ports, TLC

(* Ports: objects and threads of one process are interchangeable. *)
Symmetric == Permutations(Objects) \cup Permutations(Threads)

-----------------------------------------------------------------------------
(* AddressSpace: addresses of five bits; lengths that fit often, once and  *)
(* never, and the largest that cannot make the sum wrap.                   *)
VARIABLES as_table, asid_bump, given

spaceVars == <<as_table, asid_bump, given>>

Space == INSTANCE AddressSpace WITH
    Width <- 5, Base <- 3, Limit <- 9, MaxSpaces <- 2,
    Sizes <- {0, 1, 3, 8, 9, 10, 19}

ASSUME SpaceAssumption == Space!AddressSpaceAssumption

-----------------------------------------------------------------------------
(* Portal: every kind of request, few of each, by one thread; sharers of   *)
(* one identifier; and two threads at once.                                *)
CONSTANTS p1, p2

VARIABLES portals, entry, orbs, gateway, used, headers, call, resolved

portalVars == <<portals, entry, orbs, gateway, used, headers, call, resolved>>

Req(type, prot, addr, length, pcnt, id, create, link) ==
    [type |-> type, prot |-> prot, addr |-> addr, length |-> length, pcnt |-> pcnt,
     id |-> id, create |-> create, link |-> link, paddr |-> 100]

RW == {"READ", "WRITE"}
Anon(addr, length) == Req({"ANON"}, RW, addr, length, length, "", FALSE, FALSE)
Run(addr) == Req({"ANON", "CONTINUOUS", "PEEK"}, RW, addr, 2, 2, "", FALSE, FALSE)
Share(prot, addr, length, id, create, link) ==
    Req({"ANON", "SHARE"}, prot, addr, length, length, id, create, link)
Device(addr, create) ==
    Req({"DIRECT", "SHARE"}, RW, addr, 2, 0, "dev", create, FALSE)

Sharers == {Anon(1, 1), Share({"WRITE"}, 10, 1, "a", TRUE, FALSE),
            Share({"WRITE"}, 11, 2, "a", FALSE, FALSE)}
Kinds == Sharers \cup
    {Anon(4, 2), Run(2), Device(2, TRUE), Device(8, FALSE),
     Share(RW, 13, 1, "l", TRUE, TRUE),
     Req({"SHARE"}, RW, 13, 1, 1, "r", TRUE, TRUE),
     Req({"DIRECT", "SP"}, RW, 7, 1, 1, "", FALSE, FALSE),
     Req({"SP"}, RW, 7, 1, 1, "", FALSE, FALSE)}
Few == {Anon(1, 1), Anon(4, 2), Device(2, TRUE), Device(8, FALSE)}

One == INSTANCE Portal WITH
    Threads <- {p1}, Requests <- Kinds, NPages <- 14, NFrames <- 2,
    MaxPortals <- 2, pc <- call
Shared == INSTANCE Portal WITH
    Threads <- {p1}, Requests <- Sharers, NPages <- 14, NFrames <- 2,
    MaxPortals <- 3, pc <- call
Two == INSTANCE Portal WITH
    Threads <- {p1, p2}, Requests <- Few, NPages <- 10, NFrames <- 3,
    MaxPortals <- 3, pc <- call

ASSUME RequestsAssumption ==
    One!PortalAssumption /\ Shared!PortalAssumption /\ Two!PortalAssumption

-----------------------------------------------------------------------------
VARIABLE part

MCInit ==
    /\ part \in {"ports", "spaces", "one", "shared", "two"}
    /\ Init /\ Space!Init
    /\ IF part = "two" THEN Two!Init ELSE One!Init

MCNext ==
    /\ \/ /\ part = "ports" /\ Next
          /\ UNCHANGED <<spaceVars, portalVars>>
       \/ /\ part = "spaces" /\ Space!Next
          /\ UNCHANGED <<vars, portalVars>>
       \/ /\ \/ part = "one" /\ One!Next
             \/ part = "shared" /\ Shared!Next
             \/ part = "two" /\ Two!Next
          /\ UNCHANGED <<vars, spaceVars>>
    /\ UNCHANGED part

MCSpec == MCInit /\ [][MCNext]_<<vars, spaceVars, portalVars, part>>

-----------------------------------------------------------------------------
(* The properties of the parts; their modules say what they mean. *)

(* Ranges given out of one address space have no address in common, and    *)
(* lie between its base and its limit.                                     *)
RangesApart == Space!RangesApart /\ Space!RangesInside

(* A fault within an anonymous portal finds it, whatever the order in      *)
(* which portals were made.                                                *)
SearchFinds == IF part = "two" THEN Two!SearchFinds ELSE One!SearchFinds

(* The sharers of an object of physical memory see it in the same order,   *)
(* and every variable of the portals stays in its range.                   *)
DirectShared ==
    IF part = "two" THEN Two!TypeOK /\ Two!DirectShared
    ELSE One!TypeOK /\ One!DirectShared
=============================================================================
