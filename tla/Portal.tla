------------------------------- MODULE Portal -------------------------------
(***************************************************************************)
(* The memory portals of kernel/mm/portal.c: portal() with its handlers,   *)
(* and portal_resolve_fault, in the one address space this build has (that *)
(* of kprocess, kernel_mappings).  isr_handler_main's call of              *)
(* portal_resolve_fault is compiled out (idt.c:137); the module shows what *)
(* it does when called for each page that is touched and not present.      *)
(*                                                                         *)
(* No function here takes a lock, so the handlers of two threads           *)
(* interleave.  A byte address is PAGE_SIZE * page + offset.  A flag of    *)
(* prot has the value of the vm_prot flag of its name, READ that of        *)
(* VM_PROT_PRESENT; a page-table entry keeps them.  alloc is external, and *)
(* its memory is zero, as portal() needs it to be.                         *)
(***************************************************************************)
EXTENDS Integers, Sequences, FiniteSets

CONSTANTS
    Threads,
    Requests,       \* the portal_reqs made
    NPages,         \* pages of the address space
    NFrames,        \* bound: frames pmm_alloc has
    MaxPortals      \* bound: portals made

PAGE_SIZE == 2
None == 0
NoFrame == -1       \* what pmm_alloc returns when there is none
Pages == 0..(NPages - 1)

PortalAssumption ==
    /\ NPages \in Nat /\ NFrames \in Nat /\ MaxPortals \in Nat
    /\ \A r \in Requests :
          /\ r.type \subseteq {"DIRECT", "ANON", "SHARE", "SP", "CONTINUOUS", "PEEK"}
          /\ r.prot \subseteq {"READ", "WRITE", "EXEC"}
          /\ r.addr \in Pages /\ r.length \in Nat /\ r.pcnt \in Nat
          /\ r.create \in BOOLEAN /\ r.link \in BOOLEAN /\ r.paddr \in Int

VARIABLES
    portals,    \* the portals, in the order in which they were inserted
    entry,      \* the page table: [a |-> frame, f |-> flags]
    orbs,       \* the gateway_orbs
    gateway,    \* portal_gateway_map: pairs of an identifier and an orb
    used,       \* frames pmm_alloc has given out: 1..used
    headers,    \* the frames a portal_link was written to
    pc,         \* what each thread is about to do
    resolved    \* the page of a fault that was just resolved

vars == <<portals, entry, orbs, gateway, used, headers, pc, resolved>>

Idle == [at |-> "idle"]
At(stage, r, p, o) == [at |-> stage, req |-> r, portal |-> p, orb |-> o]

Init ==
    /\ portals = <<>> /\ orbs = <<>> /\ gateway = {}
    /\ entry = [v \in Pages |-> [a |-> 0, f |-> {}]]
    /\ used = 0 /\ headers = {}
    /\ pc = [t \in Threads |-> Idle]
    /\ resolved = None

Present(v) == "READ" \in entry[v].f
FrameAt(n) == IF used + n <= NFrames THEN used + n ELSE NoFrame

-----------------------------------------------------------------------------
OnPathSwapped(i, addr) ==
    \A j \in 1..(i - 1) :
        (portals[j].base > portals[i].base) <=> (portals[j].base < addr)

(* The tree of portals is not balanced: where a node is follows from the   *)
(* order of insertion.  A search for addr meets node i when no node above  *)
(* it, that is, none inserted before, leads elsewhere than it led i.       *)
OnPath(i, addr) ==
    \A j \in 1..(i - 1) :
        (portals[j].base > portals[i].base) <=> (portals[j].base > addr)

Covers(p, addr) == p.base <= addr /\ p.base + p.limit >= addr

(* The portal that portal_fault_anon serves addr from. *)
Serving(addr) ==
    LET hit == {i \in 1..Len(portals) : /\ OnPath(i, addr)
                                        /\ "ANON" \in portals[i].type
                                        /\ Covers(portals[i], addr)}
    IN IF hit = {} THEN None ELSE CHOOSE i \in hit : \A j \in hit : i <= j

(* portal_fault_anon, for an address served from portal i: the page is     *)
(* given a frame of its own, or that of the page of the orb, which is then *)
(* mapped where it was mapped first (its refcnt, which only portal_destroy *)
(* reads, is left out).                                                    *)
FaultPrivate(i, v) ==
    LET f == FrameAt(1) IN
    /\ used' = IF f = NoFrame THEN used ELSE f
    /\ entry' = [entry EXCEPT ![v] = [a |-> f, f |-> portals[i].prot \cup {"READ"}]]
    /\ UNCHANGED orbs

FaultShared(i, v) ==
    LET o == portals[i].orb
        n == v - portals[i].base \div PAGE_SIZE + 1
        page == orbs[o].pages[n]
        f == IF page.frame = None THEN FrameAt(1) ELSE page.frame
        home == IF page.frame = None THEN v ELSE page.vaddr
    IN /\ o # None /\ n <= Len(orbs[o].pages)
       /\ used' = IF page.frame = None /\ f # NoFrame THEN f ELSE used
       /\ orbs' = [orbs EXCEPT ![o].pages[n] =
                      [page EXCEPT !.frame = f, !.vaddr = home]]
       /\ entry' = [entry EXCEPT ![home] =
                      [a |-> f, f |-> portals[i].prot \cup {"READ"}]]

(* portal_resolve_fault for an access to addr, whose page is not present.  *)
ResolveFault(addr) ==
    LET i == Serving(addr)
        v == addr \div PAGE_SIZE
    IN /\ i # None
       /\ IF "SHARE" \in portals[i].type THEN FaultShared(i, v) ELSE FaultPrivate(i, v)
       /\ resolved' = v

(* A thread touches an address; a fault that cannot be resolved changes    *)
(* nothing here (isr_handler_main then stops the processor).               *)
Touch(addr) ==
    /\ addr \div PAGE_SIZE \in Pages /\ ~Present(addr \div PAGE_SIZE)
    /\ ResolveFault(addr)
    /\ UNCHANGED <<portals, gateway, headers, pc>>

-----------------------------------------------------------------------------
(* portal(): the portal is put into the tree, and then each class of the   *)
(* request is handled, in this order.  A thread's pc names the next one.   *)
Order == <<"DIRECT", "ANON", "SHARE", "SP">>

After(class, r) ==
    LET here == IF class = "" THEN 0 ELSE CHOOSE k \in 1..4 : Order[k] = class
        rest == {k \in (here + 1)..4 : Order[k] \in r.type}
    IN IF rest = {} THEN "done" ELSE Order[CHOOSE k \in rest : \A j \in rest : k <= j]

Begin(t) ==
    /\ pc[t].at = "idle" /\ Len(portals) < MaxPortals
    /\ \E r \in Requests :
          /\ portals' = Append(portals,
                [base |-> r.addr * PAGE_SIZE, limit |-> r.length * PAGE_SIZE,
                 type |-> {}, prot |-> r.prot, orb |-> None, freed |-> FALSE])
          /\ pc' = [pc EXCEPT ![t] = At(After("", r), r, Len(portals) + 1, None)]
    /\ resolved' = None /\ UNCHANGED <<entry, orbs, gateway, used, headers>>

Proceed(t, class) ==
    LET next == After(class, pc[t].req) IN
    pc' = [pc EXCEPT ![t] = IF next = "done" THEN Idle ELSE [@ EXCEPT !.at = next]]

(* A class is handled, and the portal has the flags in got. *)
Handled(t, class, got) ==
    /\ portals' = [portals EXCEPT ![pc[t].portal].type = @ \cup got]
    /\ Proceed(t, class)

Goto(t, stage, o) == pc' = [pc EXCEPT ![t].at = stage, ![t].orb = o]

(* portal_handle_direct: the first page it allocates has no frame to take  *)
(* the physical address from.                                              *)
HandleDirect(t) ==
    /\ pc[t].at = "DIRECT"
    /\ \/ pc[t].req.pcnt > 0 /\ Goto(t, "halted", None) /\ UNCHANGED portals
       \/ pc[t].req.pcnt = 0 /\ Handled(t, "DIRECT", {"DIRECT"})
    /\ resolved' = None /\ UNCHANGED <<entry, orbs, gateway, used, headers>>

(* portal_handle_anon; the page structures it makes are read by nothing    *)
(* that this build runs.                                                   *)
HandleAnon(t) ==
    LET r == pc[t].req
        run == "CONTINUOUS" \in r.type
    IN /\ pc[t].at = "ANON"
       /\ run => used + r.pcnt <= NFrames
       /\ used' = IF run THEN used + r.pcnt ELSE used
       /\ entry' = [v \in Pages |->
              IF run /\ v \in r.addr..(r.addr + r.pcnt - 1)
              THEN [a |-> used + 1 + v - r.addr, f |-> r.prot \ {"READ"}]
              ELSE entry[v]]
       /\ Handled(t, "ANON", {"ANON"} \cup
              (IF run THEN r.type \cap {"CONTINUOUS", "PEEK"} ELSE {}))
       /\ resolved' = None /\ UNCHANGED <<orbs, gateway, headers>>

(* portal_handle_share looks for the orb; there may be none, and then      *)
(* portal() frees the portal, which stays in the tree; the model keeps its *)
(* fields, as they are while the memory has no new owner.                  *)
ShareSearch(t) ==
    LET r == pc[t].req
        known == {g \in gateway : g[1] = r.id}
    IN /\ pc[t].at = "SHARE"
       /\ \/ \E g \in known : Goto(t, "map", g[2]) /\ UNCHANGED portals
          \/ known = {} /\ r.create /\ Goto(t, "create", None) /\ UNCHANGED portals
          \/ /\ known = {} /\ ~r.create
             /\ portals' = [portals EXCEPT ![pc[t].portal].freed = TRUE]
             /\ pc' = [pc EXCEPT ![t] = Idle]
       /\ resolved' = None /\ UNCHANGED <<entry, orbs, gateway, used, headers>>

ShareCreate(t) ==
    LET r == pc[t].req
        page(i) == IF "DIRECT" \in r.type
                   THEN [vaddr |-> r.addr + i - 1, paddr |-> r.paddr + i - 1,
                         frame |-> None]
                   ELSE [vaddr |-> 0, paddr |-> 0, frame |-> None]
    IN /\ pc[t].at = "create"
       /\ orbs' = Append(orbs, [pages |-> [i \in 1..r.length |-> page(i)]])
       /\ gateway' = gateway \cup {<<r.id, Len(orbs) + 1>>}
       /\ Goto(t, IF r.link THEN "link" ELSE "map", Len(orbs) + 1)
       /\ resolved' = None /\ UNCHANGED <<portals, entry, used, headers>>

(* The creator writes the portal_link, before the pages are mapped. *)
ShareLink(t) ==
    LET r == pc[t].req
        addr == r.addr * PAGE_SIZE
    IN /\ pc[t].at = "link"
       /\ \/ /\ Present(r.addr) /\ Goto(t, "map", pc[t].orb)
             /\ headers' = headers \cup {entry[r.addr].a}
             /\ resolved' = None /\ UNCHANGED <<entry, orbs, used>>
          \/ /\ ~Present(r.addr) /\ Serving(addr) # None
             /\ ResolveFault(addr) /\ Goto(t, "map", pc[t].orb)
             /\ headers' = headers \cup {entry'[r.addr].a}
          \/ /\ ~Present(r.addr) /\ Serving(addr) = None
             /\ Goto(t, "halted", None)
             /\ resolved' = None /\ UNCHANGED <<entry, orbs, used, headers>>
       /\ UNCHANGED <<portals, gateway>>

(* All pages of the orb are mapped, whatever the length of the portal. *)
SharedEntryStuck(pages, r, v) ==
    LET page == pages[v - r.addr + 1] IN
    [a |-> IF pages[1].frame = None THEN pages[1].paddr ELSE page.frame,
     f |-> r.prot]
SharedEntry(pages, r, v) ==
    LET page == pages[v - r.addr + 1] IN
    [a |-> IF page.frame = None THEN page.paddr ELSE page.frame, f |-> r.prot]

ShareMap(t) ==
    LET r == pc[t].req
        pages == orbs[pc[t].orb].pages
    IN /\ pc[t].at = "map"
       /\ entry' = [v \in Pages |-> IF v \in r.addr..(r.addr + Len(pages) - 1)
                                    THEN SharedEntry(pages, r, v) ELSE entry[v]]
       /\ portals' = [portals EXCEPT ![pc[t].portal].type = @ \cup {"SHARE"},
                                     ![pc[t].portal].orb = pc[t].orb]
       /\ Proceed(t, "SHARE")
       /\ resolved' = None /\ UNCHANGED <<orbs, gateway, used, headers>>

HandleSp(t) ==
    /\ pc[t].at = "SP"
    /\ Handled(t, "SP", {"SP"})
    /\ resolved' = None /\ UNCHANGED <<entry, orbs, gateway, used, headers>>

Next ==
    \/ \E addr \in 0..(PAGE_SIZE * NPages - 1) : Touch(addr)
    \/ \E t \in Threads :
          \/ Begin(t) \/ HandleDirect(t) \/ HandleAnon(t) \/ HandleSp(t)
          \/ ShareSearch(t) \/ ShareCreate(t) \/ ShareLink(t) \/ ShareMap(t)

Spec == Init /\ [][Next]_vars

-----------------------------------------------------------------------------
(* The portals whose requests have been answered. *)
Finished == {i \in 1..Len(portals) :
                ~portals[i].freed /\ \A t \in Threads :
                    pc[t].at # "idle" => pc[t].portal # i}

TypeOK ==
    /\ entry \in [Pages -> [a : Int, f : SUBSET {"READ", "WRITE", "EXEC"}]]
    /\ used \in 0..NFrames
    /\ \A i \in Finished : portals[i].orb \in 0..Len(orbs)

Apart(p, q) == p.base + p.limit <= q.base \/ q.base + q.limit <= p.base

(* Whatever the order in which portals were made, and although some were   *)
(* refused on the way, a fault within an anonymous portal that overlaps    *)
(* no other finds that portal, unless it is at the very end of another:    *)
(* the descent of portal_fault_anon never turns away from it.              *)
SearchFinds ==
    \A i \in Finished : "ANON" \in portals[i].type =>
        LET p == portals[i]
            others == {portals[j] : j \in (1..Len(portals)) \ {i}}
        IN (\A q \in others : Apart(p, q)) =>
               \A addr \in p.base..(p.base + p.limit - 1) :
                   (\A q \in others : addr # q.base + q.limit) => Serving(addr) = i

(* Two portals made with the same identifier are the same shared memory:   *)
(* "The kernel will maintain a table describing all shared memory portals. *)
(* Each with an identifier" (DESIGN.md).                                   *)
OneOrb == \A g, h \in gateway : g[1] = h[1] => g = h

(* The portals of one orb made of physical memory show it page by page in  *)
(* the same order, through every portal, for as long as nothing else is    *)
(* mapped over them.                                                       *)
DirectShared ==
    \A i \in Finished :
        LET p == portals[i]
            n == Len(orbs[p.orb].pages)
            first == p.base \div PAGE_SIZE
        IN {"SHARE", "DIRECT"} \subseteq p.type
             /\ (\A j \in (1..Len(portals)) \ {i} : Apart(portals[j],
                     [base |-> p.base, limit |-> n * PAGE_SIZE]))
           => \A k \in 1..n : entry[first + k - 1].a = orbs[p.orb].pages[1].paddr + k - 1

(* "Creates an anonymous mapping of a specified size" (DESIGN.md): no      *)
(* fault is served from a portal that the address is outside of.           *)
SpecifiedSize ==
    \A addr \in 0..(PAGE_SIZE * NPages - 1) :
        Serving(addr) # None =>
            addr < portals[Serving(addr)].base + portals[Serving(addr)].limit

(* "Is used to create a direct map for a specified region in physical      *)
(* memory" (DESIGN.md): the thread that asks for one gets it.              *)
DirectMade == \A t \in Threads : pc[t].at # "halted"

(* "a pointer to the physical memory of the shared object" (DESIGN.md):    *)
(* the objects of two identifiers are not in the same memory.              *)
OrbsApart ==
    \A i, j \in Finished :
        LET p == portals[i]
            q == portals[j]
            v == p.base \div PAGE_SIZE
            w == q.base \div PAGE_SIZE
        IN p.orb # q.orb /\ p.orb # None /\ q.orb # None /\ Apart(p, q)
             /\ Present(v) /\ Present(w)
           => entry[v].a # entry[w].a

(* "For any link, the first bytes will always be a meta-structure          *)
(* understood by all parties" (DESIGN.md): what a finished link shows at   *)
(* its address is the memory the portal_link was written to.               *)
LinkHeader ==
    headers # {} => \A i \in Finished : "SHARE" \in portals[i].type =>
        LET v == portals[i].base \div PAGE_SIZE IN
        Present(v) => entry[v].a \in headers

(* "Establishes a region of shared memory between servers" (DESIGN.md): a  *)
(* fault in shared memory that was resolved makes the page accessible.     *)
SharerReaches == resolved # None => Present(resolved)
=============================================================================
