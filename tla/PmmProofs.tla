------------------------------ MODULE PmmProofs ------------------------------
(***************************************************************************)
(* Proofs about the physical memory manager, for any regions, requests and *)
(* threads: the hint never hides the last free page of a module; and with  *)
(* one region the bitmap is exact and pmm implements PageAllocator.        *)
(***************************************************************************)
EXTENDS Pmm, WellFoundedInduction, TLAPS

(* A set of naturals that is not empty has a least element. *)
LEMMA Least ==
    ASSUME NEW S, S \subseteq Nat, S # {}
    PROVE  \E x \in S : \A y \in S : x <= y
<1>1. PICK x \in S : \A y \in S : ~(<<y, x>> \in OpToRel(<, Nat))
  BY NatLessThanWellFounded, WFMin, Zenon
<1>2. ASSUME NEW y \in S PROVE x <= y
  <2>1. x \in Nat /\ y \in Nat
    OBVIOUS
  <2>2. ~(y < x)
    BY ZenonT(30), <1>1, <2>1 DEF OpToRel
  <2> QED
    BY <2>1, <2>2
<1> QED
  BY <1>2

(* The base and the length of a module are naturals, the length not 0. *)
LEMMA RegionFacts ==
    ASSUME NEW m \in Modules
    PROVE  Base(m) \in Nat /\ EntryCnt(m) \in Nat /\ EntryCnt(m) > 0
<1>1. ASSUME NEW R, Regions \in Seq(R) PROVE Regions[m] \in R
  BY <1>1 DEF Modules
<1>2. Regions[m].base \in Nat /\ Regions[m].len \in Nat \ {0}
  <2>1. Regions[m] \in [base : Nat, len : Nat \ {0}]
    BY ZenonT(30), <1>1, PmmAssumption
  <2> QED
    BY <2>1
<1> QED
  BY <1>2 DEF Base, EntryCnt

(* The hint after an allocation is a clear bit, or 0. *)
LEMMA HintClear ==
    ASSUME NEW m \in Modules, NEW j \in Entries(m), NEW bits
    PROVE  /\ Hint(m, j, bits) \in Entries(m)
           /\ Hint(m, j, bits) = 0 \/ Hint(m, j, bits) \notin bits
<1> DEFINE clear == {z \in j..(EntryCnt(m) - 1) : z \notin bits}
<1>1. EntryCnt(m) \in Nat /\ EntryCnt(m) > 0 /\ j \in Nat
  BY RegionFacts DEF Entries
<1>2. CASE clear = {}
  BY <1>1, <1>2 DEF Hint, Entries
<1>3. CASE clear # {}
  <2>1. clear \subseteq Nat
    BY <1>1
  <2>2. \E z \in clear : \A y \in clear : z <= y
    BY <1>3, <2>1, Least, Zenon
  <2>3. Hint(m, j, bits) = CHOOSE z \in clear : \A y \in clear : z <= y
    BY <1>3, Zenon DEF Hint
  <2>4. Hint(m, j, bits) \in clear
    BY <2>2, <2>3, Zenon
  <2> QED
    BY <1>1, <2>4 DEF Entries
<1> QED
  BY <1>2, <1>3

(* What bounds the search, and the hint: it is 0, or a page from it on is  *)
(* free.                                                                   *)
HintInv ==
    /\ bitmap \in [Modules -> SUBSET Nat]
    /\ \A m \in Modules : bitmap[m] \subseteq Entries(m)
    /\ last_free \in [Modules -> Nat]
    /\ \A m \in Modules : last_free[m] \in Entries(m)
    /\ module \in [Threads -> 0..Len(Regions)]
    /\ request \in [Threads -> [cnt : Nat \ {0}, align : Nat \ {0}]]
    /\ \A m \in Modules : last_free[m] = 0
                            \/ \E z \in Entries(m) : z >= last_free[m] /\ z \notin bitmap[m]

(* HintInv holds at the start. *)
LEMMA HintInit == Init => HintInv
<1> SUFFICES ASSUME Init PROVE HintInv
  OBVIOUS
<1>1. \A m \in Modules : 0 \in Entries(m)
  BY RegionFacts DEF Entries
<1>2. Len(Regions) \in Nat
  BY PmmAssumption
<1> QED
  BY <1>1, <1>2 DEF Init, HintInv

(* A run that was found lies in the module. *)
LEMMA FoundRun ==
    ASSUME NEW m \in Modules, NEW q \in [cnt : Nat \ {0}, align : Nat \ {0}],
           last_free[m] \in Nat, NEW i \in Found(m, q)
    PROVE  /\ i \in Nat /\ i..(i + q.cnt - 1) \subseteq Entries(m)
           /\ i + q.cnt - 1 \in Entries(m)
           /\ \A j \in i..(i + q.cnt - 1) : j \notin bitmap[m]
BY RegionFacts DEF Found, Entries

(* pmm_module_alloc keeps HintInv. *)
LEMMA HintAlloc ==
    ASSUME HintInv, NEW t \in Threads, PmmModuleAlloc(t) PROVE HintInv'
<1> DEFINE m == module[t]
           q == request[t]
<1>1. m \in Modules /\ q \in [cnt : Nat \ {0}, align : Nat \ {0}] /\ last_free[m] \in Nat
  BY PmmAssumption DEF HintInv, PmmModuleAlloc, Modules
<1>2. CASE Found(m, q) = {} /\ UNCHANGED <<bitmap, last_free>>
              /\ module' = [module EXCEPT ![t] = IF m = Len(Regions) THEN 0 ELSE m + 1]
  <2>1. module' \in [Threads -> 0..Len(Regions)]
    <3>1. Len(Regions) \in Nat /\ m \in 1..Len(Regions)
      BY <1>1, PmmAssumption DEF Modules
    <3>2. (IF m = Len(Regions) THEN 0 ELSE m + 1) \in 0..Len(Regions)
      BY <3>1
    <3> QED
      BY <1>2, <3>2, Zenon DEF HintInv
  <2>2. request' = request
    BY DEF PmmModuleAlloc
  <2> QED
    BY <1>2, <2>1, <2>2 DEF HintInv
<1>3. ASSUME NEW i \in Found(m, q),
             bitmap' = [bitmap EXCEPT ![m] = bitmap[m] \cup i..(i + q.cnt - 1)],
             last_free' = [last_free EXCEPT ![m] =
                 Hint(m, i + q.cnt - 1, bitmap[m] \cup i..(i + q.cnt - 1))],
             module' = [module EXCEPT ![t] = 0]
      PROVE  HintInv'
  <2> DEFINE bits == bitmap[m] \cup i..(i + q.cnt - 1)
             h == Hint(m, i + q.cnt - 1, bits)
  <2>1. i..(i + q.cnt - 1) \subseteq Entries(m) /\ i + q.cnt - 1 \in Entries(m)
    BY <1>1, FoundRun
  <2>2. h \in Entries(m) /\ (h = 0 \/ h \notin bits)
    BY <1>1, <2>1, HintClear
  <2>3. bits \subseteq Entries(m) /\ Entries(m) \subseteq Nat
    BY <1>1, <2>1 DEF HintInv, Entries
  <2> HIDE DEF bits, h, m, q
  <2>4. bitmap' = [bitmap EXCEPT ![m] = bits] /\ last_free' = [last_free EXCEPT ![m] = h]
    BY <1>3 DEF bits, h
  <2>5. bitmap' \in [Modules -> SUBSET Nat] /\ last_free' \in [Modules -> Nat]
    BY ZenonT(30), <2>2, <2>3, <2>4 DEF HintInv
  <2>6. ASSUME NEW n \in Modules
        PROVE  /\ bitmap'[n] \subseteq Entries(n) /\ last_free'[n] \in Entries(n)
               /\ last_free'[n] = 0
                    \/ \E z \in Entries(n) : z >= last_free'[n] /\ z \notin bitmap'[n]
    <3>1. CASE n = m
      BY <1>1, <2>2, <2>3, <2>4, <3>1 DEF HintInv
    <3>2. CASE n # m
      BY <1>1, <2>4, <3>2 DEF HintInv
    <3> QED
      BY <3>1, <3>2
  <2>7. module' \in [Threads -> 0..Len(Regions)] /\ request' = request
    BY <1>3, PmmAssumption DEF HintInv, PmmModuleAlloc
  <2> QED
    BY <2>5, <2>6, <2>7 DEF HintInv, Entries, EntryCnt
<1> QED
  BY ZenonT(30), <1>2, <1>3 DEF PmmModuleAlloc

(* pmm_free keeps HintInv: whichever bits it clears, it only clears. *)
LEMMA HintFree == ASSUME HintInv, PmmFree PROVE HintInv'
<1>1. \E n \in Modules : \E S : bitmap' = [bitmap EXCEPT ![n] = @ \ S]
  <2>1. PICK b \in blocks, m \in Modules :
            \E n \in Hit(m, b) : \E S \in HitBits(n, m, b) :
                bitmap' = [bitmap EXCEPT ![n] = @ \ S]
    BY Zenon DEF PmmFree
  <2>2. Hit(m, b) \subseteq Modules
    BY PmmAssumption DEF Modules, Hit
  <2> QED
    BY <2>1, <2>2, Zenon
<1>2. UNCHANGED <<last_free, module, request>>
  BY DEF PmmFree
<1>3. \A m \in Modules : bitmap'[m] \subseteq bitmap[m]
  <2>1. PICK n \in Modules : \E S : bitmap' = [bitmap EXCEPT ![n] = @ \ S]
    BY <1>1, Zenon
  <2> QED
    BY <2>1 DEF HintInv
<1>4. bitmap' \in [Modules -> SUBSET Nat]
  <2>1. PICK n \in Modules : \E S : bitmap' = [bitmap EXCEPT ![n] = @ \ S]
    BY <1>1, Zenon
  <2> QED
    BY <2>1 DEF HintInv
<1> QED
  BY ZenonT(30), <1>2, <1>3, <1>4 DEF HintInv, Entries, EntryCnt

(* The start of a walk keeps HintInv. *)
LEMMA HintStart == ASSUME HintInv, NEW t \in Threads, PmmAlloc(t) PROVE HintInv'
BY PmmAssumption DEF HintInv, PmmAlloc, Modules, Entries, EntryCnt

(* last_free always points at or below a free page, or to the start. *)
THEOREM HintSafe == Spec => []HintInv
<1>1. ASSUME HintInv, [Next]_vars PROVE HintInv'
  <2>1. CASE UNCHANGED vars
    BY <1>1, <2>1 DEF HintInv, vars, Entries, EntryCnt
  <2> QED
    BY <1>1, <2>1, HintAlloc, HintFree, HintStart DEF Next
<1> QED
  BY <1>1, HintInit, PTL DEF Spec

(* Whatever was allocated and freed before, in any number of regions and   *)
(* by any number of threads, pmm_module_alloc finds a page if its module   *)
(* has one: last_free never hides it.                                      *)
THEOREM PageFound == Spec => []PageFoundIfAny
<1>1. ASSUME HintInv PROVE PageFoundIfAny
  <2>1. SUFFICES ASSUME NEW m \in Modules, bitmap[m] # Entries(m)
                 PROVE  Found(m, [cnt |-> 1, align |-> 1]) # {}
    BY DEF PageFoundIfAny
  <2>2. PICK z \in Entries(m) : z >= last_free[m] /\ z \notin bitmap[m]
    <3>1. PICK y \in Entries(m) : y \notin bitmap[m]
      BY ZenonT(30), <1>1, <2>1 DEF HintInv
    <3>2. CASE last_free[m] = 0
      BY <3>1, <3>2, RegionFacts DEF Entries
    <3>3. CASE last_free[m] # 0
      BY <1>1, <3>3 DEF HintInv
    <3> QED
      BY <3>2, <3>3
  <2>3. z \in Found(m, [cnt |-> 1, align |-> 1])
    BY <1>1, <2>2, RegionFacts DEF HintInv, Found, Entries
  <2> QED
    BY <2>3
<1> QED
  BY <1>1, HintSafe, PTL
-----------------------------------------------------------------------------
(* One region.  The bits set are the pages of the blocks, no two blocks    *)
(* share a page, and a walk carries a request of a caller.                 *)
ExactInv ==
    /\ HintInv
    /\ blocks \subseteq [base : Nat, cnt : Nat \ {0}]
    /\ \A b \in blocks : \A x \in Run(b) : x - Base(1) \in bitmap[1]
    /\ \A i \in bitmap[1] : \E b \in blocks : Base(1) + i \in Run(b)
    /\ \A b, c \in blocks : b # c => Run(b) \cap Run(c) = {}
    /\ \A t \in Threads : module[t] # 0 => request[t] \in Requests

(* With one region there is one module. *)
LEMMA OneModule ==
    ASSUME Len(Regions) = 1
    PROVE  /\ Modules = {1} /\ Base(1) \in Nat /\ EntryCnt(1) \in Nat /\ EntryCnt(1) > 0
           /\ Pages = Base(1)..(Base(1) + EntryCnt(1) - 1)
           /\ Taken = {Base(1) + i : i \in bitmap[1]}
<1>1. Modules = {1}
  BY DEF Modules
<1>2. Base(1) \in Nat /\ EntryCnt(1) \in Nat /\ EntryCnt(1) > 0
  BY <1>1, RegionFacts
<1> QED
  BY ZenonT(30), <1>1, <1>2 DEF Pages, Taken

(* ExactInv holds at the start. *)
LEMMA ExactInit == ASSUME Len(Regions) = 1 PROVE Init => ExactInv
BY HintInit, OneModule DEF Init, ExactInv

(* What an allocation does: the pages of the new block were free. *)
LEMMA AllocEffect ==
    ASSUME Len(Regions) = 1, ExactInv, NEW t \in Threads, PmmModuleAlloc(t)
    PROVE  \/ UNCHANGED <<bitmap, blocks>>
           \/ \E i \in Nat, q \in Requests :
                 /\ i..(i + q.cnt - 1) \subseteq Entries(1)
                 /\ (Base(1) + i) % q.align = 0
                 /\ \A j \in i..(i + q.cnt - 1) : j \notin bitmap[1]
                 /\ bitmap' = [bitmap EXCEPT ![1] = bitmap[1] \cup i..(i + q.cnt - 1)]
                 /\ blocks' = blocks \cup {[base |-> Base(1) + i, cnt |-> q.cnt]}
<1> DEFINE q == request[t]
<1>1. module[t] = 1 /\ q \in Requests /\ last_free[1] \in Nat /\ 1 \in Modules
      /\ q \in [cnt : Nat \ {0}, align : Nat \ {0}]
  BY OneModule DEF ExactInv, HintInv, PmmModuleAlloc
<1>2. CASE UNCHANGED <<bitmap, last_free, blocks>>
  BY <1>2
<1>3. ASSUME NEW i \in Found(1, q),
             bitmap' = [bitmap EXCEPT ![1] = bitmap[1] \cup i..(i + q.cnt - 1)],
             blocks' = blocks \cup {[base |-> Base(1) + i, cnt |-> q.cnt]}
      PROVE  \E k \in Nat, r \in Requests :
                 /\ k..(k + r.cnt - 1) \subseteq Entries(1)
                 /\ (Base(1) + k) % r.align = 0
                 /\ \A j \in k..(k + r.cnt - 1) : j \notin bitmap[1]
                 /\ bitmap' = [bitmap EXCEPT ![1] = bitmap[1] \cup k..(k + r.cnt - 1)]
                 /\ blocks' = blocks \cup {[base |-> Base(1) + k, cnt |-> r.cnt]}
  <2>1. i \in Nat /\ i..(i + q.cnt - 1) \subseteq Entries(1)
        /\ \A j \in i..(i + q.cnt - 1) : j \notin bitmap[1]
    BY <1>1, FoundRun
  <2>2. (Base(1) + i) % q.align = 0
    BY DEF Found
  <2> HIDE DEF q
  <2> QED
    BY <1>1, <1>3, <2>1, <2>2, Zenon
<1>4. module[t] = 1
  BY <1>1
<1> QED
  BY ZenonT(30), <1>2, <1>3, <1>4 DEF PmmModuleAlloc

(* What a free does: the bits of its block, and no others, are cleared. *)
LEMMA FreeEffect ==
    ASSUME Len(Regions) = 1, ExactInv, PmmFree
    PROVE  \E b \in blocks :
               /\ bitmap' = [bitmap EXCEPT ![1] = @ \ Cleared(b.base - Base(1), b.cnt)]
               /\ blocks' = blocks \ {b}
<1>1. PICK b \in blocks, m \in Modules :
          /\ \E n \in Hit(m, b) : \E S \in HitBits(n, m, b) :
                bitmap' = [bitmap EXCEPT ![n] = @ \ S]
          /\ blocks' = blocks \ {b}
  BY Zenon DEF PmmFree
<1>2. m = 1 /\ Hit(1, b) = {1}
  BY OneModule DEF Hit
<1>3. HitBits(1, 1, b) = {Cleared(b.base - Base(1), b.cnt)}
  BY DEF HitBits
<1> QED
  BY <1>1, <1>2, <1>3, Zenon

(* pmm_module_alloc keeps ExactInv. *)
LEMMA ExactAlloc ==
    ASSUME Len(Regions) = 1, ExactInv, NEW t \in Threads, PmmModuleAlloc(t)
    PROVE  ExactInv'
<1>1. HintInv'
  BY HintAlloc DEF ExactInv
<1>2. \A u \in Threads : module'[u] # 0 => request'[u] \in Requests
  BY ZenonT(30) DEF ExactInv, HintInv, PmmModuleAlloc
<1>3. CASE UNCHANGED <<bitmap, blocks>>
  BY <1>1, <1>2, <1>3 DEF ExactInv, Run, Base
<1>4. ASSUME NEW i \in Nat, NEW q \in Requests,
             \A j \in i..(i + q.cnt - 1) : j \notin bitmap[1],
             bitmap' = [bitmap EXCEPT ![1] = bitmap[1] \cup i..(i + q.cnt - 1)],
             blocks' = blocks \cup {[base |-> Base(1) + i, cnt |-> q.cnt]}
      PROVE  ExactInv'
  <2> DEFINE new == [base |-> Base(1) + i, cnt |-> q.cnt]
             run == i..(i + q.cnt - 1)
  <2>1. Base(1) \in Nat /\ q.cnt \in Nat \ {0} /\ 1 \in Modules
    BY OneModule, PmmAssumption
  <2>2. new \in [base : Nat, cnt : Nat \ {0}]
    BY <2>1
  <2>3. \A x : x \in Run(new) <=> x \in Int /\ x - Base(1) \in run
    BY <2>1 DEF Run
  <2>4. bitmap'[1] = bitmap[1] \cup run /\ bitmap[1] \subseteq Nat
    BY <1>4, <2>1 DEF ExactInv, HintInv
  <2>5. \A b \in blocks : Run(b) \cap Run(new) = {}
    <3>1. SUFFICES ASSUME NEW b \in blocks, NEW x \in Run(b), x \in Run(new) PROVE FALSE
      OBVIOUS
    <3> QED
      BY <1>4, <2>3, <3>1 DEF ExactInv
  <2> HIDE DEF new, run
  <2>6. blocks' = blocks \cup {new}
    BY <1>4 DEF new
  <2>7. blocks' \subseteq [base : Nat, cnt : Nat \ {0}]
    BY <2>2, <2>6 DEF ExactInv
  <2>8. \A b \in blocks' : \A x \in Run(b) : x - Base(1) \in bitmap'[1]
    BY <2>3, <2>4, <2>6 DEF ExactInv
  <2>9. ASSUME NEW k \in bitmap'[1] PROVE \E b \in blocks' : Base(1) + k \in Run(b)
    <3>1. CASE k \in bitmap[1]
      BY <2>6, <3>1 DEF ExactInv
    <3>2. CASE k \in run
      <4>1. Base(1) + k \in Run(new)
        BY <2>1, <2>3, <3>2 DEF run
      <4> QED
        BY <2>6, <4>1
    <3> QED
      BY <2>4, <3>1, <3>2
  <2>10. \A b, c \in blocks' : b # c => Run(b) \cap Run(c) = {}
    BY <2>5, <2>6 DEF ExactInv
  <2> QED
    BY <1>1, <1>2, <2>7, <2>8, <2>9, <2>10 DEF ExactInv, Run, Base
<1> QED
  BY <1>3, <1>4, AllocEffect

(* The pages of a block, as bits. *)
LEMMA ClearedRun ==
    ASSUME Len(Regions) = 1, NEW b \in [base : Nat, cnt : Nat \ {0}], NEW i \in Int
    PROVE  i \in Cleared(b.base - Base(1), b.cnt) <=> Base(1) + i \in Run(b)
BY SMTT(30), OneModule DEF Cleared, Run

(* pmm_free keeps ExactInv. *)
LEMMA ExactFree ==
    ASSUME Len(Regions) = 1, ExactInv, PmmFree PROVE ExactInv'
<1>1. HintInv'
  BY HintFree DEF ExactInv
<1>2. \A u \in Threads : module'[u] # 0 => request'[u] \in Requests
  BY DEF ExactInv, PmmFree
<1>3. PICK f \in blocks :
          /\ bitmap' = [bitmap EXCEPT ![1] = @ \ Cleared(f.base - Base(1), f.cnt)]
          /\ blocks' = blocks \ {f}
  BY FreeEffect
<1>4. Base(1) \in Nat /\ 1 \in Modules /\ f \in [base : Nat, cnt : Nat \ {0}]
  BY OneModule DEF ExactInv
<1>5. bitmap'[1] = bitmap[1] \ Cleared(f.base - Base(1), f.cnt) /\ bitmap[1] \subseteq Nat
  BY <1>3, <1>4 DEF ExactInv, HintInv
<1>6. \A i \in Int : i \in Cleared(f.base - Base(1), f.cnt) <=> Base(1) + i \in Run(f)
  BY <1>4, ClearedRun
<1>7. ASSUME NEW b \in blocks', NEW x \in Run(b) PROVE x - Base(1) \in bitmap'[1]
  <2>1. b \in blocks /\ b # f /\ x \notin Run(f) /\ x - Base(1) \in bitmap[1] /\ x \in Int
    BY <1>3, <1>7 DEF ExactInv, Run
  <2>2. x - Base(1) \in Int /\ Base(1) + (x - Base(1)) = x
    BY <1>4, <2>1
  <2>3. x - Base(1) \notin Cleared(f.base - Base(1), f.cnt)
    BY <1>6, <2>1, <2>2
  <2> QED
    BY <1>5, <2>1, <2>3
<1>8. ASSUME NEW i \in bitmap'[1] PROVE \E b \in blocks' : Base(1) + i \in Run(b)
  <2>1. i \in bitmap[1] /\ i \in Int /\ Base(1) + i \notin Run(f)
    BY <1>5, <1>6
  <2>2. PICK b \in blocks : Base(1) + i \in Run(b)
    BY <2>1 DEF ExactInv
  <2> QED
    BY <1>3, <2>1, <2>2
<1>9. blocks' \subseteq blocks
  BY <1>3
<1> QED
  BY <1>1, <1>2, <1>7, <1>8, <1>9 DEF ExactInv, Run, Base

(* The start of a walk keeps ExactInv. *)
LEMMA ExactStart ==
    ASSUME Len(Regions) = 1, ExactInv, NEW t \in Threads, PmmAlloc(t) PROVE ExactInv'
<1>1. HintInv'
  BY HintStart DEF ExactInv
<1>2. \A u \in Threads : module'[u] # 0 => request'[u] \in Requests
  BY DEF ExactInv, HintInv, PmmAlloc
<1> QED
  BY <1>1, <1>2 DEF ExactInv, PmmAlloc, Run, Base

(* Every step keeps ExactInv. *)
LEMMA ExactStep ==
    ASSUME Len(Regions) = 1, ExactInv, [Next]_vars PROVE ExactInv'
<1>1. CASE UNCHANGED vars
  <2>1. HintInv'
    BY <1>1 DEF ExactInv, HintInv, vars, Entries, EntryCnt
  <2> QED
    BY <1>1, <2>1 DEF ExactInv, vars, Run, Base
<1> QED
  BY <1>1, ExactAlloc, ExactFree, ExactStart DEF Next

(* With one region ExactInv always holds. *)
LEMMA ExactSafe == ASSUME Len(Regions) = 1 PROVE Spec => []ExactInv
<1>1. Init => ExactInv
  BY ExactInit
<1>2. ExactInv /\ [Next]_vars => ExactInv'
  BY ExactStep
<1> QED
  BY <1>1, <1>2, PTL DEF Spec

(* The page numbers that are taken, as the pages of the blocks. *)
LEMMA TakenExact ==
    ASSUME Len(Regions) = 1, ExactInv
    PROVE  /\ \A x : x \in Taken <=> \E b \in blocks : x \in Run(b)
           /\ \A x \in Int : x \in Taken <=> x - Base(1) \in bitmap[1]
<1>1. Base(1) \in Nat /\ Taken = {Base(1) + i : i \in bitmap[1]}
      /\ bitmap[1] \subseteq Nat /\ 1 \in Modules
  BY OneModule DEF ExactInv, HintInv
<1>2. ASSUME NEW x \in Taken PROVE \E b \in blocks : x \in Run(b)
  BY <1>1 DEF ExactInv
<1>3. ASSUME NEW b \in blocks, NEW x \in Run(b) PROVE x \in Taken
  <2>1. x \in Int /\ x - Base(1) \in bitmap[1] /\ x = Base(1) + (x - Base(1))
    BY <1>1, <1>3 DEF ExactInv, Run
  <2> QED
    BY <1>1, <2>1
<1>4. ASSUME NEW x \in Int PROVE x \in Taken <=> x - Base(1) \in bitmap[1]
  BY <1>1
<1> QED
  BY <1>2, <1>3, <1>4

(* The pages that are taken are those of the blocks. *)
TakenIsBlocks == \A x : x \in Taken <=> \E b \in blocks : x \in Run(b)

(* The same, as an implication. *)
LEMMA TakenBlocks == Len(Regions) = 1 /\ ExactInv => TakenIsBlocks
BY TakenExact DEF TakenIsBlocks

(* With one region, for any requests and threads, no page is in two blocks *)
(* and the bitmap marks exactly the pages of the blocks.                   *)
THEOREM OneRegionExact == ASSUME Len(Regions) = 1 PROVE Spec => []BitmapExact
<1>1. ASSUME ExactInv PROVE BitmapExact
  <2>1. Taken = UNION {Run(b) : b \in blocks}
    BY <1>1, TakenExact
  <2> QED
    BY <1>1, <2>1 DEF ExactInv, BitmapExact
<1>2. ExactInv => BitmapExact
  BY <1>1
<1> QED
  BY <1>2, ExactSafe, PTL

(* An allocation is one of the pool, or changes nothing of it. *)
LEMMA PoolAlloc ==
    ASSUME Len(Regions) = 1, ExactInv, ExactInv', NEW t \in Threads, PmmModuleAlloc(t)
    PROVE  [Pool!Next]_<<Pages \ Taken, blocks>>
<1>1. CASE UNCHANGED <<bitmap, blocks>>
  BY <1>1 DEF Pages, Taken, Base, EntryCnt
<1>2. ASSUME NEW i \in Nat, NEW q \in Requests,
             i..(i + q.cnt - 1) \subseteq Entries(1),
             (Base(1) + i) % q.align = 0,
             \A j \in i..(i + q.cnt - 1) : j \notin bitmap[1],
             bitmap' = [bitmap EXCEPT ![1] = bitmap[1] \cup i..(i + q.cnt - 1)],
             blocks' = blocks \cup {[base |-> Base(1) + i, cnt |-> q.cnt]}
      PROVE  Pool!Alloc
  <2> DEFINE new == [base |-> Base(1) + i, cnt |-> q.cnt]
  <2>1. Base(1) \in Nat /\ EntryCnt(1) \in Nat /\ q.cnt \in Nat \ {0} /\ 1 \in Modules
        /\ Pages = Base(1)..(Base(1) + EntryCnt(1) - 1)
    BY OneModule, PmmAssumption
  <2>2. Base(1) + i \in Pages
    BY SMTT(30), <1>2, <2>1 DEF Entries
  <2>3. \A x : x \in Run(new) <=> x \in Int /\ x - Base(1) \in i..(i + q.cnt - 1)
    BY SMTT(30), <2>1 DEF Run
  <2>4. \A x \in Run(new) : x \in Pages /\ x \notin Taken
    <3>1. SUFFICES ASSUME NEW x \in Run(new) PROVE x \in Pages /\ x \notin Taken
      OBVIOUS
    <3>2. x \in Int /\ x - Base(1) \in i..(i + q.cnt - 1)
      BY <2>3, <3>1
    <3>3. x - Base(1) \in Entries(1) /\ x - Base(1) \notin bitmap[1]
      BY <1>2, <3>2
    <3>4. x \in Pages
      BY <2>1, <3>2, <3>3 DEF Entries
    <3> QED
      BY <3>2, <3>3, <3>4, TakenExact
  <2>5. Pages' = Pages
    BY DEF Pages, Base, EntryCnt
  <2>6. \A x : x \in Taken' <=> x \in Taken \/ x \in Run(new)
    <3>1. TakenIsBlocks /\ TakenIsBlocks'
      <4>1. TakenIsBlocks
        BY TakenBlocks
      <4>2. (Len(Regions) = 1 /\ ExactInv => TakenIsBlocks)'
        BY TakenBlocks, PTL
      <4> QED
        BY <4>1, <4>2
    <3> QED
      BY ZenonT(30), <1>2, <3>1 DEF TakenIsBlocks, Run
  <2>7. Pool!Run(new) = Run(new)
    BY DEF Pool!Run, Run
  <2>8. Run(new) \subseteq Pages \ Taken
    BY <2>4
  <2>9. (Pages \ Taken)' = (Pages \ Taken) \ Run(new)
    BY <2>5, <2>6
  <2> QED
    BY <1>2, <2>2, <2>7, <2>8, <2>9, Zenon DEF Pool!Alloc
<1> QED
  BY <1>1, <1>2, AllocEffect DEF Pool!Next

(* A free is one of the pool. *)
LEMMA PoolFree ==
    ASSUME Len(Regions) = 1, ExactInv, ExactInv', PmmFree
    PROVE  Pool!Free
<1>1. PICK f \in blocks : blocks' = blocks \ {f}
  BY FreeEffect
<1>2. Pages' = Pages /\ Pool!Run(f) = Run(f)
  BY DEF Pages, Base, EntryCnt, Pool!Run, Run
<1>3. TakenIsBlocks /\ TakenIsBlocks'
  <2>1. TakenIsBlocks
    BY TakenBlocks
  <2>2. (Len(Regions) = 1 /\ ExactInv => TakenIsBlocks)'
    BY TakenBlocks, PTL
  <2> QED
    BY <2>1, <2>2
<1>4. \A b \in blocks : b # f => Run(b) \cap Run(f) = {}
  BY DEF ExactInv
<1>5. \A x : x \in Taken' <=> x \in Taken /\ x \notin Run(f)
  BY <1>1, <1>3, <1>4 DEF TakenIsBlocks, Run
<1>6. Run(f) \subseteq Pages
  <2>1. SUFFICES ASSUME NEW x \in Run(f) PROVE x \in Pages
    OBVIOUS
  <2>2. x \in Int /\ x - Base(1) \in bitmap[1] /\ bitmap[1] \subseteq Entries(1)
    BY <2>1, OneModule DEF ExactInv, HintInv, Run
  <2>3. x - Base(1) \in Entries(1)
    BY <2>2
  <2> QED
    BY <2>2, <2>3, OneModule DEF Entries
<1>7. (Pages \ Taken)' = (Pages \ Taken) \cup Run(f)
  BY <1>2, <1>5, <1>6
<1> QED
  BY <1>1, <1>2, <1>7, Zenon DEF Pool!Free

(* With one region, for any requests and threads, the bitmap, the hint and *)
(* the walk of pmm_alloc and pmm_free implement the pool of pages of       *)
(* PageAllocator.                                                          *)
THEOREM OneRegionPool == ASSUME Len(Regions) = 1 PROVE Spec => ImplementsPool
<1>1. ASSUME Init PROVE Pool!Init
  <2>1. Taken = {}
    BY <1>1, OneModule DEF Init
  <2> QED
    BY <1>1, <2>1 DEF Init, Pool!Init
<1>2. ASSUME ExactInv, ExactInv', [Next]_vars
      PROVE  [Pool!Next]_<<Pages \ Taken, blocks>>
  <2>1. CASE UNCHANGED <<bitmap, blocks>>
    BY <2>1 DEF Pages, Taken, Base, EntryCnt
  <2>2. ASSUME NEW t \in Threads, PmmModuleAlloc(t)
        PROVE  [Pool!Next]_<<Pages \ Taken, blocks>>
    BY <1>2, <2>2, PoolAlloc
  <2>3. CASE PmmFree
    BY <1>2, <2>3, PoolFree DEF Pool!Next
  <2>4. ASSUME NEW t \in Threads, PmmAlloc(t) PROVE UNCHANGED <<bitmap, blocks>>
    BY <2>4 DEF PmmAlloc
  <2>5. CASE UNCHANGED vars
    BY <2>1, <2>5 DEF vars
  <2> QED
    BY <1>2, <2>1, <2>2, <2>3, <2>4, <2>5 DEF Next
<1>3. Init => Pool!Init
  BY <1>1
<1>4. ExactInv /\ ExactInv' /\ [Next]_vars => [Pool!Next]_<<Pages \ Taken, blocks>>
  BY <1>2
<1> QED
  BY <1>3, <1>4, ExactSafe, PTL DEF Spec, ImplementsPool, Pool!Spec

=============================================================================
