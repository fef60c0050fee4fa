---------------------------- MODULE PagingProofs ----------------------------
(***************************************************************************)
(* Proofs about page tables: for any spaces, any number of levels and of   *)
(* entries, and any pages mapped, no table gets a second parent other than *)
(* the shared kernel half of a root.                                       *)
(***************************************************************************)
EXTENDS Paging, WellFoundedInduction, TLAPS

Entries == 0..(Fan - 1)

FcnOn(g, D) == g = [x \in D |-> g[x]]

(* The tables m are well formed: what an entry names is a frame that is    *)
(* mapped, a table, or nothing.                                            *)
Closed(m) ==
    /\ FcnOn(m, DOMAIN m)
    /\ DOMAIN m \subseteq 1..NTables
    /\ \A t \in DOMAIN m : FcnOn(m[t], Entries)
    /\ \A t \in DOMAIN m : \A i \in Entries : m[t][i].a \in Frames \cup {0} \cup DOMAIN m

(* TablesNotShared, of the tables m under the roots p: of two entries, and *)
(* of all.                                                                 *)
PairApart(m, p, t, i, u, j) ==
    (/\ t # u \/ i # j
     /\ "P" \in m[t][i].f
     /\ m[t][i].a \in DOMAIN m
     /\ m[t][i].a = m[u][j].a)
    => /\ i = j
       /\ KernelHalf(i)
       /\ \E r, s \in Spaces : p[r] = t /\ p[s] = u

Apart(m, p) ==
    \A t, u \in DOMAIN m : \A i, j \in Entries : PairApart(m, p, t, i, u, j)

TablesInv ==
    /\ pmlt \in [Spaces -> 0..NTables]
    /\ pmlt[Kernel] \in DOMAIN mem
    /\ Closed(mem)
    /\ Apart(mem, pmlt)

-----------------------------------------------------------------------------
(* pmm_alloc returns a frame that holds no table, or none. *)
LEMMA PmmAllocFree ==
    ASSUME NEW m
    PROVE  PmmAlloc(m) = NoFrame \/ PmmAlloc(m) \in (1..NTables) \ DOMAIN m
<1> DEFINE free == (1..NTables) \ DOMAIN m
<1> SUFFICES ASSUME free # {} PROVE PmmAlloc(m) \in free
    BY Zenon DEF PmmAlloc
<1>1. free \subseteq Nat
    BY PagingAssumption
<1> HIDE DEF free
<1>2. PICK x \in free : \A y \in free : ~(<<y, x>> \in OpToRel(<, Nat))
    BY <1>1, NatLessThanWellFounded, WFMin, Zenon
<1>3. ASSUME NEW y \in free PROVE x <= y
    <2>1. x \in Nat /\ y \in Nat
        BY <1>1
    <2>2. ~(y < x)
        BY ZenonT(30), <1>2, <2>1 DEF OpToRel
    <2> QED BY <2>1, <2>2
<1>4. (CHOOSE f \in free : \A g \in free : f <= g) \in free
    BY <1>3, Zenon
<1> QED BY <1>4, Zenon DEF PmmAlloc, free

(* Numbers of frames that are mapped and of tables are apart. *)
LEMMA FramesApart ==
    ASSUME NEW D, D \subseteq 1..NTables
    PROVE  /\ \A f \in Frames \cup {0} : f \notin D
           /\ \A g \in 1..NTables : g \notin Frames \cup {0}
<1>1. \A f \in Frames : f \notin 1..NTables
    BY PagingAssumption
<1>2. 0 \notin 1..NTables
    BY PagingAssumption
<1> QED BY <1>1, <1>2, Zenon

(* n is m with e written at entry i of the table t. *)
Wrote(n, m, t, i, e) ==
    /\ DOMAIN n = DOMAIN m
    /\ FcnOn(n, DOMAIN n)
    /\ \A u \in DOMAIN n : FcnOn(n[u], Entries)
    /\ \A u \in DOMAIN m : \A j \in Entries : u # t \/ j # i => n[u][j] = m[u][j]
    /\ i \in Entries => n[t][i] = e

LEMMA PutEntry ==
    ASSUME NEW m, Closed(m), NEW t \in DOMAIN m, NEW i, NEW e
    PROVE  Wrote(WithEntry(m, t, i, e), m, t, i, e)
<1> DEFINE n == [m EXCEPT ![t][i] = e]
<1>1. m = [u \in DOMAIN m |-> m[u]]
    BY Zenon DEF Closed, FcnOn
<1>2. n = [u \in DOMAIN m |-> IF u = t THEN [m[t] EXCEPT ![i] = e] ELSE m[u]]
    BY Zenon, <1>1
<1>3. DOMAIN n = DOMAIN m /\ n = [u \in DOMAIN n |-> n[u]]
    BY Zenon, <1>2
<1>4. n[t] = [m[t] EXCEPT ![i] = e] /\ \A u \in DOMAIN m : u # t => n[u] = m[u]
    BY Zenon, <1>2
<1>5. m[t] = [j \in Entries |-> m[t][j]]
    BY Zenon DEF Closed, FcnOn
<1> HIDE DEF n
<1>6. n[t] = [j \in Entries |-> IF j = i THEN e ELSE m[t][j]]
    BY Zenon, <1>4, <1>5
<1>7. /\ n[t] = [j \in Entries |-> n[t][j]]
      /\ i \in Entries => n[t][i] = e
      /\ \A j \in Entries : j # i => n[t][j] = m[t][j]
    BY Zenon, <1>6
<1>8. ASSUME NEW u \in DOMAIN n PROVE FcnOn(n[u], Entries)
    <2>1. CASE u = t
        BY Zenon, <1>7, <2>1 DEF FcnOn
    <2>2. CASE u # t
        <3>1. n[u] = m[u] /\ FcnOn(m[u], Entries)
            BY Zenon, <1>3, <1>4, <2>2 DEF Closed
        <3> QED BY Zenon, <3>1
    <2> QED BY Zenon, <2>1, <2>2
<1>9. \A u \in DOMAIN m : \A j \in Entries : u # t \/ j # i => n[u][j] = m[u][j]
    BY Zenon, <1>4, <1>7
<1>10. FcnOn(n, DOMAIN n)
    BY Zenon, <1>3 DEF FcnOn
<1>11. Wrote(n, m, t, i, e)
    BY Zenon, <1>3, <1>7, <1>8, <1>9, <1>10 DEF Wrote
<1> QED BY Zenon, <1>11 DEF n, WithEntry

(* An entry is cleared, or written for a page that is mapped. *)
LEMMA WrotePage ==
    ASSUME NEW m, NEW p, Closed(m), Apart(m, p), NEW t, NEW i, NEW e, e.a \in Frames \cup {0},
           NEW n, Wrote(n, m, t, i, e)
    PROVE  Closed(n) /\ Apart(n, p) /\ DOMAIN n = DOMAIN m
<1>1. DOMAIN n = DOMAIN m
    BY Zenon DEF Wrote
<1>2. \A u \in DOMAIN m : \A j \in Entries : n[u][j] = m[u][j] \/ n[u][j] = e
    BY Zenon DEF Wrote
<1>3. e.a \notin DOMAIN m
    BY Zenon, FramesApart DEF Closed
<1>4. Closed(n)
    <2>1. ASSUME NEW u \in DOMAIN n, NEW j \in Entries
          PROVE  n[u][j].a \in Frames \cup {0} \cup DOMAIN n
        <3>1. m[u][j].a \in Frames \cup {0} \cup DOMAIN m
            BY Zenon, <1>1 DEF Closed
        <3>2. n[u][j] = m[u][j] \/ n[u][j] = e
            BY Zenon, <1>1, <1>2
        <3> QED BY Zenon, <1>1, <3>1, <3>2
    <2> QED BY Zenon, <1>1, <2>1 DEF Closed, Wrote
<1>5. ASSUME NEW v \in DOMAIN n, NEW u \in DOMAIN n, NEW k \in Entries, NEW j \in Entries
      PROVE  PairApart(n, p, v, k, u, j)
    <2> SUFFICES ASSUME n[v][k].a \in DOMAIN n, n[v][k].a = n[u][j].a
                 PROVE  PairApart(n, p, v, k, u, j)
        BY Zenon DEF PairApart
    <2>1. n[v][k] = m[v][k] /\ n[u][j] = m[u][j]
        BY Zenon, <1>1, <1>2, <1>3
    <2>2. PairApart(m, p, v, k, u, j)
        BY Zenon, <1>1 DEF Apart
    <2> QED BY Zenon, <1>1, <2>1, <2>2 DEF PairApart
<1> QED BY Zenon, <1>1, <1>4, <1>5 DEF Apart

LEMMA PutPage ==
    ASSUME NEW m, NEW p, Closed(m), Apart(m, p), NEW t, NEW i, NEW e, e.a \in Frames \cup {0},
           NEW n, n = WithEntry(m, t, i, e)
    PROVE  Closed(n) /\ Apart(n, p) /\ DOMAIN n = DOMAIN m
<1>1. CASE t \notin DOMAIN m
    <2>1. n = m
        BY Zenon, <1>1 DEF Closed, FcnOn, WithEntry
    <2> QED BY Zenon, <2>1
<1>2. CASE t \in DOMAIN m
    <2>1. Wrote(n, m, t, i, e)
        BY Zenon, <1>2, PutEntry
    <2> QED BY <2>1, WrotePage
<1> QED BY Zenon, <1>1, <1>2

(* A new table, empty, under an entry of a table. *)
LEMMA WroteTable ==
    ASSUME NEW m, NEW p, Closed(m), Apart(m, p), NEW t \in DOMAIN m, NEW i,
           NEW f \in (1..NTables) \ DOMAIN m, NEW o, Wrote(o, m, t, i, Descended(f)),
           NEW n, n = WithTable(o, f, EmptyTable)
    PROVE  Closed(n) /\ Apart(n, p) /\ DOMAIN n = DOMAIN m \cup {f}
<1> DEFINE e == Descended(f)
<1>0. e.a = f
    BY DEF Descended
<1> HIDE DEF e
<1>1. DOMAIN o = DOMAIN m
    BY Zenon DEF Wrote
<1>2. n = [x \in DOMAIN o \cup {f} |-> IF x = f THEN EmptyTable ELSE o[x]]
    BY Zenon DEF WithTable
<1>3. /\ DOMAIN n = DOMAIN m \cup {f}
      /\ \A u \in DOMAIN m : n[u] = o[u]
      /\ n[f] = EmptyTable
    BY Zenon, <1>1, <1>2
<1>4. FcnOn(n, DOMAIN n)
    BY Zenon, <1>2 DEF FcnOn
<1>5. FcnOn(n[f], Entries) /\ \A j \in Entries : n[f][j].a = 0
    <2>1. Zero.a = 0
        BY DEF Zero
    <2> QED BY Zenon, <1>3, <2>1 DEF EmptyTable, Entries, FcnOn
<1>6. ASSUME NEW u \in DOMAIN n PROVE FcnOn(n[u], Entries)
    <2>1. CASE u \in DOMAIN m
        <3>1. n[u] = o[u] /\ FcnOn(o[u], Entries)
            BY Zenon, <1>1, <1>3, <2>1 DEF Wrote
        <3> QED BY Zenon, <3>1
    <2> QED BY Zenon, <1>3, <1>5, <2>1
<1>7. ASSUME NEW u \in DOMAIN m, NEW j \in Entries
      PROVE  n[u][j] = m[u][j] \/ (u = t /\ j = i /\ n[u][j] = e)
    BY Zenon, <1>3 DEF Wrote, e
<1>8. DOMAIN n \subseteq 1..NTables
    BY Zenon, <1>3 DEF Closed
<1>9. 0 \notin DOMAIN n /\ f \notin Frames \cup {0}
    BY Zenon, <1>8, FramesApart
<1>10. ASSUME NEW u \in DOMAIN m, NEW j \in Entries
       PROVE  m[u][j].a # f /\ m[u][j].a \in Frames \cup {0} \cup DOMAIN m
    BY Zenon, <1>9 DEF Closed
<1>11. Closed(n)
    <2>1. ASSUME NEW u \in DOMAIN n, NEW j \in Entries
          PROVE  n[u][j].a \in Frames \cup {0} \cup DOMAIN n
        <3>1. CASE u = f
            BY Zenon, <1>5, <3>1
        <3>2. CASE u \in DOMAIN m
            <4>1. CASE n[u][j] = m[u][j]
                BY Zenon, <1>3, <1>10, <3>2, <4>1
            <4>2. CASE n[u][j] = e
                BY Zenon, <1>0, <1>3, <4>2
            <4> QED BY Zenon, <1>7, <3>2, <4>1, <4>2
        <3> QED BY Zenon, <1>3, <3>1, <3>2
    <2> QED BY Zenon, <1>4, <1>6, <1>8, <2>1 DEF Closed
<1>12. ASSUME NEW v \in DOMAIN n, NEW u \in DOMAIN n, NEW k \in Entries, NEW j \in Entries
       PROVE  PairApart(n, p, v, k, u, j)
    <2> SUFFICES ASSUME v # u \/ k # j, n[v][k].a \in DOMAIN n, n[v][k].a = n[u][j].a
                 PROVE  PairApart(n, p, v, k, u, j)
        BY Zenon DEF PairApart
    <2>1. v \in DOMAIN m /\ u \in DOMAIN m
        BY Zenon, <1>3, <1>5, <1>9
    <2>2. n[v][k] = m[v][k] \/ n[u][j] = m[u][j]
        <3>1. n[v][k] = m[v][k] \/ (v = t /\ k = i)
            BY Zenon, <1>7, <2>1
        <3>2. n[u][j] = m[u][j] \/ (u = t /\ j = i)
            BY Zenon, <1>7, <2>1
        <3> QED BY Zenon, <3>1, <3>2
    <2>3. n[v][k].a # f
        BY Zenon, <1>10, <2>1, <2>2
    <2>4. n[v][k] = m[v][k] /\ n[u][j] = m[u][j]
        BY Zenon, <1>0, <1>7, <2>1, <2>3
    <2>5. n[v][k].a \in DOMAIN m
        BY Zenon, <1>3, <2>3
    <2>6. PairApart(m, p, v, k, u, j)
        BY Zenon, <2>1 DEF Apart
    <2> QED BY Zenon, <2>4, <2>5, <2>6 DEF PairApart
<1>13. Apart(n, p)
    BY Zenon, <1>12 DEF Apart
<1> QED BY Zenon, <1>3, <1>11, <1>13

(* A walk keeps the tables closed and apart, and loses none. *)
Kept(w, p, D) ==
    /\ Closed(w.m)
    /\ Apart(w.m, p)
    /\ D \subseteq DOMAIN w.m

LEMMA KeptAt ==
    ASSUME NEW n, NEW t, NEW p, NEW D, Closed(n), Apart(n, p), D \subseteq DOMAIN n
    PROVE  Kept(At(n, t), p, D)
<1>1. At(n, t).m = n
    BY DEF At
<1> QED BY Zenon, <1>1 DEF Kept

LEMMA AttachKeeps ==
    ASSUME NEW w, NEW p, NEW D, Kept(w, p, D), NEW i, IsTable(w),
           NEW f, f = NoFrame \/ f \in (1..NTables) \ DOMAIN w.m
    PROVE  Kept(Attach(w, i, f), p, D)
<1> DEFINE o == WithEntry(w.m, w.t, i, Descended(f))
           n == WithTable(o, f, EmptyTable)
<1>1. /\ f = NoFrame => Attach(w, i, f) = At(o, f)
      /\ f # NoFrame => Attach(w, i, f) = At(n, f)
    BY Zenon DEF Attach
<1>2. /\ Closed(w.m) /\ Apart(w.m, p) /\ D \subseteq DOMAIN w.m
      /\ w.t \in DOMAIN w.m /\ Wrote(o, w.m, w.t, i, Descended(f))
    BY Zenon, PutEntry DEF Kept, IsTable
<1> HIDE DEF o
<1>3. CASE f = NoFrame
    <2>1. Descended(f).a \in Frames \cup {0}
        BY <1>3 DEF Descended, NoFrame
    <2>2. Closed(o) /\ Apart(o, p) /\ DOMAIN o = DOMAIN w.m
        BY <1>2, <2>1, WrotePage
    <2> QED BY Zenon, <1>1, <1>2, <1>3, <2>2, KeptAt
<1>4. CASE f # NoFrame
    <2>1. Closed(n) /\ Apart(n, p) /\ DOMAIN n = DOMAIN w.m \cup {f}
        <3>1. f \in (1..NTables) \ DOMAIN w.m
            BY Zenon, <1>4
        <3>2. n = WithTable(o, f, EmptyTable)
            OBVIOUS
        <3> HIDE DEF n
        <3> QED BY <1>2, <3>1, <3>2, WroteTable
    <2> HIDE DEF n
    <2> QED BY Zenon, <1>1, <1>2, <1>4, <2>1, KeptAt
<1> QED BY Zenon, <1>3, <1>4

LEMMA DescendKeeps ==
    ASSUME NEW w, NEW p, NEW D, Kept(w, p, D), NEW i
    PROVE  Kept(Descend(w, i), p, D)
<1>1. CASE ~IsTable(w)
    BY Zenon, <1>1 DEF Descend
<1>2. CASE IsTable(w) /\ "P" \in w.m[w.t][i].f
    BY Zenon, <1>2, KeptAt DEF Descend, Kept
<1>3. CASE IsTable(w) /\ "P" \notin w.m[w.t][i].f
    <2>1. Descend(w, i) = Attach(w, i, PmmAlloc(w.m))
        BY Zenon, <1>3 DEF Descend
    <2> QED BY Zenon, <1>3, <2>1, AttachKeeps, PmmAllocFree
<1> QED BY Zenon, <1>1, <1>2, <1>3

LEMMA StoreKeeps ==
    ASSUME NEW w, NEW p, NEW D, Kept(w, p, D), NEW i, NEW e, e.a \in Frames
    PROVE  Kept(Store(w, i, e), p, D)
<1> DEFINE n == WithEntry(w.m, w.t, i, e)
<1>1. CASE ~IsTable(w)
    BY Zenon, <1>1 DEF Store
<1>2. CASE IsTable(w)
    <2>1. Store(w, i, e) = At(n, w.t)
        BY Zenon, <1>2 DEF Store
    <2>2. Closed(n) /\ Apart(n, p) /\ DOMAIN n = DOMAIN w.m
        <3>1. Closed(w.m) /\ Apart(w.m, p) /\ e.a \in Frames \cup {0}
            BY Zenon DEF Kept
        <3>2. n = WithEntry(w.m, w.t, i, e)
            OBVIOUS
        <3> HIDE DEF n
        <3> QED BY <3>1, <3>2, PutPage
    <2> HIDE DEF n
    <2> QED BY Zenon, <2>1, <2>2, KeptAt DEF Kept
<1> QED BY Zenon, <1>1, <1>2

-----------------------------------------------------------------------------
LEMMA TablesInit == Init => TablesInv
<1> SUFFICES ASSUME Init PROVE TablesInv
    OBVIOUS
<1> DEFINE n == Fan \div 2
           root == [i \in 0..(Fan - 1) |->
                       IF KernelHalf(i)
                       THEN [a |-> i - n + 2, f |-> ToX86(VM_PROT_ALL, {})] ELSE Zero]
<1>1. n \in Nat /\ Fan = n + n /\ n + 1 <= NTables /\ NTables \in Nat
    <2>1. Fan \in Nat /\ Fan % 2 = 0 /\ NTables \in Nat /\ Fan \div 2 < NTables
        BY PagingAssumption
    <2> QED BY <2>1
<1>2. mem = [t \in 1..(n + 1) |-> IF t = 1 THEN root ELSE EmptyTable]
    BY DEF Init, Preallocated, At
<1>3. pmlt = [s \in Spaces |-> IF s = Kernel THEN 1 ELSE 0]
    BY DEF Init, Preallocated, At
<1>4. root = [i \in Entries |-> root[i]] /\ EmptyTable = [i \in Entries |-> Zero]
    BY Zenon DEF Entries, EmptyTable
<1>5. Zero.a = 0 /\ Zero.f = {}
    BY DEF Zero
<1>6. \A i \in Entries : KernelHalf(i) => i \in Int /\ i - n + 2 \in 2..(n + 1)
    BY <1>1 DEF Entries, KernelHalf
<1>7. ASSUME NEW i \in Entries
      PROVE  \/ KernelHalf(i) /\ root[i].a = i - n + 2 /\ root[i].a \in 2..(n + 1)
             \/ root[i].a = 0
    <2>1. root[i] = IF KernelHalf(i)
                    THEN [a |-> i - n + 2, f |-> ToX86(VM_PROT_ALL, {})] ELSE Zero
        BY Zenon DEF Entries
    <2>2. CASE KernelHalf(i)
        <3>1. root[i].a = i - n + 2
            BY <2>1, <2>2
        <3> QED BY Zenon, <1>6, <2>2, <3>1
    <2>3. CASE ~KernelHalf(i)
        BY Zenon, <1>5, <2>1, <2>3
    <2> QED BY Zenon, <2>2, <2>3
<1> HIDE DEF n, root
<1>8. DOMAIN mem = 1..(n + 1) /\ FcnOn(mem, DOMAIN mem)
    BY Zenon, <1>2 DEF FcnOn
<1>9. 1 \in 1..(n + 1) /\ 2..(n + 1) \subseteq 1..(n + 1) /\ 1..(n + 1) \subseteq 1..NTables
      /\ 0 \notin 1..(n + 1) /\ 1 \in 0..NTables /\ 0 \in 0..NTables
    BY <1>1
<1>10. /\ mem[1] = root
       /\ \A t \in DOMAIN mem : t # 1 => mem[t] = EmptyTable
    BY Zenon, <1>2, <1>8, <1>9
<1>11. ASSUME NEW t \in DOMAIN mem PROVE FcnOn(mem[t], Entries)
    <2>1. FcnOn(root, Entries)
        BY Zenon, <1>4 DEF FcnOn
    <2>2. FcnOn(EmptyTable, Entries)
        BY Zenon, <1>4 DEF FcnOn
    <2> QED BY Zenon, <1>10, <2>1, <2>2
<1>12. ASSUME NEW t \in DOMAIN mem, NEW i \in Entries
       PROVE  \/ /\ t = 1 /\ KernelHalf(i)
                 /\ mem[t][i].a = i - n + 2 /\ mem[t][i].a \in DOMAIN mem
              \/ mem[t][i].a = 0
    <2>1. CASE t = 1
        BY Zenon, <1>7, <1>8, <1>9, <1>10, <2>1
    <2>2. CASE t # 1
        BY Zenon, <1>4, <1>5, <1>10, <2>2
    <2> QED BY Zenon, <2>1, <2>2
<1>13. Closed(mem)
    <2>1. DOMAIN mem \subseteq 1..NTables
        BY Zenon, <1>8, <1>9
    <2>2. \A t \in DOMAIN mem : \A i \in Entries :
              mem[t][i].a \in Frames \cup {0} \cup DOMAIN mem
        BY Zenon, <1>12
    <2> QED BY Zenon, <1>8, <1>11, <2>1, <2>2 DEF Closed
<1>14. ASSUME NEW t \in DOMAIN mem, NEW u \in DOMAIN mem, NEW i \in Entries, NEW j \in Entries
       PROVE  PairApart(mem, pmlt, t, i, u, j)
    <2> SUFFICES ASSUME t # u \/ i # j, mem[t][i].a \in DOMAIN mem, mem[t][i].a = mem[u][j].a
                 PROVE  FALSE
        BY Zenon DEF PairApart
    <2>1. mem[t][i].a # 0 /\ mem[u][j].a # 0
        BY Zenon, <1>8, <1>9
    <2>2. t = 1 /\ u = 1 /\ i - n + 2 = j - n + 2
        BY Zenon, <1>12, <2>1
    <2>3. i = j
        BY <1>1, <2>2 DEF Entries
    <2> QED BY Zenon, <2>2, <2>3
<1>15. pmlt \in [Spaces -> 0..NTables] /\ pmlt[Kernel] = 1
    BY Zenon, <1>3, <1>9, PagingAssumption
<1> QED BY Zenon, <1>8, <1>9, <1>13, <1>14, <1>15 DEF TablesInv, Apart

(* pmap_map: at most four descents and the entry of the page. *)
LEMMA MapDescendKeeps ==
    ASSUME NEW m, NEW s, Closed(m), Apart(m, pmlt),
           NEW v, NEW paddr \in Frames, NEW prot, NEW flags
    PROVE  Kept(MapDescend(m, s, v, paddr, prot, flags), pmlt, DOMAIN m)
<1> DEFINE e == [a |-> paddr, f |-> ToX86(prot, flags)]
           w5 == At(m, pmlt[s])
           w4 == IF Pml5 THEN Descend(w5, Index(v, 5)) ELSE w5
           w3 == Descend(w4, Index(v, 4))
           w2 == Descend(w3, Index(v, 3))
           w1 == Descend(w2, Index(v, 2))
           W == MapDescend(m, s, v, paddr, prot, flags)
<1>1. \/ W = Store(w3, Index(v, 3), e)
      \/ W = Store(w2, Index(v, 2), e)
      \/ W = Store(w1, Index(v, 1), e)
    BY Zenon DEF MapDescend
<1>2. e.a \in Frames
    OBVIOUS
<1>3. Kept(w5, pmlt, DOMAIN m)
    BY Zenon, KeptAt
<1> HIDE DEF e, w5, W
<1>4. Kept(w4, pmlt, DOMAIN m)
    BY Zenon, <1>3, DescendKeeps
<1> HIDE DEF w4
<1>5. Kept(w3, pmlt, DOMAIN m)
    BY Zenon, <1>4, DescendKeeps
<1> HIDE DEF w3
<1>6. Kept(w2, pmlt, DOMAIN m)
    BY Zenon, <1>5, DescendKeeps
<1> HIDE DEF w2
<1>7. Kept(w1, pmlt, DOMAIN m)
    BY Zenon, <1>6, DescendKeeps
<1> HIDE DEF w1
<1>8. Kept(W, pmlt, DOMAIN m)
    BY Zenon, <1>1, <1>2, <1>5, <1>6, <1>7, StoreKeeps
<1> QED BY Zenon, <1>8 DEF W

(* pmap_new: the free frame f becomes the root of s, and holds a table r   *)
(* whose kernel half is that of the kernel's root.                         *)
KernelCopy(r, root) ==
    /\ FcnOn(r, Entries)
    /\ \A i \in Entries : (KernelHalf(i) /\ r[i] = root[i]) \/ r[i] = Zero

HasRoot(n, q, m, p, s, f, r) ==
    /\ f \in (1..NTables) \ DOMAIN m
    /\ p[s] = 0
    /\ q = [p EXCEPT ![s] = f]
    /\ n = WithTable(m, f, r)

LEMMA NewRoot ==
    ASSUME NEW m, Closed(m), NEW p \in [Spaces -> 0..NTables], Apart(m, p),
           p[Kernel] \in DOMAIN m, NEW r, KernelCopy(r, m[p[Kernel]]),
           NEW s \in Spaces, NEW f, NEW n, NEW q, HasRoot(n, q, m, p, s, f, r)
    PROVE  Closed(n) /\ Apart(n, q) /\ q \in [Spaces -> 0..NTables] /\ q[Kernel] \in DOMAIN n
<1> DEFINE k == p[Kernel]
<1>1. n = [x \in DOMAIN m \cup {f} |-> IF x = f THEN r ELSE m[x]]
    BY Zenon DEF HasRoot, WithTable
<1>2. /\ DOMAIN n = DOMAIN m \cup {f}
      /\ f \in (1..NTables) \ DOMAIN m
      /\ \A u \in DOMAIN m : n[u] = m[u]
      /\ n[f] = r
    BY Zenon, <1>1 DEF HasRoot
<1>3. FcnOn(n, DOMAIN n)
    BY Zenon, <1>1 DEF FcnOn
<1>4. Zero.a = 0
    BY DEF Zero
<1>5. DOMAIN n \subseteq 1..NTables /\ 0 \notin DOMAIN m /\ 0 \notin DOMAIN n /\ f \notin Frames \cup {0}
    <2>1. DOMAIN n \subseteq 1..NTables
        BY Zenon, <1>2 DEF Closed
    <2> QED BY Zenon, <1>2, <2>1, FramesApart
<1>6. ASSUME NEW u \in DOMAIN m, NEW j \in Entries
      PROVE  m[u][j].a # f /\ m[u][j].a \in Frames \cup {0} \cup DOMAIN m
    <2>1. m[u][j].a \in Frames \cup {0} \cup DOMAIN m
        BY Zenon DEF Closed
    <2> QED BY Zenon, <1>2, <1>5, <2>1
<1>7. Closed(n)
    <2>1. ASSUME NEW u \in DOMAIN n PROVE FcnOn(n[u], Entries)
        BY Zenon, <1>2 DEF Closed, KernelCopy
    <2>2. ASSUME NEW u \in DOMAIN n, NEW j \in Entries
          PROVE  n[u][j].a \in Frames \cup {0} \cup DOMAIN n
        BY Zenon, <1>2, <1>4, <1>6 DEF KernelCopy
    <2> QED BY Zenon, <1>3, <1>5, <2>1, <2>2 DEF Closed
<1>8. f \in 0..NTables /\ Kernel \in Spaces
    BY <1>2, PagingAssumption
<1>9. /\ q \in [Spaces -> 0..NTables]
      /\ q[s] = f
      /\ \A x \in Spaces : x # s => q[x] = p[x]
    BY <1>8 DEF HasRoot
<1>10. s # Kernel /\ q[Kernel] = k
    BY Zenon, <1>5, <1>8, <1>9 DEF HasRoot
<1>11. ASSUME NEW u \in DOMAIN m, \E x \in Spaces : p[x] = u PROVE \E x \in Spaces : q[x] = u
    BY Zenon, <1>5, <1>9, <1>11 DEF HasRoot
<1> DEFINE under(t) == IF t = f THEN k ELSE t
<1>12. ASSUME NEW t \in DOMAIN n, NEW i \in Entries, n[t][i].a \in DOMAIN n
       PROVE  /\ under(t) \in DOMAIN m
              /\ n[t][i] = m[under(t)][i]
              /\ n[t][i].a \in DOMAIN m
              /\ t = f => KernelHalf(i)
    <2>1. CASE t = f
        BY Zenon, <1>2, <1>4, <1>5, <1>6, <1>12, <2>1 DEF KernelCopy
    <2>2. CASE t # f
        BY Zenon, <1>2, <1>6, <1>12, <2>2
    <2> QED BY Zenon, <2>1, <2>2
<1>13. \E x \in Spaces : q[x] = f
    BY Zenon, <1>9
<1>14. ASSUME NEW t \in DOMAIN n, NEW u \in DOMAIN n, NEW i \in Entries, NEW j \in Entries
       PROVE  PairApart(n, q, t, i, u, j)
    <2> SUFFICES ASSUME t # u \/ i # j, "P" \in n[t][i].f, n[t][i].a \in DOMAIN n,
                        n[t][i].a = n[u][j].a
                 PROVE  i = j /\ KernelHalf(i) /\ (\E x \in Spaces : q[x] = t)
                        /\ (\E x \in Spaces : q[x] = u)
        BY Zenon DEF PairApart
    <2>1. /\ under(t) \in DOMAIN m /\ n[t][i] = m[under(t)][i] /\ n[t][i].a \in DOMAIN m
          /\ t = f => KernelHalf(i)
        BY Zenon, <1>12
    <2>2. /\ under(u) \in DOMAIN m /\ n[u][j] = m[under(u)][j]
          /\ u = f => KernelHalf(j)
        BY Zenon, <1>12
    <2>3. \E x \in Spaces : q[x] = k
        BY Zenon, <1>8, <1>10
    <2>4. CASE under(t) # under(u) \/ i # j
        <3>1. i = j /\ KernelHalf(i) /\ (\E x \in Spaces : q[x] = under(t))
              /\ (\E x \in Spaces : q[x] = under(u))
            <4>1. PICK T \in DOMAIN m, U \in DOMAIN m : T = under(t) /\ U = under(u)
                BY Zenon, <2>1, <2>2
            <4> HIDE DEF under, k
            <4>2. /\ T # U \/ i # j
                  /\ "P" \in m[T][i].f /\ m[T][i].a \in DOMAIN m /\ m[T][i].a = m[U][j].a
                BY Zenon, <2>1, <2>2, <2>4, <4>1
            <4>3. PairApart(m, p, T, i, U, j)
                BY Zenon DEF Apart
            <4>4. i = j /\ KernelHalf(i) /\ (\E x \in Spaces : p[x] = T)
                  /\ (\E x \in Spaces : p[x] = U)
                BY Zenon, <4>2, <4>3 DEF PairApart
            <4> QED BY Zenon, <1>11, <4>1, <4>4
        <3> QED BY Zenon, <1>13, <3>1
    <2>5. CASE under(t) = under(u) /\ i = j
        BY Zenon, <1>13, <2>1, <2>2, <2>3, <2>5
    <2> QED BY Zenon, <2>4, <2>5
<1> QED BY Zenon, <1>2, <1>7, <1>9, <1>10, <1>14 DEF Apart

LEMMA TablesNext == TablesInv /\ [Next]_vars => TablesInv'
<1> SUFFICES ASSUME TablesInv, [Next]_vars PROVE TablesInv'
    OBVIOUS
<1>0. /\ pmlt \in [Spaces -> 0..NTables] /\ pmlt[Kernel] \in DOMAIN mem
      /\ Closed(mem) /\ Apart(mem, pmlt)
    BY Zenon DEF TablesInv
<1> DEFINE After == /\ pmlt' \in [Spaces -> 0..NTables] /\ pmlt'[Kernel] \in DOMAIN mem'
                    /\ Closed(mem') /\ Apart(mem', pmlt')
<1>a. After => TablesInv'
    BY Zenon DEF TablesInv, Closed, Apart, PairApart, FcnOn
<1>1. CASE UNCHANGED vars
    <2>1. After
        BY Zenon, <1>0, <1>1 DEF vars
    <2> QED BY Zenon, <1>a, <2>1
<1>2. ASSUME NEW s \in Spaces, PmapNew(s) PROVE TablesInv'
    <2> DEFINE f == PmmAlloc(mem)
               root == [i \in 0..(Fan - 1) |->
                           IF KernelHalf(i) THEN mem[pmlt[Kernel]][i] ELSE Zero]
    <2>1. /\ pmlt[s] = 0
          /\ pmlt' = [pmlt EXCEPT ![s] = f]
          /\ mem' = IF f = NoFrame THEN mem ELSE WithTable(mem, f, root)
        BY Zenon, <1>2 DEF PmapNew
    <2>2. FcnOn(root, Entries)
        BY Zenon DEF FcnOn, Entries
    <2>3. \A i \in Entries : (KernelHalf(i) /\ root[i] = mem[pmlt[Kernel]][i]) \/ root[i] = Zero
        BY Zenon DEF Entries
    <2>4. f = NoFrame \/ f \in (1..NTables) \ DOMAIN mem
        BY Zenon, PmmAllocFree
    <2> HIDE DEF f, root
    <2>5. CASE f = NoFrame
        <3>1. pmlt' = pmlt
            BY <1>0, <2>1, <2>5 DEF NoFrame
        <3>2. mem' = mem
            BY Zenon, <2>1, <2>5
        <3>3. After
            BY Zenon, <1>0, <3>1, <3>2
        <3> QED BY Zenon, <1>a, <3>3
    <2>6. CASE f # NoFrame
        <3>1. f \in (1..NTables) \ DOMAIN mem /\ mem' = WithTable(mem, f, root)
            BY Zenon, <2>1, <2>4, <2>6
        <3>2. Closed(mem') /\ Apart(mem', pmlt') /\ pmlt' \in [Spaces -> 0..NTables]
              /\ pmlt'[Kernel] \in DOMAIN mem'
            <4>1. HasRoot(mem', pmlt', mem, pmlt, s, f, root)
                BY Zenon, <2>1, <3>1 DEF HasRoot
            <4>2. KernelCopy(root, mem[pmlt[Kernel]])
                BY Zenon, <2>2, <2>3 DEF KernelCopy
            <4> QED BY <1>0, <4>1, <4>2, NewRoot
        <3> QED BY Zenon, <1>a, <3>2
    <2> QED BY Zenon, <2>5, <2>6
<1>3. ASSUME NEW s \in Spaces, PmapMap(s) PROVE TablesInv'
    <2>1. PICK v \in Vaddrs : \E paddr \in Frames, prot \in ProtsAt[v], flags \in FlagsAt[v] :
              mem' = MapDescend(mem, s, v, paddr, prot, flags).m
        BY Zenon, <1>3 DEF PmapMap
    <2>2. PICK paddr \in Frames, prot \in ProtsAt[v], flags \in FlagsAt[v] :
              mem' = MapDescend(mem, s, v, paddr, prot, flags).m
        BY Zenon, <2>1
    <2>3. Kept(MapDescend(mem, s, v, paddr, prot, flags), pmlt, DOMAIN mem)
        BY Zenon, <1>0, MapDescendKeeps
    <2>4. Closed(mem') /\ Apart(mem', pmlt) /\ DOMAIN mem \subseteq DOMAIN mem'
        BY Zenon, <2>2, <2>3 DEF Kept
    <2>5. pmlt' = pmlt
        BY Zenon, <1>3 DEF PmapMap
    <2>6. After
        BY Zenon, <1>0, <2>4, <2>5
    <2> QED BY Zenon, <1>a, <2>6
<1>4. ASSUME NEW s \in Spaces, PmapUnmap(s) PROVE TablesInv'
    <2>1. PICK t, i : mem' = WithEntry(mem, t, i, Zero)
        BY Zenon, <1>4 DEF PmapUnmap
    <2>2. Zero.a \in Frames \cup {0}
        BY DEF Zero
    <2>3. Closed(mem') /\ Apart(mem', pmlt) /\ DOMAIN mem' = DOMAIN mem
        BY <1>0, <2>1, <2>2, PutPage
    <2>4. pmlt' = pmlt
        BY Zenon, <1>4 DEF PmapUnmap
    <2>5. After
        BY Zenon, <1>0, <2>3, <2>4
    <2> QED BY Zenon, <1>a, <2>5
<1> QED BY Zenon, <1>1, <1>2, <1>3, <1>4 DEF Next

(* TablesNotShared: pmap_new, pmap_map and pmap_unmap never give a table a *)
(* second parent, other than the kernel half that pmap_new copies, also    *)
(* when pmm_alloc has no frame left.                                       *)
THEOREM TablesStayApart == Spec => []TablesNotShared
<1>1. TablesInv => TablesNotShared
    <2> SUFFICES ASSUME TablesInv,
                        NEW t \in DOMAIN mem, NEW u \in DOMAIN mem,
                        NEW i \in 0..(Fan - 1), NEW j \in 0..(Fan - 1),
                        <<t, i>> # <<u, j>>, "P" \in mem[t][i].f, mem[t][i].a \in DOMAIN mem,
                        mem[t][i].a = mem[u][j].a
                 PROVE  i = j /\ KernelHalf(i) /\ \E r, s \in Spaces : pmlt[r] = t /\ pmlt[s] = u
        BY DEF TablesNotShared
    <2>1. t # u \/ i # j
        BY Zenon
    <2>2. PairApart(mem, pmlt, t, i, u, j)
        BY Zenon DEF TablesInv, Apart, Entries
    <2> QED BY Zenon, <2>1, <2>2 DEF PairApart
<1> QED BY <1>1, TablesInit, TablesNext, PTL DEF Spec
=============================================================================
