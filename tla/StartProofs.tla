----------------------------- MODULE StartProofs -----------------------------
(***************************************************************************)
(* The start of a machine is right for any number of cores, and for any    *)
(* controller: queues of any length, any number of namespaces, MSI-X       *)
(* tables and pages for the controller of any size.                        *)
(*                                                                         *)
(* The cores: at any time one core is in charge: that with the number      *)
(* logical_processor_cnt - 1, until it has started the next, and then that *)
(* one.  All before it are behind: they wait for the lock a last time or   *)
(* are done with chain_aps.                                                *)
(*                                                                         *)
(* The NVMe server: one command at a time is under way, and it is in       *)
(* exactly one place: in the submission queue, with the controller, in the *)
(* completion queue with its interrupt pending, or answered.  Before the   *)
(* first one is sent the vector, the cortex and its anchors are set up.    *)
(***************************************************************************)
EXTENDS MCStart, Sequences, WellFoundedInduction, TLAPS

Charge == {"lock", "write", "ipi", "sched"}
Coming == {"init", "up", "count"}
Behind == {"join", "leave", "wait", "load", "idle", "booted"}
Places == {"off", "chain"} \cup Charge \cup Coming \cup Behind

(* The core that keeps core_init_lock taken, or for which it is kept. *)
Holds(c) == pc[c] \in {"write", "ipi", "leave", "init"} \/ c \in started

Types ==
    /\ pc \in [Cores -> Places]
    /\ target \in [Cores -> Cores \cup {None}]
    /\ locale \in [Cores -> Cores \cup {None}]
    /\ started \in SUBSET Cores
    /\ parameters \in [cpu_local : Cores \cup {None}, idtr : Cores \cup {None}]
    /\ logical_processor_cnt \in 0..Bootable

(* Where a core can be, by its number and logical_processor_cnt. *)
Place(c) ==
    /\ pc[c] = "chain" => logical_processor_cnt = c + 1
                            \/ (c = 0 /\ logical_processor_cnt = 0)
    /\ pc[c] \in Charge => logical_processor_cnt = c + 1
    /\ pc[c] \in Coming => c = logical_processor_cnt /\ c > 0 /\ pc[c - 1] \in Behind
    /\ c < logical_processor_cnt => pc[c] \notin {"off"} \cup Coming
    /\ c + 1 < logical_processor_cnt => pc[c] \in Behind
    /\ c > logical_processor_cnt => pc[c] = "off"
    /\ c = logical_processor_cnt /\ c > 0 => pc[c] \in {"off"} \cup Coming

(* What the page of parameters holds while it is in use. *)
Handover(c) ==
    /\ pc[c] \in {"lock", "write", "ipi"} => target[c] = c + 1 /\ c + 1 \in Cores
    /\ pc[c] = "ipi" => parameters = [cpu_local |-> c + 1, idtr |-> c]
    /\ c \in started => /\ pc[c] = "off" /\ c > 0 /\ c = logical_processor_cnt
                        /\ pc[c - 1] = "join"
                        /\ parameters = [cpu_local |-> c, idtr |-> c - 1]

Located(c) ==
    /\ locale[c] \in {None, c}
    /\ c < logical_processor_cnt \/ pc[c] \in Coming => locale[c] = c

Locked ==
    /\ \A c \in Cores : Holds(c) => lock
    /\ \A c, d \in Cores : Holds(c) /\ Holds(d) => c = d

SmpInv ==
    /\ Types
    /\ \A c \in Cores : Place(c)
    /\ \A c \in Cores : Handover(c)
    /\ \A c \in Cores : Located(c)
    /\ Locked
    /\ ~dangling
    /\ mapped \/ logical_processor_cnt = Bootable

-----------------------------------------------------------------------------
(* The first state: core 0 is about to chain, all others are off. *)
LEMMA InitInv == Init => SmpInv
<1> SUFFICES ASSUME Init PROVE SmpInv
  OBVIOUS
<1> USE SmpAssumption DEF Cores, Boot, None
<1>1. Types
  BY DEF Init, Types, Places, Charge, Coming, Behind
<1>2. \A c \in Cores : Place(c) /\ Handover(c) /\ Located(c)
  BY DEF Init, Place, Handover, Located, Charge, Coming, Behind
<1>3. Locked
  BY DEF Init, Locked, Holds
<1> QED
  BY <1>1, <1>2, <1>3 DEF Init, SmpInv

(* Where a core may go while logical_processor_cnt stays as it is. *)
CanMove(c, at) ==
    /\ at \in Places \ {"off"}
    /\ at = "chain" => pc[c] = "sched"
    /\ at \in Charge \cup Behind => pc[c] \in {"chain"} \cup Charge \cup Behind
    /\ at \in Charge => logical_processor_cnt = c + 1
    /\ at \in Coming => c = logical_processor_cnt /\ c > 0 /\ pc[c - 1] \in Behind
    /\ pc[c] \in Behind => at \in Behind
    /\ at \in Behind /\ pc[c] = "chain" => logical_processor_cnt = c + 1

(* All cores are still where they can be. *)
LEMMA MovePlace ==
    ASSUME SmpInv, NEW c \in Cores, NEW at, Goto(c, at), CanMove(c, at),
           UNCHANGED logical_processor_cnt
    PROVE  pc' \in [Cores -> Places] /\ \A d \in Cores : Place(d)'
<1> USE SmpAssumption DEF Cores, Goto
<1>1. Types /\ Place(c) /\ at \in Places
  BY DEF SmpInv, CanMove
<1>2. pc' \in [Cores -> Places]
  BY <1>1 DEF Types
<1>3. ASSUME NEW d \in Cores PROVE Place(d)'
  <2>1. Place(d)
    BY DEF SmpInv
  <2>2. CASE d = c
    <3>1. pc'[c] = at /\ (c > 0 => pc'[c - 1] = pc[c - 1])
      BY <1>1 DEF Types
    <3> QED
      BY <1>1, <2>2, <3>1 DEF Types, Place, CanMove, Places, Charge, Coming, Behind
  <2>3. CASE d = c + 1
    BY <1>1, <2>1, <2>3 DEF Types, Place, CanMove, Charge, Coming, Behind
  <2>4. CASE d # c /\ d # c + 1
    <3>1. pc'[d] = pc[d] /\ (d > 0 => pc'[d - 1] = pc[d - 1])
      BY <1>1, <2>4 DEF Types
    <3> QED
      BY <1>1, <2>1, <2>4, <3>1 DEF Types, Place, Charge, Coming, Behind
  <2> QED
    BY <2>2, <2>3, <2>4
<1> QED
  BY <1>2, <1>3

(* The steps that change nothing but where the core is, core_init_lock and *)
(* cpus_up.                                                                *)
Moves == {<<"lock", "write">>, <<"join", "leave">>, <<"leave", "wait">>, <<"leave", "load">>,
          <<"init", "up">>, <<"up", "count">>, <<"sched", "chain">>, <<"load", "idle">>,
          <<"wait", "booted">>}

LEMMA MoveInv ==
    ASSUME SmpInv, NEW c \in Cores, NEW at, Goto(c, at), <<pc[c], at>> \in Moves,
           UNCHANGED <<target, locale, trampoline, logical_processor_cnt>>,
           IF at \in {"write", "leave"} THEN ~lock /\ lock' = TRUE
           ELSE IF pc[c] \in {"leave", "init"} THEN lock' = FALSE
           ELSE lock' = lock
    PROVE  SmpInv'
<1> USE SmpAssumption DEF Cores, Goto
<1>1. /\ Types /\ Place(c) /\ Located(c)
      /\ UNCHANGED <<target, locale, parameters, started, dangling, mapped, logical_processor_cnt>>
  BY Zenon DEF SmpInv, trampoline
<1>2. CanMove(c, at)
  BY <1>1 DEF Types, Place, CanMove, Places, Charge, Coming, Behind, Moves
<1>3. pc' \in [Cores -> Places] /\ \A d \in Cores : Place(d)'
  BY Zenon, <1>1, <1>2, MovePlace
<1>4. Types'
  BY Zenon, <1>1, <1>3 DEF Types
<1>5. ASSUME NEW d \in Cores PROVE Handover(d)'
  <2>1. Handover(d) /\ (Holds(d) => lock) /\ (Holds(c) /\ Holds(d) => c = d)
    BY DEF SmpInv, Locked
  <2> QED
    BY <1>1, <2>1 DEF Types, Handover, Holds, Moves
<1>6. ASSUME NEW d \in Cores PROVE Located(d)'
  <2>1. Located(d) /\ Place(d)
    BY DEF SmpInv
  <2> QED
    BY <1>1, <2>1 DEF Types, Place, Located, Coming, Moves
<1>7. Locked'
  BY <1>1 DEF SmpInv, Types, Locked, Holds, Handover, Moves
<1> QED
  BY <1>1, <1>3, <1>4, <1>5, <1>6, <1>7 DEF SmpInv

(* ChainEnd keeps the invariant. *)
LEMMA ChainEndInv == ASSUME SmpInv, NEW c \in Cores, ChainEnd(c) PROVE SmpInv'
<1> USE SmpAssumption DEF Cores, Boot, None, ChainEnd, Goto, Return, counts
<1>1. Types /\ Place(c) /\ Handover(c) /\ Located(c)
  BY DEF SmpInv
<1>3. Types'
  BY <1>1 DEF Types, Places, Charge, Coming, Behind
<1>4. ASSUME NEW d \in Cores PROVE Place(d)'
  <2>1. CanMove(c, IF c = Boot THEN "wait" ELSE "load")
    BY <1>1 DEF Types, Place, CanMove, Places, Charge, Coming, Behind
  <2> QED
    BY Zenon, <2>1, MovePlace
<1>5. ASSUME NEW d \in Cores PROVE Handover(d)'
  <2>1. Handover(d) /\ Place(d) /\ (Holds(d) => lock) /\ (Holds(c) /\ Holds(d) => c = d)
    BY DEF SmpInv, Locked
  <2> QED
    BY <1>1, <2>1 DEF Types, Place, Handover, Holds, Charge, Coming, Behind
<1>6. ASSUME NEW d \in Cores PROVE Located(d)'
  <2>1. Located(d) /\ Place(d)
    BY DEF SmpInv
  <2> QED
    BY <1>1, <2>1 DEF Types, Place, Located, Charge, Coming
<1>7. Locked'
  BY <1>1 DEF SmpInv, Types, Locked, Holds, Handover
<1>8. ~dangling' /\ (mapped' \/ logical_processor_cnt' = Bootable)
  BY <1>1 DEF SmpInv, Types, Place, Coming
<1> QED
  BY <1>3, <1>4, <1>5, <1>6, <1>7, <1>8 DEF SmpInv

(* ChainSelf keeps the invariant. *)
LEMMA ChainSelfInv == ASSUME SmpInv, NEW c \in Cores, ChainSelf(c) PROVE SmpInv'
<1> USE SmpAssumption DEF Cores, Boot, None, ChainSelf, trampoline
<1>1. Types /\ Place(c) /\ Handover(c) /\ Located(c)
  BY DEF SmpInv
<1>2. c = 0 /\ logical_processor_cnt = 0
  BY <1>1 DEF Types, Place, Handover, Charge, Coming, Behind
<1>3. Types'
  BY <1>1, <1>2 DEF Types, Places, Charge, Coming, Behind
<1>4. ASSUME NEW d \in Cores PROVE Place(d)'
  <2>1. Place(d)
    BY DEF SmpInv
  <2>2. CASE d = c
    BY <1>1, <1>2, <2>1, <2>2 DEF Types, Place, Charge, Coming, Behind
  <2>3. CASE d = c + 1
    BY <1>1, <1>2, <2>1, <2>3 DEF Types, Place, Charge, Coming, Behind
  <2>4. CASE d # c /\ d # c + 1
    <3>1. pc'[d] = pc[d] /\ (d > 0 => pc'[d - 1] = pc[d - 1])
      BY <1>1, <2>4 DEF Types
    <3> QED
      BY <1>1, <1>2, <2>1, <2>4, <3>1 DEF Types, Place, Charge, Coming, Behind
  <2> QED
    BY <2>2, <2>3, <2>4
<1>5. ASSUME NEW d \in Cores PROVE Handover(d)'
  <2>1. Handover(d) /\ Place(d) /\ (Holds(d) => lock) /\ (Holds(c) /\ Holds(d) => c = d)
    BY DEF SmpInv, Locked
  <2> QED
    BY <1>1, <1>2, <2>1 DEF Types, Place, Handover, Holds, Charge, Coming, Behind
<1>6. ASSUME NEW d \in Cores PROVE Located(d)'
  <2>1. Located(d) /\ Place(d)
    BY DEF SmpInv
  <2> QED
    BY <1>1, <1>2, <2>1 DEF Types, Place, Located, Charge, Coming
<1>7. Locked'
  BY <1>1, <1>2 DEF SmpInv, Types, Locked, Holds, Handover
<1>8. ~dangling' /\ (mapped' \/ logical_processor_cnt' = Bootable)
  BY <1>1, <1>2 DEF SmpInv, Types, Place, Coming
<1> QED
  BY <1>3, <1>4, <1>5, <1>6, <1>7, <1>8 DEF SmpInv

(* ChainNext keeps the invariant. *)
LEMMA ChainNextInv == ASSUME SmpInv, NEW c \in Cores, ChainNext(c) PROVE SmpInv'
<1> USE SmpAssumption DEF Cores, Boot, None, ChainNext, Goto, trampoline, counts
<1>1. Types /\ Place(c) /\ Handover(c) /\ Located(c)
  BY DEF SmpInv
<1>2. logical_processor_cnt = c + 1
  BY <1>1 DEF Types, Place, Handover, Charge, Coming, Behind
<1>3. Types'
  BY <1>1, <1>2 DEF Types, Places, Charge, Coming, Behind
<1>4. ASSUME NEW d \in Cores PROVE Place(d)'
  <2>1. CanMove(c, "lock")
    BY <1>1, <1>2 DEF Types, Place, CanMove, Places, Charge, Coming, Behind
  <2> QED
    BY Zenon, <2>1, MovePlace
<1>5. ASSUME NEW d \in Cores PROVE Handover(d)'
  <2>1. Handover(d) /\ Place(d) /\ (Holds(d) => lock) /\ (Holds(c) /\ Holds(d) => c = d)
    BY DEF SmpInv, Locked
  <2> QED
    BY <1>1, <1>2, <2>1 DEF Types, Place, Handover, Holds, Charge, Coming, Behind
<1>6. ASSUME NEW d \in Cores PROVE Located(d)'
  <2>1. Located(d) /\ Place(d)
    BY DEF SmpInv
  <2> QED
    BY <1>1, <1>2, <2>1 DEF Types, Place, Located, Charge, Coming
<1>7. Locked'
  BY <1>1, <1>2 DEF SmpInv, Types, Locked, Holds, Handover
<1>8. ~dangling' /\ (mapped' \/ logical_processor_cnt' = Bootable)
  BY <1>1, <1>2 DEF SmpInv, Types, Place, Coming
<1> QED
  BY <1>3, <1>4, <1>5, <1>6, <1>7, <1>8 DEF SmpInv

(* Acquire keeps the invariant. *)
LEMMA AcquireInv == ASSUME SmpInv, NEW c \in Cores, Acquire(c) PROVE SmpInv'
BY Zenon, MoveInv DEF Acquire, Moves, counts

(* Write keeps the invariant. *)
LEMMA WriteInv == ASSUME SmpInv, NEW c \in Cores, Write(c) PROVE SmpInv'
<1> USE SmpAssumption DEF Cores, Boot, None, Write, Goto, counts
<1>1. Types /\ Place(c) /\ Handover(c) /\ Located(c)
  BY DEF SmpInv
<1>3. Types'
  BY <1>1 DEF Types, Places, Charge, Coming, Behind
<1>4. ASSUME NEW d \in Cores PROVE Place(d)'
  <2>1. CanMove(c, "ipi")
    BY <1>1 DEF Types, Place, CanMove, Places, Charge, Coming, Behind
  <2> QED
    BY Zenon, <2>1, MovePlace
<1>5. ASSUME NEW d \in Cores PROVE Handover(d)'
  <2>1. Handover(d) /\ Place(d) /\ (Holds(d) => lock) /\ (Holds(c) /\ Holds(d) => c = d)
    BY DEF SmpInv, Locked
  <2> QED
    BY <1>1, <2>1 DEF Types, Place, Handover, Holds, Charge, Coming, Behind
<1>6. ASSUME NEW d \in Cores PROVE Located(d)'
  <2>1. Located(d) /\ Place(d)
    BY DEF SmpInv
  <2> QED
    BY <1>1, <2>1 DEF Types, Place, Located, Charge, Coming
<1>7. Locked'
  BY <1>1 DEF SmpInv, Types, Locked, Holds, Handover
<1>8. ~dangling' /\ (mapped' \/ logical_processor_cnt' = Bootable)
  BY <1>1 DEF SmpInv, Types, Place, Coming
<1> QED
  BY <1>3, <1>4, <1>5, <1>6, <1>7, <1>8 DEF SmpInv

(* SendIpi keeps the invariant. *)
LEMMA SendIpiInv == ASSUME SmpInv, NEW c \in Cores, SendIpi(c) PROVE SmpInv'
<1> USE SmpAssumption DEF Cores, Boot, None, SendIpi, Goto, counts
<1>1. Types /\ Place(c) /\ Handover(c) /\ Located(c)
  BY DEF SmpInv
<1>2. target[c] = c + 1 /\ c + 1 \in Cores
  BY <1>1 DEF Types, Place, Handover, Charge, Coming, Behind
<1>3. Types'
  BY <1>1, <1>2 DEF Types, Places, Charge, Coming, Behind
<1>4. ASSUME NEW d \in Cores PROVE Place(d)'
  <2>1. CanMove(c, "join")
    BY <1>1, <1>2 DEF Types, Place, CanMove, Places, Charge, Coming, Behind
  <2> QED
    BY Zenon, <2>1, MovePlace
<1>5. ASSUME NEW d \in Cores PROVE Handover(d)'
  <2>1. Handover(d) /\ Place(d) /\ (Holds(d) => lock) /\ (Holds(c) /\ Holds(d) => c = d)
    BY DEF SmpInv, Locked
  <2> QED
    BY <1>1, <1>2, <2>1 DEF Types, Place, Handover, Holds, Charge, Coming, Behind
<1>6. ASSUME NEW d \in Cores PROVE Located(d)'
  <2>1. Located(d) /\ Place(d)
    BY DEF SmpInv
  <2> QED
    BY <1>1, <1>2, <2>1 DEF Types, Place, Located, Charge, Coming
<1>7. Locked'
  BY <1>1, <1>2 DEF SmpInv, Types, Locked, Holds, Handover
<1>8. ~dangling' /\ (mapped' \/ logical_processor_cnt' = Bootable)
  BY <1>1, <1>2 DEF SmpInv, Types, Place, Coming
<1> QED
  BY <1>3, <1>4, <1>5, <1>6, <1>7, <1>8 DEF SmpInv

(* Join keeps the invariant. *)
LEMMA JoinInv == ASSUME SmpInv, NEW c \in Cores, Join(c) PROVE SmpInv'
BY Zenon, MoveInv DEF Join, Moves, counts

(* Leave keeps the invariant. *)
LEMMA LeaveInv == ASSUME SmpInv, NEW c \in Cores, Leave(c) PROVE SmpInv'
<1>1. Goto(c, IF c = Boot THEN "wait" ELSE "load")
  BY Zenon DEF Leave, Return
<1> QED
  BY Zenon, <1>1, MoveInv DEF Leave, Moves, counts

(* Trampoline keeps the invariant. *)
LEMMA TrampolineInv == ASSUME SmpInv, NEW c \in Cores, Trampoline(c) PROVE SmpInv'
<1> USE SmpAssumption DEF Cores, Boot, None, Trampoline, Goto, counts
<1>1. Types /\ Place(c) /\ Handover(c) /\ Located(c)
  BY DEF SmpInv
<1>2. c > 0 /\ c = logical_processor_cnt /\ parameters = [cpu_local |-> c, idtr |-> c - 1]
      /\ pc[c - 1] = "join"
  BY <1>1 DEF Types, Place, Handover, Charge, Coming, Behind
<1>3. Types'
  BY <1>1, <1>2 DEF Types, Places, Charge, Coming, Behind
<1>4. ASSUME NEW d \in Cores PROVE Place(d)'
  <2>1. CanMove(c, "init")
    BY <1>1, <1>2 DEF Types, Place, CanMove, Places, Charge, Coming, Behind
  <2> QED
    BY Zenon, <2>1, MovePlace
<1>5. ASSUME NEW d \in Cores PROVE Handover(d)'
  <2>1. Handover(d) /\ Place(d) /\ (Holds(d) => lock) /\ (Holds(c) /\ Holds(d) => c = d)
    BY DEF SmpInv, Locked
  <2> QED
    BY <1>1, <1>2, <2>1 DEF Types, Place, Handover, Holds, Charge, Coming, Behind
<1>6. ASSUME NEW d \in Cores PROVE Located(d)'
  <2>1. Located(d) /\ Place(d)
    BY DEF SmpInv
  <2> QED
    BY <1>1, <1>2, <2>1 DEF Types, Place, Located, Charge, Coming
<1>7. Locked'
  BY <1>1, <1>2 DEF SmpInv, Types, Locked, Holds, Handover
<1>8. ~dangling' /\ (mapped' \/ logical_processor_cnt' = Bootable)
  BY ZenonT(30), <1>1, <1>2 DEF SmpInv, Types, Place, Coming
<1> QED
  BY <1>3, <1>4, <1>5, <1>6, <1>7, <1>8 DEF SmpInv

(* Release keeps the invariant. *)
LEMMA ReleaseInv == ASSUME SmpInv, NEW c \in Cores, Release(c) PROVE SmpInv'
BY Zenon, MoveInv DEF Release, Moves, counts

(* CountUp keeps the invariant. *)
LEMMA CountUpInv == ASSUME SmpInv, NEW c \in Cores, CountUp(c) PROVE SmpInv'
BY Zenon, MoveInv DEF CountUp, Moves, counts

(* Count keeps the invariant. *)
LEMMA CountInv == ASSUME SmpInv, NEW c \in Cores, Count(c) PROVE SmpInv'
<1> USE SmpAssumption DEF Cores, Boot, None, Count, Goto, trampoline
<1>1. Types /\ Place(c) /\ Handover(c) /\ Located(c)
  BY DEF SmpInv
<1>2. c = logical_processor_cnt /\ c > 0 /\ pc[c - 1] \in Behind
      /\ pc[c - 1] \notin {"chain"} \cup Charge
  BY <1>1 DEF Types, Place, Handover, Charge, Coming, Behind
<1>3. Types'
  BY <1>1, <1>2 DEF Types, Places, Charge, Coming, Behind
<1>4. ASSUME NEW d \in Cores PROVE Place(d)'
  <2>1. Place(d)
    BY DEF SmpInv
  <2>2. CASE d = c
    BY <1>1, <1>2, <2>1, <2>2 DEF Types, Place, Charge, Coming, Behind
  <2>3. CASE d = c + 1
    BY <1>1, <1>2, <2>1, <2>3 DEF Types, Place, Charge, Coming, Behind
  <2>4. CASE d # c /\ d # c + 1
    <3>1. pc'[d] = pc[d] /\ (d > 0 => pc'[d - 1] = pc[d - 1])
      BY <1>1, <2>4 DEF Types
    <3> QED
      BY <1>1, <1>2, <2>1, <2>4, <3>1 DEF Types, Place, Charge, Coming, Behind
  <2> QED
    BY <2>2, <2>3, <2>4
<1>5. ASSUME NEW d \in Cores PROVE Handover(d)'
  <2>1. Handover(d) /\ Place(d) /\ (Holds(d) => lock) /\ (Holds(c) /\ Holds(d) => c = d)
    BY DEF SmpInv, Locked
  <2> QED
    BY <1>1, <1>2, <2>1 DEF Types, Place, Handover, Holds, Charge, Coming, Behind
<1>6. ASSUME NEW d \in Cores PROVE Located(d)'
  <2>1. Located(d) /\ Place(d)
    BY DEF SmpInv
  <2> QED
    BY <1>1, <1>2, <2>1 DEF Types, Place, Located, Charge, Coming
<1>7. Locked'
  BY <1>1, <1>2 DEF SmpInv, Types, Locked, Holds, Handover
<1>8. ~dangling' /\ (mapped' \/ logical_processor_cnt' = Bootable)
  BY <1>1, <1>2 DEF SmpInv, Types, Place, Coming
<1> QED
  BY <1>3, <1>4, <1>5, <1>6, <1>7, <1>8 DEF SmpInv

(* SchedInit keeps the invariant. *)
LEMMA SchedInitInv == ASSUME SmpInv, NEW c \in Cores, SchedInit(c) PROVE SmpInv'
BY Zenon, MoveInv DEF SchedInit, Moves, counts

(* Load keeps the invariant. *)
LEMMA LoadInv == ASSUME SmpInv, NEW c \in Cores, Load(c) PROVE SmpInv'
BY Zenon, MoveInv DEF Load, Moves, counts

(* boot_aps returns: AllUp keeps the invariant. *)
LEMMA AllUpInv == ASSUME SmpInv, AllUp PROVE SmpInv'
<1>1. Boot \in Cores
  BY SmpAssumption DEF Boot, Cores
<1> QED
  BY Zenon, <1>1, MoveInv DEF AllUp, Moves, counts

(* However many cores there are, and however their steps interleave, the   *)
(* invariant holds.                                                        *)
THEOREM SmpSafe == Spec => []SmpInv
<1>1. Init => SmpInv
  BY InitInv
<1>2. ASSUME SmpInv, [Next]_vars PROVE SmpInv'
  <2>1. ASSUME NEW c \in Cores, Step(c) PROVE SmpInv'
    BY <1>2, <2>1, ChainEndInv, ChainSelfInv, ChainNextInv, AcquireInv, WriteInv, SendIpiInv, JoinInv,
       LeaveInv, TrampolineInv, ReleaseInv, CountUpInv, CountInv, SchedInitInv, LoadInv DEF Step
  <2>2. CASE AllUp
    BY SMTT(30), <1>2, <2>2, AllUpInv
  <2>3. CASE UNCHANGED vars
    BY <1>2, <2>3 DEF vars, trampoline, counts, SmpInv, Types, Place, Handover, Located,
                      Locked, Holds
  <2> QED
    BY <1>2, <2>1, <2>2, <2>3 DEF Next
<1> QED
  BY <1>1, <1>2, PTL DEF Spec

(* Each core that chain_aps starts takes its own cpu_local from the page   *)
(* all cores share.                                                        *)
THEOREM OwnLocaleSafe == Spec => []OwnLocale
<1>1. SmpInv => OwnLocale
  BY DEF SmpInv, Located, OwnLocale
<1> QED
  BY <1>1, SmpSafe, PTL

(* The idtr on the stack of chain_aps outlives its use by the new core,    *)
(* and the trampoline its identity mapping.                                *)
THEOREM TrampolineIsSafe == Spec => []TrampolineSafe
<1>1. ASSUME SmpInv PROVE TrampolineSafe
  <2>1. ASSUME NEW c \in started PROVE mapped
    <3>1. c \in Cores /\ Handover(c)
      BY <1>1 DEF SmpInv, Types
    <3> QED
      BY <1>1, <2>1, <3>1, SmpAssumption DEF SmpInv, Handover, Cores
  <2> QED
    BY <1>1, <2>1 DEF SmpInv, TrampolineSafe
<1> QED
  BY <1>1, SmpSafe, PTL

(* logical_processor_cnt counts only cores that are up with their          *)
(* cpu_local.                                                              *)
THEOREM CountedAreUpSafe == Spec => []CountedAreUp
<1>1. SmpInv => CountedAreUp
  BY SmpAssumption DEF SmpInv, Types, Place, Located, CountedAreUp, Coming, Cores
<1> QED
  BY <1>1, SmpSafe, PTL

-----------------------------------------------------------------------------
(* The values of the variables of the driver. *)
Slots == Driver!Slots
Pairs == Driver!Pairs
Anchors == {"mmio", "controller"}
Asks == {"controller", "list", "namespace"}
Creates == {"create_cq", "create_sq"}
Commands == (Asks \cup Creates \cup {"none"}) \X Pairs
SetUp == {"msi", "cortex", "mmio", "controller", "pair"}
Over == {"done", "failed"}
Completions == [of : Commands, cid : Slots, ok : BOOLEAN]
Entries == [cid : Slots, completion : Completions, response : BOOLEAN, blocking : BOOLEAN]

(* The last command the server has sent. *)
Command == <<server.c, server.cid>>

Servers == [at : SetUp \cup {"enable", "send", "wait"} \cup Over, q : Pairs,
            c : Commands, cid : Slots]
Cortexes == [loaded : BOOLEAN, anchors : SUBSET Anchors, flush : BOOLEAN,
             has : SUBSET Anchors]

(* The variables of the driver have their types. *)
DriverTypes ==
    /\ server \in Servers
    /\ cids \in [Pairs -> SUBSET Slots]
    /\ entries \in [Pairs -> [Slots -> Entries]]
    /\ sq = [i \in Slots |-> sq[i]]
    /\ cq \in [Pairs -> [Slots -> Completions]]
    /\ sq_tail \in Slots /\ cq_head \in [Pairs -> Slots]
    /\ dev = [on |-> dev.on, sq_head |-> dev.sq_head, sq_tail |-> dev.sq_tail,
              cq_head |-> dev.cq_head, cq_tail |-> dev.cq_tail, working |-> dev.working]
    /\ {dev.sq_head, dev.sq_tail, dev.cq_head, dev.cq_tail} \subseteq Slots
    /\ msi \in Seq(Pairs)
    /\ cortex \in [Pairs -> Cortexes]
    /\ wild \in BOOLEAN

(* Which pair the server is at, and which command. *)
CommandInv ==
    /\ namespaces \in Pairs /\ server.q <= namespaces
    /\ IF server.at \in SetUp THEN pair_cnt = server.q
       ELSE IF server.at = "failed" THEN pair_cnt \in {server.q, server.q + 1}
       ELSE pair_cnt = server.q + 1
    /\ server.at = "enable" => server.q = 0
    /\ server.at \in {"send", "wait"} =>
          \/ server.q = 0 /\ server.c[1] \in Asks /\ server.c[2] <= namespaces
          \/ server.q > 0 /\ server.c[1] \in Creates /\ server.c[2] = server.q

(* Only the cid of the command that is waited for is taken. *)
CidInv ==
    /\ server.at \notin {"wait", "failed"} => cids[0] = {}
    /\ server.at = "wait" => cids[0] \subseteq {server.cid}

(* The admin queue has nothing for the controller and nothing from it. *)
QueueIdle ==
    /\ dev.sq_head = dev.sq_tail /\ dev.working = {}
    /\ dev.cq_tail = cq_head[0] /\ pending = {}

(* The command that is under way is in one of three places. *)
Queued ==
    /\ dev.sq_tail = (dev.sq_head + 1) % EntryCnt /\ sq[dev.sq_head] = Command
    /\ dev.working = {} /\ dev.cq_tail = cq_head[0] /\ pending = {}

Executed ==
    /\ dev.sq_head = dev.sq_tail /\ dev.working = {Command}
    /\ dev.cq_tail = cq_head[0] /\ pending = {}

Posted ==
    /\ dev.sq_head = dev.sq_tail /\ dev.working = {}
    /\ dev.cq_tail = (cq_head[0] + 1) % EntryCnt /\ pending = {0}
    /\ cq[0][cq_head[0]].of = server.c /\ cq[0][cq_head[0]].cid = server.cid

UnderWay == Queued \/ Executed \/ Posted

FlightInv ==
    /\ dev.sq_tail = sq_tail
    /\ QueueIdle \/ (UnderWay /\ server.at \in {"wait", "failed"})
    /\ server.at = "wait" =>
          LET e == entries[0][server.cid] IN
          e.response => QueueIdle /\ e.completion.of = server.c /\ e.cid = server.cid

(* The interrupt server gets its anchors with the vector of the admin      *)
(* queue, once the controller may raise it.                                *)
Ready ==
    /\ msi # <<>> /\ msi[1] = 0 /\ pair_cnt > 0
    /\ cortex[0].loaded /\ cortex[0].anchors = Anchors
    /\ cortex[0].flush \/ cortex[0].has = Anchors

ReadyInv ==
    /\ ~wild
    /\ server.q = 0 =>
          /\ server.at = "msi" => msi = <<>>
          /\ server.at \in {"cortex", "mmio", "controller", "pair"} => msi # <<>> /\ msi[1] = 0
          /\ server.at \in {"mmio", "controller", "pair"} => cortex[0].loaded
          /\ server.at \in {"controller", "pair"} => "mmio" \in cortex[0].anchors
          /\ server.at = "pair" => cortex[0].anchors = Anchors /\ cortex[0].flush
    /\ server.at \in {"enable", "send", "wait", "done"} \/ server.q > 0 \/ ~QueueIdle => Ready

DriverInv == DriverTypes /\ CommandInv /\ CidInv /\ FlightInv /\ ReadyInv

-----------------------------------------------------------------------------
(* The indices of a queue, and the numbers of the pairs. *)
LEMMA SlotTypes ==
    /\ EntryCnt \in Nat /\ EntryCnt > 0 /\ MaxNamespaces \in Nat
    /\ Slots = 0..(EntryCnt - 1) /\ Pairs = 0..MaxNamespaces
    /\ 0 \in Slots /\ 0 \in Pairs
<1>1. /\ EntryCnt \in Nat /\ EntryCnt > 0 /\ MaxNamespaces \in Nat
      /\ Slots = 0..(EntryCnt - 1) /\ Pairs = 0..MaxNamespaces
    BY DriverAssumption DEF Driver!NvmeAssumption, Slots, Pairs, Driver!Slots, Driver!Pairs
<1> QED BY <1>1

(* How the server, its controller and the interrupt server advance one. *)
LEMMA Advance ==
    ASSUME NEW i \in Slots
    PROVE  /\ (i + 1) % EntryCnt \in Slots
           /\ (i + 1) % EntryCnt = IF i + 1 >= EntryCnt THEN 0 ELSE i + 1
           /\ (i + 1) % EntryCnt = IF i + 1 = EntryCnt THEN 0 ELSE i + 1
<1>1. i \in Nat /\ i + 1 <= EntryCnt
    BY SlotTypes
<1>2. CASE i + 1 = EntryCnt
    <2>1. (i + 1) % EntryCnt = 0
        BY SlotTypes, <1>1, <1>2
    <2> QED BY SlotTypes, <1>1, <1>2, <2>1
<1>3. CASE i + 1 < EntryCnt
    <2>1. (i + 1) % EntryCnt = i + 1
        BY SlotTypes, <1>1, <1>3
    <2> QED BY SlotTypes, <1>1, <1>3, <2>1
<1> QED BY SlotTypes, <1>1, <1>2, <1>3

(* The server is about to set up its first interrupt. *)
LEMMA DriverInit == Driver!Init => DriverInv
<1> SUFFICES ASSUME Driver!Init PROVE DriverInv
    OBVIOUS
<1> USE SlotTypes
<1>1. server = [at |-> "msi", q |-> 0, c |-> <<"none", 0>>, cid |-> 0] /\ namespaces \in Pairs
    BY DEF Driver!Init, Driver!NoCommand
<1>2. <<"none", 0>> \in Commands
    BY DEF Commands
<1>3. DriverTypes
    <2>1. Driver!Completion(Driver!NoCommand, 0, TRUE) \in Completions
        BY <1>2 DEF Driver!Completion, Driver!NoCommand, Completions
    <2>2. Driver!EmptyEntry \in Entries
        BY Zenon, <2>1 DEF Driver!EmptyEntry, Entries
    <2>3. server \in Servers
        BY <1>1, <1>2 DEF Servers, SetUp
    <2>4. entries \in [Pairs -> [Slots -> Entries]]
        BY <2>2 DEF Driver!Init, Slots, Pairs
    <2>5. cq \in [Pairs -> [Slots -> Completions]]
        BY Zenon, <2>1 DEF Driver!Init, Slots, Pairs
    <2>6. cortex \in [Pairs -> Cortexes]
        BY DEF Driver!Init, Pairs, Cortexes
    <2>7. sq = [i \in Slots |-> sq[i]]
        BY DEF Driver!Init, Slots
    <2>8. /\ cids \in [Pairs -> SUBSET Slots]
          /\ sq_tail \in Slots /\ cq_head \in [Pairs -> Slots]
          /\ msi \in Seq(Pairs) /\ wild \in BOOLEAN
        <3>1. cids \in [Pairs -> SUBSET Slots] /\ cq_head \in [Pairs -> Slots]
            BY DEF Driver!Init, Pairs
        <3>2. sq_tail = 0 /\ msi = <<>> /\ wild = FALSE
            BY Zenon DEF Driver!Init
        <3>3. <<>> \in Seq(Pairs)
            OBVIOUS
        <3> QED BY Zenon, <3>1, <3>2, <3>3
    <2>9. /\ dev = [on |-> dev.on, sq_head |-> dev.sq_head, sq_tail |-> dev.sq_tail,
                    cq_head |-> dev.cq_head, cq_tail |-> dev.cq_tail, working |-> dev.working]
          /\ {dev.sq_head, dev.sq_tail, dev.cq_head, dev.cq_tail} \subseteq Slots
        BY DEF Driver!Init
    <2> QED BY Zenon, <2>3, <2>4, <2>5, <2>6, <2>7, <2>8, <2>9 DEF DriverTypes
<1>4. CommandInv
    BY <1>1 DEF CommandInv, Driver!Init, SetUp
<1>5. CidInv
    BY <1>1 DEF CidInv, Driver!Init, Pairs
<1>6. QueueIdle
    BY DEF QueueIdle, Driver!Init, Pairs
<1>7. FlightInv
    BY <1>1, <1>6 DEF FlightInv, Driver!Init
<1>8. ReadyInv
    BY <1>1, <1>6 DEF ReadyInv, Driver!Init
<1> QED BY <1>3, <1>4, <1>5, <1>7, <1>8 DEF DriverInv

(* SetupMsi, Instantiate and Anchor change only server, msi and cortex. *)
LEMMA DriverSetUp ==
    ASSUME DriverInv, Driver!SetupMsi \/ Driver!Instantiate \/ Driver!Anchor
    PROVE  DriverInv'
<1> USE SlotTypes
<1>1. /\ UNCHANGED <<namespaces, sq, sq_tail, entries, cids, cq, cq_head, pair_cnt, dev, pending, wild>>
      /\ server.at \in {"msi", "cortex", "mmio", "controller"}
      /\ server' = [server EXCEPT !.at = CASE server.at = "msi" -> "cortex"
                                           [] server.at = "cortex" -> "mmio"
                                           [] server.at = "mmio" -> "controller"
                                           [] server.at = "controller" -> "pair"]
    BY DEF Driver!SetupMsi, Driver!Instantiate, Driver!Anchor, Driver!Goto, Driver!ring
<1>2. DriverTypes /\ CommandInv /\ CidInv /\ FlightInv /\ ReadyInv
    BY Zenon DEF DriverInv
<1>3. /\ server \in Servers /\ server' \in Servers
      /\ server'.q = server.q /\ server'.c = server.c /\ server'.cid = server.cid
      /\ server'.at = CASE server.at = "msi" -> "cortex"
                        [] server.at = "cortex" -> "mmio"
                        [] server.at = "mmio" -> "controller"
                        [] server.at = "controller" -> "pair"
    BY Zenon, <1>1, <1>2 DEF DriverTypes, Servers, SetUp
<1>4. QueueIdle /\ QueueIdle'
    <2>1. QueueIdle
        BY Zenon, <1>1, <1>2 DEF FlightInv
    <2> QED BY Zenon, <1>1, <2>1 DEF QueueIdle
<1>5. CommandInv'
    BY <1>1, <1>2, <1>3 DEF CommandInv, SetUp
<1>6. CidInv'
    BY <1>1, <1>2, <1>3 DEF CidInv
<1>7. FlightInv'
    BY <1>1, <1>2, <1>3, <1>4 DEF FlightInv
<1>8. /\ msi' \in Seq(Pairs)
      /\ (server.at = "msi" /\ server.q = 0) \/ (msi # <<>> /\ msi[1] = 0)
            => msi' # <<>> /\ msi'[1] = 0
    <2>1. msi \in Seq(Pairs) /\ server.q \in Pairs /\ MsixEntries \in Nat \ {0}
        BY <1>2, <1>3, DriverAssumption DEF DriverTypes, Servers, Driver!NvmeAssumption
    <2>2. \/ msi' = msi /\ server.at # "msi"
          \/ msi' = IF Len(msi) < MsixEntries THEN Append(msi, server.q) ELSE msi
        BY DEF Driver!SetupMsi, Driver!Instantiate, Driver!Anchor
    <2>3. server.at = "msi" /\ server.q = 0 => msi = <<>>
        BY Zenon, <1>2 DEF ReadyInv
    <2>4. Append(msi, server.q) \in Seq(Pairs) /\ Append(msi, server.q) # <<>>
        BY <2>1
    <2>5. msi # <<>> => Append(msi, server.q)[1] = msi[1]
        BY <2>1
    <2>6. msi = <<>> => Len(msi) < MsixEntries /\ Append(msi, server.q)[1] = server.q
        BY <2>1
    <2> QED BY Zenon, <2>1, <2>2, <2>3, <2>4, <2>5, <2>6
<1>9. /\ cortex' \in [Pairs -> Cortexes]
      /\ server.q > 0 => cortex'[0] = cortex[0]
      /\ server.q = 0 =>
            CASE server.at = "msi" -> TRUE
              [] server.at = "cortex" -> cortex'[0].loaded
              [] server.at = "mmio" -> /\ cortex'[0].loaded = cortex[0].loaded
                                       /\ cortex'[0].anchors = cortex[0].anchors \cup {"mmio"}
              [] server.at = "controller" ->
                    /\ cortex'[0].loaded = cortex[0].loaded
                    /\ cortex'[0].anchors = cortex[0].anchors \cup {"controller"}
                    /\ cortex'[0].flush
    <2>1. cortex \in [Pairs -> Cortexes] /\ server.q \in Pairs
        BY <1>2, <1>3 DEF DriverTypes, Servers
    <2>2. CASE Driver!SetupMsi
        BY <2>1, <2>2 DEF Driver!SetupMsi
    <2>3. CASE Driver!Instantiate
        <3>1. /\ server.at = "cortex"
              /\ cortex' = [cortex EXCEPT ![server.q] = [cortex[server.q] EXCEPT !.loaded = TRUE]]
            BY <2>1, <2>3 DEF Driver!Instantiate
        <3>2. /\ [cortex[server.q] EXCEPT !.loaded = TRUE] \in Cortexes
              /\ [cortex[server.q] EXCEPT !.loaded = TRUE].loaded
            BY Zenon, <2>1 DEF Cortexes
        <3> QED BY <2>1, <3>1, <3>2
    <2>4. CASE Driver!Anchor
        <3> DEFINE old == cortex[server.q]
                   x == [old EXCEPT !.anchors = old.anchors \cup {server.at}, !.flush = TRUE]
        <3>1. server.at \in {"mmio", "controller"} /\ cortex' = [cortex EXCEPT ![server.q] = x]
            BY Zenon, <2>1, <2>4 DEF Driver!Anchor, Cortexes
        <3>2. /\ x \in Cortexes
              /\ x.loaded = cortex[server.q].loaded
              /\ x.anchors = cortex[server.q].anchors \cup {server.at}
              /\ x.flush
            <4> DEFINE set == old.anchors \cup {server.at}
            <4>1. old \in Cortexes /\ set \in SUBSET Anchors
                BY <2>1, <3>1 DEF Anchors, Cortexes
            <4>2. x = [old EXCEPT !.anchors = set, !.flush = TRUE]
                OBVIOUS
            <4>3. /\ x \in Cortexes /\ x.loaded = old.loaded
                  /\ x.anchors = set /\ x.flush
                <5> HIDE DEF x, old, set
                <5> QED BY Zenon, <4>1, <4>2 DEF Cortexes
            <4> QED BY Zenon, <4>3
        <3> HIDE DEF x
        <3>3. cortex' \in [Pairs -> Cortexes] /\ cortex'[server.q] = x
              /\ (server.q > 0 => cortex'[0] = cortex[0])
            BY <2>1, <3>1, <3>2
        <3>4. CASE server.at = "mmio"
            BY <3>2, <3>3, <3>4
        <3>5. CASE server.at = "controller"
            BY <3>2, <3>3, <3>5
        <3> QED BY Zenon, <3>1, <3>4, <3>5
    <2> QED BY Zenon, <2>2, <2>3, <2>4
<1>10. DriverTypes'
    BY Zenon, <1>1, <1>2, <1>3, <1>8, <1>9 DEF DriverTypes
<1>11. ReadyInv'
    <2>1. server.q \in Nat
        BY <1>3 DEF Servers
    <2>2. CASE server.q > 0
        <3>1. Ready
            BY Zenon, <1>2, <2>2 DEF ReadyInv
        <3>2. Ready'
            BY <1>1, <1>8, <1>9, <2>2, <3>1 DEF Ready
        <3> QED BY <1>1, <1>2, <1>3, <1>4, <2>2, <3>2 DEF ReadyInv
    <2>3. CASE server.q = 0
        <3>1. cortex[0].anchors \subseteq Anchors
            BY Zenon, <1>2 DEF DriverTypes, Cortexes
        <3>2. CASE server.at = "msi"
            BY <1>1, <1>2, <1>3, <1>4, <1>8, <2>3, <3>2 DEF ReadyInv
        <3>3. CASE server.at = "cortex"
            BY <1>1, <1>2, <1>3, <1>4, <1>8, <1>9, <2>3, <3>3 DEF ReadyInv
        <3>4. CASE server.at = "mmio"
            BY <1>1, <1>2, <1>3, <1>4, <1>8, <1>9, <2>3, <3>4 DEF ReadyInv
        <3>5. CASE server.at = "controller"
            <4>1. cortex'[0].anchors = Anchors
                BY <1>2, <1>9, <2>3, <3>1, <3>5 DEF ReadyInv, Anchors
            <4> QED BY <1>1, <1>2, <1>3, <1>4, <1>8, <1>9, <2>3, <3>5, <4>1 DEF ReadyInv
        <3> QED BY <1>1, <3>2, <3>3, <3>4, <3>5
    <2> QED BY <2>1, <2>2, <2>3
<1> QED BY Zenon, <1>5, <1>6, <1>7, <1>10, <1>11 DEF DriverInv

(* With the first pair the interrupt of the admin queue is ready. *)
LEMMA DriverQueuePair ==
    ASSUME DriverInv, Driver!QueuePair \/ Driver!Enable
    PROVE  DriverInv'
<1> USE SlotTypes
<1>1. /\ UNCHANGED <<namespaces, sq, sq_tail, entries, cids, cq, cq_head, msi, cortex, pending, wild>>
      /\ server.at \in {"pair", "enable"}
    BY DEF Driver!QueuePair, Driver!Enable, Driver!ring, Driver!irqs
<1>2. DriverTypes /\ CommandInv /\ CidInv /\ FlightInv /\ ReadyInv
    BY Zenon DEF DriverInv
<1>3. server \in Servers /\ server.q \in Nat /\ pair_cnt \in Nat
    BY <1>1, <1>2 DEF DriverTypes, CommandInv, Servers, SetUp
<1>4. /\ server' \in Servers
      /\ server'.q = server.q /\ server'.cid = server.cid
      /\ server.at = "pair" =>
            /\ pair_cnt' = pair_cnt + 1
            /\ \/ server'.at = "failed"
               \/ server'.at = "enable" /\ server.q = 0
               \/ server'.at = "send" /\ server.q > 0 /\ server'.c = <<"create_cq", server.q>>
      /\ server.at = "enable" =>
            pair_cnt' = pair_cnt /\ server'.at = "send" /\ server'.c = <<"controller", 0>>
    <2>1. <<"create_cq", server.q>> \in Commands /\ <<"controller", 0>> \in Commands
        BY <1>3 DEF Commands, Asks, Creates, Servers
    <2>2. CASE Driver!QueuePair
        BY Zenon, <1>3, <2>1, <2>2 DEF Driver!QueuePair, Driver!Goto, Driver!ToSend, Servers, Over
    <2>3. CASE Driver!Enable
        BY Zenon, <1>3, <2>1, <2>3 DEF Driver!Enable, Driver!ToSend, Servers
    <2> QED BY <2>2, <2>3
<1>5. /\ dev' = [on |-> dev'.on, sq_head |-> dev'.sq_head, sq_tail |-> dev'.sq_tail,
                 cq_head |-> dev'.cq_head, cq_tail |-> dev'.cq_tail, working |-> dev'.working]
      /\ dev'.sq_head = dev.sq_head /\ dev'.sq_tail = dev.sq_tail
      /\ dev'.cq_head = dev.cq_head /\ dev'.cq_tail = dev.cq_tail
      /\ dev'.working = dev.working
    BY <1>2 DEF Driver!QueuePair, Driver!Enable, DriverTypes
<1>6. QueueIdle /\ QueueIdle'
    <2>1. QueueIdle
        BY Zenon, <1>1, <1>2 DEF FlightInv
    <2> QED BY Zenon, <1>1, <1>5, <2>1 DEF QueueIdle
<1>7. DriverTypes'
    BY Zenon, <1>1, <1>2, <1>4, <1>5 DEF DriverTypes
<1>8. CommandInv'
    <2>1. namespaces \in Pairs /\ server.q <= namespaces /\ namespaces' = namespaces
        BY Zenon, <1>1, <1>2 DEF CommandInv
    <2>2. CASE server.at = "pair"
        <3>1. pair_cnt' = server.q + 1
            BY <1>2, <1>4, <2>2 DEF CommandInv, SetUp
        <3> QED BY <1>3, <1>4, <2>1, <2>2, <3>1 DEF CommandInv, SetUp, Creates
    <2>3. CASE server.at = "enable"
        <3>1. pair_cnt' = server.q + 1 /\ server.q = 0
            BY <1>2, <1>4, <2>3 DEF CommandInv, SetUp
        <3> QED BY <1>3, <1>4, <2>1, <2>3, <3>1 DEF CommandInv, SetUp, Asks
    <2> QED BY Zenon, <1>1, <2>2, <2>3
<1>9. CidInv'
    BY <1>1, <1>2, <1>4 DEF CidInv
<1>10. FlightInv'
    BY <1>1, <1>2, <1>4, <1>5, <1>6 DEF FlightInv
<1>11. ReadyInv'
    <2>1. server.q > 0 \/ server.at = "enable" => Ready
        BY Zenon, <1>2 DEF ReadyInv
    <2>2. server.at = "pair" /\ server.q = 0 =>
             /\ msi # <<>> /\ msi[1] = 0
             /\ cortex[0].loaded /\ cortex[0].anchors = Anchors /\ cortex[0].flush
        BY <1>2 DEF ReadyInv
    <2>3. Ready'
        BY <1>1, <1>3, <1>4, <2>1, <2>2 DEF Ready
    <2> QED BY <1>1, <1>2, <1>3, <1>4, <1>6, <2>3 DEF ReadyInv
<1> QED BY Zenon, <1>7, <1>8, <1>9, <1>10, <1>11 DEF DriverInv

(* nvme() may return with a command under way. *)
LEMMA DriverFail ==
    ASSUME DriverInv, Driver!Fail
    PROVE  DriverInv'
<1> USE SlotTypes
<1>1. /\ UNCHANGED <<namespaces, sq, sq_tail, entries, cids, cq, cq_head, pair_cnt, dev, msi,
                     cortex, pending, wild>>
      /\ server' = [server EXCEPT !.at = "failed"]
    BY DEF Driver!Fail, Driver!Goto, Driver!ring, Driver!irqs
<1>2. DriverTypes /\ CommandInv /\ CidInv /\ FlightInv /\ ReadyInv
    BY Zenon DEF DriverInv
<1>3. /\ server' \in Servers /\ server'.at = "failed"
      /\ server'.q = server.q /\ server'.c = server.c /\ server'.cid = server.cid
    BY Zenon, <1>1, <1>2 DEF DriverTypes, Servers, Over
<1>4. (QueueIdle' <=> QueueIdle) /\ (UnderWay' <=> UnderWay)
    BY <1>1, <1>3 DEF QueueIdle, UnderWay, Queued, Executed, Posted, Command
<1>5. DriverTypes'
    BY Zenon, <1>1, <1>2, <1>3 DEF DriverTypes
<1>6. CommandInv'
    BY <1>1, <1>2, <1>3 DEF CommandInv, SetUp
<1>7. CidInv'
    BY <1>3 DEF CidInv
<1>8. FlightInv'
    BY <1>1, <1>2, <1>3, <1>4 DEF FlightInv
<1>9. ReadyInv'
    BY <1>1, <1>2, <1>3, <1>4 DEF ReadyInv, Ready
<1> QED BY Zenon, <1>5, <1>6, <1>7, <1>8, <1>9 DEF DriverInv

(* bitmap_alloc returns a slot that is free. *)
LEMMA LeastSlot ==
    ASSUME NEW free, free \subseteq Slots, free # {}
    PROVE  (CHOOSE i \in free : \A j \in free : i <= j) \in free
<1>1. free \subseteq Nat
    BY SlotTypes
<1>2. PICK x \in free : \A y \in free : ~(<<y, x>> \in OpToRel(<, Nat))
    BY <1>1, NatLessThanWellFounded, WFMin, Zenon
<1>3. ASSUME NEW y \in free PROVE x <= y
    <2>1. x \in Nat /\ y \in Nat
        BY <1>1
    <2>2. ~(y < x)
        BY ZenonT(30), <1>2, <2>1 DEF OpToRel
    <2> QED BY <2>1, <2>2
<1> QED BY <1>3, Zenon

(* A command is sent into an idle queue. *)
LEMMA DriverSend ==
    ASSUME DriverInv, Driver!Send
    PROVE  DriverInv'
<1> USE SlotTypes
<1> DEFINE b == Driver!CidFrom(server.c)
           free == Driver!Slots \ cids[b]
           cid == CHOOSE i \in free : \A j \in free : i <= j
<1>1. /\ UNCHANGED <<namespaces, cq, cq_head, pair_cnt, msi, cortex, pending, wild>>
      /\ server.at = "send"
      /\ \/ /\ server' = [server EXCEPT !.at = "failed"]
            /\ UNCHANGED <<cids, entries, sq, sq_tail, dev>>
         \/ /\ free # {}
            /\ cids' = [cids EXCEPT ![b] = @ \cup {cid}]
            /\ Driver!Submit(server.c, cid)
            /\ server' = [server EXCEPT !.at = "wait", !.cid = cid]
    BY Zenon DEF Driver!Send, Driver!irqs, Driver!Goto
<1>2. DriverTypes /\ CommandInv /\ CidInv /\ FlightInv /\ ReadyInv
    BY Zenon DEF DriverInv
<1>3. server \in Servers /\ b \in Pairs
    BY <1>2 DEF DriverTypes, Servers, Commands, Driver!CidFrom
<1>4. QueueIdle
    BY Zenon, <1>1, <1>2 DEF FlightInv
<1>5. free \subseteq Slots /\ (free # {} => cid \in free)
    <2>1. free \subseteq Slots
        BY DEF Slots
    <2> HIDE DEF free
    <2> QED BY Zenon, <2>1, LeastSlot
<1> HIDE DEF b, free, cid
<1>6. CASE server' = [server EXCEPT !.at = "failed"] /\ UNCHANGED <<cids, entries, sq, sq_tail, dev>>
    <2>3. /\ server' \in Servers /\ server'.at = "failed"
          /\ server'.q = server.q /\ server'.c = server.c /\ server'.cid = server.cid
        BY <1>3, <1>6 DEF Servers, Over
    <2>4. QueueIdle'
        BY <1>1, <1>4, <1>6 DEF QueueIdle
    <2>5. DriverTypes'
        BY Zenon, <1>1, <1>2, <1>6, <2>3 DEF DriverTypes
    <2>6. CommandInv'
        BY <1>1, <1>2, <2>3 DEF CommandInv, SetUp
    <2>7. CidInv'
        BY <2>3 DEF CidInv
    <2>8. FlightInv'
        BY <1>2, <1>6, <2>3, <2>4 DEF FlightInv
    <2>9. ReadyInv'
        BY <1>1, <1>2, <2>3, <2>4 DEF ReadyInv, Ready
    <2> QED BY Zenon, <2>5, <2>6, <2>7, <2>8, <2>9 DEF DriverInv
<1>7. CASE /\ free # {}
           /\ cids' = [cids EXCEPT ![b] = @ \cup {cid}]
           /\ Driver!Submit(server.c, cid)
           /\ server' = [server EXCEPT !.at = "wait", !.cid = cid]
    <2> DEFINE new == [Driver!EmptyEntry EXCEPT !.blocking = TRUE]
               tail == IF sq_tail + 1 >= EntryCnt THEN 0 ELSE sq_tail + 1
    <2>1. /\ cid \in Slots
          /\ entries' = [entries EXCEPT ![0][cid] = new]
          /\ sq' = [sq EXCEPT ![sq_tail] = <<server.c, cid>>]
          /\ sq_tail' = tail
          /\ dev' = [dev EXCEPT !.sq_tail = tail]
        BY Zenon, <1>5, <1>7 DEF Driver!Submit
    <2>2. new \in Entries /\ new.response = FALSE
        <3>1. Driver!Completion(Driver!NoCommand, 0, TRUE) \in Completions
            BY DEF Driver!Completion, Driver!NoCommand, Completions, Commands
        <3> QED BY Zenon, <3>1 DEF Driver!EmptyEntry, Entries
    <2>3. sq_tail \in Slots /\ tail \in Slots /\ tail = (sq_tail + 1) % EntryCnt
        <3>1. sq_tail \in Slots
            BY Zenon, <1>2 DEF DriverTypes
        <3> QED BY <3>1, Advance
    <2> HIDE DEF new, tail
    <2>4. /\ server' \in Servers /\ server'.at = "wait"
          /\ server'.q = server.q /\ server'.c = server.c /\ server'.cid = cid
        BY Zenon, <1>3, <1>7, <2>1 DEF Servers
    <2>5. /\ entries' \in [Pairs -> [Slots -> Entries]]
          /\ entries'[0][cid] = new
        BY <1>2, <2>1, <2>2 DEF DriverTypes
    <2>6. /\ sq' = [i \in Slots |-> sq'[i]]
          /\ sq'[sq_tail] = <<server.c, cid>>
        BY Zenon, <1>2, <2>1, <2>3 DEF DriverTypes
    <2>7. /\ dev' = [on |-> dev'.on, sq_head |-> dev'.sq_head, sq_tail |-> dev'.sq_tail,
                     cq_head |-> dev'.cq_head, cq_tail |-> dev'.cq_tail, working |-> dev'.working]
          /\ dev'.sq_head = dev.sq_head /\ dev'.sq_tail = tail
          /\ dev'.cq_head = dev.cq_head /\ dev'.cq_tail = dev.cq_tail
          /\ dev'.working = dev.working
        BY Zenon, <1>2, <2>1 DEF DriverTypes
    <2>8. cids' \in [Pairs -> SUBSET Slots] /\ cids'[0] \subseteq cids[0] \cup {cid}
        BY <1>2, <1>3, <1>7, <2>1 DEF DriverTypes
    <2>9. DriverTypes'
        <3>1. {dev'.sq_head, dev'.sq_tail, dev'.cq_head, dev'.cq_tail} \subseteq Slots
            BY Zenon, <1>2, <2>3, <2>7 DEF DriverTypes
        <3> QED BY Zenon, <1>1, <1>2, <2>1, <2>3, <2>4, <2>5, <2>6, <2>7, <2>8, <3>1 DEF DriverTypes
    <2>10. CommandInv'
        BY <1>1, <1>2, <2>4 DEF CommandInv, SetUp
    <2>11. CidInv'
        BY <1>1, <1>2, <2>4, <2>8 DEF CidInv
    <2>12. UnderWay'
        <3>1. dev.sq_head = sq_tail /\ dev.working = {} /\ dev.cq_tail = cq_head[0] /\ pending = {}
            BY <1>2, <1>4 DEF QueueIdle, FlightInv
        <3> QED BY <1>1, <2>3, <2>4, <2>6, <2>7, <3>1 DEF UnderWay, Queued, Command
    <2>13. FlightInv'
        BY <2>1, <2>2, <2>4, <2>5, <2>7, <2>12 DEF FlightInv
    <2>14. ReadyInv'
        BY <1>1, <1>2, <2>4 DEF ReadyInv, Ready
    <2> QED BY Zenon, <2>9, <2>10, <2>11, <2>13, <2>14 DEF DriverInv
<1> QED BY Zenon, <1>1, <1>6, <1>7

(* What follows a command that was answered. *)
LEMMA AfterCommandFacts ==
    ASSUME DriverInv, server.at = "wait", Driver!AfterCommand
    PROVE  /\ server' \in Servers /\ server'.cid = server.cid
           /\ \/ /\ server'.at = "send" /\ server'.q = server.q
                 /\ \/ server'.q = 0 /\ server'.c[1] \in Asks /\ server'.c[2] <= namespaces
                    \/ server'.q > 0 /\ server'.c[1] \in Creates /\ server'.c[2] = server'.q
              \/ server'.at = "msi" /\ server'.q = server.q + 1 /\ server'.q <= namespaces
              \/ server'.at = "done" /\ server'.q = server.q
<1> USE SlotTypes
<1>1. server \in Servers /\ namespaces \in Pairs /\ server.q <= namespaces
    BY Zenon DEF DriverInv, DriverTypes, CommandInv
<1>2. \/ server.q = 0 /\ server.c[1] \in Asks /\ server.c[2] <= namespaces
      \/ server.q > 0 /\ server.c[1] \in Creates /\ server.c[2] = server.q
    BY Zenon DEF DriverInv, CommandInv
<1>3. server.q \in Pairs /\ server.c \in Commands /\ server.c[2] \in Pairs
    BY <1>1 DEF Servers, Commands
<1>4. ASSUME NEW c \in Commands, Driver!ToSend(c)
      PROVE  /\ server' \in Servers /\ server'.cid = server.cid
             /\ server'.at = "send" /\ server'.q = server.q /\ server'.c = c
    BY Zenon, <1>1, <1>4 DEF Driver!ToSend, Servers
<1>5. ASSUME Driver!NextPair(server.q)
      PROVE  /\ server' \in Servers /\ server'.cid = server.cid
             /\ \/ server'.at = "msi" /\ server'.q = server.q + 1 /\ server'.q <= namespaces
                \/ server'.at = "done" /\ server'.q = server.q
    <2>1. CASE server.q < namespaces
        <3>1. server' = [server EXCEPT !.at = "msi", !.q = server.q + 1]
            BY <1>5, <2>1 DEF Driver!NextPair, Driver!ToPair
        <3>2. server.q + 1 \in Pairs /\ server.q + 1 <= namespaces
            BY <1>1, <1>3, <2>1
        <3> QED BY Zenon, <1>1, <3>1, <3>2 DEF Servers, SetUp
    <2>2. CASE ~(server.q < namespaces)
        <3>1. server' = [server EXCEPT !.at = "done"]
            BY <1>5, <2>2 DEF Driver!NextPair, Driver!Goto
        <3> QED BY <1>1, <3>1 DEF Servers, Over
    <2> QED BY <2>1, <2>2
<1>6. CASE server.q = 0 /\ server.c[1] = "controller"
    <2>1. Driver!ToSend(<<"list", 0>>) /\ <<"list", 0>> \in Commands
        BY <1>6 DEF Driver!AfterCommand, Commands, Asks
    <2> QED BY <1>1, <1>4, <1>6, <2>1 DEF Asks
<1>7. CASE server.q = 0 /\ server.c[1] \in {"list", "namespace"}
    <2>1. CASE server.c[2] < namespaces
        <3> DEFINE n == server.c[2] + 1
        <3>1. n \in Pairs /\ n <= namespaces
            BY <1>1, <1>3, <2>1
        <3>2. Driver!ToSend(<<"namespace", n>>)
            BY Zenon, <1>7, <2>1 DEF Driver!AfterCommand
        <3> HIDE DEF n
        <3>3. <<"namespace", n>> \in Commands
            BY <3>1 DEF Commands, Asks
        <3> QED BY <1>4, <1>7, <3>1, <3>2, <3>3 DEF Asks
    <2>2. CASE ~(server.c[2] < namespaces)
        <3>1. Driver!NextPair(server.q)
            BY Zenon, <1>7, <2>2 DEF Driver!AfterCommand
        <3> QED BY Zenon, <1>5, <3>1
    <2> QED BY <2>1, <2>2
<1>8. CASE server.q > 0 /\ server.c[1] = "create_cq" /\ server.c[2] = server.q
    <2>1. Driver!ToSend(<<"create_sq", server.q>>)
        BY <1>8 DEF Driver!AfterCommand
    <2>2. <<"create_sq", server.q>> \in Commands
        BY <1>3 DEF Commands, Creates
    <2> QED BY <1>4, <1>8, <2>1, <2>2 DEF Creates
<1>9. CASE server.q > 0 /\ server.c[1] = "create_sq" /\ server.c[2] = server.q
    <2>1. Driver!NextPair(server.q)
        BY <1>9 DEF Driver!AfterCommand
    <2> QED BY Zenon, <1>5, <2>1
<1> QED BY Zenon, <1>2, <1>6, <1>7, <1>8, <1>9 DEF Asks, Creates

(* What was waited for has been answered: the queue is idle again. *)
LEMMA DriverResume ==
    ASSUME DriverInv, Driver!Resume
    PROVE  DriverInv'
<1> USE SlotTypes
<1> DEFINE e == entries[0][server.cid]
<1>1. /\ UNCHANGED <<namespaces, entries, sq, sq_tail, pair_cnt, dev>>
      /\ UNCHANGED <<cq, cq_head, msi, cortex, pending, wild>>
      /\ server.at = "wait" /\ e.response
      /\ \/ Driver!Release(e.cid) /\ Driver!AfterCommand
         \/ server' = [server EXCEPT !.at = "failed"] /\ UNCHANGED cids
    BY Zenon DEF Driver!Resume, Driver!irqs, Driver!Goto
<1>2. DriverTypes /\ CommandInv /\ CidInv /\ FlightInv /\ ReadyInv
    BY Zenon DEF DriverInv
<1>3. server \in Servers /\ cids \in [Pairs -> SUBSET Slots]
    BY Zenon, <1>2 DEF DriverTypes
<1>4. QueueIdle /\ e.cid = server.cid
    BY Zenon, <1>1, <1>2 DEF FlightInv
<1>5. Ready
    BY <1>1, <1>2 DEF ReadyInv
<1> HIDE DEF e
<1>6. QueueIdle' /\ Ready'
    BY Zenon, <1>1, <1>4, <1>5 DEF QueueIdle, Ready
<1>7. CASE server' = [server EXCEPT !.at = "failed"] /\ UNCHANGED cids
    <2>3. /\ server' \in Servers /\ server'.at = "failed"
          /\ server'.q = server.q /\ server'.c = server.c /\ server'.cid = server.cid
        BY <1>3, <1>7 DEF Servers, Over
    <2>5. DriverTypes'
        BY Zenon, <1>1, <1>2, <1>7, <2>3 DEF DriverTypes
    <2>6. CommandInv'
        BY <1>1, <1>2, <2>3 DEF CommandInv, SetUp
    <2>7. CidInv'
        BY <2>3 DEF CidInv
    <2>8. FlightInv'
        BY <1>1, <1>2, <1>6, <2>3 DEF FlightInv
    <2>9. ReadyInv'
        BY <1>1, <1>2, <1>6, <2>3 DEF ReadyInv
    <2> QED BY Zenon, <2>5, <2>6, <2>7, <2>8, <2>9 DEF DriverInv
<1>8. CASE Driver!Release(e.cid) /\ Driver!AfterCommand
    <2>1. cids' \in [Pairs -> SUBSET Slots] /\ cids'[0] = {}
        <3>1. cids' = [cids EXCEPT ![0] = cids[0] \ {server.cid}]
            BY <1>4, <1>8 DEF Driver!Release
        <3>2. cids[0] \subseteq {server.cid}
            BY Zenon, <1>1, <1>2 DEF CidInv
        <3> QED BY <1>3, <3>1, <3>2
    <2>2. /\ server' \in Servers /\ server'.cid = server.cid
          /\ \/ /\ server'.at = "send" /\ server'.q = server.q
                /\ \/ server'.q = 0 /\ server'.c[1] \in Asks /\ server'.c[2] <= namespaces
                   \/ server'.q > 0 /\ server'.c[1] \in Creates /\ server'.c[2] = server'.q
             \/ server'.at = "msi" /\ server'.q = server.q + 1 /\ server'.q <= namespaces
             \/ server'.at = "done" /\ server'.q = server.q
        BY Zenon, <1>1, <1>8, AfterCommandFacts
    <2>3. DriverTypes'
        BY Zenon, <1>1, <1>2, <2>1, <2>2 DEF DriverTypes
    <2>4. CommandInv'
        BY <1>1, <1>2, <2>2 DEF CommandInv, SetUp
    <2>5. CidInv'
        BY <2>1, <2>2 DEF CidInv
    <2>6. FlightInv'
        BY <1>1, <1>2, <1>6, <2>2 DEF FlightInv
    <2>7. ReadyInv'
        <3>1. server'.at = "msi" => server'.q # 0
            BY <1>3, <2>2 DEF Servers
        <3> QED BY <1>1, <1>2, <1>6, <2>2, <3>1 DEF ReadyInv
    <2> QED BY Zenon, <2>3, <2>4, <2>5, <2>6, <2>7 DEF DriverInv
<1> QED BY Zenon, <1>1, <1>7, <1>8

(* The record of the controller after EXCEPT. *)
LEMMA DevTypes ==
    ASSUME DriverTypes
    PROVE  /\ dev = [on |-> dev.on, sq_head |-> dev.sq_head, sq_tail |-> dev.sq_tail,
                     cq_head |-> dev.cq_head, cq_tail |-> dev.cq_tail, working |-> dev.working]
           /\ dev.sq_head \in Slots /\ dev.sq_tail \in Slots
           /\ dev.cq_head \in Slots /\ dev.cq_tail \in Slots
BY Zenon DEF DriverTypes

(* The command goes to the controller, *)
LEMMA DriverFetch ==
    ASSUME DriverInv, Driver!Fetch
    PROVE  DriverInv'
<1> USE SlotTypes
<1>1. /\ UNCHANGED <<namespaces, server, sq, sq_tail, entries, cids, pair_cnt>>
      /\ UNCHANGED <<cq, cq_head, msi, cortex, pending, wild>>
      /\ dev.sq_head # dev.sq_tail
      /\ dev' = [dev EXCEPT !.sq_head = (dev.sq_head + 1) % EntryCnt,
                            !.working = dev.working \cup {sq[dev.sq_head]}]
    BY DEF Driver!Fetch, Driver!ring, Driver!irqs
<1>2. DriverTypes /\ CommandInv /\ CidInv /\ FlightInv /\ ReadyInv
    BY Zenon DEF DriverInv
<1>3. Queued /\ ~QueueIdle /\ server.at \in {"wait", "failed"}
    BY Zenon, <1>1, <1>2 DEF FlightInv, QueueIdle, UnderWay, Executed, Posted
<1>4. Ready
    BY Zenon, <1>2, <1>3 DEF ReadyInv
<1>5. /\ dev' = [on |-> dev'.on, sq_head |-> dev'.sq_head, sq_tail |-> dev'.sq_tail,
                 cq_head |-> dev'.cq_head, cq_tail |-> dev'.cq_tail, working |-> dev'.working]
      /\ dev'.sq_head = (dev.sq_head + 1) % EntryCnt /\ dev'.sq_tail = dev.sq_tail
      /\ dev'.cq_head = dev.cq_head /\ dev'.cq_tail = dev.cq_tail
      /\ dev'.working = dev.working \cup {sq[dev.sq_head]}
    BY Zenon, <1>1, <1>2, DevTypes
<1>6. DriverTypes'
    <2>1. /\ dev'.sq_head \in Slots /\ dev'.sq_tail \in Slots
          /\ dev'.cq_head \in Slots /\ dev'.cq_tail \in Slots
        BY ZenonT(30), <1>2, <1>5, DevTypes, Advance
    <2> QED BY Zenon, <1>1, <1>2, <1>5, <2>1 DEF DriverTypes
<1>7. Executed'
    <2>1. Command' = Command
        BY Zenon, <1>1 DEF Command
    <2> QED BY <1>1, <1>3, <1>5, <2>1 DEF Queued, Executed
<1>8. CommandInv' /\ CidInv'
    BY Zenon, <1>1, <1>2 DEF CommandInv, CidInv
<1>9. FlightInv'
    BY Zenon, <1>1, <1>2, <1>3, <1>5, <1>7 DEF FlightInv, UnderWay
<1>10. Ready'
    BY Zenon, <1>1, <1>4 DEF Ready
<1>11. ReadyInv'
    BY Zenon, <1>1, <1>2, <1>10 DEF ReadyInv
<1> QED BY Zenon, <1>6, <1>8, <1>9, <1>11 DEF DriverInv

(* from there into the completion queue, *)
LEMMA DriverPost ==
    ASSUME DriverInv, Driver!Post
    PROVE  DriverInv'
<1> USE SlotTypes
<1>1. PICK w \in dev.working, ok \in BOOLEAN :
          /\ dev' = [dev EXCEPT !.cq_tail = (dev.cq_tail + 1) % EntryCnt,
                                !.working = dev.working \ {w}]
          /\ cq' = [cq EXCEPT ![0][dev.cq_tail] = Driver!Completion(w[1], w[2], ok)]
          /\ pending' = pending \cup {msi[1]}
    BY Zenon DEF Driver!Post
<1>2. /\ UNCHANGED <<namespaces, server, sq, sq_tail, entries, cids, pair_cnt>>
      /\ UNCHANGED <<cq_head, msi, cortex, wild>>
    BY Zenon DEF Driver!Post, Driver!ring
<1>3. DriverTypes /\ CommandInv /\ CidInv /\ FlightInv /\ ReadyInv
    BY Zenon DEF DriverInv
<1>4. Executed /\ ~QueueIdle /\ server.at \in {"wait", "failed"}
    BY Zenon, <1>1, <1>3 DEF FlightInv, QueueIdle, UnderWay, Queued, Posted
<1>5. Ready
    BY Zenon, <1>3, <1>4 DEF ReadyInv
<1>6. /\ dev' = [on |-> dev'.on, sq_head |-> dev'.sq_head, sq_tail |-> dev'.sq_tail,
                 cq_head |-> dev'.cq_head, cq_tail |-> dev'.cq_tail, working |-> dev'.working]
      /\ dev'.sq_head = dev.sq_head /\ dev'.sq_tail = dev.sq_tail
      /\ dev'.cq_head = dev.cq_head /\ dev'.cq_tail = (dev.cq_tail + 1) % EntryCnt
      /\ dev'.working = dev.working \ {w}
    BY Zenon, <1>1, <1>3, DevTypes
<1>7. w[1] = server.c /\ w[2] = server.cid /\ dev'.working = {} /\ pending' = {0}
    <2>1. w = <<server.c, server.cid>> /\ dev.working = {w} /\ pending = {}
        BY Zenon, <1>1, <1>4 DEF Executed, Command
    <2>2. msi[1] = 0
        BY Zenon, <1>5 DEF Ready
    <2> QED BY <1>1, <1>6, <2>1, <2>2
<1>8. /\ cq' \in [Pairs -> [Slots -> Completions]]
      /\ cq'[0][dev.cq_tail].of = server.c /\ cq'[0][dev.cq_tail].cid = server.cid
    <2> DEFINE new == Driver!Completion(w[1], w[2], ok)
    <2>1. new \in Completions /\ new.of = server.c /\ new.cid = server.cid
        <3>1. server.c \in Commands /\ server.cid \in Slots
            BY <1>3 DEF DriverTypes, Servers
        <3> QED BY <1>1, <1>7, <3>1 DEF Driver!Completion, Completions
    <2>2. cq' = [cq EXCEPT ![0][dev.cq_tail] = new]
        BY Zenon, <1>1
    <2>3. cq \in [Pairs -> [Slots -> Completions]] /\ dev.cq_tail \in Slots
        BY Zenon, <1>3 DEF DriverTypes
    <2> HIDE DEF new
    <2> QED BY <2>1, <2>2, <2>3
<1>9. DriverTypes'
    <2>1. /\ dev'.sq_head \in Slots /\ dev'.sq_tail \in Slots
          /\ dev'.cq_head \in Slots /\ dev'.cq_tail \in Slots
        BY ZenonT(30), <1>3, <1>6, DevTypes, Advance
    <2> QED BY Zenon, <1>2, <1>3, <1>6, <1>8, <2>1 DEF DriverTypes
<1>10. Posted'
    BY <1>2, <1>4, <1>6, <1>7, <1>8 DEF Executed, Posted
<1>11. CommandInv' /\ CidInv'
    BY Zenon, <1>2, <1>3 DEF CommandInv, CidInv
<1>12. FlightInv'
    BY Zenon, <1>2, <1>3, <1>4, <1>6, <1>10 DEF FlightInv, UnderWay
<1>13. Ready'
    BY Zenon, <1>2, <1>5 DEF Ready
<1>14. ReadyInv'
    BY Zenon, <1>2, <1>3, <1>13 DEF ReadyInv
<1> QED BY Zenon, <1>9, <1>11, <1>12, <1>14 DEF DriverInv

(* and with its interrupt into the entry the server waits on. *)
LEMMA DriverIrq ==
    ASSUME DriverInv, NEW v \in Pairs, Driver!Irq(v)
    PROVE  DriverInv'
<1> USE SlotTypes
<1>1. DriverTypes /\ CommandInv /\ CidInv /\ FlightInv /\ ReadyInv
    BY Zenon DEF DriverInv
<1>2. v \in pending
    BY Zenon DEF Driver!Irq
<1>3. Posted /\ ~QueueIdle /\ server.at \in {"wait", "failed"}
    BY Zenon, <1>1, <1>2 DEF FlightInv, QueueIdle, UnderWay, Queued, Executed
<1>4. v = 0
    BY Zenon, <1>2, <1>3 DEF Posted
<1>5. Ready
    BY Zenon, <1>1, <1>3 DEF ReadyInv
<1> DEFINE x == cortex[0]
           has == IF x.flush THEN x.anchors ELSE x.has
           c == cq[0][cq_head[0]]
           e == entries[0][c.cid]
<1>6. has = Anchors /\ x.loaded /\ x.anchors # {} /\ 0 < pair_cnt
    BY Zenon, <1>5 DEF Ready, Anchors
<1>7. /\ UNCHANGED <<namespaces, server, cids, sq, sq_tail, cq, pair_cnt, msi>>
      /\ pending' = pending \ {0}
      /\ cortex' = [cortex EXCEPT ![0].has = has, ![0].flush = FALSE]
      /\ wild' = (wild \/ (x.loaded /\ x.anchors # {} /\ ~(Anchors \subseteq has)))
      /\ entries' = [entries EXCEPT ![0][c.cid] =
                        [e EXCEPT !.cid = c.cid, !.completion = c, !.response = TRUE]]
      /\ dev' = Driver!Ring(cq_head[0] + 1)
      /\ cq_head' = [cq_head EXCEPT ![0] =
                        IF cq_head[0] + 1 = EntryCnt THEN 0 ELSE cq_head[0] + 1]
    BY <1>4, <1>6 DEF Driver!Irq, Anchors
<1>8. /\ c \in Completions /\ c.of = server.c /\ c.cid = server.cid
      /\ c.cid \in Slots /\ e \in Entries /\ x \in Cortexes
      /\ cq_head \in [Pairs -> Slots] /\ cortex \in [Pairs -> Cortexes]
      /\ entries \in [Pairs -> [Slots -> Entries]]
    <2>1. /\ cq_head \in [Pairs -> Slots] /\ cortex \in [Pairs -> Cortexes]
          /\ cq \in [Pairs -> [Slots -> Completions]]
          /\ entries \in [Pairs -> [Slots -> Entries]]
        BY Zenon, <1>1 DEF DriverTypes
    <2>2. c \in Completions /\ x \in Cortexes
        BY <2>1
    <2>3. c.cid \in Slots
        BY <2>2 DEF Completions
    <2>4. c.of = server.c /\ c.cid = server.cid
        BY Zenon, <1>3 DEF Posted
    <2> QED BY <2>1, <2>2, <2>3, <2>4
<1> HIDE DEF x, has, c, e
<1>9. /\ entries' \in [Pairs -> [Slots -> Entries]]
      /\ entries'[0][server.cid].completion = c
      /\ entries'[0][server.cid].cid = server.cid
    <2> DEFINE new == [e EXCEPT !.cid = c.cid, !.completion = c, !.response = TRUE]
    <2>1. new \in Entries /\ new.completion = c /\ new.cid = c.cid
        BY Zenon, <1>8 DEF Entries
    <2>2. entries' = [entries EXCEPT ![0][c.cid] = new]
        BY Zenon, <1>7
    <2> HIDE DEF new
    <2> QED BY <1>8, <2>1, <2>2
<1>10. /\ cq_head' \in [Pairs -> Slots]
       /\ cq_head'[0] = (cq_head[0] + 1) % EntryCnt
    <2>1. cq_head[0] \in Slots
        BY <1>8
    <2>2. /\ (IF cq_head[0] + 1 = EntryCnt THEN 0 ELSE cq_head[0] + 1) = (cq_head[0] + 1) % EntryCnt
          /\ (cq_head[0] + 1) % EntryCnt \in Slots
        BY <2>1, Advance
    <2> QED BY <1>7, <1>8, <2>2
<1>11. /\ dev' = [on |-> dev'.on, sq_head |-> dev'.sq_head, sq_tail |-> dev'.sq_tail,
                  cq_head |-> dev'.cq_head, cq_tail |-> dev'.cq_tail, working |-> dev'.working]
       /\ dev'.sq_head = dev.sq_head /\ dev'.sq_tail = dev.sq_tail
       /\ dev'.cq_head \in Slots /\ dev'.cq_tail = dev.cq_tail
       /\ dev'.working = dev.working
    <2>1. CASE cq_head[0] + 1 \in Slots
        <3>1. dev' = [dev EXCEPT !.cq_head = cq_head[0] + 1]
            BY Zenon, <1>7, <2>1 DEF Driver!Ring, Slots
        <3> QED BY <1>1, <2>1, <3>1, DevTypes
    <2>2. CASE cq_head[0] + 1 \notin Slots
        <3>1. dev' = dev
            BY Zenon, <1>7, <2>2 DEF Driver!Ring, Slots
        <3> QED BY Zenon, <1>1, <3>1, DevTypes
    <2> QED BY Zenon, <2>1, <2>2
<1>12. /\ cortex' \in [Pairs -> Cortexes]
       /\ cortex'[0].loaded = x.loaded /\ cortex'[0].anchors = x.anchors
       /\ cortex'[0].has = has
    <2>1. ASSUME NEW y \in Cortexes, NEW z, z = [y EXCEPT !.has = Anchors, !.flush = FALSE]
          PROVE  z \in Cortexes /\ z.loaded = y.loaded /\ z.anchors = y.anchors /\ z.has = Anchors
        BY Zenon, <2>1 DEF Cortexes
    <2> DEFINE new == [cortex[0] EXCEPT !.has = Anchors, !.flush = FALSE]
    <2>2. cortex' = [cortex EXCEPT ![0] = new]
        BY Zenon, <1>6, <1>7, <1>8
    <2>3. new = [x EXCEPT !.has = Anchors, !.flush = FALSE]
        BY DEF x
    <2> HIDE DEF new
    <2>4. /\ new \in Cortexes /\ new.loaded = x.loaded /\ new.anchors = x.anchors
          /\ new.has = Anchors
        BY Zenon, <1>8, <2>1, <2>3
    <2> QED BY Zenon, <1>6, <1>8, <2>2, <2>4
<1>13. DriverTypes'
    <2>1. {dev'.sq_head, dev'.sq_tail, dev'.cq_head, dev'.cq_tail} \subseteq Slots
        BY Zenon, <1>1, <1>11, DevTypes
    <2>2. wild' \in BOOLEAN
        BY Zenon, <1>7
    <2> QED BY Zenon, <1>1, <1>7, <1>9, <1>10, <1>11, <1>12, <2>1, <2>2 DEF DriverTypes
<1>14. QueueIdle'
    <2>1. dev.sq_head = dev.sq_tail /\ dev.working = {} /\ pending = {0}
        BY Zenon, <1>3 DEF Posted
    <2>2. dev.cq_tail = (cq_head[0] + 1) % EntryCnt
        BY Zenon, <1>3 DEF Posted
    <2>3. pending' = {}
        BY <1>7, <2>1
    <2> QED BY Zenon, <1>10, <1>11, <2>1, <2>2, <2>3 DEF QueueIdle
<1>15. CommandInv' /\ CidInv'
    BY Zenon, <1>1, <1>7 DEF CommandInv, CidInv
<1>16. FlightInv'
    BY Zenon, <1>1, <1>7, <1>8, <1>9, <1>11, <1>14 DEF FlightInv
<1>17. Ready'
    <2>1. x.loaded /\ x.anchors = Anchors
        BY Zenon, <1>5 DEF Ready, x
    <2> QED BY Zenon, <1>5, <1>6, <1>7, <1>12, <2>1 DEF Ready
<1>18. ReadyInv'
    <2>1. ~wild'
        BY Zenon, <1>1, <1>6, <1>7 DEF ReadyInv
    <2> QED BY Zenon, <1>1, <1>7, <1>17, <1>3, <2>1 DEF ReadyInv
<1> QED BY Zenon, <1>13, <1>15, <1>16, <1>18 DEF DriverInv

(* A step of the server, the controller or the interrupt server. *)
LEMMA DriverStep ==
    ASSUME DriverInv, Driver!Next
    PROVE  DriverInv'
<1>1. CASE Driver!Server
    BY Zenon, <1>1, DriverSetUp, DriverQueuePair, DriverSend, DriverResume DEF Driver!Server
<1>2. CASE Driver!Fail
    BY Zenon, <1>2, DriverFail
<1>3. CASE Driver!Fetch
    BY Zenon, <1>3, DriverFetch
<1>4. CASE Driver!Post
    BY Zenon, <1>4, DriverPost
<1>5. CASE \E v \in Driver!Pairs : Driver!Irq(v)
    BY Zenon, <1>5, DriverIrq DEF Pairs
<1> QED BY Zenon, <1>1, <1>2, <1>3, <1>4, <1>5 DEF Driver!Next

(* A step of a core. *)
LEMMA DriverUnchanged ==
    ASSUME DriverInv, UNCHANGED driverVars
    PROVE  DriverInv'
<1>1. /\ UNCHANGED <<namespaces, server, cids, entries, sq, cq, sq_tail, cq_head>>
      /\ UNCHANGED <<pair_cnt, dev, msi, cortex, pending, wild>>
    BY Zenon DEF driverVars
<1>2. DriverTypes'
    BY Zenon, <1>1 DEF DriverInv, DriverTypes
<1>3. CommandInv' /\ CidInv'
    BY Zenon, <1>1 DEF DriverInv, CommandInv, CidInv
<1>4. QueueIdle' = QueueIdle /\ UnderWay' = UnderWay /\ Ready' = Ready
    <2>1. QueueIdle' = QueueIdle /\ Ready' = Ready
        BY Zenon, <1>1 DEF QueueIdle, Ready
    <2>2. Queued' = Queued /\ Executed' = Executed /\ Posted' = Posted
        BY Zenon, <1>1 DEF Queued, Executed, Posted, Command
    <2> QED BY Zenon, <2>1, <2>2 DEF UnderWay
<1>5. FlightInv'
    BY Zenon, <1>1, <1>4 DEF DriverInv, FlightInv
<1>6. ReadyInv'
    BY Zenon, <1>1, <1>4 DEF DriverInv, ReadyInv
<1> QED BY Zenon, <1>2, <1>3, <1>5, <1>6 DEF DriverInv

(* The invariant of the driver, while the last cores still come up. *)
LEMMA DriverAlways == MCSpec => []DriverInv
<1>1. MCInit => DriverInv
    BY Zenon, DriverInit DEF MCInit
<1>2. DriverInv /\ [MCNext]_<<vars, driverVars>> => DriverInv'
    BY Zenon, DriverStep, DriverUnchanged DEF MCNext
<1> QED BY <1>1, <1>2, PTL DEF MCSpec

(* Whatever fails and however the controller, the interrupts and the       *)
(* server interleave, nvme_irq_handle never runs before both anchors were  *)
(* flushed to it: the vector is raised only for a command, and a command   *)
(* is sent only after both irq_cortex_anchor.                              *)
THEOREM IrqAlwaysReady == MCSpec => []IrqReady
<1>1. DriverInv => IrqReady
    BY Zenon DEF DriverInv, ReadyInv, IrqReady, Driver!IrqReady
<1> QED BY <1>1, DriverAlways, PTL

(* With queues of any length, down to one entry, the entry that ends the   *)
(* wait of nvme_send_command_and_block holds the completion of the command *)
(* that was sent, and all indices stay inside their queues.                *)
THEOREM OwnCompletionWakes == MCSpec => []OwnCompletion
<1>1. DriverInv => Driver!OwnCompletion
    BY Zenon DEF DriverInv, FlightInv, Driver!OwnCompletion
<1>2. DriverInv => Driver!TypeOK
    <2> SUFFICES ASSUME DriverInv PROVE Driver!TypeOK
        OBVIOUS
    <2>1. server.q \in Pairs /\ server.cid \in Slots
        BY DEF DriverInv, DriverTypes, Servers
    <2>2. pair_cnt \in 0..(MaxNamespaces + 1)
        <3>1. pair_cnt = server.q \/ pair_cnt = server.q + 1
            BY Zenon DEF DriverInv, CommandInv
        <3> QED BY <2>1, <3>1, SlotTypes
    <2>3. pending \subseteq Pairs
        BY Zenon, SlotTypes DEF DriverInv, FlightInv, QueueIdle, UnderWay, Queued, Executed, Posted
    <2> QED BY Zenon, <2>1, <2>2, <2>3 DEF DriverInv, DriverTypes, Driver!TypeOK, Slots, Pairs
<1>3. DriverInv => OwnCompletion
    BY Zenon, <1>1, <1>2 DEF OwnCompletion
<1> QED BY <1>3, DriverAlways, PTL

(* Whenever no command is waited for, and none has failed, the cid bitmap  *)
(* of the admin queue is empty, although create_cq and create_sq take      *)
(* their cid from the new pair's bitmap.                                   *)
THEOREM CidsComeBack == MCSpec => []CidsReturned
<1>1. DriverInv => CidsReturned
    BY Zenon DEF DriverInv, CidInv, CidsReturned, Driver!CidsReturned
<1> QED BY <1>1, DriverAlways, PTL
=============================================================================
