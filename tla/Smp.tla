-------------------------------- MODULE Smp ---------------------------------
(***************************************************************************)
(* How the cores of the machine are started (arch/amd64/smp.c and the      *)
(* trampoline smp.real).  Each core that is up starts the next one: it     *)
(* writes parameters to the page at 0x81000, sends INIT and SIPI, and      *)
(* waits on core_init_lock, which the new core releases.                   *)
(*                                                                         *)
(* Core i is the i-th entry of the MADT.  Core 0 runs boot_aps: were the   *)
(* boot processor another entry, the chain would reset it.  External: a    *)
(* core that got both IPIs runs the trampoline, once.                      *)
(***************************************************************************)
EXTENDS Integers, FiniteSets

CONSTANT Bootable   \* bootable_processor_cnt

ASSUME SmpAssumption == Bootable \in Nat \ {0}

Cores == 0..(Bootable - 1)
Boot == 0
None == -1

VARIABLES
    pc,         \* where each core is
    target,     \* the entry each core is starting, in chain_aps
    locale,     \* the cpu_local each core was given, then has in MSR_GS_BASE
    lock,       \* whether core_init_lock is taken
    parameters, \* the page at 0x81000: the cpu_local, whose idtr it names
    started,    \* cores that got the IPIs and are not yet in the trampoline
    dangling,   \* a core loaded an idtr from a stack frame that was gone
    mapped,     \* the first pages are mapped to themselves
    cpus_up, logical_processor_cnt

trampoline == <<parameters, started, dangling, mapped>>
counts == <<cpus_up, logical_processor_cnt>>
vars == <<pc, target, locale, lock, trampoline, counts>>

Init ==
    /\ pc = [c \in Cores |-> IF c = Boot THEN "chain" ELSE "off"]
    /\ target = [c \in Cores |-> None]
    /\ locale = [c \in Cores |-> None]
    /\ lock = FALSE
    /\ parameters = [cpu_local |-> None, idtr |-> None]
    /\ started = {} /\ dangling = FALSE /\ mapped = TRUE
    /\ cpus_up = 1 /\ logical_processor_cnt = 0

Goto(c, at) == pc' = [pc EXCEPT ![c] = at]

(* chain_aps returns: to boot_aps, or to core_bootstrap. *)
Return(c) == Goto(c, IF c = Boot THEN "wait" ELSE "load")

-----------------------------------------------------------------------------
(* chain_aps: there is nothing left to start, *)
ChainEnd(c) ==
    /\ pc[c] = "chain" /\ logical_processor_cnt >= Bootable
    /\ mapped' = FALSE
    /\ Return(c)
    /\ UNCHANGED <<target, locale, lock, parameters, started, dangling, counts>>

(* or the entry is the core itself, *)
ChainSelf(c) ==
    /\ pc[c] = "chain" /\ logical_processor_cnt = c
    /\ locale' = [locale EXCEPT ![c] = c]
    /\ logical_processor_cnt' = logical_processor_cnt + 1
    /\ UNCHANGED <<pc, target, lock, cpus_up, trampoline>>

ChainNextCounted(c) ==
    /\ pc[c] = "chain" /\ logical_processor_cnt \in Cores \ {c}
    /\ target' = [target EXCEPT ![c] = logical_processor_cnt]
    /\ logical_processor_cnt' = logical_processor_cnt + 1
    /\ Goto(c, "lock")
    /\ UNCHANGED <<locale, lock, cpus_up, trampoline>>

(* or it is to be started. *)
ChainNext(c) ==
    /\ pc[c] = "chain" /\ logical_processor_cnt \in Cores \ {c}
    /\ target' = [target EXCEPT ![c] = logical_processor_cnt]
    /\ Goto(c, "lock")
    /\ UNCHANGED <<locale, lock, trampoline, counts>>

Acquire(c) ==
    /\ pc[c] = "lock" /\ ~lock
    /\ lock' = TRUE
    /\ Goto(c, "write")
    /\ UNCHANGED <<target, locale, trampoline, counts>>

WriteOwn(c) ==
    /\ pc[c] = "write"
    /\ parameters' = [cpu_local |-> c, idtr |-> c]
    /\ Goto(c, "ipi")
    /\ UNCHANGED <<target, locale, lock, started, dangling, mapped, counts>>

Write(c) ==
    /\ pc[c] = "write"
    /\ parameters' = [cpu_local |-> target[c], idtr |-> c]
    /\ Goto(c, "ipi")
    /\ UNCHANGED <<target, locale, lock, started, dangling, mapped, counts>>

SendIpi(c) ==
    /\ pc[c] = "ipi"
    /\ started' = started \cup {target[c]}
    /\ Goto(c, "join")
    /\ UNCHANGED <<target, locale, lock, parameters, dangling, mapped, counts>>

JoinAtOnce(c) ==
    /\ pc[c] = "join"
    /\ Goto(c, "leave")
    /\ UNCHANGED <<target, locale, lock, trampoline, counts>>

(* The core waits for the new one to have released the lock, *)
Join(c) ==
    /\ pc[c] = "join" /\ ~lock
    /\ lock' = TRUE
    /\ Goto(c, "leave")
    /\ UNCHANGED <<target, locale, trampoline, counts>>

LeaveLocked(c) ==
    /\ pc[c] = "leave"
    /\ Return(c)
    /\ UNCHANGED <<target, locale, lock, trampoline, counts>>

(* and releases it; its frame, with the idtr, is gone. *)
Leave(c) ==
    /\ pc[c] = "leave"
    /\ lock' = FALSE
    /\ Return(c)
    /\ UNCHANGED <<target, locale, trampoline, counts>>

-----------------------------------------------------------------------------
(* The trampoline takes everything from the parameters. *)
Trampoline(c) ==
    /\ pc[c] = "off" /\ c \in started
    /\ started' = started \ {c}
    /\ locale' = [locale EXCEPT ![c] = parameters.cpu_local]
    /\ dangling' = (dangling \/ pc[parameters.idtr] # "join")
    /\ Goto(c, "init")
    /\ UNCHANGED <<target, lock, parameters, mapped, counts>>

(* core_bootstrap *)
Release(c) ==
    /\ pc[c] = "init"
    /\ lock' = FALSE
    /\ Goto(c, "up")
    /\ UNCHANGED <<target, locale, trampoline, counts>>

CountUp(c) ==
    /\ pc[c] = "up"
    /\ cpus_up' = cpus_up + 1
    /\ Goto(c, "count")
    /\ UNCHANGED <<target, locale, lock, logical_processor_cnt, trampoline>>

(* The core is counted, and then initialises its scheduler. *)
Count(c) ==
    /\ pc[c] = "count"
    /\ logical_processor_cnt' = logical_processor_cnt + 1
    /\ Goto(c, "sched")
    /\ UNCHANGED <<target, locale, lock, cpus_up, trampoline>>

SchedInit(c) ==
    /\ pc[c] = "sched"
    /\ Goto(c, "chain")
    /\ UNCHANGED <<target, locale, lock, trampoline, counts>>

(* thread_load of the idle thread *)
Load(c) ==
    /\ pc[c] = "load"
    /\ Goto(c, "idle")
    /\ UNCHANGED <<target, locale, lock, trampoline, counts>>

(* boot_aps returns when all have counted themselves. *)
AllUp ==
    /\ pc[Boot] = "wait" /\ cpus_up = Bootable
    /\ Goto(Boot, "booted")
    /\ UNCHANGED <<target, locale, lock, trampoline, counts>>

Step(c) ==
    \/ ChainEnd(c) \/ ChainSelf(c) \/ ChainNext(c) \/ Acquire(c) \/ Write(c)
    \/ SendIpi(c) \/ Join(c) \/ Leave(c) \/ Trampoline(c) \/ Release(c)
    \/ CountUp(c) \/ Count(c) \/ SchedInit(c) \/ Load(c)

Next == (\E c \in Cores : Step(c)) \/ AllUp

(* Every core executes.  core_init_lock is taken twice by each core at     *)
(* most, so that no fairness of the lock is needed.                        *)
Spec ==
    /\ Init /\ [][Next]_vars
    /\ \A c \in Cores : WF_vars(Step(c))
    /\ WF_vars(AllUp)

-----------------------------------------------------------------------------
TypeOK ==
    /\ target \in [Cores -> Cores \cup {None}]
    /\ locale \in [Cores -> Cores \cup {None}]
    /\ lock \in BOOLEAN /\ mapped \in BOOLEAN /\ started \subseteq Cores
    /\ cpus_up \in 1..Bootable /\ logical_processor_cnt \in 0..Bootable

(* A core that has started has the cpu_local of its own MADT entry, with   *)
(* its own stack, although all take it from the same page.                 *)
OwnLocale == \A c \in Cores : locale[c] \in {None, c}

(* The idtr a new core loads is on the stack of the core that started it,  *)
(* and is loaded before that frame is gone; and the trampoline runs while  *)
(* the pages it runs in are mapped.                                        *)
TrampolineSafe == ~dangling /\ (started # {} => mapped)

(* The cores that logical_processor_cnt counts, whose cpu_local the        *)
(* scheduler looks at, have started and loaded it.                         *)
CountedAreUp ==
    \A c \in Cores : c < logical_processor_cnt =>
        locale[c] = c /\ pc[c] \notin {"off", "init", "up", "count"}

(* boot_aps returns, and every other core comes to its idle thread. *)
AllBoot ==
    <>[](pc[Boot] = "booted" /\ \A c \in Cores \ {Boot} : pc[c] = "idle")
=============================================================================
