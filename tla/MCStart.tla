------------------------------ MODULE MCStart -------------------------------
(***************************************************************************)
(* The start of a machine, for TLC: boot_aps starts the processors (Smp),  *)
(* and when it has returned the NVMe server is launched (Nvme), while the  *)
(* last processors may still be on their way to their idle threads.        *)
(***************************************************************************)
EXTENDS Smp

VARIABLES
    namespaces, server, cids, entries, sq, cq, sq_tail, cq_head, pair_cnt, dev,
    msi, cortex, pending, wild

driverVars == <<namespaces, server, cids, entries, sq, cq, sq_tail, cq_head,
                pair_cnt, dev, msi, cortex, pending, wild>>

CONSTANTS MaxNamespaces, EntryCnt, PairsFit, MsixEntries, Faulty

Driver == INSTANCE Nvme WITH pc <- server

ASSUME DriverAssumption == Driver!NvmeAssumption

MCInit == Init /\ Driver!Init

Booted == pc[Boot] = "booted"

MCNext ==
    \/ Next /\ UNCHANGED driverVars
    \/ Booted /\ Driver!Next /\ UNCHANGED vars

(* The processors execute, and once it was launched so does the server;    *)
(* the controller answers and raised interrupts are handled.               *)
MCSpec ==
    /\ MCInit /\ [][MCNext]_<<vars, driverVars>>
    /\ \A c \in Cores : WF_vars(Step(c))
    /\ WF_vars(AllUp)
    /\ WF_driverVars(Booted /\ Driver!Server)
    /\ WF_driverVars(Booted /\ Driver!Fetch)
    /\ WF_driverVars(Booted /\ Driver!Post)
    /\ \A v \in Driver!Pairs : WF_driverVars(Booted /\ Driver!Irq(v))

-----------------------------------------------------------------------------
(* The properties of the driver; module Nvme says what they mean. *)

(* No interrupt reaches the interrupt server before its anchors.           *)
IrqReady == Driver!IrqReady

(* The server is woken by the completion of the command it waits for, and  *)
(* every variable of the driver stays in its range.                        *)
OwnCompletion == Driver!TypeOK /\ Driver!OwnCompletion

(* Between two commands no cid of the admin queue is taken.                *)
CidsReturned == Driver!CidsReturned

(* Once the machine is up nvme() returns.                                  *)
Starts == Driver!Starts
=============================================================================
