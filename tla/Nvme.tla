-------------------------------- MODULE Nvme --------------------------------
(***************************************************************************)
(* The NVMe server's start (servers/io/nvme/controller/nvme.c), with what  *)
(* it talks to: the PCI server's MSI set-up, the kernel's interrupt        *)
(* cortexes, the interrupt server (servers/io/nvme/irq/main.c) and the     *)
(* controller.                                                             *)
(*                                                                         *)
(* Queue pair 0 is the admin queue, pair q that of the q-th namespace; the *)
(* vector reserved for pair q is q.  Commands for a pair q > 0 itself are  *)
(* not sent: nothing calls nvme_lba_rw.                                    *)
(*                                                                         *)
(* The device has MSI-X: pci_device_msi writes the vector over the upper   *)
(* half of a 64-bit message address, or past a 32-bit one's data, so that  *)
(* with MSI no interrupt comes.                                            *)
(*                                                                         *)
(* External: the controller follows its specification and ignores a        *)
(* doorbell value that is no index of the queue; bitmap_alloc returns the  *)
(* lowest free bit; memory from DUFAY_ALLOCATE_UNBROKEN is zero.  FUTEX    *)
(* blocks until the word is what is expected (equeue_block is not          *)
(* implemented in the kernel), and FUTEX_WAKE stores that value.           *)
(***************************************************************************)
EXTENDS Integers, Sequences, FiniteSets

CONSTANTS
    MaxNamespaces,  \* bound: namespaces of a controller
    EntryCnt,       \* CAP.MQES, taken as the number of entries of a queue
    PairsFit,       \* queue pairs that fit the page of nvme_controller
    MsixEntries,    \* entries of the device's MSI-X table
    Faulty          \* whether system calls and commands may fail

NvmeAssumption ==
    /\ MaxNamespaces \in Nat /\ EntryCnt \in Nat \ {0} /\ PairsFit \in Nat
    /\ MsixEntries \in Nat \ {0} /\ Faulty \in BOOLEAN

Pairs == 0..MaxNamespaces
Slots == 0..(EntryCnt - 1)
NoCommand == <<"none", 0>>

VARIABLES
    namespaces, \* how many the controller has
    pc,         \* the server: what it is about to do, for which pair
    cids,       \* cid_bitmap of each pair
    entries,    \* queue_entry of each pair
    sq, cq,     \* the submission queue, and the completion queue of each pair
    sq_tail, cq_head, pair_cnt,
    dev,        \* the controller: its indices, and the commands it executes
    msi,        \* the vector each allocated entry of the MSI-X table raises
    cortex,     \* of each vector: anchors, flush, and what the interrupt
                \* server has taken from the anchors
    pending,    \* vectors raised and not yet handled
    wild        \* the interrupt server used a pointer it does not have

vars == <<namespaces, pc, cids, entries, sq, cq, sq_tail, cq_head, pair_cnt, dev,
          msi, cortex, pending, wild>>

ring == <<sq, sq_tail, entries, cids>>
irqs == <<cq, cq_head, msi, cortex, pending, wild>>

Completion(c, cid, ok) == [of |-> c, cid |-> cid, ok |-> ok]
EmptyEntry == [cid |-> 0, completion |-> Completion(NoCommand, 0, TRUE),
               response |-> FALSE, blocking |-> FALSE]

Init ==
    /\ namespaces \in 0..MaxNamespaces
    /\ pc = [at |-> "msi", q |-> 0, c |-> NoCommand, cid |-> 0]
    /\ cids = [q \in Pairs |-> {}]
    /\ entries = [q \in Pairs |-> [i \in Slots |-> EmptyEntry]]
    /\ sq = [i \in Slots |-> NoCommand]
    /\ cq = [q \in Pairs |-> [i \in Slots |-> Completion(NoCommand, 0, TRUE)]]
    /\ sq_tail = 0 /\ cq_head = [q \in Pairs |-> 0] /\ pair_cnt = 0
    /\ dev = [on |-> FALSE, sq_head |-> 0, sq_tail |-> 0, cq_head |-> 0, cq_tail |-> 0,
              working |-> {}]
    /\ msi = <<>>
    /\ cortex = [v \in Pairs |-> [loaded |-> FALSE, anchors |-> {}, flush |-> FALSE,
                                  has |-> {}]]
    /\ pending = {} /\ wild = FALSE

Goto(at) == pc' = [pc EXCEPT !.at = at]
ToPair(q) == pc' = [pc EXCEPT !.at = "msi", !.q = q]
ToSend(c) == pc' = [pc EXCEPT !.at = "send", !.c = c]

-----------------------------------------------------------------------------
(* nvme_initialise_irq: a vector is reserved, and the PCI server points    *)
(* the next free entry of the MSI-X table at it.  The server does not look *)
(* at whether there was one.                                               *)
SetupMsi ==
    /\ pc.at = "msi"
    /\ msi' = IF Len(msi) < MsixEntries THEN Append(msi, pc.q) ELSE msi
    /\ Goto("cortex")
    /\ UNCHANGED <<namespaces, ring, cq, cq_head, pair_cnt, dev, cortex, pending, wild>>

(* irq_cortex_instantiate *)
Instantiate ==
    /\ pc.at = "cortex"
    /\ cortex' = [cortex EXCEPT ![pc.q].loaded = TRUE]
    /\ Goto("mmio")
    /\ UNCHANGED <<namespaces, ring, cq, cq_head, pair_cnt, dev, msi, pending, wild>>

AnchorNoFlush ==
    /\ pc.at \in {"mmio", "controller"}
    /\ cortex' = [cortex EXCEPT ![pc.q].anchors = @ \cup {pc.at},
                                ![pc.q].flush = pc.at = "mmio"]
    /\ Goto(IF pc.at = "mmio" THEN "controller" ELSE "pair")
    /\ UNCHANGED <<namespaces, ring, cq, cq_head, pair_cnt, dev, msi, pending, wild>>

(* irq_cortex_anchor, for the registers and then for the nvme_controller. *)
Anchor ==
    /\ pc.at \in {"mmio", "controller"}
    /\ cortex' = [cortex EXCEPT ![pc.q].anchors = @ \cup {pc.at}, ![pc.q].flush = TRUE]
    /\ Goto(IF pc.at = "mmio" THEN "controller" ELSE "pair")
    /\ UNCHANGED <<namespaces, ring, cq, cq_head, pair_cnt, dev, msi, pending, wild>>

(* nvme_queue_pair_instantiate: the pair is set up; the admin queue is     *)
(* announced in the registers, another one with two commands.              *)
QueuePair ==
    /\ pc.at = "pair"
    /\ pair_cnt' = pair_cnt + 1
    /\ \/ pair_cnt' > PairsFit /\ Goto("failed")
       \/ pair_cnt' <= PairsFit /\ pc.q = 0 /\ Goto("enable")
       \/ pair_cnt' <= PairsFit /\ pc.q > 0 /\ ToSend(<<"create_cq", pc.q>>)
    /\ UNCHANGED <<namespaces, ring, dev, irqs>>

(* CC.EN is set and read back. *)
Enable ==
    /\ pc.at = "enable"
    /\ ToSend(<<"controller", 0>>)
    /\ dev' = [dev EXCEPT !.on = TRUE]
    /\ UNCHANGED <<namespaces, ring, pair_cnt, irqs>>

(* A system call, an allocation or the controller fails: nvme() returns    *)
(* and undoes nothing.                                                     *)
Fail ==
    /\ Faulty /\ pc.at \notin {"done", "failed"}
    /\ Goto("failed")
    /\ UNCHANGED <<namespaces, ring, pair_cnt, dev, irqs>>

(* The bitmap a command takes its cid from: create_cq and create_sq take   *)
(* it from the new pair, although they are sent to the admin queue.        *)
CidFrom(c) == IF c[1] \in {"create_cq", "create_sq"} THEN c[2] ELSE 0

SubmitStale(c, cid) ==
    /\ entries' = [entries EXCEPT ![0][cid].blocking = TRUE]
    /\ sq' = [sq EXCEPT ![sq_tail] = <<c, cid>>]
    /\ sq_tail' = IF sq_tail + 1 >= EntryCnt THEN 0 ELSE sq_tail + 1
    /\ dev' = [dev EXCEPT !.sq_tail = sq_tail']

(* nvme_send_command, which rings the doorbell *)
Submit(c, cid) ==
    /\ entries' = [entries EXCEPT ![0][cid] = [EmptyEntry EXCEPT !.blocking = TRUE]]
    /\ sq' = [sq EXCEPT ![sq_tail] = <<c, cid>>]
    /\ sq_tail' = IF sq_tail + 1 >= EntryCnt THEN 0 ELSE sq_tail + 1
    /\ dev' = [dev EXCEPT !.sq_tail = sq_tail']

(* A command is sent, to be waited for. *)
Send ==
    LET b == CidFrom(pc.c)
        free == Slots \ cids[b]
        cid == CHOOSE i \in free : \A j \in free : i <= j
    IN /\ pc.at = "send"
       /\ IF free = {} THEN Goto("failed") /\ UNCHANGED <<cids, entries, sq, sq_tail, dev>>
          ELSE /\ cids' = [cids EXCEPT ![b] = @ \cup {cid}]
               /\ Submit(pc.c, cid)
               /\ pc' = [pc EXCEPT !.at = "wait", !.cid = cid]
       /\ UNCHANGED <<namespaces, pair_cnt, irqs>>

(* nvme() gives each namespace its queue pair, one after the other. *)
NextPair(q) == IF q < namespaces THEN ToPair(q + 1) ELSE Goto("done")

(* What follows a command: the namespaces are asked for one by one, and    *)
(* then get their pairs.                                                   *)
AfterCommand ==
    LET c == pc.c IN
    CASE c[1] = "controller" -> ToSend(<<"list", 0>>)
      [] c[1] \in {"list", "namespace"} ->
            IF c[2] < namespaces THEN ToSend(<<"namespace", c[2] + 1>>) ELSE NextPair(0)
      [] c[1] = "create_cq" -> ToSend(<<"create_sq", c[2]>>)
      [] c[1] = "create_sq" -> NextPair(c[2])

ReleaseNone(cid) == UNCHANGED cids

(* The cid is freed in the bitmap of the queue the command was sent to. *)
Release(cid) == cids' = [cids EXCEPT ![0] = @ \ {cid}]

(* nvme_send_command_and_block goes on when FUTEX_WAIT returns; a command  *)
(* that failed keeps its cid, and ends the start of the server.            *)
Resume ==
    LET e == entries[0][pc.cid] IN
    /\ pc.at = "wait" /\ e.response
    /\ \/ e.completion.ok /\ Release(e.cid) /\ AfterCommand
       \/ ~e.completion.ok /\ Goto("failed") /\ UNCHANGED cids
    /\ UNCHANGED <<namespaces, entries, sq, sq_tail, pair_cnt, dev, irqs>>

-----------------------------------------------------------------------------
(* The controller takes a command from the admin queue, and answers it     *)
(* when the completion queue, as far as it knows, has room.                *)
Fetch ==
    /\ dev.on /\ dev.sq_head # dev.sq_tail
    /\ dev' = [dev EXCEPT !.sq_head = (@ + 1) % EntryCnt,
                          !.working = @ \cup {sq[dev.sq_head]}]
    /\ UNCHANGED <<namespaces, pc, ring, pair_cnt, irqs>>

Post ==
    /\ (dev.cq_tail + 1) % EntryCnt # dev.cq_head
    /\ \E w \in dev.working, ok \in IF Faulty THEN BOOLEAN ELSE {TRUE} :
          /\ dev' = [dev EXCEPT !.cq_tail = (@ + 1) % EntryCnt, !.working = @ \ {w}]
          /\ cq' = [cq EXCEPT ![0][dev.cq_tail] = Completion(w[1], w[2], ok)]
          /\ pending' = pending \cup {msi[1]}
    /\ UNCHANGED <<namespaces, pc, ring, pair_cnt, cq_head, msi, cortex, wild>>

RingNever(value) == dev

(* The completion doorbell, which every pair writes that of queue 0 of. *)
Ring(value) == IF value \in Slots THEN [dev EXCEPT !.cq_head = value] ELSE dev

(* isr_handler_main calls nvme_irq_handle of the vector's cortex: a flush  *)
(* reads the anchors, and one completion of the pair with this vector is   *)
(* taken from where the head is.                                           *)
Irq(v) ==
    LET x == cortex[v]
        has == IF x.flush THEN x.anchors ELSE x.has
        c == cq[v][cq_head[v]]
        e == entries[v][c.cid]
        called == x.loaded /\ x.anchors # {}
        sees == {"mmio", "controller"} \subseteq has
        found == called /\ sees /\ v < pair_cnt
    IN /\ v \in pending
       /\ pending' = pending \ {v}
       /\ cortex' = [cortex EXCEPT ![v].has = has, ![v].flush = FALSE]
       /\ wild' = (wild \/ (called /\ ~sees))
       /\ entries' = IF ~found THEN entries ELSE
              [entries EXCEPT ![v][c.cid] =
                  [e EXCEPT !.cid = c.cid, !.completion = c, !.response = TRUE]]
       /\ dev' = IF found THEN Ring(cq_head[v] + 1) ELSE dev
       /\ cq_head' = IF ~found THEN cq_head ELSE
              [cq_head EXCEPT ![v] = IF @ + 1 = EntryCnt THEN 0 ELSE @ + 1]
       /\ UNCHANGED <<namespaces, pc, cids, sq, sq_tail, cq, pair_cnt, msi>>

Server == \/ SetupMsi \/ Instantiate \/ Anchor \/ QueuePair \/ Enable \/ Send \/ Resume

Next == Server \/ Fail \/ Fetch \/ Post \/ \E v \in Pairs : Irq(v)

(* The server is scheduled, the controller answers what it was given, and  *)
(* an interrupt that was raised is handled.                                *)
Spec ==
    /\ Init /\ [][Next]_vars
    /\ WF_vars(Server) /\ WF_vars(Fetch) /\ WF_vars(Post)
    /\ \A v \in Pairs : WF_vars(Irq(v))

-----------------------------------------------------------------------------
TypeOK ==
    /\ pc.q \in Pairs /\ pc.cid \in Slots
    /\ cids \in [Pairs -> SUBSET Slots]
    /\ sq_tail \in Slots /\ cq_head \in [Pairs -> Slots]
    /\ pair_cnt \in 0..(MaxNamespaces + 1) /\ pending \subseteq Pairs

(* An interrupt never reaches the interrupt server before the anchors it   *)
(* gets the registers and the nvme_controller from: across MSI set-up,     *)
(* cortex, anchors and flush, for every pair.                              *)
IrqReady == ~wild

(* What wakes the server is the completion of the very command it waits    *)
(* for: neither an earlier one that used the same cid or the same slot of  *)
(* a queue that has wrapped, nor that of another pair.                     *)
OwnCompletion ==
    pc.at = "wait" /\ entries[0][pc.cid].response =>
        entries[0][pc.cid].completion.of = pc.c

(* Between two commands no cid of the admin queue is taken, although some  *)
(* commands take their cid from another bitmap than it is returned to.     *)
CidsReturned == pc.at \notin {"wait", "failed"} => cids[0] = {}

(* With queues of three entries or more nvme() returns: no command waits   *)
(* forever for its interrupt, though both queues wrap, the doorbell is     *)
(* written before the head wraps, and the MSI-X table may be too small.    *)
Starts == <>(pc.at \in {"done", "failed"})
=============================================================================
