------------------------------- MODULE Ports --------------------------------
(***************************************************************************)
(* Kernel objects, handles and ports: kernel/core/object.c, capability.c   *)
(* and message.c, as the system calls create_obj, duplicate_obj,           *)
(* destroy_obj, msg_send and msg_recv of one process use them.             *)
(*                                                                         *)
(* Nothing here takes a lock, so a call is split where it touches shared   *)
(* state.  The handle bitmap and the vector of bindings come from the aria *)
(* library; a bitmap operation is one step and the bitmap grows as needed, *)
(* up to the bound on handles.  Its BIT_SET sets a bit (so physical.c and  *)
(* apic.c use it), and its value is what it stored, which is not zero:     *)
(* capability_lookup finds every handle and marks it.  Handles are those   *)
(* the table has room for, and a process names those it was given.         *)
(* A call that returns an error before it changed anything is no step.     *)
(* Objects come from a slab cache: its constructor runs when the memory is *)
(* first carved (slab_create), not at every kmem_cache_alloc.              *)
(***************************************************************************)
EXTENDS Integers, Sequences, FiniteSets

CONSTANTS
    Threads, Objects,
    NHandles,       \* bound: handles in the table
    MaxSent,        \* bound: messages sent
    RefModulus,     \* the refcount counts modulo this (2^32 in the code)
    StaleHandles,   \* whether calls may name handles already destroyed
    MaxRefs,        \* bound: references duplicate_obj raises a refcount to
    NoObject

ASSUME PortsAssumption ==
    /\ NHandles \in Nat /\ MaxSent \in Nat /\ RefModulus \in Nat \ {0, 1}
    /\ MaxRefs \in 0..(RefModulus - 2) /\ NoObject \notin Objects
    /\ StaleHandles \in BOOLEAN

Handles == 0..(NHandles - 1)
Rights == {"RECV", "SEND", "SEND_ONCE"}

VARIABLES
    bitmap,         \* handles whose bit is set
    values,         \* the binding of a handle
    allocated, refcount, queue,         \* objects: struct port and header
    held,           \* handles given to the process and not destroyed
    sent,           \* messages sent so far
    fault,          \* the kernel has panicked or touched a NULL port
    pc, loc         \* the threads' calls and their locals

tableVars == <<bitmap, values>>
objVars == <<allocated, refcount, queue>>
vars == <<bitmap, values, objVars, held, sent, fault, pc, loc>>

Unbound == [obj |-> NoObject, access |-> {}]
NoCall == [h |-> 0, obj |-> NoObject, access |-> {}]

(* capability_table_init, message_init *)
Init ==
    /\ bitmap = {} /\ values = [h \in Handles |-> Unbound]
    /\ allocated = {}
    /\ refcount = [o \in Objects |-> 0]
    /\ queue = [o \in Objects |-> <<>>]
    /\ held = {} /\ sent = 0 /\ fault = FALSE
    /\ pc = [t \in Threads |-> "idle"]
    /\ loc = [t \in Threads |-> NoCall]

Least(S) == CHOOSE x \in S : \A y \in S : x <= y

(* The handles a call may name, and what capability_lookup does. *)
Named(h) == IF StaleHandles THEN values[h].obj # NoObject ELSE h \in held
Lookup(hs) == bitmap' = bitmap \cup hs

Goto(t, l) == pc' = [pc EXCEPT ![t] = l]

(* The bound on handles leaves every call under way one. *)
Room == Cardinality(bitmap)
          + Cardinality({t \in Threads : pc[t] = "bitmap_alloc"}) < NHandles

-----------------------------------------------------------------------------
(* create_obj up to capability_create: object_new takes an object from the *)
(* cache as it was left.                                                   *)
CreateObj(t) ==
    /\ pc[t] = "idle" /\ Room
    /\ \E o \in Objects \ allocated, a \in SUBSET Rights :
          /\ allocated' = allocated \cup {o}
          /\ loc' = [loc EXCEPT ![t] = [h |-> 0, obj |-> o, access |-> a]]
    /\ Goto(t, "bitmap_alloc")
    /\ UNCHANGED <<tableVars, refcount, queue, held, sent, fault>>

(* duplicate_obj up to capability_create. *)
DuplicateObj(t) ==
    /\ pc[t] = "idle" /\ Room
    /\ \E h \in Handles, a \in SUBSET Rights :
          LET o == values[h].obj IN
          /\ Named(h) /\ values[h].access \cap a # {}
          /\ Lookup({h})
          /\ refcount[o] < MaxRefs
          /\ refcount' = [refcount EXCEPT ![o] = (@ + 1) % RefModulus]
          /\ loc' = [loc EXCEPT ![t] = [h |-> 0, obj |-> o, access |-> a]]
    /\ Goto(t, "bitmap_alloc")
    /\ UNCHANGED <<values, allocated, queue, held, sent, fault>>

(* A call that looks a handle up and is then refused. *)
Refused(t) ==
    /\ pc[t] = "idle"
    /\ \E h \in Handles : Named(h) /\ Lookup({h})
    /\ UNCHANGED <<values, objVars, held, sent, fault, pc, loc>>

(* capability_create: bitmap_alloc, the binding, object_retain. *)
BitmapAlloc(t) ==
    LET h == Least(Handles \ bitmap) IN
    /\ pc[t] = "bitmap_alloc"
    /\ bitmap' = bitmap \cup {h}
    /\ loc' = [loc EXCEPT ![t].h = h]
    /\ Goto(t, "bind")
    /\ UNCHANGED <<values, objVars, held, sent, fault>>

Bind(t) ==
    /\ pc[t] = "bind"
    /\ values' = [values EXCEPT ![loc[t].h] =
                     [obj |-> loc[t].obj, access |-> loc[t].access]]
    /\ Goto(t, "retain")
    /\ UNCHANGED <<bitmap, objVars, held, sent, fault, loc>>

RetainForgotten(t) ==
    /\ pc[t] = "retain"
    /\ held' = held \cup {loc[t].h}
    /\ Goto(t, "idle")
    /\ loc' = [loc EXCEPT ![t] = NoCall]
    /\ UNCHANGED <<tableVars, objVars, sent, fault>>

Retain(t) ==
    /\ pc[t] = "retain"
    /\ refcount' = [refcount EXCEPT ![loc[t].obj] = (@ + 1) % RefModulus]
    /\ held' = held \cup {loc[t].h}
    /\ Goto(t, "idle")
    /\ loc' = [loc EXCEPT ![t] = NoCall]
    /\ UNCHANGED <<tableVars, allocated, queue, sent, fault>>

(* destroy_obj and capability_destroy: the lookups, bitmap_free, and       *)
(* object_release of what the binding now names.                           *)
DestroyObj(t) ==
    /\ pc[t] = "idle"
    /\ \E h \in Handles : /\ Named(h) /\ Lookup({h})
                          /\ loc' = [loc EXCEPT ![t].h = h]
                          /\ held' = held \ {h}
    /\ Goto(t, "bitmap_free")
    /\ UNCHANGED <<values, objVars, sent, fault>>

BitmapFree(t) ==
    /\ pc[t] = "bitmap_free"
    /\ bitmap' = bitmap \ {loc[t].h}
    /\ Goto(t, "release")
    /\ UNCHANGED <<values, objVars, held, sent, fault, loc>>

Release(t) ==
    LET o == values[loc[t].h].obj IN
    /\ pc[t] = "release"
    /\ fault' = (o = NoObject)      \* bound by a call that has not written it yet
    /\ refcount' = IF o = NoObject THEN refcount
                   ELSE [refcount EXCEPT ![o] = (@ - 1) % RefModulus]
    /\ allocated' = IF o # NoObject /\ refcount[o] = 1 THEN allocated \ {o} ELSE allocated
    /\ Goto(t, "idle")
    /\ loc' = [loc EXCEPT ![t] = NoCall]
    /\ UNCHANGED <<tableVars, queue, held, sent>>

QueuedFirst(t) ==
    /\ pc[t] = "idle" /\ sent < MaxSent
    /\ \E d, r \in Handles :
          /\ Named(d) /\ Named(r) /\ Lookup({d, r})
          /\ values[d].access \cap {"SEND", "SEND_ONCE"} # {}
          /\ queue' = [queue EXCEPT ![values[d].obj] =
                          <<[id |-> sent, reply |-> values[r].obj]>> \o @]
    /\ sent' = sent + 1
    /\ UNCHANGED <<values, allocated, refcount, held, fault, pc, loc>>

(* message_send *)
MessageSend(t) ==
    /\ pc[t] = "idle" /\ sent < MaxSent
    /\ \E d, r \in Handles :
          /\ Named(d) /\ Named(r) /\ Lookup({d, r})
          /\ values[d].access \cap {"SEND", "SEND_ONCE"} # {}
          /\ queue' = [queue EXCEPT ![values[d].obj] =
                          Append(@, [id |-> sent, reply |-> values[r].obj])]
    /\ sent' = sent + 1
    /\ UNCHANGED <<values, allocated, refcount, held, fault, pc, loc>>

(* message_receive: before the process has its first handle the lookup     *)
(* gives NULL, and the rights are an uninitialised byte; without a message *)
(* equeue_block panics.                                                    *)
MessageReceive(t) ==
    /\ pc[t] = "idle"
    /\ \E h \in Handles :
          /\ \/ /\ Named(h) /\ Lookup({h})
                /\ "RECV" \in values[h].access
                /\ LET o == values[h].obj IN
                   IF queue[o] # <<>>
                   THEN queue' = [queue EXCEPT ![o] = Tail(@)] /\ UNCHANGED fault
                   ELSE fault' = TRUE /\ UNCHANGED queue
             \/ /\ \A g \in Handles : values[g] = Unbound
                /\ fault' = TRUE /\ UNCHANGED <<bitmap, queue>>
          /\ loc' = [loc EXCEPT ![t].h = h]
    /\ Goto(t, "received")
    /\ UNCHANGED <<values, allocated, refcount, held, sent>>

Received(t) ==
    /\ pc[t] = "received"
    /\ Goto(t, "idle")
    /\ loc' = [loc EXCEPT ![t] = NoCall]
    /\ UNCHANGED <<tableVars, objVars, held, sent, fault>>

Next ==
    /\ ~fault
    /\ \E t \in Threads :
          \/ CreateObj(t) \/ DuplicateObj(t) \/ BitmapAlloc(t) \/ Bind(t) \/ Retain(t)
          \/ DestroyObj(t) \/ BitmapFree(t) \/ Release(t)
          \/ Refused(t) \/ MessageSend(t) \/ MessageReceive(t) \/ Received(t)

Spec == Init /\ [][Next]_vars

-----------------------------------------------------------------------------
TypeOK ==
    /\ bitmap \subseteq Handles /\ held \subseteq Handles /\ allocated \subseteq Objects
    /\ \A h \in Handles : /\ values[h].obj \in Objects \cup {NoObject}
                          /\ values[h].access \subseteq Rights
    /\ refcount \in [Objects -> 0..(RefModulus - 1)]
    /\ \A o \in Objects : Len(queue[o]) <= sent
    /\ sent \in 0..MaxSent /\ fault \in BOOLEAN

(* The handles that name o, apart from those a call is just binding. *)
HandlesOf(o) ==
    {h \in bitmap : values[h].obj = o
                    /\ \A t \in Threads : pc[t] \in {"bind", "retain"} => loc[t].h # h}

(* No handle names an object that went back to its cache: object_release   *)
(* frees it with the last handle and not before, for a process that names  *)
(* no handle it destroyed.                                                 *)
LiveHandles ==
    \A o \in Objects : HandlesOf(o) \cap held # {} => o \in allocated

(* A handle the process has names an object that was not freed; and every  *)
(* variable stays in its range.                                            *)
HandlesLive == TypeOK /\ LiveHandles

(* Ports keep their messages in the order they were sent, also when the    *)
(* port's memory is used again.                                            *)
QueuesInOrder ==
    \A o \in Objects : \A j, k \in 1..Len(queue[o]) :
        j < k => queue[o][j].id < queue[o][k].id

Quiet == \A t \in Threads : pc[t] = "idle"

(* "Count of handles to that object": between calls refcount is the number *)
(* of handles.                                                             *)
RefcountIsHandles ==
    Quiet => \A o \in Objects : refcount[o] = Cardinality(HandlesOf(o))

(* "No need to call the constructor here, as kmem_cache_alloc will handle  *)
(* it": a port that object_new returns has no message.                     *)
NewPortEmpty ==
    \A t \in Threads :
        pc[t] = "bitmap_alloc" /\ refcount[loc[t].obj] = 0
        => queue[loc[t].obj] = <<>>

(* "A SEND or SEND-ONCE right that is sent along with the message, to      *)
(* allow for reply": the reply port of a queued message still exists.      *)
ReplyAlive ==
    \A o \in allocated : \A k \in 1..Len(queue[o]) : queue[o][k].reply \in allocated

(* "Can't receive if we don't have the right to do so": a receive that     *)
(* goes through was given a handle with the right.                         *)
ReceiveNeedsRight ==
    \A t \in Threads :
        pc[t] = "received" => loc[t].h \in held /\ "RECV" \in values[loc[t].h].access

(* "Corresponding bit is set, we got a handle": between calls, the handles *)
(* that are marked are those the process has.                              *)
MarkedIsHeld == Quiet => bitmap \subseteq held
=============================================================================
