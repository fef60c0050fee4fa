------------------------------- MODULE MCUle --------------------------------
(* Instances of Ule for TLC: threads t1 .. t3 that may run on any CPU. *)
EXTENDS Ule

CONSTANTS t1, t2, t3

NotPinned == [t \in Threads |-> 0]
=============================================================================
