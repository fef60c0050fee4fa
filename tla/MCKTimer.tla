------------------------------ MODULE MCKTimer ------------------------------
(* Instances of KTimer for TLC. *)
EXTENDS KTimer

CONSTANTS c1, c2, a, b
=============================================================================
