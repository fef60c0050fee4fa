------------------------------- MODULE Queues -------------------------------
(***************************************************************************)
(* Two helpers on the sequences that model the kernel's TAILQ queues.      *)
(* They are those of SequencesExt, written out: a proof about a module     *)
(* that extends SequencesExt carries all of it in its context.             *)
(***************************************************************************)
EXTENDS Integers, Sequences

(* The elements of s. *)
ToSet(s) == {s[k] : k \in DOMAIN s}

(* s without its n-th element. *)
RemoveAt(s, n) == [k \in 1..(Len(s) - 1) |-> IF k < n THEN s[k] ELSE s[k + 1]]
=============================================================================
