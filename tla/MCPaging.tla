------------------------------ MODULE MCPaging ------------------------------
(* An instance of Paging for TLC: five levels of tables of two entries, so *)
(* that the upper half of an address space is the pages from 16 (of 32).   *)
(* Page 0 is a user page, mapped present or, as portal_handle_anon does    *)
(* it, not present; 2 is a 2 MiB page, 24 a 1 GiB page of the kernel.      *)
EXTENDS Paging

MCFlagsAt == [v \in Vaddrs |-> CASE v = 0 -> {{}} [] v = 2 -> {{"LARGE"}} [] v = 24 -> {{"HUGE"}}]
MCProtsAt == [v \in Vaddrs |->
    CASE v = 0 -> {{"P", "W", "U"}, {"W", "U"}}
      [] v = 2 -> {{"P", "W", "U"}}
      [] v = 24 -> {{"P", "X"}}]
=============================================================================
