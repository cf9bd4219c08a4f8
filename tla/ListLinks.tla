----------------------------- MODULE ListLinks -----------------------------
(***************************************************************************)
(* The intrusive doubly linked lists of the repository, on the links: of   *)
(* aula-04-29/uthreads0/include/list.h and of its successor                *)
(* uthreads/include/list.h, which builds every operation from two and      *)
(* renames flink and blink to next and prev.  An operation takes the links *)
(* l of all list entries and heads and yields them as it leaves them.      *)
(***************************************************************************)
EXTENDS Integers, FiniteSets

Linked(next, prev) == [flink |-> next, blink |-> prev]

init_list_head(l, h) == [l EXCEPT ![h] = Linked(h, h)]

is_list_empty(l, h) == l[h].flink = h

(* What remove_entry_list and remove_list_entry return. *)
WasLast(l, e) == l[e].flink = l[e].blink

-----------------------------------------------------------------------------
(* aula-04-29/uthreads0/include/list.h *)
remove_entry_list(l, e) ==
    LET without == [l EXCEPT ![l[e].blink].flink = l[e].flink]
    IN  [without EXCEPT ![l[e].flink].blink = l[e].blink]

remove_head_list(l, h) ==
    LET entry == l[h].flink
    IN  [l EXCEPT ![h].flink = l[entry].flink, ![l[entry].flink].blink = h]

remove_tail_list(l, h) ==
    LET entry == l[h].blink
    IN  [l EXCEPT ![h].blink = l[entry].blink, ![l[entry].blink].flink = h]

(* Mutant: the head keeps its blink. *)
InsertForgetsTail(l, h, e) ==
    [l EXCEPT ![e] = Linked(h, l[h].blink), ![l[h].blink].flink = e]

insert_tail_list(l, h, e) ==
    [l EXCEPT ![e] = Linked(h, l[h].blink), ![l[h].blink].flink = e, ![h].blink = e]

insert_head_list(l, h, e) ==
    [l EXCEPT ![e] = Linked(l[h].flink, h), ![l[h].flink].blink = e, ![h].flink = e]

-----------------------------------------------------------------------------
(* uthreads/include/list.h *)
remove_list_entry(l, e) ==
    LET next == l[e].flink
        prev == l[e].blink
    IN  [[l EXCEPT ![prev].flink = next] EXCEPT ![next].blink = prev]

remove_list_first(l, h) == remove_list_entry(l, l[h].flink)

remove_list_last(l, h) == remove_list_entry(l, l[h].blink)

insert_list_after(l, ref, e) ==
    LET next == l[ref].flink
    IN  [[l EXCEPT ![e] = Linked(next, ref), ![ref].flink = e] EXCEPT ![next].blink = e]

insert_list_last(l, h, e) == insert_list_after(l, l[h].blink, e)

insert_list_first(l, h, e) == insert_list_after(l, h, e)

-----------------------------------------------------------------------------
(* The entries met from h in the direction d until h comes back; a walk that *)
(* does not come back goes on for as long as there are entries.             *)
Walk(l, h, d) ==
    LET size == Cardinality(DOMAIN l)
        at[n \in 0..size] == IF n = 0 THEN h ELSE l[at[n-1]][d]
        ends == {n \in 0..size-1 : at[n+1] = h /\ \A m \in 1..n : at[m] # h}
        len == IF ends = {} THEN size ELSE CHOOSE n \in ends : TRUE
    IN  [n \in 1..len |-> at[n]]
=============================================================================
