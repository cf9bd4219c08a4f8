--------------------------- MODULE IntrusiveList ---------------------------
(***************************************************************************)
(* A list under any legal sequence of the operations of both list.h files: *)
(* an entry is inserted only while it is in no list, and removed only      *)
(* while it is in one; remove_..._first and _last are not called on an     *)
(* empty list.  An entry keeps stale links after its removal.              *)
(***************************************************************************)
EXTENDS ListLinks, Sequences, Functions, SequencesExt

CONSTANTS Entry, listhead

VARIABLES link,
          entries,  \* history: the entries that should be in the list, in order
          result    \* history: the BOOL the last operation returned, if it did

listVars == <<link, entries, result>>

Init ==
    /\ link = init_list_head([e \in Entry \cup {listhead} |-> Linked(e, e)], listhead)
    /\ entries = <<>>
    /\ result = {}

Inserts(e, links, after) ==
    /\ e \notin Range(entries)
    /\ link' \in links
    /\ entries' = after
    /\ result' = {}

InsertLast(e) ==
    Inserts(e, {insert_tail_list(link, listhead, e), insert_list_last(link, listhead, e)},
            Append(entries, e))

InsertFirst(e) ==
    Inserts(e, {insert_head_list(link, listhead, e), insert_list_first(link, listhead, e)},
            <<e>> \o entries)

InsertAfter(n, e) ==
    Inserts(e, {insert_list_after(link, entries[n], e)}, InsertAt(entries, n + 1, e))

TakeFirst ==
    /\ entries # <<>>
    /\ link' \in {remove_head_list(link, listhead), remove_list_first(link, listhead)}
    /\ entries' = Tail(entries)
    /\ result' = {}

TakeLast ==
    /\ entries # <<>>
    /\ link' \in {remove_tail_list(link, listhead), remove_list_last(link, listhead)}
    /\ entries' = Front(entries)
    /\ result' = {}

TakeEntry(n) ==
    /\ link' \in {remove_entry_list(link, entries[n]), remove_list_entry(link, entries[n])}
    /\ entries' = RemoveAt(entries, n)
    /\ result' = {WasLast(link, entries[n])}

Next ==
    \/ \E e \in Entry : InsertLast(e) \/ InsertFirst(e)
    \/ \E n \in DOMAIN entries, e \in Entry : InsertAfter(n, e)
    \/ TakeFirst
    \/ TakeLast
    \/ \E n \in DOMAIN entries : TakeEntry(n)

(* Both directions of the links show the sequence the operations describe,  *)
(* is_list_empty agrees with it, and the removal of an entry returns TRUE   *)
(* exactly when it leaves the list empty.                                   *)
LinksFollowTheSequence ==
    /\ Walk(link, listhead, "flink") = entries
    /\ Walk(link, listhead, "blink") = Reverse(entries)
    /\ is_list_empty(link, listhead) <=> entries = <<>>
    /\ \A r \in result : r <=> entries = <<>>
=============================================================================
