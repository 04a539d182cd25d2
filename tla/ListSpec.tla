----------------------------- MODULE ListSpec -----------------------------
(* What Include/list.h promises: every head has a sequence of entries, an *)
(* entry is in at most one of them, and the operations move it about.     *)
EXTENDS ThreadLists

CONSTANTS ListHead, Entry

VARIABLE l

Linked(e) == \E h \in ListHead : In(l, h, e)

Init == l = [h \in ListHead |-> <<>>]

Add(h, e) == ~Linked(e) /\ l' = list_add(l, h, e)
AddTail(h, e) == ~Linked(e) /\ l' = list_add_tail(l, h, e)
Del(e) == l' = list_del(l, e)
MoveHead(h, e) == l' = list_move_head(l, h, e)
MoveTail(h, e) == l' = list_move_tail(l, h, e)
=============================================================================
