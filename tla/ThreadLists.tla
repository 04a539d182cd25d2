---------------------------- MODULE ThreadLists ----------------------------
(***************************************************************************)
(* The circular doubly linked lists of Include/list.h as sequences: l maps *)
(* every list head to the entries met by following next from it.  An entry *)
(* that was list_init'ed or list_del'ed is linked to itself, so it is in   *)
(* no sequence and list_del of it is a no-op.  Module LinkedList shows     *)
(* that the pointer operations implement these operators.                  *)
(***************************************************************************)
EXTENDS Integers, Sequences

(* e is linked into the list whose head is h. *)
In(l, h, e) == \E k \in 1..Len(l[h]) : l[h][k] = e

(* s without e. *)
Without(s, e) ==
  IF \E k \in 1..Len(s) : s[k] = e
  THEN LET k == CHOOSE k \in 1..Len(s) : s[k] = e
       IN  SubSeq(s, 1, k - 1) \o SubSeq(s, k + 1, Len(s))
  ELSE s

list_del(l, e) ==
  IF \E h \in DOMAIN l : In(l, h, e)
  THEN [l EXCEPT ![CHOOSE h \in DOMAIN l : In(l, h, e)] = Without(@, e)]
  ELSE l

list_add(l, h, e) == [l EXCEPT ![h] = <<e>> \o @]

list_add_tail(l, h, e) == [l EXCEPT ![h] = Append(@, e)]

list_move_head(l, h, e) == list_add(list_del(l, e), h, e)

list_move_tail(l, h, e) == list_add_tail(list_del(l, e), h, e)

=============================================================================
