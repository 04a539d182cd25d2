------------------------------ MODULE ListOps ------------------------------
(***************************************************************************)
(* The circular doubly linked lists of Include/list.h at the level of      *)
(* their pointers: a memory mem has mem.next and mem.prev, from nodes to   *)
(* nodes, and every operation is its C statements in order.                *)
(***************************************************************************)
SetNext(mem, n, v) == [mem EXCEPT !.next = [@ EXCEPT ![n] = v]]
SetPrev(mem, n, v) == [mem EXCEPT !.prev = [@ EXCEPT ![n] = v]]

list_add(mem, head, entry) ==
  LET m1 == SetNext(mem, entry, mem.next[head])
      m2 == SetPrev(m1, m1.next[head], entry)
      m3 == SetNext(m2, head, entry)
  IN  SetPrev(m3, entry, head)

(* Slips: the old last node not linked to the entry; the entry put in      *)
(* front instead of at the end; a deleted entry whose pointer is cleared.  *)
list_add_tail_half(mem, head, entry) ==
  LET m2 == SetNext(mem, entry, head)
      m3 == SetPrev(m2, entry, m2.prev[head])
  IN  SetPrev(m3, head, entry)

list_add_tail_front(mem, head, entry) == list_add(mem, head, entry)

list_del_null(mem, entry) ==
  LET m1 == SetNext(mem, mem.prev[entry], mem.next[entry])
      m2 == SetPrev(m1, m1.next[entry], m1.prev[entry])
  IN  SetNext(m2, entry, 0)

list_add_tail(mem, head, entry) ==
  LET m1 == SetNext(mem, mem.prev[head], entry)
      m2 == SetNext(m1, entry, head)
      m3 == SetPrev(m2, entry, m2.prev[head])
  IN  SetPrev(m3, head, entry)

list_del(mem, entry) ==
  LET m1 == SetNext(mem, mem.prev[entry], mem.next[entry])
      m2 == SetPrev(m1, m1.next[entry], m1.prev[entry])
      m3 == SetNext(m2, entry, entry)
  IN  SetPrev(m3, entry, entry)

list_move_head(mem, head, entry) == list_add(list_del(mem, entry), head, entry)

list_move_tail(mem, head, entry) ==
  list_add_tail(list_del(mem, entry), head, entry)
=============================================================================
