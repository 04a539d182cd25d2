---------------------------- MODULE LinkedList ----------------------------
(***************************************************************************)
(* Lists of Include/list.h in use.  m is the memory: m.next and m.prev map *)
(* a node (a head or an entry) to a node.  The caller has interrupts off,  *)
(* so an operation is one action.                                          *)
(***************************************************************************)
EXTENDS ListOps, Integers, Sequences

CONSTANTS ListHead, Entry

Node == ListHead \cup Entry

ASSUME NodeAssumption == ListHead \cap Entry = {}

VARIABLE m

(* list_init of every head and entry. *)
ListsInit == m = [next |-> [n \in Node |-> n], prev |-> [n \in Node |-> n]]

(* The callers of list_add and list_add_tail pass a fresh entry, or one    *)
(* they have just taken off its list.                                      *)
Fresh(e) == m.next[e] = e

Add(h, e) == Fresh(e) /\ m' = list_add(m, h, e)
AddTail(h, e) == Fresh(e) /\ m' = list_add_tail(m, h, e)
Del(e) == m' = list_del(m, e)
MoveHead(h, e) == m' = list_move_head(m, h, e)
MoveTail(h, e) == m' = list_move_tail(m, h, e)

ListsNext ==
  \E h \in ListHead, e \in Entry :
    \/ Add(h, e)
    \/ AddTail(h, e)
    \/ Del(e)
    \/ MoveHead(h, e)
    \/ MoveTail(h, e)

ListsSpec == ListsInit /\ [][ListsNext]_m
-----------------------------------------------------------------------------
ListsTypeOK == m \in [next : [Node -> Node], prev : [Node -> Node]]

(* next and prev are inverse to each other, so the nodes form disjoint     *)
(* rings and both directions of a ring agree.                              *)
Rings == \A n \in Node : m.prev[m.next[n]] = n /\ m.next[m.prev[n]] = n
=============================================================================
