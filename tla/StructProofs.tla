----------------------------- MODULE StructProofs -----------------------------
(***************************************************************************)
(* Include/list.h keeps its rings whole, for any heads and entries; the    *)
(* search hint of get_unused_id is sound and the id it gives is the lowest *)
(* free one, for maps of any size; processes, however many, keep their     *)
(* families, whose siblings are a ring of list.h, and their sleeping       *)
(* parents are woken.                                                      *)
(***************************************************************************)
EXTENDS LinkedList, KidMap, Procs, NatLemmas, FiniteSetTheorems, TLAPS

Links(N) == [next : [N -> N], prev : [N -> N]]

Mutual(mem, N) ==
  \A n \in N : mem.prev[mem.next[n]] = n /\ mem.next[mem.prev[n]] = n

(* Loads from a well-typed memory give nodes. *)
LEMMA Load ==
  ASSUME NEW N, NEW mem \in Links(N), NEW n \in N
  PROVE  mem.next[n] \in N /\ mem.prev[n] \in N
  BY Zenon DEF Links

(* What list_del, list_add and list_add_tail leave in each pointer. *)
AfterDel(mem, e, d, N) ==
  /\ d \in Links(N)
  /\ \A n \in N : d.next[n] = IF n = e THEN e
                               ELSE IF n = mem.prev[e] THEN mem.next[e] ELSE mem.next[n]
  /\ \A n \in N : d.prev[n] = IF n = e THEN e
                               ELSE IF n = mem.next[e] THEN mem.prev[e] ELSE mem.prev[n]

AfterAdd(mem, h, e, d, N) ==
  /\ d \in Links(N)
  /\ \A n \in N : d.next[n] = IF n = h THEN e
                               ELSE IF n = e THEN mem.next[h] ELSE mem.next[n]
  /\ \A n \in N : d.prev[n] = IF n = e THEN h
                               ELSE IF n = mem.next[h] THEN e ELSE mem.prev[n]

AfterAddTail(mem, h, e, d, N) ==
  /\ d \in Links(N)
  /\ \A n \in N : d.next[n] = IF n = e THEN h
                               ELSE IF n = mem.prev[h] THEN e ELSE mem.next[n]
  /\ \A n \in N : d.prev[n] = IF n = h THEN e
                               ELSE IF n = e THEN mem.prev[h] ELSE mem.prev[n]

(* The three operations, one C statement after the other. *)
LEMMA DelPointers ==
  ASSUME NEW N, NEW mem \in Links(N), Mutual(mem, N), NEW e \in N
  PROVE  AfterDel(mem, e, list_del(mem, e), N)
<1> DEFINE m1 == SetNext(mem, mem.prev[e], mem.next[e])
           m2 == SetPrev(m1, m1.next[e], m1.prev[e])
           m3 == SetNext(m2, e, e)
           m4 == SetPrev(m3, e, e)
<1>1. /\ m1 \in Links(N)
      /\ m1.prev = mem.prev
      /\ \A k \in N : m1.next[k] = IF k = mem.prev[e] THEN mem.next[e] ELSE mem.next[k]
  BY Load, Zenon DEF SetNext, Links
<1> HIDE DEF m1
<1>2. /\ m2 \in Links(N)
      /\ m2.next = m1.next
      /\ \A k \in N : m2.prev[k] = IF k = m1.next[e] THEN m1.prev[e] ELSE m1.prev[k]
  BY <1>1, Load, Zenon DEF SetPrev, Links
<1> HIDE DEF m2
<1>3. /\ m3 \in Links(N)
      /\ m3.prev = m2.prev
      /\ \A k \in N : m3.next[k] = IF k = e THEN e ELSE m2.next[k]
  BY <1>2, Zenon DEF SetNext, Links
<1> HIDE DEF m3
<1>4. /\ m4 \in Links(N)
      /\ m4.next = m3.next
      /\ \A k \in N : m4.prev[k] = IF k = e THEN e ELSE m3.prev[k]
  BY <1>3, Zenon DEF SetPrev, Links
<1>5. m4 = list_del(mem, e)
  BY Zenon DEF list_del, m1, m2, m3
<1> HIDE DEF m4
<1>6. \A n \in N : m4.next[n] = IF n = e THEN e
                                ELSE IF n = mem.prev[e] THEN mem.next[e]
                                ELSE mem.next[n]
  BY <1>1, <1>2, <1>3, <1>4
<1>7. \A n \in N : m4.prev[n] = IF n = e THEN e
                                ELSE IF n = mem.next[e] THEN mem.prev[e]
                                ELSE mem.prev[n]
  BY <1>1, <1>2, <1>3, <1>4, Load DEF Mutual
<1> QED
  BY <1>4, <1>5, <1>6, <1>7, Zenon DEF AfterDel

LEMMA AddPointers ==
  ASSUME NEW N, NEW mem \in Links(N), NEW h \in N, NEW e \in N, e # h
  PROVE  AfterAdd(mem, h, e, list_add(mem, h, e), N)
<1> DEFINE m1 == SetNext(mem, e, mem.next[h])
           m2 == SetPrev(m1, m1.next[h], e)
           m3 == SetNext(m2, h, e)
           m4 == SetPrev(m3, e, h)
<1>1. /\ m1 \in Links(N)
      /\ m1.prev = mem.prev
      /\ \A k \in N : m1.next[k] = IF k = e THEN mem.next[h] ELSE mem.next[k]
  BY Load, Zenon DEF SetNext, Links
<1> HIDE DEF m1
<1>2. /\ m2 \in Links(N)
      /\ m2.next = m1.next
      /\ \A k \in N : m2.prev[k] = IF k = m1.next[h] THEN e ELSE m1.prev[k]
  BY <1>1, Load, Zenon DEF SetPrev, Links
<1> HIDE DEF m2
<1>3. /\ m3 \in Links(N)
      /\ m3.prev = m2.prev
      /\ \A k \in N : m3.next[k] = IF k = h THEN e ELSE m2.next[k]
  BY <1>2, Zenon DEF SetNext, Links
<1> HIDE DEF m3
<1>4. /\ m4 \in Links(N)
      /\ m4.next = m3.next
      /\ \A k \in N : m4.prev[k] = IF k = e THEN h ELSE m3.prev[k]
  BY <1>3, Zenon DEF SetPrev, Links
<1>5. m4 = list_add(mem, h, e)
  BY Zenon DEF list_add, m1, m2, m3
<1> HIDE DEF m4
<1>6. \A n \in N : m4.next[n] = IF n = h THEN e
                                ELSE IF n = e THEN mem.next[h]
                                ELSE mem.next[n]
  BY <1>1, <1>2, <1>3, <1>4
<1>7. \A n \in N : m4.prev[n] = IF n = e THEN h
                                ELSE IF n = mem.next[h] THEN e
                                ELSE mem.prev[n]
  BY <1>1, <1>2, <1>3, <1>4
<1> QED
  BY <1>4, <1>5, <1>6, <1>7, Zenon DEF AfterAdd

LEMMA AddTailPointers ==
  ASSUME NEW N, NEW mem \in Links(N), NEW h \in N, NEW e \in N, e # h
  PROVE  AfterAddTail(mem, h, e, list_add_tail(mem, h, e), N)
<1> DEFINE m1 == SetNext(mem, mem.prev[h], e)
           m2 == SetNext(m1, e, h)
           m3 == SetPrev(m2, e, m2.prev[h])
           m4 == SetPrev(m3, h, e)
<1>1. /\ m1 \in Links(N)
      /\ m1.prev = mem.prev
      /\ \A k \in N : m1.next[k] = IF k = mem.prev[h] THEN e ELSE mem.next[k]
  BY Load, Zenon DEF SetNext, Links
<1> HIDE DEF m1
<1>2. /\ m2 \in Links(N)
      /\ m2.prev = m1.prev
      /\ \A k \in N : m2.next[k] = IF k = e THEN h ELSE m1.next[k]
  BY <1>1, Load, Zenon DEF SetNext, Links
<1> HIDE DEF m2
<1>3. /\ m3 \in Links(N)
      /\ m3.next = m2.next
      /\ \A k \in N : m3.prev[k] = IF k = e THEN m2.prev[h] ELSE m2.prev[k]
  BY <1>2, Load, Zenon DEF SetPrev, Links
<1> HIDE DEF m3
<1>4. /\ m4 \in Links(N)
      /\ m4.next = m3.next
      /\ \A k \in N : m4.prev[k] = IF k = h THEN e ELSE m3.prev[k]
  BY <1>3, Zenon DEF SetPrev, Links
<1>5. m4 = list_add_tail(mem, h, e)
  BY Zenon DEF list_add_tail, m1, m2, m3
<1> HIDE DEF m4
<1>6. \A n \in N : m4.next[n] = IF n = e THEN h
                                   ELSE IF n = mem.prev[h] THEN e
                                   ELSE mem.next[n]
  BY <1>1, <1>2, <1>3, <1>4
<1>7. \A n \in N : m4.prev[n] = IF n = h THEN e
                                   ELSE IF n = e THEN mem.prev[h]
                                   ELSE mem.prev[n]
  BY <1>1, <1>2, <1>3, <1>4
<1> QED
  BY <1>4, <1>5, <1>6, <1>7, Zenon DEF AfterAddTail

(* All three keep the pointers inverse to each other. list_del leaves the  *)
(* entry linked to itself: this is why a move may start from any list, or  *)
(* from none.                                                              *)
LEMMA DelMutual ==
  ASSUME NEW N, NEW mem \in Links(N), Mutual(mem, N), NEW e \in N, NEW d, AfterDel(mem, e, d, N)
  PROVE  Mutual(d, N)
  BY Load, SMTT(40) DEF Mutual, AfterDel

LEMMA AddMutual ==
  ASSUME NEW N, NEW mem \in Links(N), Mutual(mem, N), NEW h \in N, NEW e \in N, e # h,
         mem.next[e] = e, NEW d, AfterAdd(mem, h, e, d, N)
  PROVE  Mutual(d, N)
  BY Load, SMTT(40) DEF Mutual, AfterAdd

LEMMA AddTailMutual ==
  ASSUME NEW N, NEW mem \in Links(N), Mutual(mem, N), NEW h \in N, NEW e \in N, e # h,
         mem.next[e] = e, NEW d, AfterAddTail(mem, h, e, d, N)
  PROVE  Mutual(d, N)
  BY Load, SMTT(40) DEF Mutual, AfterAddTail

(* The same for the lists of the model, whose heads are not entries. *)
Whole(mem) == mem \in Links(Node) /\ Mutual(mem, Node)

LEMMA DelKeepsRings ==
  ASSUME NEW mem, Whole(mem), NEW e \in Entry
  PROVE  Whole(list_del(mem, e)) /\ list_del(mem, e).next[e] = e
<1>1. e \in Node
  BY Zenon DEF Node
<1>2. AfterDel(mem, e, list_del(mem, e), Node)
  BY <1>1, DelPointers, Zenon DEF Whole
<1>3. Mutual(list_del(mem, e), Node)
  BY <1>1, <1>2, DelMutual, Zenon DEF Whole
<1> QED BY <1>1, <1>2, <1>3, Zenon DEF Whole, AfterDel

LEMMA AddKeepsRings ==
  ASSUME NEW mem, Whole(mem), NEW h \in ListHead, NEW e \in Entry, mem.next[e] = e
  PROVE  Whole(list_add(mem, h, e)) /\ Whole(list_add_tail(mem, h, e))
<1>1. e \in Node /\ h \in Node /\ e # h
  BY NodeAssumption, Zenon DEF Node
<1>2. AfterAdd(mem, h, e, list_add(mem, h, e), Node)
  BY <1>1, AddPointers, Zenon DEF Whole
<1>3. AfterAddTail(mem, h, e, list_add_tail(mem, h, e), Node)
  BY <1>1, AddTailPointers, Zenon DEF Whole
<1>4. Mutual(list_add(mem, h, e), Node)
  BY <1>1, <1>2, AddMutual, Zenon DEF Whole
<1>5. Mutual(list_add_tail(mem, h, e), Node)
  BY <1>1, <1>3, AddTailMutual, Zenon DEF Whole
<1> QED BY <1>2, <1>3, <1>4, <1>5, Zenon DEF Whole, AfterAdd, AfterAddTail

(* The pointers of list.h always form disjoint rings whose two directions  *)
(* agree, whatever sequence of operations the kernel applies.              *)
THEOREM RingsHold == ListsSpec => [](ListsTypeOK /\ Rings)
<1>1. ListsInit => ListsTypeOK /\ Rings
  BY DEF ListsInit, ListsTypeOK, Rings
<1>2. ListsTypeOK /\ Rings /\ [ListsNext]_m => ListsTypeOK' /\ Rings'
  <2> SUFFICES ASSUME ListsTypeOK, Rings, [ListsNext]_m
               PROVE  ListsTypeOK' /\ Rings'
    BY Zenon
  <2>0. Whole(m)
    BY Zenon DEF ListsTypeOK, Rings, Whole, Links, Mutual
  <2>1. Whole(m') => ListsTypeOK' /\ Rings'
    BY Zenon DEF ListsTypeOK, Rings, Whole, Links, Mutual
  <2>2. ASSUME NEW h \in ListHead, NEW e \in Entry, Add(h, e)
        PROVE  Whole(m')
    BY <2>0, <2>2, AddKeepsRings, Zenon DEF Add, Fresh
  <2>3. ASSUME NEW h \in ListHead, NEW e \in Entry, AddTail(h, e)
        PROVE  Whole(m')
    BY <2>0, <2>3, AddKeepsRings, Zenon DEF AddTail, Fresh
  <2>4. ASSUME NEW e \in Entry, Del(e)
        PROVE  Whole(m')
    BY <2>0, <2>4, DelKeepsRings, Zenon DEF Del
  <2>5. ASSUME NEW h \in ListHead, NEW e \in Entry, MoveHead(h, e)
        PROVE  Whole(m')
    BY <2>0, <2>5, DelKeepsRings, AddKeepsRings, Zenon DEF MoveHead, list_move_head
  <2>6. ASSUME NEW h \in ListHead, NEW e \in Entry, MoveTail(h, e)
        PROVE  Whole(m')
    BY <2>0, <2>6, DelKeepsRings, AddKeepsRings, Zenon
       DEF MoveTail, list_move_tail
  <2>7. CASE UNCHANGED m
    BY <2>0, <2>1, <2>7, Zenon
  <2> QED
    BY <2>1, <2>2, <2>3, <2>4, <2>5, <2>6, <2>7, Zenon DEF ListsNext
<1> QED
  BY <1>1, <1>2, PTL DEF ListsSpec
-----------------------------------------------------------------------------

(* The word and the index of an id address a bit of the map. *)
LEMMA IdSplits ==
  ASSUME NEW id \in Id
  PROVE  WordOf(id) \in Word /\ IndexOf(id) \in Index
  BY KidMapAssumption, SMT DEF Id, WordOf, IndexOf, Word, Index

(* Every bit of the map is an id. *)
LEMMA IdJoins ==
  ASSUME NEW w \in Word, NEW b \in Index
  PROVE  IdOf(w, b) \in Id
  BY KidMapAssumption, SMT DEF Id, IdOf, Word, Index

(* An id and its bit determine each other. *)
LEMMA IdIsBit ==
  ASSUME NEW w \in Word, NEW b \in Index, NEW id \in Id
  PROVE  IdOf(w, b) = id <=> w = WordOf(id) /\ b = IndexOf(id)
<1>1. ASSUME IdOf(w, b) = id PROVE w = WordOf(id)
  BY <1>1, KidMapAssumption, SMT DEF Id, IdOf, WordOf, Word, Index
<1>2. ASSUME IdOf(w, b) = id PROVE b = IndexOf(id)
  BY <1>1, <1>2, KidMapAssumption, SMT DEF Id, IdOf, WordOf, IndexOf, Word, Index
<1>3. ASSUME w = WordOf(id), b = IndexOf(id) PROVE IdOf(w, b) = id
  BY <1>3, KidMapAssumption, SMT DEF Id, IdOf, WordOf, IndexOf, Word, Index
<1> QED
  BY <1>1, <1>2, <1>3, Zenon

(* Two bits of a map are two ids. *)
LEMMA IdInjective ==
  ASSUME NEW w \in Word, NEW b \in Index, NEW v \in Word, NEW c \in Index,
         IdOf(w, b) = IdOf(v, c)
  PROVE  w = v /\ b = c
  BY IdJoins, IdIsBit

LEMMA InitInv == KidInit => KidInv
  BY KidMapAssumption DEF KidInit, KidInv, KidTypeOK, HintSound, Conserved, NoneHeld, Word

(* Every operation keeps the invariant.  get_unused_id moves the hint only *)
(* past a word whose last set bit it has just taken.                       *)
LEMMA NextHint == KidInv /\ [KidNext]_kidVars => (KidTypeOK /\ HintSound)'
<1> SUFFICES ASSUME KidInv, [KidNext]_kidVars PROVE (KidTypeOK /\ HintSound)'
  BY Zenon
<1> USE DEF KidInv, KidTypeOK, HintSound
<1>1. ASSUME NEW o \in Obj, kernel_id_map_init(o) PROVE (KidTypeOK /\ HintSound)'
  BY <1>1, KidMapAssumption DEF kernel_id_map_init, Word
<1>2. ASSUME NEW o \in Obj, kernel_id_map_destroy(o) PROVE (KidTypeOK /\ HintSound)'
  BY <1>2, KidMapAssumption DEF kernel_id_map_destroy, Word
<1>3. ASSUME NEW o \in Obj, get_unused_id(o) PROVE (KidTypeOK /\ HintSound)'
  <2>1. PICK index \in Index :
          /\ find_first_bit(kid_map[o], offset[o], index)
          /\ kid_map' = [kid_map EXCEPT ![o] = @ \ {<<offset[o], index>>}]
          /\ held' = [held EXCEPT ![o] = @ \cup {IdOf(offset[o], index)}]
          /\ Advance(o, index)
    BY <1>3, Zenon DEF get_unused_id
  <2>2. live' = live /\ wild' = wild
    BY <1>3, Zenon DEF get_unused_id
  <2>3. offset[o] \in Word /\ IdOf(offset[o], index) \in Id
    BY IdJoins, Zenon
  <2>4. NextWord(offset[o]) \in Word
    BY <2>3, KidMapAssumption DEF NextWord, Word
  <2>5. KidTypeOK'
    BY <2>1, <2>2, <2>3, <2>4, Zenon DEF Advance
  <2>6. HintSound'
    <3> SUFFICES ASSUME NEW p \in Obj, NEW w \in Word, NEW b \in Index,
                        <<w, b>> \in kid_map'[p]
                 PROVE  w >= offset'[p]
      BY Zenon
    <3>1. CASE p # o
      BY <3>1, <2>1, Zenon DEF Advance
    <3>2. CASE p = o
      <4>1. <<w, b>> \in kid_map[o] /\ <<w, b>> # <<offset[o], index>>
        BY <3>2, <2>1, Zenon
      <4>2. w >= offset[o]
        BY <4>1, Zenon
      <4>3. CASE index # BITS_PER_LONG - 1
        BY <3>2, <4>2, <4>3, <2>1, Zenon DEF Advance
      <4>4. CASE index = BITS_PER_LONG - 1
        <5>1. w # offset[o]
          <6>1. w = offset[o] => index <= b
            BY <4>1, <2>1, Zenon DEF find_first_bit
          <6> QED
            BY <6>1, <4>1, <4>4, KidMapAssumption DEF Index
        <5>2. offset'[o] = NextWord(offset[o])
          BY <4>4, <2>1, Zenon DEF Advance
        <5> QED
          BY <5>1, <5>2, <4>2, <3>2, <2>3, KidMapAssumption DEF NextWord, Word
      <4> QED
        BY <4>3, <4>4, Zenon
    <3> QED
      BY <3>1, <3>2, Zenon
  <2> QED
    BY <2>5, <2>6, Zenon
<1>4. ASSUME NEW o \in Obj, GetWild(o) PROVE (KidTypeOK /\ HintSound)'
  BY <1>4, Zenon DEF GetWild
<1>5. ASSUME NEW o \in Obj, NEW id \in Id, put_id(o, id) PROVE (KidTypeOK /\ HintSound)'
  <2>1. WordOf(id) \in Word /\ IndexOf(id) \in Index
    BY IdSplits, Zenon
  <2>2. KidTypeOK'
    BY <1>5, <2>1 DEF put_id
  <2>3. HintSound'
    BY <1>5, <2>1, KidMapAssumption DEF put_id, Word
  <2> QED
    BY <2>2, <2>3, Zenon
<1>6. ASSUME NEW o \in Obj, NEW id \in Id, resv_id(o, id) PROVE (KidTypeOK /\ HintSound)'
  BY <1>6, Zenon DEF resv_id
<1>7. ASSUME NEW o \in Obj, NEW s \in Obj, kid_dup(o, s) PROVE (KidTypeOK /\ HintSound)'
  BY <1>7, Zenon DEF kid_dup
<1>8. CASE UNCHANGED kidVars
  BY <1>8, Zenon DEF kidVars
<1> QED
  BY <1>1, <1>2, <1>3, <1>4, <1>5, <1>6, <1>7, <1>8, Zenon DEF KidNext

(* Every operation changes a bit and the set of held ids together. *)
LEMMA NextConserved == KidInv /\ [KidNext]_kidVars => (Conserved /\ NoneHeld)'
<1> SUFFICES ASSUME KidInv, [KidNext]_kidVars PROVE (Conserved /\ NoneHeld)'
  OBVIOUS
<1> USE DEF KidInv, KidTypeOK, Conserved, NoneHeld
<1>0. \A w \in Word, b \in Index : IdOf(w, b) \in Id
  BY IdJoins, Zenon
<1>1. ASSUME NEW o \in Obj, kernel_id_map_init(o) PROVE (Conserved /\ NoneHeld)'
  BY <1>1 DEF kernel_id_map_init
<1>2. ASSUME NEW o \in Obj, kernel_id_map_destroy(o) PROVE (Conserved /\ NoneHeld)'
  BY <1>2, Zenon DEF kernel_id_map_destroy
<1>3. ASSUME NEW o \in Obj, get_unused_id(o) PROVE (Conserved /\ NoneHeld)'
  <2>1. PICK index \in Index :
          /\ kid_map' = [kid_map EXCEPT ![o] = @ \ {<<offset[o], index>>}]
          /\ held' = [held EXCEPT ![o] = @ \cup {IdOf(offset[o], index)}]
    BY <1>3, Zenon DEF get_unused_id
  <2>2. live' = live /\ o \in live
    BY <1>3, Zenon DEF get_unused_id, Usable
  <2>3. \A w \in Word, b \in Index :
          IdOf(w, b) = IdOf(offset[o], index) => <<w, b>> = <<offset[o], index>>
    BY IdInjective, Zenon
  <2> QED
    BY <2>1, <2>2, <2>3, Zenon
<1>4. ASSUME NEW o \in Obj, GetWild(o) PROVE (Conserved /\ NoneHeld)'
  BY <1>4, Zenon DEF GetWild
<1>5. ASSUME NEW o \in Obj, NEW id \in Id, put_id(o, id)
      PROVE  (Conserved /\ NoneHeld)'
  <2>1. WordOf(id) \in Word /\ IndexOf(id) \in Index
    BY IdSplits, Zenon
  <2>2. \A w \in Word, b \in Index :
          IdOf(w, b) = id <=> <<w, b>> = <<WordOf(id), IndexOf(id)>>
    BY IdIsBit, Zenon
  <2> QED
    BY <1>5, <2>1, <2>2, Zenon DEF put_id, Usable
<1>6. ASSUME NEW o \in Obj, NEW id \in Id, resv_id(o, id)
      PROVE  (Conserved /\ NoneHeld)'
  <2>1. WordOf(id) \in Word /\ IndexOf(id) \in Index
    BY IdSplits
  <2>2. \A w \in Word, b \in Index :
          IdOf(w, b) = id <=> <<w, b>> = <<WordOf(id), IndexOf(id)>>
    BY IdIsBit
  <2> QED
    BY <1>6, <2>1, <2>2, Zenon DEF resv_id, Usable
<1>7. ASSUME NEW o \in Obj, NEW s \in Obj, kid_dup(o, s)
      PROVE  (Conserved /\ NoneHeld)'
  BY <1>7, Zenon DEF kid_dup, Usable
<1>8. CASE UNCHANGED kidVars
  BY <1>8, Zenon DEF kidVars
<1> QED
  BY <1>1, <1>2, <1>3, <1>4, <1>5, <1>6, <1>7, <1>8, Zenon DEF KidNext

(* Whatever sequence of kernel_id_map_init, get_unused_id, put_id,         *)
(* reserve and copy runs, the bits of every map are exactly the ids nobody *)
(* holds and its search hint is sound: KidInv is inductive.                *)
THEOREM KidInvariant == KidSpec => []KidInv
<1>1. KidInv /\ [KidNext]_kidVars => KidInv'
  BY NextHint, NextConserved, Zenon DEF KidInv
<1> QED
  BY InitInv, <1>1, PTL DEF KidSpec

(* The hint of a map is always sound: no word below obj->offset has a free *)
(* id, whatever ids are taken, put, reserved and copied.                   *)
THEOREM HintAlwaysSound == KidSpec => []HintSound
<1>1. KidInv => HintSound
  BY Zenon DEF KidInv
<1> QED
  BY KidInvariant, <1>1, PTL

(* No id is lost or given twice, by any sequence of operations. *)
THEOREM AlwaysConserved == KidSpec => []Conserved
<1>1. KidInv => Conserved
  BY Zenon DEF KidInv
<1> QED
  BY KidInvariant, <1>1, PTL

(* get_unused_id returns the lowest free id of a map, which nobody holds. *)
THEOREM LowestAlways == KidSpec => LowestGiven
<1> DEFINE Lowest ==
      \A o \in Obj :
        get_unused_id(o) =>
          /\ held'[o] # held[o]
          /\ \E w \in Word, b \in Index :
               /\ held'[o] = held[o] \cup {IdOf(w, b)}
               /\ \A v \in Word, c \in Index :
                    <<v, c>> \in kid_map[o] => w < v \/ (w = v /\ b <= c)
<1>1. KidInv /\ [KidNext]_kidVars => [Lowest]_kidVars
  <2> SUFFICES ASSUME KidInv, NEW o \in Obj, get_unused_id(o)
               PROVE  /\ held'[o] # held[o]
                      /\ \E w \in Word, b \in Index :
                           /\ held'[o] = held[o] \cup {IdOf(w, b)}
                           /\ \A v \in Word, c \in Index :
                                <<v, c>> \in kid_map[o] => w < v \/ (w = v /\ b <= c)
    BY Zenon
  <2> USE DEF KidInv, KidTypeOK
  <2>1. PICK index \in Index :
          /\ find_first_bit(kid_map[o], offset[o], index)
          /\ held' = [held EXCEPT ![o] = @ \cup {IdOf(offset[o], index)}]
    BY Zenon DEF get_unused_id
  <2>2. o \in live /\ offset[o] \in Word
    BY Zenon DEF get_unused_id, Usable
  <2>3. <<offset[o], index>> \in kid_map[o]
    BY <2>1, Zenon DEF find_first_bit
  <2>4. IdOf(offset[o], index) \notin held[o]
    BY <2>2, <2>3, Zenon DEF Conserved
  <2>5. held'[o] = held[o] \cup {IdOf(offset[o], index)}
    BY <2>1, Zenon
  <2>6. ASSUME NEW v \in Word, NEW c \in Index, <<v, c>> \in kid_map[o]
        PROVE  offset[o] < v \/ (offset[o] = v /\ index <= c)
    <3>1. v >= offset[o]
      BY <2>6, Zenon DEF HintSound
    <3>2. v = offset[o] => index <= c
      BY <2>1, <2>6, Zenon DEF find_first_bit
    <3> QED
      BY <3>1, <3>2, <2>2 DEF Word
  <2> QED
    BY <2>2, <2>4, <2>5, <2>6, Zenon
<1> QED
  BY KidInvariant, <1>1, PTL DEF KidSpec, LowestGiven
-----------------------------------------------------------------------------

(* S is the ring of c: the pointers do not lead out of it, nor stay within *)
(* a part of it that has c.                                                *)
Shut(mem, S) == \A x \in S : mem.next[x] \in S /\ mem.prev[x] \in S

RingOf(mem, c, S) ==
  /\ S \subseteq Proc /\ c \in S /\ Shut(mem, S)
  /\ \A T \in SUBSET S : c \in T /\ Shut(mem, T) => T = S

(* A process is on one ring. *)
LEMMA RingUnique ==
  ASSUME NEW mem, NEW c, NEW S, NEW T, RingOf(mem, c, S), RingOf(mem, c, T)
  PROVE  S = T
<1> DEFINE U == S \cap T
<1>1. U \in SUBSET S /\ U \in SUBSET T /\ c \in U /\ Shut(mem, U)
  BY Zenon DEF RingOf, Shut
<1> HIDE DEF U
<1>2. U = S /\ U = T
  BY <1>1, Zenon DEF RingOf
<1> QED BY <1>2, Zenon

(* The ring is the same from each process on it. *)
LEMMA RingFromAny ==
  ASSUME NEW mem, Mutual(mem, Proc), NEW c, NEW S, RingOf(mem, c, S), NEW d \in S
  PROVE  RingOf(mem, d, S)
<1> SUFFICES ASSUME NEW T \in SUBSET S, d \in T, Shut(mem, T) PROVE T = S
  BY Zenon DEF RingOf
<1>1. CASE c \in T
  BY <1>1, Zenon DEF RingOf
<1>2. CASE c \notin T
  <2> DEFINE U == S \ T
  <2>1. ASSUME NEW x \in U PROVE mem.next[x] \in U /\ mem.prev[x] \in U
    <3>1. x \in S /\ x \notin T /\ x \in Proc
      BY Zenon DEF RingOf
    <3>2. mem.next[x] \in S /\ mem.prev[x] \in S
      BY <3>1, Zenon DEF RingOf, Shut
    <3>3. mem.prev[mem.next[x]] = x /\ mem.next[mem.prev[x]] = x
      BY <3>1, Zenon DEF Mutual
    <3>4. mem.next[x] \notin T /\ mem.prev[x] \notin T
      BY <3>1, <3>3, Zenon DEF Shut
    <3> QED BY <3>2, <3>4, Zenon
  <2>2. U \in SUBSET S /\ c \in U
    BY <1>2, Zenon DEF RingOf
  <2> HIDE DEF U
  <2>3. U = S
    BY <2>1, <2>2, Zenon DEF RingOf, Shut
  <2> QED BY <2>3, Zenon DEF U
<1> QED BY <1>1, <1>2, Zenon

(* A ring whose pointers are not written stays. *)
LEMMA RingStays ==
  ASSUME NEW mem, NEW c, NEW S, RingOf(mem, c, S), NEW d,
         \A x \in S : d.next[x] = mem.next[x] /\ d.prev[x] = mem.prev[x]
  PROVE  RingOf(d, c, S)
<1>1. \A T \in SUBSET S : Shut(d, T) <=> Shut(mem, T)
  BY Zenon DEF Shut
<1>2. Shut(d, S)
  BY Zenon DEF Shut, RingOf
<1> QED BY <1>1, <1>2, Zenon DEF RingOf

(* list_add puts one process on the ring of the head. *)
LEMMA RingGrows ==
  ASSUME NEW mem \in Links(Proc), Mutual(mem, Proc), NEW c, NEW S, RingOf(mem, c, S),
         NEW h \in S, NEW e \in Proc \ S, NEW d, AfterAdd(mem, h, e, d, Proc)
  PROVE  RingOf(d, c, S \cup {e})
<1>1. /\ S \subseteq Proc /\ h \in Proc /\ c \in S /\ e \notin S /\ e # h
      /\ \A x \in S : mem.next[x] \in S /\ mem.prev[x] \in S
      /\ \A x \in S : mem.prev[mem.next[x]] = x /\ mem.next[mem.prev[x]] = x
  BY Zenon DEF RingOf, Shut, Mutual
<1>2. /\ d.next[e] = mem.next[h] /\ d.prev[e] = h /\ d.next[h] = e
      /\ d.prev[mem.next[h]] = e
      /\ \A x \in S : x # h => d.next[x] = mem.next[x]
      /\ \A x \in S : x # mem.next[h] => d.prev[x] = mem.prev[x]
  <2>1. mem.next[h] \in Proc /\ mem.next[h] # e
    BY <1>1, Zenon
  <2>2. \A n \in Proc : d.next[n] = IF n = h THEN e
                               ELSE IF n = e THEN mem.next[h] ELSE mem.next[n]
    BY Zenon DEF AfterAdd
  <2>3. \A n \in Proc : d.prev[n] = IF n = e THEN h
                               ELSE IF n = mem.next[h] THEN e ELSE mem.prev[n]
    BY Zenon DEF AfterAdd
  <2> QED BY <1>1, <2>1, <2>2, <2>3, SMT
<1>3. Shut(d, S \cup {e})
  BY <1>1, <1>2, Zenon DEF Shut
<1>4. ASSUME NEW T \in SUBSET (S \cup {e}), c \in T, Shut(d, T) PROVE T = S \cup {e}
  <2> DEFINE U == T \ {e}
  <2>1. U \in SUBSET S /\ c \in U
    BY <1>1, <1>4, Zenon
  <2>2. ASSUME NEW x \in U PROVE mem.next[x] \in U /\ mem.prev[x] \in U
    <3>1. x \in S /\ x \in T /\ d.next[x] \in T /\ d.prev[x] \in T
      BY <2>1, <1>4, Zenon DEF Shut
    <3>2. mem.next[x] \in S /\ mem.prev[x] \in S
      BY <3>1, <1>1, Zenon
    <3>3. mem.next[x] \in T
      <4>1. CASE x = h
        BY <4>1, <3>1, <1>2, <1>4, Zenon DEF Shut
      <4>2. CASE x # h
        BY <4>2, <3>1, <1>2, Zenon
      <4> QED BY <4>1, <4>2, Zenon
    <3>4. mem.prev[x] \in T
      <4>1. CASE x = mem.next[h]
        <5>1. mem.prev[x] = h
          BY <4>1, <1>1, Zenon
        <5>2. e \in T
          BY <4>1, <3>1, <1>2, Zenon
        <5> QED BY <5>1, <5>2, <1>2, <1>4, Zenon DEF Shut
      <4>2. CASE x # mem.next[h]
        BY <4>2, <3>1, <1>2, Zenon
      <4> QED BY <4>1, <4>2, Zenon
    <3> QED BY <3>2, <3>3, <3>4, <1>1, Zenon
  <2> HIDE DEF U
  <2>3. U = S
    BY <2>1, <2>2, Zenon DEF RingOf, Shut
  <2>4. h \in T
    BY <2>3, Zenon DEF U
  <2>5. e \in T
    BY <2>4, <1>2, <1>4, Zenon DEF Shut
  <2> QED BY <2>3, <2>5, <1>4, Zenon DEF U
<1>5. S \cup {e} \subseteq Proc /\ c \in S \cup {e}
  BY <1>1, Zenon
<1> QED BY <1>3, <1>4, <1>5, Zenon DEF RingOf

(* list_del takes one process off the ring of the others. *)
LEMMA RingShrinks ==
  ASSUME NEW mem \in Links(Proc), Mutual(mem, Proc), NEW c, NEW S, RingOf(mem, c, S),
         NEW e \in S, mem.next[e] # e, NEW d, AfterDel(mem, e, d, Proc)
  PROVE  RingOf(d, mem.next[e], S \ {e})
<1>1. /\ S \subseteq Proc /\ e \in Proc
      /\ \A x \in S : mem.next[x] \in S /\ mem.prev[x] \in S
      /\ \A x \in S : mem.prev[mem.next[x]] = x /\ mem.next[mem.prev[x]] = x
      /\ mem.prev[e] # e
  BY Zenon DEF RingOf, Shut, Mutual
<1>2. /\ d.next[mem.prev[e]] = mem.next[e] /\ d.prev[mem.next[e]] = mem.prev[e]
      /\ \A x \in S \ {e} : x # mem.prev[e] => d.next[x] = mem.next[x]
      /\ \A x \in S \ {e} : x # mem.next[e] => d.prev[x] = mem.prev[x]
  <2>1. mem.next[e] \in Proc /\ mem.prev[e] \in Proc
    BY <1>1, Zenon
  <2>2. \A n \in Proc : d.next[n] = IF n = e THEN e
                               ELSE IF n = mem.prev[e] THEN mem.next[e] ELSE mem.next[n]
    BY Zenon DEF AfterDel
  <2>3. \A n \in Proc : d.prev[n] = IF n = e THEN e
                               ELSE IF n = mem.next[e] THEN mem.prev[e] ELSE mem.prev[n]
    BY Zenon DEF AfterDel
  <2> QED BY <1>1, <2>1, <2>2, <2>3, SMT
<1>3. Shut(d, S \ {e})
  <2> SUFFICES ASSUME NEW x \in S \ {e} PROVE d.next[x] \in S \ {e} /\ d.prev[x] \in S \ {e}
    BY Zenon DEF Shut
  <2>1. x # mem.prev[e] => mem.next[x] # e
    BY <1>1, Zenon
  <2>2. x # mem.next[e] => mem.prev[x] # e
    BY <1>1, Zenon
  <2> QED BY <1>1, <1>2, <2>1, <2>2, Zenon
<1>4. ASSUME NEW T \in SUBSET (S \ {e}), mem.next[e] \in T, Shut(d, T) PROVE T = S \ {e}
  <2> DEFINE U == T \cup {e}
  <2>1. U \in SUBSET S /\ e \in U
    BY <1>4, Zenon
  <2>2. mem.prev[e] \in T
    BY <1>2, <1>4, Zenon DEF Shut
  <2>3. ASSUME NEW x \in T PROVE mem.next[x] \in U /\ mem.prev[x] \in U
    <3>1. x \in S \ {e} /\ d.next[x] \in T /\ d.prev[x] \in T
      BY <1>4, <2>3, Zenon DEF Shut
    <3>2. mem.next[x] \in U
      <4>1. CASE x = mem.prev[e]
        BY <4>1, <1>1, Zenon
      <4>2. CASE x # mem.prev[e]
        BY <4>2, <1>2, <3>1, Zenon
      <4> QED BY <4>1, <4>2, Zenon
    <3>3. mem.prev[x] \in U
      <4>1. CASE x = mem.next[e]
        BY <4>1, <1>1, Zenon
      <4>2. CASE x # mem.next[e]
        BY <4>2, <1>2, <3>1, Zenon
      <4> QED BY <4>1, <4>2, Zenon
    <3> QED BY <3>2, <3>3, Zenon
  <2>4. Shut(mem, U)
    BY <2>2, <2>3, <1>4, Zenon DEF Shut
  <2>5. RingOf(mem, e, S)
    BY RingFromAny, Zenon
  <2> HIDE DEF U
  <2>6. U = S
    BY <2>1, <2>4, <2>5, Zenon DEF RingOf
  <2> QED BY <2>6, <1>4, Zenon DEF U
<1>5. S \ {e} \subseteq Proc /\ mem.next[e] \in S \ {e}
  BY <1>1, Zenon
<1> QED BY <1>3, <1>4, <1>5, Zenon DEF RingOf

(* Ring(p), the walk of kwait, is the ring of p: among as many steps as    *)
(* there are processes one leads to a process met before, and the first    *)
(* met twice is p.                                                         *)
LEMMA RingWalk ==
  ASSUME sib \in Links(Proc), Mutual(sib, Proc), NEW p \in Proc
  PROVE  RingOf(sib, p, Ring(p))
<1> DEFINE Walk[k \in Nat] == IF k = 0 THEN p ELSE sib.next[Walk[k - 1]]
           G == [x \in Nat \X Proc |-> sib.next[x[2]]]
           N == Cardinality(Proc)
<1>1. G \in [Nat \X Proc -> Proc]
  BY Load, Zenon
<1>2. PICK f \in [Nat -> Proc] : \A n \in Nat : Follows(f, n, p, G)
  <2> HIDE DEF G, Walk
  <2> QED BY <1>1, IteratesOn, Zenon
<1>3. f[0] = p /\ \A k \in Nat : k # 0 => f[k] = sib.next[f[k - 1]]
  <2>1. f[0] = p
    BY <1>2, Zenon DEF Follows
  <2>2. ASSUME NEW k \in Nat, k # 0 PROVE f[k] = sib.next[f[k - 1]]
    <3>1. k \in 1..k /\ k - 1 \in Nat
      BY <2>2
    <3>2. f[k] = G[<<k, f[k - 1]>>] /\ <<k, f[k - 1]>> \in Nat \X Proc
      <4> HIDE DEF G
      <4> QED BY <1>2, <3>1, Zenon DEF Follows
    <3> QED BY <3>2, Zenon
  <2> QED BY <2>1, <2>2, Zenon
<1>4. f = [k \in Nat |-> IF k = 0 THEN p ELSE sib.next[f[k - 1]]]
  <2> HIDE DEF Walk
  <2> QED BY <1>3, Zenon
<1>5. Walk = [k \in Nat |-> IF k = 0 THEN p ELSE sib.next[Walk[k - 1]]]
  BY <1>4, Zenon
<1>6. Ring(p) = {Walk[k] : k \in 0..N}
  BY Zenon DEF Ring
<1> HIDE DEF Walk, G
<1>7. Walk[0] = p /\ \A k \in Nat : Walk[k + 1] = sib.next[Walk[k]]
  BY <1>5
<1>8. \A k \in Nat : Walk[k] \in Proc
  <2> DEFINE In == {k \in Nat : Walk[k] \in Proc}
  <2>1. 0 \in In
    BY <1>7, Zenon
  <2>2. ASSUME NEW k \in Nat, k \in In PROVE k + 1 \in In
    <3>1. k + 1 \in Nat
      OBVIOUS
    <3>2. Walk[k] \in Proc
      BY <2>2, Zenon
    <3>3. sib.next[Walk[k]] \in Proc
      BY <3>2, Load, Zenon
    <3> QED BY <3>1, <3>3, <1>7, Zenon
  <2> HIDE DEF In
  <2>3. \A k \in Nat : k \in In
    BY <2>1, <2>2, Induct, Zenon
  <2> QED BY <2>3, Zenon DEF In
<1>9. \A k \in Nat : sib.prev[Walk[k + 1]] = Walk[k]
  BY <1>7, <1>8, Zenon DEF Mutual
<1>10. N \in Nat
  BY ProcAssumption, FS_CardinalityType, Zenon
<1> HIDE DEF N
<1>11. PICK i \in 0..N, j \in 0..N : i < j /\ Walk[i] = Walk[j]
  <2> DEFINE w == [k \in 0..N |-> Walk[k]]
  <2>1. 0..N \subseteq Nat /\ IsFiniteSet(0..N) /\ Cardinality(0..N) = N + 1 /\ N < N + 1
    BY <1>10, FS_Interval, SMT
  <2>2. w \in [0..N -> Proc]
    BY <2>1, <1>8, Zenon
  <2> HIDE DEF w
  <2>3. PICK x \in 0..N, y \in 0..N : x # y /\ w[x] = w[y]
    <3>1. Cardinality(Proc) < Cardinality(0..N) /\ IsFiniteSet(Proc)
      BY <2>1, ProcAssumption, Zenon DEF N
    <3> QED BY <2>1, <2>2, <3>1, FS_PigeonHole, Zenon
  <2>4. Walk[x] = Walk[y]
    BY <2>3, Zenon DEF w
  <2>5. x < y \/ y < x
    BY <2>3, <1>10
  <2> QED BY <2>4, <2>5, Zenon
<1>12. Walk[j - i] = p
  <2> DEFINE Back == {k \in Nat : k <= i => Walk[i - k] = Walk[j - k]}
  <2>1. 0 \in Back
    BY <1>11, <1>10
  <2>2. ASSUME NEW k \in Nat, k \in Back PROVE k + 1 \in Back
    <3>1. k + 1 \in Nat
      OBVIOUS
    <3>2. ASSUME k + 1 <= i PROVE Walk[i - (k + 1)] = Walk[j - (k + 1)]
      <4>1. /\ k <= i /\ i - (k + 1) \in Nat /\ j - (k + 1) \in Nat
            /\ (i - (k + 1)) + 1 = i - k /\ (j - (k + 1)) + 1 = j - k
        BY <3>2, <1>10, <1>11
      <4> QED BY <4>1, <2>2, <1>9, Zenon
    <3> QED BY <3>1, <3>2, Zenon
  <2>3. i \in Nat /\ i <= i /\ i - i = 0
    BY <1>10
  <2> HIDE DEF Back
  <2>4. i \in Back
    BY <2>1, <2>2, <2>3, Induct, Zenon
  <2> QED BY <2>3, <2>4, <1>7, Zenon DEF Back
<1>13. PICK c \in 1..N : Walk[c] = p
  <2>1. j - i \in 1..N
    BY <1>10, <1>11
  <2> QED BY <2>1, <1>12, Zenon
<1>14. \A k \in Nat : Walk[k + c] = Walk[k]
  <2> DEFINE Again == {k \in Nat : Walk[k + c] = Walk[k]}
  <2>1. 0 \in Again
    <3>1. 0 + c = c
      BY <1>10
    <3> QED BY <3>1, <1>7, <1>13, Zenon
  <2>2. ASSUME NEW k \in Nat, k \in Again PROVE k + 1 \in Again
    <3>1. k + 1 \in Nat /\ k + c \in Nat /\ (k + 1) + c = (k + c) + 1
      BY <1>10
    <3> QED BY <2>2, <3>1, <1>7, Zenon
  <2> HIDE DEF Again
  <2>3. \A k \in Nat : k \in Again
    BY <2>1, <2>2, Induct, Zenon
  <2> QED BY <2>3, Zenon DEF Again
<1> DEFINE R == {Walk[k] : k \in 0..N}
<1>15. R \subseteq Proc /\ p \in R
  <2>1. 0 \in 0..N /\ \A k \in 0..N : k \in Nat
    BY <1>10
  <2> QED BY <2>1, <1>7, <1>8, Zenon
<1>16. ASSUME NEW x \in R PROVE sib.next[x] \in R /\ sib.prev[x] \in R
  <2>1. PICK k \in 0..N : x = Walk[k]
    BY Zenon
  <2>2. sib.next[x] \in R
    <3>1. CASE k < N
      <4>1. k \in Nat /\ k + 1 \in 0..N
        BY <3>1, <1>10
      <4> QED BY <4>1, <2>1, <1>7, Zenon
    <3>2. CASE k = N
      <4>1. /\ N \in Nat /\ N + 1 - c \in Nat /\ N + 1 - c \in 0..N
            /\ (N + 1 - c) + c = N + 1
        BY <1>10, <1>13
      <4>2. sib.next[x] = Walk[N + 1]
        BY <4>1, <3>2, <2>1, <1>7, Zenon
      <4>3. Walk[N + 1] = Walk[N + 1 - c]
        BY <4>1, <1>14, Zenon
      <4> QED BY <4>1, <4>2, <4>3, Zenon
    <3> QED BY <3>1, <3>2, <1>10
  <2>3. sib.prev[x] \in R
    <3>1. CASE k > 0
      <4>1. k - 1 \in Nat /\ k - 1 \in 0..N /\ (k - 1) + 1 = k
        BY <3>1, <1>10
      <4> QED BY <4>1, <2>1, <1>9, Zenon
    <3>2. CASE k = 0
      <4>1. c - 1 \in Nat /\ c - 1 \in 0..N /\ (c - 1) + 1 = c
        BY <1>10, <1>13
      <4>2. x = Walk[(c - 1) + 1]
        BY <4>1, <2>1, <3>2, <1>7, <1>13, Zenon
      <4>3. sib.prev[x] = Walk[c - 1]
        BY <4>1, <4>2, <1>9, Zenon
      <4> QED BY <4>1, <4>3, Zenon
    <3> QED BY <3>1, <3>2, <1>10
  <2> QED BY <2>2, <2>3, Zenon
<1>17. ASSUME NEW T \in SUBSET R, p \in T, Shut(sib, T) PROVE R = T
  <2> DEFINE Into == {k \in Nat : Walk[k] \in T}
  <2>1. 0 \in Into
    BY <1>7, <1>17, Zenon
  <2>2. ASSUME NEW k \in Nat, k \in Into PROVE k + 1 \in Into
    <3>1. k + 1 \in Nat
      OBVIOUS
    <3> QED BY <2>2, <3>1, <1>7, <1>17, Zenon DEF Shut
  <2> HIDE DEF Into
  <2>3. \A k \in Nat : k \in Into
    BY <2>1, <2>2, Induct, Zenon
  <2>4. \A k \in 0..N : k \in Nat
    BY <1>10
  <2> QED BY <2>3, <2>4, <1>17, Zenon DEF Into
<1> HIDE DEF R
<1>18. Ring(p) = R
  BY <1>6, Zenon DEF R
<1> QED BY <1>15, <1>16, <1>17, <1>18, Zenon DEF RingOf, Shut
-----------------------------------------------------------------------------
(* What holds whatever happened before: the pointers are whole, a process  *)
(* that is not made yet is nobody's relative, and a thread is somewhere    *)
(* inside a call only while its process lives.                             *)
Untouched(p) ==
  /\ sib.next[p] = p /\ child[p] = None /\ p \notin asleep
  /\ \A c \in Proc : parent[c] # p

Placed(q) ==
  /\ child[q] # None => state[child[q]] # "new"
  /\ local[q] # None => state[local[q]] # "new"
  /\ pc[q] \in {"kill", "wake", "unlink", "kwait"} => local[q] # None
  /\ pc[q] # "run" \/ q \in asleep => state[q] = "live"
  /\ pc[q] \in {"wake", "unlink"} => state[local[q]] \in {"closing", "freed"}

Base ==
  /\ ProcsTypeOK /\ Mutual(sib, Proc)
  /\ \A p \in Proc : (state[p] = "new" => Untouched(p)) /\ Placed(p)

(* The children of q are on the ring of p_child, and only processes that q *)
(* made are: also those that ended and stayed there (`left').              *)
Around(q, S) ==
  /\ Children(q) \subseteq S
  /\ \A p \in S : parent[p] = q /\ state[p] # "new" /\ (~left => state[p] # "freed")

Family(q) ==
  IF child[q] = None THEN Children(q) = {}
  ELSE /\ child[q] \in Children(q)
       /\ \E S \in SUBSET Proc : RingOf(sib, child[q], S) /\ Around(q, S)

(* What q has read of its family is still true, or points to a process     *)
(* that is freed.                                                          *)
Read(q) ==
  /\ pc[q] = "link" /\ local[q] = None => child[q] = None
  /\ pc[q] \in {"link", "kwait"} /\ local[q] # None => parent[local[q]] = q

(* A kterminate_proc that has woken the waiters of its victim will find    *)
(* nobody asleep for it.                                                   *)
Woke(o) ==
  pc[o] = "unlink" /\ state[local[o]] # "freed" => parent[local[o]] \notin asleep

Wakes(q) ==
  state[q] = "live" => Children(q) # {} /\ \A p \in Children(q) : w4q[p] = q

Families == ~dangling => \A q \in Proc : state[q] = "live" => Family(q) /\ Read(q)

Waking == ~dangling /\ ~crossed => (\A q \in asleep : Wakes(q)) /\ \A o \in Proc : Woke(o)

ProcInv == Base /\ Families /\ Waking

(* The first part of the invariant, kept by every step. *)
LEMMA BaseInit == ProcsInit => Base
<1> SUFFICES ASSUME ProcsInit PROVE Base
  BY Zenon
<1>1. ProcsTypeOK
  BY ProcAssumption, Zenon DEF ProcsInit, ProcsTypeOK
<1>2. \A p \in Proc : sib.next[p] = p /\ sib.prev[p] = p
  BY Zenon DEF ProcsInit
<1>3. Mutual(sib, Proc)
  BY <1>2, Zenon DEF Mutual
<1>4. ASSUME NEW p \in Proc PROVE (state[p] = "new" => Untouched(p)) /\ Placed(p)
  BY <1>2, ProcAssumption, Zenon DEF ProcsInit, Untouched, Placed
<1> QED BY <1>1, <1>3, <1>4, Zenon DEF Base

(* The parts of the type invariant. *)
LEMMA ProcTypes ==
  ASSUME Base
  PROVE  /\ state \in [Proc -> {"new", "live", "closing", "freed"}]
         /\ parent \in [Proc -> Proc \cup {None}]
         /\ child \in [Proc -> Proc \cup {None}]
         /\ sib \in Links(Proc) /\ Mutual(sib, Proc)
         /\ w4q \in [Proc -> Proc \cup {None}]
         /\ asleep \subseteq Proc
         /\ pc \in [Proc -> {"run", "link", "kill", "wake", "unlink", "kwait"}]
         /\ local \in [Proc -> Proc \cup {None}]
         /\ dangling \in BOOLEAN /\ deadwq \in BOOLEAN /\ left \in BOOLEAN /\ crossed \in BOOLEAN
<1>1. ProcsTypeOK /\ Mutual(sib, Proc)
  BY Zenon DEF Base
<1>2. {dangling, deadwq, left, crossed} \subseteq BOOLEAN
  BY <1>1, Zenon DEF ProcsTypeOK
<1> QED BY <1>1, <1>2, Zenon DEF ProcsTypeOK, Links

LEMMA BaseByCreateRead ==
  ASSUME Base, NEW q \in Proc, NEW p \in Proc, CreateRead(q, p)
  PROVE  Base'
<1>1. ProcsTypeOK'
  BY ProcTypes, Zenon DEF Base, CreateRead, Runs, ProcsTypeOK
<1>2. Mutual(sib, Proc)'
  BY ProcTypes, Zenon DEF CreateRead, Mutual
<1>3. ASSUME NEW x \in Proc PROVE (state'[x] = "new" => Untouched(x)') /\ Placed(x)'
  BY ProcTypes, ProcAssumption DEF Base, Untouched, Placed, CreateRead, Runs
<1> QED BY <1>1, <1>2, <1>3, Zenon DEF Base

LEMMA BaseByCreateLink ==
  ASSUME Base, NEW q \in Proc, NEW p \in Proc, CreateLink(q, p)
  PROVE  Base'
<1>1. /\ state[p] = "new" /\ parent[p] = q /\ state[q] = "live" /\ pc[q] = "link"
      /\ p # q /\ p # None /\ sib.next[p] = p
  BY ProcAssumption, Zenon DEF Base, Untouched, CreateLink, Runs
<1>2. sib' \in Links(Proc) /\ Mutual(sib', Proc)
  <2>1. CASE local[q] = None
    BY <2>1, ProcTypes, Zenon DEF CreateLink
  <2>2. CASE local[q] # None
    <3>1. local[q] \in Proc /\ local[q] # p
      BY <2>2, <1>1, ProcTypes DEF Base, Placed
    <3>2. sib' = list_add(sib, local[q], p)
      BY <2>2, Zenon DEF CreateLink
    <3>3. AfterAdd(sib, local[q], p, sib', Proc)
      BY <3>1, <3>2, ProcTypes, AddPointers, Zenon
    <3>4. sib' \in Links(Proc)
      BY <3>3, Zenon DEF AfterAdd
    <3>5. Mutual(sib', Proc)
      BY <3>1, <3>3, <1>1, ProcTypes, AddMutual, Zenon
    <3> QED BY <3>4, <3>5, Zenon
  <2> QED BY <2>1, <2>2, Zenon
<1>3. child' \in [Proc -> Proc \cup {None}] /\ \A x \in Proc : child'[x] = child[x] \/ (x = q /\ child'[x] = p)
  BY ProcTypes, Zenon DEF CreateLink
<1>4. ProcsTypeOK'
  <2>1. dangling' \in BOOLEAN
    BY ProcTypes, Zenon DEF CreateLink, Freed
  <2> QED BY <1>2, <1>3, <2>1, ProcTypes, Zenon DEF CreateLink, ProcsTypeOK, Links
<1>5. ASSUME NEW x \in Proc, state'[x] = "new" PROVE Untouched(x)'
  <2>1. x # p /\ x # q /\ state[x] = "new"
    BY <1>1, <1>5, ProcTypes, Zenon DEF CreateLink
  <2>2. Untouched(x)
    BY <2>1, Zenon DEF Base
  <2>3. sib'.next[x] = x
    <3>1. CASE local[q] = None
      BY <3>1, <2>2, Zenon DEF CreateLink, Untouched
    <3>2. CASE local[q] # None
      <4>1. local[q] \in Proc /\ local[q] # p /\ local[q] # x
        BY <3>2, <1>1, <2>1, ProcTypes DEF Base, Placed
      <4>2. sib' = list_add(sib, local[q], p)
        BY <3>2, Zenon DEF CreateLink
      <4>3. AfterAdd(sib, local[q], p, sib', Proc)
        BY <4>1, <4>2, ProcTypes, AddPointers, Zenon
      <4> QED BY <4>1, <4>3, <2>1, <2>2, Zenon DEF AfterAdd, Untouched
    <3> QED BY <3>1, <3>2, Zenon
  <2>4. child'[x] = None
    BY <1>3, <2>1, <2>2, Zenon DEF Untouched
  <2> QED BY <2>2, <2>3, <2>4, Zenon DEF Untouched, CreateLink
<1>6. ASSUME NEW x \in Proc PROVE Placed(x)'
  BY <1>1, <1>3, ProcTypes, ProcAssumption DEF Base, Placed, CreateLink
<1> QED BY <1>2, <1>4, <1>5, <1>6, Zenon DEF Base

LEMMA BaseByKillOpen ==
  ASSUME Base, NEW q \in Proc, NEW p \in Proc, KillOpen(q, p)
  PROVE  Base'
<1>1. ProcsTypeOK'
  BY ProcTypes, Zenon DEF Base, KillOpen, Runs, ProcsTypeOK
<1>2. Mutual(sib, Proc)'
  BY ProcTypes, Zenon DEF KillOpen, Mutual
<1>3. ASSUME NEW x \in Proc PROVE (state'[x] = "new" => Untouched(x)') /\ Placed(x)'
  BY ProcTypes, ProcAssumption DEF Base, Untouched, Placed, KillOpen, Runs
<1> QED BY <1>1, <1>2, <1>3, Zenon DEF Base

LEMMA BaseByKillShutdown ==
  ASSUME Base, NEW q \in Proc, KillShutdown(q)
  PROVE  Base'
<1>1. PICK p \in Proc : p = local[q] /\ state[p] # "new" /\ state[q] = "live" /\ pc[q] = "kill"
  BY ProcTypes DEF Base, Placed, KillShutdown, Runs
<1>2. /\ state' = [state EXCEPT ![p] = IF @ = "freed" THEN @ ELSE "closing"]
      /\ asleep' = asleep \ {p}
      /\ pc' = [pc EXCEPT ![q] = "wake", ![p] = "run"]
      /\ local' = [local EXCEPT ![p] = None]
      /\ parent' = parent /\ child' = child /\ sib' = sib /\ w4q' = w4q /\ deadwq' = deadwq /\ left' = left
  BY <1>1, Zenon DEF KillShutdown
<1>3. ProcsTypeOK'
  <2>1. dangling' \in BOOLEAN /\ crossed' \in BOOLEAN
    BY ProcTypes, Zenon DEF KillShutdown, Freed
  <2> QED BY <1>2, <2>1, ProcTypes, Zenon DEF ProcsTypeOK, Links
<1>4. Mutual(sib, Proc)'
  BY <1>2, ProcTypes, Zenon DEF Mutual
<1>5. ASSUME NEW x \in Proc PROVE (state'[x] = "new" => Untouched(x)') /\ Placed(x)'
  BY <1>1, <1>2, ProcTypes, ProcAssumption DEF Base, Untouched, Placed
<1> QED BY <1>3, <1>4, <1>5, Zenon DEF Base

LEMMA BaseByKillWake ==
  ASSUME Base, NEW q \in Proc, KillWake(q)
  PROVE  Base'
<1>1. ProcsTypeOK'
  <2>1. dangling' \in BOOLEAN /\ deadwq' \in BOOLEAN
    BY ProcTypes, Zenon DEF KillWake, Freed, DeadQueue
  <2> QED BY <2>1, ProcTypes, Zenon DEF KillWake, Runs, Woken, ProcsTypeOK, Links
<1>2. Mutual(sib, Proc)'
  BY ProcTypes, Zenon DEF KillWake, Mutual
<1>3. ASSUME NEW x \in Proc PROVE (state'[x] = "new" => Untouched(x)') /\ Placed(x)'
  BY ProcTypes, ProcAssumption DEF Base, Untouched, Placed, KillWake, Runs, Woken
<1> QED BY <1>1, <1>2, <1>3, Zenon DEF Base

LEMMA BaseByKwaitRead ==
  ASSUME Base, NEW q \in Proc, KwaitRead(q)
  PROVE  Base'
<1>1. ProcsTypeOK'
  BY ProcTypes, Zenon DEF Base, KwaitRead, Runs, ProcsTypeOK
<1>2. Mutual(sib, Proc)'
  BY ProcTypes, Zenon DEF KwaitRead, Mutual
<1>3. ASSUME NEW x \in Proc PROVE (state'[x] = "new" => Untouched(x)') /\ Placed(x)'
  BY ProcTypes, ProcAssumption DEF Base, Untouched, Placed, KwaitRead, Runs
<1> QED BY <1>1, <1>2, <1>3, Zenon DEF Base

LEMMA BaseByKwaitBlock ==
  ASSUME Base, NEW q \in Proc, KwaitBlock(q)
  PROVE  Base'
<1>1. ProcsTypeOK'
  <2>1. dangling' \in BOOLEAN /\ crossed' \in BOOLEAN
    BY ProcTypes, Zenon DEF KwaitBlock, Freed, Past
  <2> QED BY <2>1, ProcTypes, Zenon DEF KwaitBlock, Runs, ProcsTypeOK, Links
<1>2. Mutual(sib, Proc)'
  BY ProcTypes, Zenon DEF KwaitBlock, Mutual
<1>3. ASSUME NEW x \in Proc PROVE (state'[x] = "new" => Untouched(x)') /\ Placed(x)'
  BY ProcTypes, ProcAssumption DEF Base, Untouched, Placed, KwaitBlock, Runs
<1> QED BY <1>1, <1>2, <1>3, Zenon DEF Base

(* Unlink of a process that was made: what it does to the pointers.        *)
LEMMA UnlinkPointers ==
  ASSUME Base, NEW p \in Proc, state[p] # "new", Unlink(p)
  PROVE  /\ sib' \in Links(Proc) /\ Mutual(sib', Proc)
         /\ sib' = sib \/ AfterDel(sib, p, sib', Proc)
         /\ child' \in [Proc -> Proc \cup {None}]
         /\ \A x \in Proc : child'[x] = child[x] \/ child'[x] = None \/ child'[x] = sib.next[p]
         /\ \A x \in Proc : parent[p] # x \/ child[x] # p => child'[x] = child[x]
         /\ dangling' \in BOOLEAN /\ left' \in BOOLEAN
<1>1. sib' = sib \/ sib' = list_del(sib, p)
  BY Zenon DEF Unlink
<1>2. AfterDel(sib, p, list_del(sib, p), Proc)
  BY ProcTypes, DelPointers, Zenon
<1>3. sib' = sib \/ AfterDel(sib, p, sib', Proc)
  BY <1>1, <1>2, Zenon
<1>4. sib' \in Links(Proc)
  BY <1>3, ProcTypes, Zenon DEF AfterDel
<1>5. Mutual(sib', Proc)
  BY <1>3, ProcTypes, DelMutual, Zenon
<1>6. sib.next[p] \in Proc
  BY ProcTypes, Load, Zenon
<1>7. \/ child' = child
      \/ /\ parent[p] # None /\ child[parent[p]] = p
         /\ \/ child' = [child EXCEPT ![parent[p]] = None]
            \/ child' = [child EXCEPT ![parent[p]] = sib.next[p]]
  BY Zenon DEF Unlink
<1>8. /\ child' \in [Proc -> Proc \cup {None}]
      /\ \A x \in Proc : child'[x] = child[x] \/ child'[x] = None \/ child'[x] = sib.next[p]
      /\ \A x \in Proc : parent[p] # x \/ child[x] # p => child'[x] = child[x]
  BY <1>6, <1>7, ProcTypes, Zenon
<1>9. dangling' \in BOOLEAN /\ left' \in BOOLEAN
  BY ProcTypes, Zenon DEF Unlink, Freed
<1> QED BY <1>3, <1>4, <1>5, <1>8, <1>9, Zenon

(* A process on its way out is freed; `locals' says whose call it ends.    *)
LEMMA BaseByUnlink ==
  ASSUME Base, NEW p \in Proc, NEW q \in Proc, state[p] # "new", Unlink(p),
         state' = [state EXCEPT ![p] = "freed"],
         parent' = parent, w4q' = w4q, asleep' \subseteq asleep,
         deadwq' \in BOOLEAN, crossed' = crossed,
         pc[p] = "run", p \notin asleep,
         \/ pc' = pc /\ local' = local
         \/ pc' = [pc EXCEPT ![q] = "run"] /\ local' = [local EXCEPT ![q] = None]
  PROVE  Base'
<1>1. ProcsTypeOK'
  BY UnlinkPointers, ProcTypes DEF ProcsTypeOK, Links
<1>2. ASSUME NEW x \in Proc, state'[x] = "new" PROVE Untouched(x)'
  <2>1. x # p /\ state[x] = "new"
    BY <1>2, ProcTypes, Zenon
  <2>2. Untouched(x)
    BY <2>1, Zenon DEF Base
  <2>3. sib.next[p] # x /\ sib.prev[p] # x
    <3>1. sib.next[x] = x /\ sib.prev[sib.next[x]] = x
      BY <2>2, ProcTypes, Zenon DEF Untouched, Mutual
    <3>2. sib.prev[sib.next[p]] = p /\ sib.next[sib.prev[p]] = p
      BY ProcTypes, Zenon DEF Mutual
    <3> QED BY <2>1, <3>1, <3>2, Zenon
  <2>4. sib'.next[x] = x
    BY <2>1, <2>2, <2>3, UnlinkPointers, Zenon DEF Untouched, AfterDel
  <2>5. child[x] # p
    BY <2>2, ProcAssumption, Zenon DEF Untouched
  <2>6. child'[x] = None
    BY <2>2, <2>5, UnlinkPointers, Zenon DEF Untouched
  <2> QED BY <2>2, <2>4, <2>6, Zenon DEF Untouched
<1>3. state[sib.next[p]] # "new"
  <2>1. sib.next[p] \in Proc
    BY ProcTypes, Load, Zenon
  <2>2. state[sib.next[p]] = "new" => sib.next[sib.next[p]] = sib.next[p]
    BY <2>1, Zenon DEF Base, Untouched
  <2>3. /\ sib.prev[sib.next[sib.next[p]]] = sib.next[p]
        /\ sib.prev[sib.next[p]] = p
    BY <2>1, ProcTypes, Zenon DEF Mutual
  <2> QED BY <2>2, <2>3, Zenon
<1>4. \A x \in Proc : state[x] # "new" => state'[x] # "new"
  BY ProcTypes, Zenon
<1>5. ASSUME NEW x \in Proc PROVE Placed(x)'
  <2>1. sib.next[p] \in Proc /\ Placed(x)
    BY ProcTypes, Load, Zenon DEF Base
  <2>2. child'[x] # None => state'[child'[x]] # "new"
    <3>1. child[x] \in Proc \cup {None} /\ (child'[x] = child[x] \/ child'[x] = None \/ child'[x] = sib.next[p])
      BY UnlinkPointers, ProcTypes, Zenon
    <3> QED BY <2>1, <3>1, <1>3, <1>4, Zenon DEF Placed
  <2>3. /\ local'[x] # None => local'[x] = local[x]
        /\ pc'[x] # "run" => pc'[x] = pc[x] /\ local'[x] = local[x]
    BY ProcTypes, Zenon
  <2>4. local[x] # None => local[x] \in Proc
    BY ProcTypes
  <2>5. pc'[x] # "run" \/ x \in asleep' => state'[x] = "live"
    BY <2>1, <2>3, ProcTypes, Zenon DEF Placed
  <2>6. pc'[x] \in {"wake", "unlink"} => state'[local'[x]] \in {"closing", "freed"}
    BY <2>1, <2>3, <2>4, ProcTypes, Zenon DEF Placed
  <2> QED BY <2>1, <2>2, <2>3, <2>4, <2>5, <2>6, <1>4, Zenon DEF Placed
<1>6. Mutual(sib', Proc)
  BY UnlinkPointers, Zenon
<1> QED BY <1>1, <1>2, <1>5, <1>6, Zenon DEF Base

LEMMA BaseByKexit ==
  ASSUME Base, NEW p \in Proc, Kexit(p)
  PROVE  Base'
<1>1. /\ state[p] # "new" /\ pc[p] = "run" /\ Unlink(p) /\ asleep' \subseteq asleep /\ p \notin asleep
      /\ state' = [state EXCEPT ![p] = "freed"]
      /\ parent' = parent /\ w4q' = w4q /\ crossed' = crossed /\ pc' = pc /\ local' = local
  BY Zenon DEF Kexit, Runs
<1>2. deadwq' \in BOOLEAN
  BY ProcTypes, Zenon DEF Kexit, DeadQueue
<1> QED BY <1>1, <1>2, BaseByUnlink, Zenon

LEMMA BaseByKillUnlink ==
  ASSUME Base, NEW q \in Proc, KillUnlink(q)
  PROVE  Base'
<1>1. /\ local[q] \in Proc /\ state[local[q]] # "new" /\ pc[local[q]] = "run"
      /\ local[q] \notin asleep
  BY ProcTypes DEF Base, Placed, KillUnlink, Runs
<1>2. /\ Unlink(local[q]) /\ asleep' \subseteq asleep
      /\ state' = [state EXCEPT ![local[q]] = "freed"]
      /\ parent' = parent /\ w4q' = w4q /\ crossed' = crossed
      /\ pc' = [pc EXCEPT ![q] = "run"] /\ local' = [local EXCEPT ![q] = None]
      /\ deadwq' \in BOOLEAN
  BY ProcTypes, Zenon DEF KillUnlink
<1> QED BY <1>1, <1>2, BaseByUnlink, Zenon
-----------------------------------------------------------------------------
(* A family stays one while its ring does. *)
LEMMA FamilyStays ==
  ASSUME NEW q \in Proc, Family(q), child'[q] = child[q],
         Children(q)' \subseteq Children(q),
         child[q] # None => child[q] \in Children(q)',
         \A S \in SUBSET Proc : RingOf(sib, child[q], S) /\ Around(q, S)
                               => RingOf(sib', child[q], S) /\ Around(q, S)'
  PROVE  Family(q)'
<1>1. CASE child[q] = None
  BY <1>1, Zenon DEF Family
<1>2. CASE child[q] # None
  <2>1. PICK S \in SUBSET Proc : RingOf(sib, child[q], S) /\ Around(q, S)
    BY <1>2, Zenon DEF Family
  <2>2. RingOf(sib', child'[q], S) /\ Around(q, S)'
    BY <2>1, Zenon
  <2> QED BY <1>2, <2>2, Zenon DEF Family
<1> QED BY <1>1, <1>2, Zenon

(* The new process joins the family of its parent and of no other. *)
LEMMA FamilyByCreateLink ==
  ASSUME Base, NEW q \in Proc, NEW p \in Proc, CreateLink(q, p), ~dangling',
         \A y \in Proc : state[y] = "live" => Family(y) /\ Read(y),
         NEW x \in Proc, state'[x] = "live"
  PROVE  Family(x)'
<1>1. /\ state[p] = "new" /\ parent[p] = q /\ state[q] = "live" /\ pc[q] = "link"
      /\ p # q /\ p # None /\ Untouched(p)
  BY ProcAssumption, Zenon DEF Base, Untouched, CreateLink, Runs
<1>2. state' = [state EXCEPT ![p] = "live"] /\ parent' = parent /\ left' = left
  BY Zenon DEF CreateLink
<1>3. \A y : Children(y)' = IF y = q THEN Children(q) \cup {p} ELSE Children(y)
  BY <1>1, <1>2, ProcTypes, Zenon DEF Children
<1>4. CASE x = p
  <2>1. Children(x)' = {}
    BY <1>1, <1>2, <1>4, Zenon DEF Children, Untouched
  <2>2. child'[x] = None
    BY <1>1, <1>4, ProcTypes, Zenon DEF CreateLink, Untouched
  <2> QED BY <2>1, <2>2, Zenon DEF Family
<1>5. CASE x = q /\ local[q] = None
  <2>1. Family(q) /\ Read(q)
    BY <1>1, <1>5, Zenon
  <2>2. Children(q)' = {p}
    BY <2>1, <1>1, <1>3, <1>5, Zenon DEF Family, Read
  <2>3. child'[q] = p /\ sib' = sib
    BY <1>5, ProcTypes, Zenon DEF CreateLink
  <2>4. sib.next[p] = p /\ sib.prev[p] = p
    BY <1>1, ProcTypes, Zenon DEF Untouched, Mutual
  <2>5. RingOf(sib', p, {p})
    BY <2>3, <2>4, Zenon DEF RingOf, Shut
  <2>6. Around(q, {p})'
    BY <1>1, <1>2, <2>2, ProcTypes, Zenon DEF Around
  <2>7. {p} \in SUBSET Proc
    BY Zenon
  <2> QED BY <1>5, <1>1, <2>2, <2>3, <2>5, <2>6, <2>7, Zenon DEF Family
<1>6. CASE x # p /\ local[q] # None
  <2> DEFINE l == local[q]
  <2>0. state[x] = "live" /\ Family(x) /\ Read(x)
    BY <1>2, <1>6, ProcTypes, Zenon
  <2>1. l \in Proc /\ state[l] # "new" /\ state[l] # "freed"
    <3>1. l \in Proc /\ state[l] # "new"
      BY <1>6, ProcTypes DEF Base, Placed
    <3>2. ~Freed({l})
      BY Zenon DEF CreateLink
    <3> QED BY <3>1, <3>2, <1>6, Zenon DEF Freed
  <2>2. l # p
    BY <1>1, <2>1, Zenon
  <2>3. sib' = list_add(sib, l, p) /\ child' = child
    BY <1>6, Zenon DEF CreateLink
  <2>4. AfterAdd(sib, l, p, sib', Proc)
    BY <2>1, <2>2, <2>3, ProcTypes, AddPointers, Zenon
  <2> HIDE DEF l
  <2>5. CASE x = q
    <3>1. parent[l] = q
      BY <2>0, <2>5, <1>1, <1>6, Zenon DEF Read, l
    <3>2. l \in Children(q)
      BY <3>1, <2>1, ProcTypes, Zenon DEF Children
    <3>3. child[q] # None
      BY <3>2, <2>0, <2>5, Zenon DEF Family
    <3>4. PICK S \in SUBSET Proc : RingOf(sib, child[q], S) /\ Around(q, S)
      BY <2>0, <2>5, <3>3, Zenon DEF Family
    <3>5. l \in S /\ p \in Proc \ S
      BY <3>2, <3>4, <1>1, Zenon DEF Around
    <3>6. RingOf(sib', child[q], S \cup {p})
      BY <3>4, <3>5, <2>4, ProcTypes, RingGrows, Zenon
    <3>7. Around(q, S \cup {p})'
      <4>1. Children(q)' \subseteq S \cup {p}
        BY <3>4, <1>3, Zenon DEF Around
      <4>2. \A y \in S \cup {p} : parent'[y] = q /\ state'[y] # "new" /\ (~left' => state'[y] # "freed")
        BY <3>4, <1>1, <1>2, ProcTypes, Zenon DEF Around
      <4> QED BY <4>1, <4>2, Zenon DEF Around
    <3>8. child'[q] \in Children(q)' /\ child'[q] = child[q]
      BY <2>0, <2>3, <2>5, <3>3, <1>3, Zenon DEF Family
    <3>9. S \cup {p} \in SUBSET Proc
      BY <3>4, Zenon
    <3> QED BY <2>5, <3>3, <3>6, <3>7, <3>8, <3>9, Zenon DEF Family
  <2>6. CASE x # q
    <3>1. Children(x)' = Children(x) /\ child'[x] = child[x]
      BY <1>3, <2>3, <2>6, Zenon
    <3>2. ASSUME NEW S \in SUBSET Proc, RingOf(sib, child[x], S), Around(x, S)
          PROVE  RingOf(sib', child[x], S) /\ Around(x, S)'
      <4>1. p \notin S
        BY <3>2, <1>1, Zenon DEF Around
      <4>2. l \notin S
        <5>1. parent[l] = q
          <6>1. Read(q)
            BY <1>1, <2>0, <2>6, Zenon
          <6> QED BY <6>1, <1>1, <1>6, Zenon DEF Read, l
        <5> QED BY <5>1, <3>2, <2>6, Zenon DEF Around
      <4>3. sib.next[l] \notin S
        <5>1. sib.prev[sib.next[l]] = l
          BY <2>1, ProcTypes, Zenon DEF Mutual
        <5> QED BY <5>1, <4>2, <3>2, Zenon DEF RingOf, Shut
      <4>4. \A y \in S : sib'.next[y] = sib.next[y] /\ sib'.prev[y] = sib.prev[y]
        BY <4>1, <4>2, <4>3, <2>4, Zenon DEF AfterAdd
      <4>5. RingOf(sib', child[x], S)
        BY <3>2, <4>4, RingStays, Zenon
      <4>6. \A y \in S : state'[y] = state[y]
        BY <4>1, <1>2, ProcTypes, Zenon
      <4> QED BY <4>5, <4>6, <3>1, <3>2, <1>2, Zenon DEF Around
    <3>3. child[x] # None => child[x] \in Children(x)'
      BY <3>1, <2>0, Zenon DEF Family
    <3> QED BY <3>1, <3>2, <3>3, <2>0, FamilyStays, Zenon
  <2> QED BY <2>5, <2>6, Zenon
<1>7. CASE x # p /\ x # q /\ local[q] = None
  <2>0. state[x] = "live" /\ Family(x)
    BY <1>2, <1>7, ProcTypes, Zenon
  <2>1. sib' = sib /\ child'[x] = child[x] /\ Children(x)' = Children(x)
    BY <1>3, <1>7, ProcTypes, Zenon DEF CreateLink
  <2>2. ASSUME NEW S \in SUBSET Proc, Around(x, S) PROVE Around(x, S)'
    <3>1. p \notin S
      BY <2>2, <1>1, Zenon DEF Around
    <3>2. \A y \in S : state'[y] = state[y]
      BY <3>1, <1>2, ProcTypes
    <3> QED BY <3>2, <2>1, <2>2, <1>2, Zenon DEF Around
  <2>3. child[x] # None => child[x] \in Children(x)'
    BY <2>0, <2>1, Zenon DEF Family
  <2> QED BY <2>0, <2>1, <2>2, <2>3, FamilyStays, Zenon
<1> QED BY <1>4, <1>5, <1>6, <1>7, Zenon

(* Unlink of the victim p: what is left of each family. *)
LEMMA FamilyByUnlink ==
  ASSUME Base, NEW p \in Proc, state[p] \in {"live", "closing"}, Unlink(p), ~dangling',
         state' = [state EXCEPT ![p] = "freed"], parent' = parent,
         NEW x \in Proc, x # p, state[x] = "live", Family(x)
  PROVE  Family(x)'
<1>1. Children(x)' = Children(x) \ {p}
  BY ProcTypes, Zenon DEF Children
<1>2. left => left'
  BY Zenon DEF Unlink
<1>3. \A y \in Proc : y # p => state'[y] = state[y]
  BY ProcTypes, Zenon
<1>4. x # None /\ p # None
  BY ProcAssumption, Zenon
<1>5. CASE parent[p] = x /\ child[x] = p
  <2>1. PICK S \in SUBSET Proc : RingOf(sib, p, S) /\ Around(x, S)
    BY <1>4, <1>5, Zenon DEF Family
  <2>2. CASE sib.next[p] = p
    <3>1. child'[x] = None
      BY <2>2, <1>4, <1>5, ProcTypes, Zenon DEF Unlink
    <3>2. sib.prev[p] = p
      BY <2>2, ProcTypes, Zenon DEF Mutual
    <3>3. {p} \in SUBSET S /\ Shut(sib, {p}) /\ p \in {p}
      BY <2>1, <2>2, <3>2, Zenon DEF Shut, RingOf
    <3>4. S = {p}
      BY <2>1, <3>3, Zenon DEF RingOf
    <3>5. Children(x)' = {}
      BY <2>1, <3>4, <1>1, Zenon DEF Around
    <3> QED BY <3>1, <3>5, Zenon DEF Family
  <2>3. CASE sib.next[p] # p
    <3> DEFINE n == sib.next[p]
    <3>1. child'[x] = n
      BY <2>3, <1>4, <1>5, ProcTypes, Zenon DEF Unlink
    <3>2. sib' = list_del(sib, p)
      BY <2>3, <1>4, <1>5, Zenon DEF Unlink
    <3>3. AfterDel(sib, p, sib', Proc)
      BY <3>2, ProcTypes, DelPointers, Zenon
    <3>4. p \in S /\ n \in S
      BY <2>1, Zenon DEF RingOf, Shut
    <3>5. RingOf(sib', n, S \ {p})
      BY <2>1, <2>3, <3>3, <3>4, ProcTypes, RingShrinks, Zenon
    <3>6. Around(x, S \ {p})'
      <4>1. \A y \in S \ {p} : y \in Proc /\ state'[y] = state[y]
        BY <1>3, <2>1, Zenon
      <4> QED BY <4>1, <2>1, <1>1, <1>2, Zenon DEF Around
    <3>7. n \in Proc /\ n # None
      BY <3>4, ProcAssumption, Zenon
    <3>8. state[n] # "freed"
      <4>1. ~Freed({sib.next[p], sib.prev[p]})
        BY <1>4, <1>5, Zenon DEF Unlink
      <4> QED BY <4>1, <3>7, Zenon DEF Freed
    <3>9. n \in Children(x)
      <4>1. parent[n] = x /\ state[n] # "new"
        BY <3>4, <2>1, Zenon DEF Around
      <4> QED BY <4>1, <3>7, <3>8, ProcTypes, Zenon DEF Children
    <3>10. n \in Children(x)' /\ S \ {p} \in SUBSET Proc
      BY <3>9, <2>3, <1>1, <2>1, Zenon
    <3> HIDE DEF n
    <3> QED BY <3>1, <3>5, <3>6, <3>7, <3>10, Zenon DEF Family
  <2> QED BY <2>2, <2>3, Zenon
<1>6. CASE parent[p] = x /\ child[x] # p
  <2>1. p \in Children(x)
    BY <1>6, Zenon DEF Children
  <2>2. child[x] # None
    BY <2>1, Zenon DEF Family
  <2>3. PICK S \in SUBSET Proc : RingOf(sib, child[x], S) /\ Around(x, S)
    BY <2>2, Zenon DEF Family
  <2>4. p \in S
    BY <2>1, <2>3, Zenon DEF Around
  <2>5. sib.next[p] # p
    <3> SUFFICES ASSUME sib.next[p] = p PROVE FALSE
      BY Zenon
    <3>1. sib.prev[p] = p
      BY ProcTypes, Zenon DEF Mutual
    <3>2. RingOf(sib, p, S)
      BY <2>3, <2>4, ProcTypes, RingFromAny, Zenon
    <3>3. {p} \in SUBSET S /\ Shut(sib, {p}) /\ p \in {p}
      BY <2>4, <3>1, Zenon DEF Shut
    <3>4. S = {p}
      BY <3>2, <3>3, Zenon DEF RingOf
    <3> QED BY <3>4, <2>3, <1>6, Zenon DEF RingOf
  <2>6. left' /\ sib' = sib /\ child' = child
    BY <1>6, <2>5, Zenon DEF Unlink
  <2>7. child[x] \in Children(x)'
    BY <2>2, <1>1, <1>6, Zenon DEF Family
  <2>8. \A y \in Proc : state[y] # "new" => state'[y] # "new"
    BY ProcTypes, Zenon
  <2>9. ASSUME NEW T \in SUBSET Proc, Around(x, T) PROVE Around(x, T)'
    BY <2>6, <2>8, <2>9, <1>1, Zenon DEF Around
  <2>10. child'[x] = child[x] /\ Children(x)' \subseteq Children(x)
    BY <2>6, <1>1, Zenon
  <2> QED BY <2>6, <2>7, <2>9, <2>10, FamilyStays, Zenon
<1>7. CASE parent[p] # x
  <2>1. child'[x] = child[x] /\ Children(x)' = Children(x)
    <3>1. p \notin Children(x)
      BY <1>7, Zenon DEF Children
    <3> QED BY <1>1, <1>7, <3>1, UnlinkPointers, Zenon
  <2>2. ASSUME NEW S \in SUBSET Proc, RingOf(sib, child[x], S), Around(x, S)
        PROVE  RingOf(sib', child[x], S) /\ Around(x, S)'
    <3>1. p \notin S
      BY <1>7, <2>2, Zenon DEF Around
    <3>2. sib.next[p] \notin S /\ sib.prev[p] \notin S
      <4>1. sib.prev[sib.next[p]] = p /\ sib.next[sib.prev[p]] = p
        BY ProcTypes, Zenon DEF Mutual
      <4> QED BY <4>1, <3>1, <2>2, Zenon DEF RingOf, Shut
    <3>3. \A y \in S : sib'.next[y] = sib.next[y] /\ sib'.prev[y] = sib.prev[y]
      BY <3>1, <3>2, UnlinkPointers DEF AfterDel
    <3>4. RingOf(sib', child[x], S)
      BY <2>2, <3>3, RingStays, Zenon
    <3>5. \A y \in S : state'[y] = state[y]
      BY <3>1, <1>3, Zenon
    <3> QED BY <3>4, <3>5, <2>1, <2>2, <1>2, Zenon DEF Around
  <2>3. child[x] # None => child[x] \in Children(x)'
    BY <2>1, Zenon DEF Family
  <2>4. Children(x)' \subseteq Children(x)
    BY <2>1, Zenon
  <2> QED BY <2>1, <2>2, <2>3, <2>4, FamilyStays, Zenon
<1> QED BY <1>5, <1>6, <1>7, Zenon
-----------------------------------------------------------------------------
(* Steps that make and free nobody: the families stay. *)
Quiet ==
  /\ child' = child /\ sib' = sib /\ left' = left
  /\ \A x \in Proc : state[x] # "new" => parent'[x] = parent[x]
  /\ \A x \in Proc : (state'[x] = "new") <=> (state[x] = "new")
  /\ \A x \in Proc : (state'[x] = "freed") <=> (state[x] = "freed")
  /\ \A x \in Proc : state'[x] = "live" => state[x] = "live"

(* Steps that write neither the pointers nor who is alive keep families. *)
LEMMA QuietChildren ==
  ASSUME Base, Base', Quiet, NEW q \in Proc
  PROVE  Children(q)' = Children(q)
<1>1. \A x \in Proc : /\ state[x] \in {"new", "live", "closing", "freed"}
                      /\ state'[x] \in {"new", "live", "closing", "freed"}
  BY Zenon DEF Base, ProcsTypeOK
<1>2. \A x \in Proc : x \in Children(q) <=> parent[x] = q /\ state[x] # "new" /\ state[x] # "freed"
  BY <1>1, Zenon DEF Children
<1>3. \A x \in Proc : x \in Children(q)' <=> parent'[x] = q /\ state'[x] # "new" /\ state'[x] # "freed"
  BY <1>1, Zenon DEF Children
<1>4. Children(q) \subseteq Proc /\ Children(q)' \subseteq Proc
  BY Zenon DEF Children
<1>5. \A x \in Proc : x \in Children(q)' <=> x \in Children(q)
  BY <1>2, <1>3, Zenon DEF Quiet
<1> QED BY <1>4, <1>5, Zenon

LEMMA QuietFamily ==
  ASSUME Base, Base', Quiet, NEW q \in Proc, Family(q)
  PROVE  Family(q)'
<1>1. Children(q)' = Children(q)
  BY QuietChildren, Zenon
<1>2. child'[q] = child[q] /\ sib' = sib /\ Children(q)' \subseteq Children(q)
  BY <1>1, Zenon DEF Quiet
<1>3. child[q] # None => child[q] \in Children(q)'
  BY <1>1, Zenon DEF Family
<1>4. ASSUME NEW S \in SUBSET Proc, Around(q, S) PROVE Around(q, S)'
  BY <1>1, <1>4, Zenon DEF Around, Quiet
<1> QED BY <1>2, <1>3, <1>4, FamilyStays, Zenon

LEMMA QuietWakes ==
  ASSUME Base, Base', Quiet, asleep' \subseteq asleep, w4q' = w4q, NEW q \in asleep', Wakes(q)
  PROVE  Wakes(q)'
<1>1. q \in Proc
  BY ProcTypes, Zenon
<1>2. Children(q)' = Children(q)
  BY <1>1, QuietChildren, Zenon
<1> QED BY <1>1, <1>2, Zenon DEF Wakes, Quiet

(* Every step keeps the invariant: one lemma for each action. *)
LEMMA ByCreateRead ==
  ASSUME ProcInv, NEW q \in Proc, NEW p \in Proc, CreateRead(q, p)
  PROVE  ProcInv'
<1>1. Base /\ Base'
  BY BaseByCreateRead, Zenon DEF ProcInv
<1>2. /\ pc[q] = "run" /\ state[p] = "new" /\ parent[p] = None /\ state[q] = "live"
      /\ parent' = [parent EXCEPT ![p] = q]
      /\ local' = [local EXCEPT ![q] = child[q]]
      /\ pc' = [pc EXCEPT ![q] = "link"]
      /\ state' = state /\ child' = child /\ sib' = sib /\ w4q' = w4q /\ asleep' = asleep
      /\ dangling' = dangling /\ deadwq' = deadwq /\ left' = left /\ crossed' = crossed
  BY Zenon DEF CreateRead, Runs
<1>3. \A x \in Proc : state[x] # "new" => parent'[x] = parent[x]
  BY <1>1, <1>2, ProcTypes, Zenon
<1>4. Quiet
  BY <1>2, <1>3, Zenon DEF Quiet
<1>5. \A x \in Proc : local[x] # None => local[x] \in Proc /\ state[local[x]] # "new"
  BY <1>1, ProcTypes DEF Base, Placed
<1>6. ASSUME NEW x \in Proc, Family(x), Read(x), state[x] = "live" PROVE Read(x)'
  <2>1. CASE x = q
    <3>1. local'[x] = child[x] /\ child'[x] = child[x]
      BY <2>1, <1>1, <1>2, ProcTypes, Zenon
    <3>2. child[x] # None => child[x] \in Proc /\ parent[child[x]] = x /\ state[child[x]] # "new"
      BY <1>6, Zenon DEF Family, Children
    <3> QED BY <3>1, <3>2, <1>3, Zenon DEF Read
  <2>2. CASE x # q
    <3>1. local'[x] = local[x] /\ pc'[x] = pc[x] /\ child'[x] = child[x]
      BY <2>2, <1>1, <1>2, ProcTypes, Zenon
    <3> QED BY <3>1, <1>3, <1>5, <1>6, Zenon DEF Read
  <2> QED BY <2>1, <2>2, Zenon
<1>7. Families'
  BY <1>1, <1>2, <1>4, <1>6, QuietFamily, Zenon DEF ProcInv, Families
<1>8. ASSUME NEW o \in Proc, Woke(o) PROVE Woke(o)'
  <2>1. pc'[o] = "unlink" => o # q /\ pc[o] = "unlink" /\ local'[o] = local[o]
    BY <1>1, <1>2, ProcTypes, Zenon
  <2>2. pc[o] = "unlink" => local[o] # None
    BY <1>1, Zenon DEF Base, Placed
  <2>3. pc'[o] = "unlink" => parent'[local[o]] = parent[local[o]]
    BY <2>1, <2>2, <1>3, <1>5, Zenon
  <2>4. state' = state /\ asleep' = asleep
    BY <1>2, Zenon
  <2> QED BY <2>1, <2>3, <2>4, <1>8, Zenon DEF Woke
<1>9. Waking'
  <2>1. asleep' \subseteq asleep
    BY <1>2, Zenon
  <2> QED BY <2>1, <1>1, <1>2, <1>4, <1>8, QuietWakes, Zenon DEF ProcInv, Waking
<1> QED BY <1>1, <1>7, <1>9, Zenon DEF ProcInv

LEMMA ByKillOpen ==
  ASSUME ProcInv, NEW q \in Proc, NEW p \in Proc, KillOpen(q, p)
  PROVE  ProcInv'
<1>1. Base /\ Base'
  BY BaseByKillOpen, Zenon DEF ProcInv
<1>2. /\ pc[q] = "run" /\ state[q] = "live"
      /\ local' = [local EXCEPT ![q] = p]
      /\ pc' = [pc EXCEPT ![q] = "kill"]
      /\ state' = state /\ child' = child /\ sib' = sib /\ w4q' = w4q /\ asleep' = asleep /\ parent' = parent
      /\ dangling' = dangling /\ deadwq' = deadwq /\ left' = left /\ crossed' = crossed
  BY Zenon DEF KillOpen, Runs
<1>3. Quiet
  BY <1>2, Zenon DEF Quiet
<1>4. ASSUME NEW x \in Proc, Read(x) PROVE Read(x)'
  BY <1>1, <1>2, <1>4, ProcTypes, Zenon DEF Read
<1>5. Families'
  BY <1>1, <1>2, <1>3, <1>4, QuietFamily, Zenon DEF ProcInv, Families
<1>6. ASSUME NEW o \in Proc, Woke(o) PROVE Woke(o)'
  BY <1>1, <1>2, <1>6, ProcTypes, Zenon DEF Woke
<1>7. Waking'
  <2>1. asleep' \subseteq asleep
    BY <1>2, Zenon
  <2> QED BY <2>1, <1>1, <1>2, <1>3, <1>6, QuietWakes, Zenon DEF ProcInv, Waking
<1> QED BY <1>1, <1>5, <1>7, Zenon DEF ProcInv

LEMMA ByKwaitRead ==
  ASSUME ProcInv, NEW q \in Proc, KwaitRead(q)
  PROVE  ProcInv'
<1>1. Base /\ Base'
  BY BaseByKwaitRead, Zenon DEF ProcInv
<1>2. /\ pc[q] = "run" /\ state[q] = "live" /\ child[q] # None
      /\ local' = [local EXCEPT ![q] = child[q]]
      /\ pc' = [pc EXCEPT ![q] = "kwait"]
      /\ state' = state /\ child' = child /\ sib' = sib /\ w4q' = w4q /\ asleep' = asleep /\ parent' = parent
      /\ dangling' = dangling /\ deadwq' = deadwq /\ left' = left /\ crossed' = crossed
  BY Zenon DEF KwaitRead, Runs
<1>3. Quiet
  BY <1>2, Zenon DEF Quiet
<1>4. ASSUME NEW x \in Proc, Family(x), Read(x) PROVE Read(x)'
  <2>1. child[x] # None => parent[child[x]] = x
    BY <1>4, Zenon DEF Family, Children
  <2> QED BY <2>1, <1>1, <1>2, <1>4, ProcTypes, Zenon DEF Read
<1>5. Families'
  BY <1>1, <1>2, <1>3, <1>4, QuietFamily, Zenon DEF ProcInv, Families
<1>6. ASSUME NEW o \in Proc, Woke(o) PROVE Woke(o)'
  BY <1>1, <1>2, <1>6, ProcTypes, Zenon DEF Woke
<1>7. Waking'
  <2>1. asleep' \subseteq asleep
    BY <1>2, Zenon
  <2> QED BY <2>1, <1>1, <1>2, <1>3, <1>6, QuietWakes, Zenon DEF ProcInv, Waking
<1> QED BY <1>1, <1>5, <1>7, Zenon DEF ProcInv

LEMMA ByCreateLink ==
  ASSUME ProcInv, NEW q \in Proc, NEW p \in Proc, CreateLink(q, p)
  PROVE  ProcInv'
<1>1. Base /\ Base'
  BY BaseByCreateLink, Zenon DEF ProcInv
<1>2. /\ pc[q] = "link" /\ q \notin asleep /\ state[p] = "new" /\ parent[p] = q /\ state[q] = "live"
      /\ state' = [state EXCEPT ![p] = "live"]
      /\ pc' = [pc EXCEPT ![q] = "run"]
      /\ local' = [local EXCEPT ![q] = None]
      /\ parent' = parent /\ w4q' = w4q /\ asleep' = asleep /\ crossed' = crossed
      /\ (dangling => dangling')
  BY Zenon DEF CreateLink, Runs
<1>3. Untouched(p) /\ pc[p] = "run" /\ p # q
  <2>1. Untouched(p) /\ Placed(p) /\ p # q
    BY <1>1, <1>2, Zenon DEF Base
  <2>2. state[p] # "live"
    BY <1>2, Zenon
  <2> QED BY <2>1, <2>2, Zenon DEF Placed
<1>4. \A x \in Proc : local[x] # None => local[x] \in Proc /\ local[x] # p
  BY <1>1, <1>2, ProcTypes DEF Base, Placed
<1>5. ASSUME NEW x \in Proc, state'[x] = "live", x # p => Read(x) PROVE Read(x)'
  <2>1. CASE x = q \/ x = p
    <3>1. pc'[x] = "run"
      BY <2>1, <1>1, <1>2, <1>3, ProcTypes, Zenon
    <3> QED BY <3>1, Zenon DEF Read
  <2>2. CASE x # q /\ x # p
    <3>1. local'[x] = local[x] /\ pc'[x] = pc[x] /\ parent' = parent
      BY <2>2, <1>1, <1>2, ProcTypes, Zenon
    <3>2. child'[x] = child[x]
      BY <2>2, <1>1, ProcTypes, Zenon DEF CreateLink
    <3> QED BY <3>1, <3>2, <2>2, <1>5, Zenon DEF Read
  <2> QED BY <2>1, <2>2, Zenon
<1>6. Families'
  <2> SUFFICES ASSUME ~dangling', NEW x \in Proc, state'[x] = "live" PROVE Family(x)' /\ Read(x)'
    BY Zenon DEF Families
  <2>1. \A y \in Proc : state[y] = "live" => Family(y) /\ Read(y)
    BY <1>2, Zenon DEF ProcInv, Families
  <2>2. Family(x)'
    BY <2>1, <1>1, FamilyByCreateLink, Zenon
  <2>3. x # p => state[x] = "live"
    BY <1>1, <1>2, ProcTypes, Zenon
  <2> QED BY <2>1, <2>2, <2>3, <1>5, Zenon
<1>7. Waking'
  <2> SUFFICES ASSUME ~dangling', ~crossed'
               PROVE  (\A x \in asleep' : Wakes(x)') /\ \A o \in Proc : Woke(o)'
    BY Zenon DEF Waking
  <2>1. (\A x \in asleep : Wakes(x)) /\ \A o \in Proc : Woke(o)
    BY <1>2, Zenon DEF ProcInv, Waking
  <2>2. ASSUME NEW x \in asleep' PROVE Wakes(x)'
    <3>1. x \in Proc /\ x # q /\ x # p /\ x \in asleep
      BY <1>1, <1>2, <1>3, ProcTypes, Zenon DEF Untouched
    <3>2. Children(x)' = Children(x)
      BY <3>1, <1>1, <1>2, ProcTypes, Zenon DEF Children
    <3>3. state'[x] = state[x]
      BY <3>1, <1>1, <1>2, ProcTypes, Zenon
    <3> QED BY <3>1, <3>2, <3>3, <2>1, <1>2, Zenon DEF Wakes
  <2>3. ASSUME NEW o \in Proc PROVE Woke(o)'
    <3>1. pc'[o] = "unlink" => pc[o] = "unlink" /\ local'[o] = local[o] /\ local[o] # None
      BY <1>1, <1>2, ProcTypes DEF Base, Placed
    <3>2. pc'[o] = "unlink" => state'[local[o]] = state[local[o]]
      BY <3>1, <1>1, <1>2, <1>4, ProcTypes, Zenon
    <3>3. parent' = parent /\ asleep' = asleep
      BY <1>2, Zenon
    <3> QED BY <3>1, <3>2, <3>3, <2>1, Zenon DEF Woke
  <2> QED BY <2>2, <2>3, Zenon
<1> QED BY <1>1, <1>6, <1>7, Zenon DEF ProcInv

LEMMA ByKillShutdown ==
  ASSUME ProcInv, NEW q \in Proc, KillShutdown(q)
  PROVE  ProcInv'
<1>1. Base /\ Base'
  BY BaseByKillShutdown, Zenon DEF ProcInv
<1>2. PICK p \in Proc : p = local[q] /\ state[p] # "new" /\ state[q] = "live" /\ pc[q] = "kill"
  BY <1>1, ProcTypes DEF Base, Placed, KillShutdown, Runs
<1>3. /\ state' = [state EXCEPT ![p] = IF @ = "freed" THEN @ ELSE "closing"]
      /\ asleep' = asleep \ {p}
      /\ pc' = [pc EXCEPT ![q] = "wake", ![p] = "run"]
      /\ local' = [local EXCEPT ![p] = None]
      /\ parent' = parent /\ child' = child /\ sib' = sib /\ w4q' = w4q /\ left' = left
      /\ (dangling => dangling') /\ (crossed => crossed')
  BY <1>2, Zenon DEF KillShutdown
<1>4. Quiet
  <2>1. \A x \in Proc : /\ (state'[x] = "new") <=> (state[x] = "new")
                        /\ (state'[x] = "freed") <=> (state[x] = "freed")
                        /\ (state'[x] = "live" => state[x] = "live")
    BY <1>1, <1>2, <1>3, ProcTypes, Zenon
  <2> QED BY <2>1, <1>3, Zenon DEF Quiet
<1>5. ASSUME NEW x \in Proc, Read(x), state'[x] = "live" PROVE Read(x)'
  <2>1. x # p
    BY <1>1, <1>2, <1>3, <1>5, ProcTypes, Zenon
  <2>2. local'[x] = local[x] /\ child'[x] = child[x] /\ parent' = parent
    BY <2>1, <1>1, <1>3, ProcTypes, Zenon
  <2>3. pc'[x] \in {"link", "kwait"} => pc'[x] = pc[x]
    BY <2>1, <1>1, <1>3, ProcTypes, Zenon
  <2> QED BY <2>2, <2>3, <1>5, Zenon DEF Read
<1>6. Families'
  <2> SUFFICES ASSUME ~dangling', NEW x \in Proc, state'[x] = "live" PROVE Family(x)' /\ Read(x)'
    BY Zenon DEF Families
  <2>1. state[x] = "live" /\ ~dangling
    BY <1>3, <1>4, Zenon DEF Quiet
  <2>2. Family(x) /\ Read(x)
    BY <2>1, Zenon DEF ProcInv, Families
  <2> QED BY <2>2, <1>1, <1>4, <1>5, QuietFamily, Zenon
<1>7. Waking'
  <2> SUFFICES ASSUME ~dangling', ~crossed'
               PROVE  (\A x \in asleep' : Wakes(x)') /\ \A o \in Proc : Woke(o)'
    BY Zenon DEF Waking
  <2>1. (\A x \in asleep : Wakes(x)) /\ \A o \in Proc : Woke(o)
    BY <1>3, Zenon DEF ProcInv, Waking
  <2>2. asleep' \subseteq asleep /\ w4q' = w4q
    BY <1>3, Zenon
  <2>3. ASSUME NEW x \in asleep' PROVE Wakes(x)'
    BY <2>1, <2>2, <1>1, <1>4, QuietWakes, Zenon
  <2>4. ASSUME NEW o \in Proc PROVE Woke(o)'
    <3>1. pc'[o] = "unlink" => pc[o] = "unlink" /\ local'[o] = local[o] /\ local[o] \in Proc
      BY <1>1, <1>2, <1>3, ProcTypes DEF Base, Placed
    <3>2. \A x \in Proc : state'[x] # "freed" => state[x] # "freed"
      BY <1>4, Zenon DEF Quiet
    <3>3. parent' = parent
      BY <1>3, Zenon
    <3> QED BY <3>1, <3>2, <3>3, <2>1, <2>2, Zenon DEF Woke
  <2> QED BY <2>3, <2>4, Zenon
<1> QED BY <1>1, <1>6, <1>7, Zenon DEF ProcInv

LEMMA ByKillWake ==
  ASSUME ProcInv, NEW q \in Proc, KillWake(q)
  PROVE  ProcInv'
<1>1. Base /\ Base'
  BY BaseByKillWake, Zenon DEF ProcInv
<1>2. PICK p \in Proc : /\ p = local[q] /\ state[p] \in {"closing", "freed"} /\ state[q] = "live"
                       /\ pc[q] = "wake"
  BY <1>1, ProcTypes DEF Base, Placed, KillWake, Runs
<1>3. /\ asleep' = asleep \ Woken(p)
      /\ dangling' = (dangling \/ Freed({p}))
      /\ pc' = [pc EXCEPT ![q] = "unlink"]
      /\ state' = state /\ parent' = parent /\ child' = child /\ sib' = sib /\ w4q' = w4q
      /\ local' = local /\ left' = left /\ crossed' = crossed
  BY <1>2, Zenon DEF KillWake
<1>4. Quiet
  BY <1>3, Zenon DEF Quiet
<1>5. ASSUME NEW x \in Proc, Read(x) PROVE Read(x)'
  <2>1. pc'[x] \in {"link", "kwait"} => pc'[x] = pc[x]
    BY <1>1, <1>3, ProcTypes, Zenon
  <2>2. local' = local /\ child' = child /\ parent' = parent
    BY <1>3, Zenon
  <2> QED BY <2>1, <2>2, <1>5, Zenon DEF Read
<1>6. Families'
  <2> SUFFICES ASSUME ~dangling', NEW x \in Proc, state'[x] = "live" PROVE Family(x)' /\ Read(x)'
    BY Zenon DEF Families
  <2>1. state[x] = "live" /\ ~dangling
    BY <1>3, <1>4, Zenon DEF Quiet
  <2>2. Family(x) /\ Read(x)
    BY <2>1, Zenon DEF ProcInv, Families
  <2> QED BY <2>2, <1>1, <1>4, <1>5, QuietFamily, Zenon
<1>7. Waking'
  <2> SUFFICES ASSUME ~dangling', ~crossed'
               PROVE  (\A x \in asleep' : Wakes(x)') /\ \A o \in Proc : Woke(o)'
    BY Zenon DEF Waking
  <2>1. (\A x \in asleep : Wakes(x)) /\ \A o \in Proc : Woke(o)
    BY <1>3, Zenon DEF ProcInv, Waking
  <2>2. asleep' \subseteq asleep /\ w4q' = w4q
    BY <1>3, Zenon
  <2>3. ASSUME NEW x \in asleep' PROVE Wakes(x)'
    BY <2>1, <2>2, <1>1, <1>4, QuietWakes, Zenon
  <2>4. ASSUME NEW o \in Proc PROVE Woke(o)'
    <3>1. CASE o = q
      <4>1. state[p] = "closing"
        <5>1. ~Freed({p}) /\ p # None
          BY <1>3, ProcAssumption, Zenon
        <5>2. state[p] # "freed"
          BY <5>1, Zenon DEF Freed
        <5> QED BY <5>2, <1>2, Zenon
      <4>2. ASSUME parent[p] \in asleep' PROVE FALSE
        <5>1. parent[p] \in asleep /\ parent[p] \in Proc /\ parent[p] # w4q[p]
          BY <4>2, <1>1, <1>3, ProcTypes, Zenon DEF Woken
        <5>2. state[parent[p]] = "live"
          BY <5>1, <1>1, Zenon DEF Base, Placed
        <5>3. p \in Children(parent[p])
          BY <4>1, Zenon DEF Children
        <5> QED BY <5>1, <5>2, <5>3, <2>1, Zenon DEF Wakes
      <4>3. local'[o] = p /\ parent' = parent
        BY <3>1, <1>2, <1>3, Zenon
      <4> QED BY <4>2, <4>3, Zenon DEF Woke
    <3>2. CASE o # q
      <4>1. pc'[o] = pc[o] /\ local' = local /\ state' = state /\ parent' = parent
        BY <3>2, <1>1, <1>3, ProcTypes, Zenon
      <4> QED BY <4>1, <2>1, <2>2, Zenon DEF Woke
    <3> QED BY <3>1, <3>2, Zenon
  <2> QED BY <2>3, <2>4, Zenon
<1> QED BY <1>1, <1>6, <1>7, Zenon DEF ProcInv

(* What is common to kexit and the end of kterminate_proc. *)
LEMMA FamiliesByUnlink ==
  ASSUME ProcInv, Base', NEW p \in Proc, NEW q \in Proc, state[p] \in {"live", "closing", "freed"}, Unlink(p),
         state' = [state EXCEPT ![p] = "freed"], parent' = parent,
         \/ pc' = pc /\ local' = local
         \/ pc' = [pc EXCEPT ![q] = "run"] /\ local' = [local EXCEPT ![q] = None]
  PROVE  /\ Families'
         /\ ~dangling' => ~dangling /\ state[p] # "freed" /\ \A x \in Proc : x # p => state'[x] = state[x]
         /\ \A x \in Proc : Children(x)' = Children(x) \ {p}
<1>1. Base
  BY Zenon DEF ProcInv
<1>2. ~dangling' => ~dangling /\ state[p] # "freed"
  <2>1. p # None
    BY ProcAssumption, Zenon
  <2> QED BY <2>1, Zenon DEF Unlink, Freed
<1>3. \A x \in Proc : x # p => state'[x] = state[x]
  BY <1>1, ProcTypes, Zenon
<1>4. \A x \in Proc : Children(x)' = Children(x) \ {p}
  BY <1>1, ProcTypes, Zenon DEF Children
<1>5. ASSUME NEW x \in Proc, Read(x), x # p PROVE Read(x)'
  <2>1. pc'[x] # "run" => pc'[x] = pc[x] /\ local'[x] = local[x]
    BY <1>1, ProcTypes, Zenon
  <2>2. child[x] = None => child'[x] = None
    <3>1. child[x] = None => child[x] # p
      BY ProcAssumption, Zenon
    <3>2. child[x] # p => child'[x] = child[x]
      <4>1. state[p] # "new"
        BY Zenon
      <4> QED BY <4>1, <1>1, UnlinkPointers, Zenon
    <3> QED BY <3>1, <3>2, Zenon
  <2> QED BY <2>1, <2>2, <1>5, Zenon DEF Read
<1>6. ASSUME ~dangling', NEW x \in Proc, state'[x] = "live" PROVE Family(x)' /\ Read(x)'
  <2>1. x # p
    BY <1>1, <1>6, ProcTypes, Zenon
  <2>2. state[x] = "live" /\ state[p] \in {"live", "closing"} /\ ~dangling
    BY <2>1, <1>2, <1>3, <1>6, Zenon
  <2>3. Family(x) /\ Read(x)
    BY <2>2, Zenon DEF ProcInv, Families
  <2> QED BY <2>1, <2>2, <2>3, <1>1, <1>5, <1>6, FamilyByUnlink, Zenon
<1>7. Families'
  BY <1>6, Zenon DEF Families
<1> QED BY <1>2, <1>3, <1>4, <1>7, Zenon

LEMMA ByKexit ==
  ASSUME ProcInv, NEW p \in Proc, Kexit(p)
  PROVE  ProcInv'
<1>1. Base /\ Base'
  BY BaseByKexit, Zenon DEF ProcInv
<1>2. /\ state[p] = "live" /\ Unlink(p) /\ asleep' = asleep \ Woken(p) /\ p \notin asleep
      /\ state' = [state EXCEPT ![p] = "freed"] /\ parent' = parent
      /\ pc' = pc /\ local' = local /\ w4q' = w4q /\ crossed' = crossed
  BY Zenon DEF Kexit, Runs
<1>3. state[p] \in {"live", "closing", "freed"}
  BY <1>2, Zenon
<1>4. /\ Families'
      /\ ~dangling' => ~dangling /\ state[p] # "freed" /\ \A x \in Proc : x # p => state'[x] = state[x]
      /\ \A x \in Proc : Children(x)' = Children(x) \ {p}
  BY <1>1, <1>2, <1>3, FamiliesByUnlink, Zenon
<1>5. Waking'
  <2> SUFFICES ASSUME ~dangling', ~crossed'
               PROVE  (\A x \in asleep' : Wakes(x)') /\ \A o \in Proc : Woke(o)'
    BY Zenon DEF Waking
  <2>1. (\A x \in asleep : Wakes(x)) /\ \A o \in Proc : Woke(o)
    BY <1>2, <1>4, Zenon DEF ProcInv, Waking
  <2>2. ASSUME NEW x \in asleep' PROVE Wakes(x)'
    <3>1. x \in asleep /\ x \in Proc /\ x # p /\ x # w4q[p]
      BY <1>1, <1>2, ProcTypes, Zenon DEF Woken
    <3>2. state'[x] = state[x]
      BY <3>1, <1>4, Zenon
    <3>3. state[x] = "live" => p \notin Children(x)
      BY <3>1, <2>1, Zenon DEF Wakes
    <3>4. state[x] = "live" => Children(x)' = Children(x)
      BY <3>1, <3>3, <1>4, Zenon
    <3> QED BY <3>1, <3>2, <3>4, <2>1, <1>2, Zenon DEF Wakes
  <2>3. ASSUME NEW o \in Proc PROVE Woke(o)'
    <3>1. pc[o] = "unlink" => local[o] \in Proc
      BY <1>1, ProcTypes DEF Base, Placed
    <3>2. \A x \in Proc : state'[x] # "freed" => state[x] # "freed"
      BY <1>1, <1>2, ProcTypes, Zenon
    <3>3. asleep' \subseteq asleep
      BY <1>2, Zenon
    <3> QED BY <3>1, <3>2, <3>3, <2>1, <1>2, Zenon DEF Woke
  <2> QED BY <2>2, <2>3, Zenon
<1> QED BY <1>1, <1>4, <1>5, Zenon DEF ProcInv

LEMMA ByKillUnlink ==
  ASSUME ProcInv, NEW q \in Proc, KillUnlink(q)
  PROVE  ProcInv'
<1>1. Base /\ Base'
  BY BaseByKillUnlink, Zenon DEF ProcInv
<1>2. PICK p \in Proc : /\ p = local[q] /\ state[p] \in {"closing", "freed"} /\ state[q] = "live"
                       /\ pc[q] = "unlink"
  BY <1>1, ProcTypes DEF Base, Placed, KillUnlink, Runs
<1>3. /\ Unlink(p) /\ asleep' = asleep
      /\ state' = [state EXCEPT ![p] = "freed"] /\ parent' = parent
      /\ pc' = [pc EXCEPT ![q] = "run"] /\ local' = [local EXCEPT ![q] = None]
      /\ w4q' = w4q /\ crossed' = crossed
  BY <1>2, Zenon DEF KillUnlink
<1>4. state[p] \in {"live", "closing", "freed"}
  BY <1>2, Zenon
<1>5. /\ Families'
      /\ ~dangling' => ~dangling /\ state[p] # "freed" /\ \A x \in Proc : x # p => state'[x] = state[x]
      /\ \A x \in Proc : Children(x)' = Children(x) \ {p}
  BY <1>1, <1>3, <1>4, FamiliesByUnlink, Zenon
<1>6. Waking'
  <2> SUFFICES ASSUME ~dangling', ~crossed'
               PROVE  (\A x \in asleep' : Wakes(x)') /\ \A o \in Proc : Woke(o)'
    BY Zenon DEF Waking
  <2>1. (\A x \in asleep : Wakes(x)) /\ \A o \in Proc : Woke(o)
    BY <1>3, <1>5, Zenon DEF ProcInv, Waking
  <2>2. ASSUME NEW x \in asleep' PROVE Wakes(x)'
    <3>1. x \in asleep /\ x \in Proc
      BY <1>1, <1>3, ProcTypes, Zenon
    <3>2. x # p
      <4>1. state[x] = "live"
        BY <3>1, <1>1, Zenon DEF Base, Placed
      <4> QED BY <4>1, <1>2, Zenon
    <3>3. state'[x] = state[x]
      BY <3>1, <3>2, <1>5, Zenon
    <3>4. p \notin Children(x)
      <4>1. parent[p] \notin asleep
        BY <2>1, <1>2, <1>5, Zenon DEF Woke
      <4> QED BY <4>1, <3>1, Zenon DEF Children
    <3>5. Children(x)' = Children(x)
      BY <3>1, <3>4, <1>5, Zenon
    <3> QED BY <3>1, <3>3, <3>5, <2>1, <1>3, Zenon DEF Wakes
  <2>3. ASSUME NEW o \in Proc PROVE Woke(o)'
    <3>1. pc'[o] = "unlink" => pc[o] = "unlink" /\ local'[o] = local[o] /\ local[o] \in Proc
      BY <1>1, <1>3, ProcTypes DEF Base, Placed
    <3>2. \A x \in Proc : state'[x] # "freed" => state[x] # "freed"
      BY <1>1, <1>3, ProcTypes, Zenon
    <3>3. asleep' = asleep /\ parent' = parent
      BY <1>3, Zenon
    <3> QED BY <3>1, <3>2, <3>3, <2>1, Zenon DEF Woke
  <2> QED BY <2>2, <2>3, Zenon
<1> QED BY <1>1, <1>5, <1>6, Zenon DEF ProcInv

LEMMA ByKwaitBlock ==
  ASSUME ProcInv, NEW q \in Proc, KwaitBlock(q)
  PROVE  ProcInv'
<1>1. Base /\ Base'
  BY BaseByKwaitBlock, Zenon DEF ProcInv
<1>2. PICK l \in Proc : l = local[q] /\ state[l] # "new" /\ state[q] = "live" /\ pc[q] = "kwait"
  BY <1>1, ProcTypes DEF Base, Placed, KwaitBlock, Runs
<1>3. /\ w4q' = [p \in Proc |-> IF p \in Ring(l) THEN q ELSE w4q[p]]
      /\ asleep' = asleep \cup {q}
      /\ dangling' = (dangling \/ Freed(Ring(l)))
      /\ crossed' = (crossed \/ Past(Ring(l)))
      /\ pc' = [pc EXCEPT ![q] = "run"]
      /\ local' = [local EXCEPT ![q] = None]
      /\ state' = state /\ parent' = parent /\ child' = child /\ sib' = sib /\ left' = left
  BY <1>2, Zenon DEF KwaitBlock
<1>4. Quiet
  BY <1>3, Zenon DEF Quiet
<1>5. ASSUME NEW x \in Proc, Read(x) PROVE Read(x)'
  <2>1. pc'[x] # "run" => pc'[x] = pc[x] /\ local'[x] = local[x]
    BY <1>1, <1>3, ProcTypes, Zenon
  <2>2. child' = child /\ parent' = parent
    BY <1>3, Zenon
  <2> QED BY <2>1, <2>2, <1>5, Zenon DEF Read
<1>6. Families'
  <2> SUFFICES ASSUME ~dangling', NEW x \in Proc, state'[x] = "live" PROVE Family(x)' /\ Read(x)'
    BY Zenon DEF Families
  <2>1. state[x] = "live" /\ ~dangling
    BY <1>3, Zenon
  <2>2. Family(x) /\ Read(x)
    BY <2>1, Zenon DEF ProcInv, Families
  <2> QED BY <2>2, <1>1, <1>4, <1>5, QuietFamily, Zenon
<1>7. Waking'
  <2> SUFFICES ASSUME ~dangling', ~crossed'
               PROVE  (\A x \in asleep' : Wakes(x)') /\ \A o \in Proc : Woke(o)'
    BY Zenon DEF Waking
  <2>1. (\A x \in asleep : Wakes(x)) /\ \A o \in Proc : Woke(o)
    BY <1>3, Zenon DEF ProcInv, Waking
  <2>2. Family(q) /\ Read(q)
    BY <1>2, <1>3, Zenon DEF ProcInv, Families
  <2>3. RingOf(sib, l, Ring(l))
    BY <1>1, ProcTypes, RingWalk, Zenon
  <2>4. l # None /\ state[l] # "freed"
    <3>1. l \in Ring(l) /\ l # None
      BY <2>3, ProcAssumption, Zenon DEF RingOf
    <3> QED BY <3>1, <1>3, Zenon DEF Freed
  <2>5. l \in Children(q)
    <3>1. parent[l] = q
      BY <1>2, <2>2, <2>4, Zenon DEF Read
    <3> QED BY <3>1, <2>4, <1>1, <1>2, ProcTypes, Zenon DEF Children
  <2>6. child[q] # None
    BY <2>2, <2>5, Zenon DEF Family
  <2>7. PICK S \in SUBSET Proc : RingOf(sib, child[q], S) /\ Around(q, S)
    BY <2>2, <2>6, Zenon DEF Family
  <2>8. l \in S
    BY <2>5, <2>7, Zenon DEF Around
  <2>9. RingOf(sib, l, S)
    BY <2>7, <2>8, <1>1, ProcTypes, RingFromAny, Zenon
  <2>10. Ring(l) = S
    BY <2>3, <2>9, RingUnique, Zenon
  <2>11. ASSUME NEW x \in asleep' PROVE Wakes(x)'
    <3>1. x \in Proc
      BY <1>1, <1>3, ProcTypes, Zenon
    <3>2. Children(x)' = Children(x) /\ Children(x) \subseteq Proc
      BY <3>1, <1>1, <1>4, QuietChildren, Zenon DEF Children
    <3>3. CASE x = q
      <4>1. \A p \in Children(q) : w4q'[p] = q
        BY <3>2, <3>3, <2>7, <2>10, <1>3, Zenon DEF Around
      <4> QED BY <3>2, <3>3, <4>1, <2>5, Zenon DEF Wakes
    <3>4. CASE x # q
      <4>1. \A p \in Children(x) : p \in Proc /\ parent[p] = x
        BY Zenon DEF Children
      <4>2. \A p \in Children(x) : p \notin Ring(l)
        BY <4>1, <3>4, <2>7, <2>10, Zenon DEF Around
      <4>3. \A p \in Children(x) : w4q'[p] = w4q[p]
        BY <4>1, <4>2, <1>3, Zenon
      <4>4. x \in asleep
        BY <3>4, <1>3, Zenon
      <4> QED BY <3>2, <4>3, <4>4, <2>1, <1>3, Zenon DEF Wakes
    <3> QED BY <3>3, <3>4, Zenon
  <2>12. ASSUME NEW o \in Proc PROVE Woke(o)'
    <3> SUFFICES ASSUME pc'[o] = "unlink", state'[local'[o]] # "freed", parent'[local'[o]] \in asleep'
                 PROVE  FALSE
      BY Zenon DEF Woke
    <3>1. o # q /\ pc[o] = "unlink" /\ local'[o] = local[o]
      BY <1>1, <1>3, ProcTypes, Zenon
    <3>2. local[o] \in Proc /\ state[local[o]] # "freed" /\ state[local[o]] # "new"
      BY <3>1, <1>1, <1>3, ProcTypes DEF Base, Placed
    <3>3. parent[local[o]] \notin asleep
      BY <3>1, <3>2, <2>1, Zenon DEF Woke
    <3>4. parent[local[o]] = q
      <4>1. parent' = parent /\ asleep' = asleep \cup {q}
        BY <1>3, Zenon
      <4> QED BY <4>1, <3>1, <3>3, Zenon
    <3>5. local[o] \in Children(q)
      BY <3>2, <3>4, <1>1, ProcTypes, Zenon DEF Children
    <3>6. local[o] \in Ring(l)
      BY <3>5, <2>7, <2>10, Zenon DEF Around
    <3> QED BY <3>1, <3>6, <1>3, Zenon DEF Past
  <2> QED BY <2>11, <2>12, Zenon
<1> QED BY <1>1, <1>6, <1>7, Zenon DEF ProcInv

(* The invariant holds at first, is kept, and gives what is promised. *)
LEMMA ProcStarts == ProcsInit => ProcInv
<1> SUFFICES ASSUME ProcsInit PROVE ProcInv
  BY Zenon
<1>1. Base
  BY BaseInit, Zenon
<1>2. \A q \in Proc : Children(q) = {} /\ child[q] = None /\ pc[q] = "run"
  BY ProcAssumption, Zenon DEF ProcsInit, Children
<1>3. \A q \in Proc : Family(q) /\ Read(q) /\ Woke(q)
  BY <1>2, Zenon DEF Family, Read, Woke
<1>4. asleep = {}
  BY Zenon DEF ProcsInit
<1> QED BY <1>1, <1>3, <1>4, Zenon DEF ProcInv, Families, Waking

LEMMA ProcKeeps == ProcInv /\ [ProcsNext]_procVars => ProcInv'
<1> SUFFICES ASSUME ProcInv, [ProcsNext]_procVars PROVE ProcInv'
  BY Zenon
<1>1. CASE UNCHANGED procVars
  <2>1. /\ state' = state /\ parent' = parent /\ child' = child /\ sib' = sib /\ w4q' = w4q
        /\ asleep' = asleep /\ pc' = pc /\ local' = local /\ dangling' = dangling
        /\ deadwq' = deadwq /\ left' = left /\ crossed' = crossed
    BY <1>1, Zenon DEF procVars
  <2>2. Base'
    <3>1. Base
      BY Zenon DEF ProcInv
    <3> QED BY <2>1, <3>1 DEF Base, ProcsTypeOK, Mutual, Untouched, Placed
  <2>3. Quiet
    BY <2>1, Zenon DEF Quiet
  <2>4. \A x \in Proc : Family(x) => Family(x)'
    BY <2>2, <2>3, QuietFamily, Zenon DEF ProcInv
  <2>5. \A x \in Proc : (Read(x) => Read(x)') /\ (Woke(x) => Woke(x)')
    BY <2>1, Zenon DEF Read, Woke
  <2>6. asleep' \subseteq asleep
    BY <2>1, Zenon
  <2>7. \A x \in asleep' : Wakes(x) => Wakes(x)'
    BY <2>1, <2>2, <2>3, <2>6, QuietWakes, Zenon DEF ProcInv
  <2>8. Families'
    BY <2>1, <2>4, <2>5, Zenon DEF ProcInv, Families
  <2>9. Waking'
    BY <2>1, <2>5, <2>7, Zenon DEF ProcInv, Waking
  <2> QED BY <2>2, <2>8, <2>9, Zenon DEF ProcInv
<1>2. CASE ProcsNext
  <2>1. PICK q \in Proc :
          \/ \E p \in Proc : CreateRead(q, p)
          \/ \E p \in Proc : CreateLink(q, p)
          \/ Kexit(q)
          \/ \E p \in Proc : KillOpen(q, p)
          \/ KillShutdown(q)
          \/ KillWake(q)
          \/ KillUnlink(q)
          \/ KwaitRead(q)
          \/ KwaitBlock(q)
    BY <1>2, Zenon DEF ProcsNext
  <2> QED BY <2>1, ByCreateRead, ByCreateLink, ByKexit, ByKillOpen, ByKillShutdown, ByKillWake,
             ByKillUnlink, ByKwaitRead, ByKwaitBlock, Zenon
<1> QED BY <1>1, <1>2, Zenon

LEMMA ProcMeans == ProcInv => FamiliesHold
<1> SUFFICES ASSUME ProcInv PROVE FamiliesHold
  BY Zenon
<1>1. Base /\ ProcsTypeOK
  BY Zenon DEF ProcInv, Base
<1>2. ASSUME ~dangling, ~left, NEW q \in Proc, state[q] = "live"
      PROVE  IF child[q] = None THEN Children(q) = {} ELSE Ring(child[q]) = Children(q)
  <2>1. Family(q)
    BY <1>2, Zenon DEF ProcInv, Families
  <2>2. ASSUME child[q] # None PROVE Ring(child[q]) = Children(q)
    <3>1. PICK S \in SUBSET Proc : RingOf(sib, child[q], S) /\ Around(q, S)
      BY <2>1, <2>2, Zenon DEF Family
    <3>2. child[q] \in Proc
      BY <3>1, Zenon DEF RingOf
    <3>3. RingOf(sib, child[q], Ring(child[q]))
      BY <3>2, <1>1, ProcTypes, RingWalk, Zenon
    <3>4. Ring(child[q]) = S
      BY <3>1, <3>3, RingUnique, Zenon
    <3>5. ASSUME NEW p \in S PROVE p \in Children(q)
      <4>1. p \in Proc /\ parent[p] = q /\ state[p] # "new" /\ state[p] # "freed"
        BY <3>1, <1>2, Zenon DEF Around
      <4> QED BY <4>1, <1>1, ProcTypes, Zenon DEF Children
    <3>6. Children(q) \subseteq S
      BY <3>1, Zenon DEF Around
    <3> QED BY <3>4, <3>5, <3>6, Zenon
  <2> QED BY <2>1, <2>2, Zenon DEF Family
<1>3. FamilyKept
  BY <1>2, Zenon DEF FamilyKept
<1>4. EachChildWakes
  BY Zenon DEF ProcInv, Waking, Wakes, EachChildWakes
<1> QED BY <1>1, <1>3, <1>4, Zenon DEF FamiliesHold

(* For any number of processes: parents and children agree, and a parent   *)
(* asleep in kwait is woken by each of its children, whatever the order in *)
(* which they end (kcreate_process, kwait, kterminate_proc, kclose_proc).  *)
THEOREM FamiliesAlwaysHold == ProcsSpec => []FamiliesHold
<1>1. ProcsInit => ProcInv
  BY ProcStarts, Zenon
<1>2. ProcInv /\ [ProcsNext]_procVars => ProcInv'
  BY ProcKeeps, Zenon
<1>3. ProcInv => FamiliesHold
  BY ProcMeans, Zenon
<1> QED BY <1>1, <1>2, <1>3, PTL DEF ProcsSpec
=============================================================================
