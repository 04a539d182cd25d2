------------------------------- MODULE Buddy -------------------------------
(***************************************************************************)
(* The page allocator of Kernel/mm.c: buddy_init, buddy_alloc with expand, *)
(* buddy_free, and their callers alloc_pages_buddy and free_pages_buddy,   *)
(* which run with interrupts off.  Pages are numbered from `start'; the    *)
(* free lists are pointer lists, so linking a page twice does what list.h  *)
(* then does.  Only the first block of the highest order is put on a list; *)
(* taking one links the block after it.                                    *)
(***************************************************************************)
EXTENDS ListOps, Integers, FiniteSets

CONSTANTS MaxOrder,   \* BUDDY_CHUNK_NUM - 1
          LastPage,       \* the page `end', the last one buddy_init marks
          Skew        \* start - buddy_map_base, modulo the largest block

ASSUME BuddyAssumption ==
  /\ MaxOrder \in Nat
  /\ LastPage \in Nat
  /\ Skew \subseteq 0..(2^MaxOrder - 1)

Order == 0..MaxOrder
Page == 0..LastPage
FreeList(k) == -1 - k                 \* &mm_buddy_array[k].list
Block(p, k) == p..(p + 2^k - 1)

VARIABLES links,     \* the list entries of the pages and the list heads
          buddy,     \* the pages with PAGE_BUDDY set
          private,
          count,
          free_num,
          skew,
          lent,      \* <<p, k>>: blocks given out and not freed
          frontier,  \* history: the first page no list has seen
          clean,     \* history: every block of order MaxOrder was taken once
          state      \* "ok"; "bug": BUG() was called; "off": past mem_map,
                     \* or a corrupted list led to something not a page

buddyVars == <<links, buddy, private, count, free_num, skew, lent, frontier, clean, state>>

(* A slip: buddy_init leaves count at the -1 that mem_init gave it. *)
Init_count ==
  LET nodes == Page \cup {FreeList(k) : k \in Order}
      self == [n \in nodes |-> n]
  IN  /\ links = list_add([next |-> self, prev |-> self], FreeList(MaxOrder), 0)
      /\ buddy = Page
      /\ private = [p \in Page |-> MaxOrder]
      /\ count = [p \in Page |-> -1]
      /\ free_num = [k \in Order |-> IF k = MaxOrder THEN LastPage \div 2^MaxOrder ELSE 0]
      /\ skew \in Skew
      /\ lent = {}
      /\ frontier = 2^MaxOrder
      /\ clean = TRUE
      /\ state = "ok"

(* buddy_init *)
BuddyInit ==
  LET nodes == Page \cup {FreeList(k) : k \in Order}
      self == [n \in nodes |-> n]
  IN  /\ links = list_add([next |-> self, prev |-> self], FreeList(MaxOrder), 0)
      /\ buddy = Page
      /\ private = [p \in Page |-> MaxOrder]
      /\ count = [p \in Page |-> 0]
      /\ free_num = [k \in Order |-> IF k = MaxOrder THEN LastPage \div 2^MaxOrder ELSE 0]
      /\ skew \in Skew
      /\ lent = {}
      /\ frontier = 2^MaxOrder
      /\ clean = TRUE
      /\ state = "ok"

IsEmpty(k) == links.next[FreeList(k)] = FreeList(k)

(* The while loop of expand: halve the block of order c at p down to order *)
(* k, linking the upper half each time.                                    *)
Halve(mem, p, k, c) ==
  LET f[i \in k..c] == IF i = c THEN mem ELSE list_add(f[i+1], FreeList(i), p + 2^i)
  IN  f[k]

(* expand: a block of the highest order first links its successor. *)
expand(mem, p, k, c) ==
  Halve(IF c = MaxOrder THEN list_add(mem, FreeList(c), p + 2^c) ELSE mem, p, k, c)

(* A slip: free_num of the halves is not counted. *)
Take_uncounted(k, c, p) ==
  LET halves == {p + 2^i : i \in k..(c-1)} IN
  /\ links' = expand(list_del(links, p), p, k, c)
  /\ buddy' = (buddy \ {p}) \cup halves
  /\ private' = [q \in Page |->
       IF \E i \in k..(c-1) : q = p + 2^i
       THEN CHOOSE i \in k..(c-1) : q = p + 2^i
       ELSE IF q = p THEN 0 ELSE private[q]]
  /\ free_num' = [free_num EXCEPT ![c] = @ - 1]
  /\ count' = [q \in Page |-> IF q \in Block(p, k) THEN count[q] + 1 ELSE count[q]]
  /\ lent' = lent \cup {<<p, k>>}

(* Taking the first block of list c for a request of order k. *)
Take(k, c, p) ==
  LET halves == {p + 2^i : i \in k..(c-1)} IN
  /\ links' = expand(list_del(links, p), p, k, c)
  /\ buddy' = (buddy \ {p}) \cup halves
  /\ private' = [q \in Page |->
       IF \E i \in k..(c-1) : q = p + 2^i
       THEN CHOOSE i \in k..(c-1) : q = p + 2^i
       ELSE IF q = p THEN 0 ELSE private[q]]
  /\ free_num' = [i \in Order |->
       IF i = c THEN free_num[i] - 1
       ELSE IF i \in k..(c-1) THEN free_num[i] + 1 ELSE free_num[i]]
  /\ count' = [q \in Page |-> IF q \in Block(p, k) THEN count[q] + 1 ELSE count[q]]
  /\ lent' = lent \cup {<<p, k>>}

(* buddy_alloc's scan: c is the first order from k up with a free block. *)
FirstList(k, c) ==
  /\ c >= k
  /\ ~IsEmpty(c)
  /\ \A i \in k..(c-1) : IsEmpty(i)

alloc_pages_buddy(k) ==
  \E c \in Order :
    LET p == links.next[FreeList(c)]
        size == 2^MaxOrder
        top == c = MaxOrder
        off == p \notin Page \/ (top /\ p + 2 * size - 1 > LastPage)
    IN /\ state = "ok"
       /\ FirstList(k, c)
       /\ IF off
          THEN /\ state' = "off"
               /\ UNCHANGED <<links, buddy, private, count, free_num, lent>>
          ELSE /\ Take(k, c, p)
               /\ UNCHANGED state
       /\ clean' = (clean /\ (top => p + size = frontier))
       /\ frontier' = IF top /\ p + size = frontier /\ ~off
                      THEN frontier + size ELSE frontier
       /\ UNCHANGED skew

(* buddy_idx = page_idx ^ (1 << order), with indices from buddy_map_base. *)
BuddyOf(p, k) ==
  IF ((p + skew) \div 2^k) % 2 = 0 THEN p + 2^k ELSE p - 2^k

(* Below `start' lie the pages of the kernel, whose count is 1. *)
page_is_buddy(p, k) ==
  p \in Page /\ private[p] = k /\ p \in buddy /\ count[p] = 0

(* A slip: the merged block starts at the page that was freed. *)
MergedTo_self(p, k, i) == p

(* Where the block freed at p with order k starts after i merges. *)
MergedTo(p, k, i) ==
  LET f[j \in 0..i] ==
        IF j = 0 THEN p
        ELSE LET b == BuddyOf(f[j-1], k + j - 1)
             IN  IF b < f[j-1] THEN b ELSE f[j-1]
  IN  f[i]

(* A slip: the merged buddies keep PAGE_BUDDY and private. *)
buddy_free_keep(p, k, i) ==
  LET b(j) == BuddyOf(MergedTo(p, k, j), k + j)
      del[j \in 0..i] == IF j = 0 THEN links ELSE list_del(del[j-1], b(j-1))
      q == MergedTo(p, k, i)
  IN  /\ links' = list_add(del[i], FreeList(k + i), q)
      /\ buddy' = buddy \cup {q}
      /\ private' = [private EXCEPT ![q] = k + i]
      /\ free_num' = [j \in Order |->
           IF j = k + i THEN free_num[j] + 1
           ELSE IF j \in k..(k+i-1) THEN free_num[j] - 1 ELSE free_num[j]]

(* buddy_free takes the free buddies of orders k..k+i-1 off their lists and *)
(* links the merged block.                                                  *)
buddy_free(p, k, i) ==
  LET b(j) == BuddyOf(MergedTo(p, k, j), k + j)
      gone == {b(j) : j \in 0..(i-1)}
      del[j \in 0..i] == IF j = 0 THEN links ELSE list_del(del[j-1], b(j-1))
      q == MergedTo(p, k, i)
  IN  /\ links' = list_add(del[i], FreeList(k + i), q)
      /\ buddy' = (buddy \ gone) \cup {q}
      /\ private' = [r \in Page |-> IF r = q THEN k + i
                                    ELSE IF r \in gone THEN 0 ELSE private[r]]
      /\ free_num' = [j \in Order |->
           IF j = k + i THEN free_num[j] + 1
           ELSE IF j \in k..(k+i-1) THEN free_num[j] - 1 ELSE free_num[j]]

(* A slip: the loop of buddy_free goes round at most once. *)
Merges_once(p, k, i) ==
  LET again == k < MaxOrder /\ page_is_buddy(BuddyOf(p, k), k)
  IN  i = IF again THEN 1 ELSE 0

(* i is how often the loop of buddy_free goes round. *)
Merges(p, k, i) ==
  /\ i \in 0..(MaxOrder - k)
  /\ \A j \in 0..(i-1) : page_is_buddy(BuddyOf(MergedTo(p, k, j), k + j), k + j)
  /\ \/ k + i = MaxOrder
     \/ ~page_is_buddy(BuddyOf(MergedTo(p, k, i), k + i), k + i)

free_pages_buddy(p, k) ==
  /\ state = "ok"
  /\ <<p, k>> \in lent
  /\ lent' = lent \ {<<p, k>>}
  /\ \/ /\ p \in buddy
        /\ UNCHANGED <<links, buddy, private, count, free_num, state>>
     \/ /\ p \notin buddy
        /\ \E q \in Block(p, k) : count[q] # 1
        /\ state' = "bug"
        /\ UNCHANGED <<links, buddy, private, count, free_num>>
     \/ /\ p \notin buddy
        /\ \A q \in Block(p, k) : count[q] = 1
        /\ \E i \in 0..MaxOrder : Merges(p, k, i) /\ buddy_free(p, k, i)
        /\ count' = [q \in Page |-> IF q \in Block(p, k) THEN 0 ELSE count[q]]
        /\ UNCHANGED state
  /\ UNCHANGED <<skew, frontier, clean>>

BuddyNext == \/ \E k \in Order : alloc_pages_buddy(k)
        \/ \E b \in lent : free_pages_buddy(b[1], b[2])

BuddySpec == BuddyInit /\ [][BuddyNext]_buddyVars
-----------------------------------------------------------------------------
BuddyTypeOK ==
  /\ \A n \in Page \cup {FreeList(k) : k \in Order} :
       /\ links.next[n] \in Page \cup {FreeList(k) : k \in Order}
       /\ links.prev[n] \in Page \cup {FreeList(k) : k \in Order}
  /\ buddy \subseteq Page
  /\ private \in [Page -> Order]
  /\ count \in [Page -> Nat]
  /\ free_num \in [Order -> Int]
  /\ lent \subseteq Page \X Order
  /\ state \in {"ok", "bug", "off"}

(* The pages met by following next from list k. *)
OnList(k) ==
  LET f[i \in 0..(LastPage + 1)] ==
        IF i = 0 THEN {links.next[FreeList(k)]}
        ELSE LET s == f[i-1] IN s \cup {links.next[n] : n \in s}
  IN  IF IsEmpty(k) THEN {} ELSE f[LastPage + 1] \ {FreeList(k)}

FreeBlocks == UNION {OnList(k) \X {k} : k \in Order}

(* As long as no block of the highest order is taken a second time, the    *)
(* blocks given out and the free blocks divide up the pages below the      *)
(* frontier: no page is given out twice, on two lists, or lost, whatever   *)
(* the alignment of the first page.                                        *)
Partition ==
  clean /\ state = "ok" =>
    LET blocks == lent \cup FreeBlocks IN
    /\ \A b, c \in blocks : b # c => Block(b[1], b[2]) \cap Block(c[1], c[2]) = {}
    /\ UNION {Block(b[1], b[2]) : b \in blocks} = 0..(frontier - 1)

(* What buddy_free concludes from a page's flag, private and count is what *)
(* the lists say: below the highest order, page_is_buddy holds of exactly  *)
(* the first pages of free blocks.                                         *)
FlagsAgree ==
  clean /\ state = "ok" =>
    \A k \in Order \ {MaxOrder} : OnList(k) = {p \in Page : page_is_buddy(p, k)}

(* free_num counts the blocks of its list, at every order that expand and  *)
(* buddy_free maintain.                                                    *)
FreeNumAgrees ==
  clean /\ state = "ok" =>
    \A k \in Order \ {MaxOrder} : free_num[k] = Cardinality(OnList(k))

(* When buddy_map_base and start agree modulo the largest block, freeing   *)
(* coalesces completely: never are both halves of a block free.            *)
Coalesced ==
  clean /\ state = "ok" /\ skew = 0 =>
    \A k \in Order \ {MaxOrder} :
      LET free == OnList(k) IN \A p \in free : BuddyOf(p, k) \notin free

(* BUG() in free_pages_buddy is never reached: a page that is freed was    *)
(* given out exactly once.                                                 *)
NoBug == state # "bug"

(* The part of the state space the first four properties are about. *)
StayClean == clean

(* The free lists and the blocks given out divide the memory seen so far,  *)
(* the flags and the counts say the same, and buddies that are both free   *)
(* have been joined (alloc_pages_buddy, free_pages_buddy).                 *)
BlocksKept == BuddyTypeOK /\ Partition /\ FlagsAgree /\ FreeNumAgrees /\ Coalesced
=============================================================================
