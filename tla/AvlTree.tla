------------------------------ MODULE AvlTree ------------------------------
(***************************************************************************)
(* The AVL trees of Kernel/avltree.c, in which the kernel keeps its        *)
(* processes by pid (sys_proc) and the threads of a process by tid.  A     *)
(* tree is Null or <<val, payload, height, left, right>>; following a NULL *)
(* pointer makes the tree Wild.                                            *)
(***************************************************************************)
EXTENDS Integers, FiniteSets

CONSTANTS Val, Payload

Null == <<>>
Wild == <<"wild">>

val(p) == p[1]
payload(p) == p[2]
left(p) == p[4]
right(p) == p[5]

height(p) == IF p = Null THEN -1 ELSE p[3]

(* A slip: the height of the higher child without the + 1. *)
Node_flat(p, l, r) ==
  <<val(p), payload(p), IF height(l) > height(r) THEN height(l) ELSE height(r), l, r>>

(* p with left l and right r and the height of both recomputed. *)
AvlNode(p, l, r) ==
  <<val(p), payload(p), IF height(l) > height(r) THEN height(l) + 1 ELSE height(r) + 1, l, r>>

(* p with a changed child and the height it had. *)
WithLeft(p, l) == <<val(p), payload(p), p[3], l, right(p)>>
WithRight(p, r) == <<val(p), payload(p), p[3], left(p), r>>

single_rotate_with_left(p) ==
  LET p1 == left(p) IN
  IF p1 = Null THEN Wild
  ELSE AvlNode(p1, left(p1), AvlNode(p, right(p1), right(p)))

single_rotate_with_right(p) ==
  LET p1 == right(p) IN
  IF p1 = Null THEN Wild
  ELSE AvlNode(p1, AvlNode(p, left(p), left(p1)), right(p1))

double_rotate_with_left(p) ==
  LET l == single_rotate_with_right(left(p)) IN
  IF l = Wild THEN Wild ELSE single_rotate_with_left(WithLeft(p, l))

double_rotate_with_right(p) ==
  LET r == single_rotate_with_left(right(p)) IN
  IF r = Wild THEN Wild ELSE single_rotate_with_right(WithRight(p, r))

(* avl_insert ends by recomputing the height of what it returns. *)
Heightened(p) == IF p = Wild THEN Wild ELSE AvlNode(p, left(p), right(p))

(* A slip: no double rotation. *)
LeftGrown_single(v, p) ==
  IF left(p) = Wild THEN Wild
  ELSE IF height(left(p)) - height(right(p)) # 2 THEN p
  ELSE single_rotate_with_left(p)

(* The rotation after an insertion of v below p, if one is needed. *)
LeftGrown(v, p) ==
  IF left(p) = Wild THEN Wild
  ELSE IF height(left(p)) - height(right(p)) # 2 THEN p
  ELSE IF v < val(left(p)) THEN single_rotate_with_left(p)
  ELSE double_rotate_with_left(p)

RightGrown(v, p) ==
  IF right(p) = Wild THEN Wild
  ELSE IF height(right(p)) - height(left(p)) # 2 THEN p
  ELSE IF v > val(right(p)) THEN single_rotate_with_right(p)
  ELSE double_rotate_with_right(p)

RECURSIVE avl_insert(_, _, _)
avl_insert(v, d, p) ==
  IF p = Null THEN <<v, d, 0, Null, Null>>
  ELSE IF v < val(p)
    THEN Heightened(LeftGrown(v, WithLeft(p, avl_insert(v, d, left(p)))))
  ELSE IF v > val(p)
    THEN Heightened(RightGrown(v, WithRight(p, avl_insert(v, d, right(p)))))
  ELSE Heightened(p)

(* The leftmost node. *)
RECURSIVE Leftmost(_)
Leftmost(p) == IF left(p) = Null THEN p ELSE Leftmost(left(p))

(* The tail of the two recursive branches of avl_delete. *)
LeftShrunk(p) ==
  IF height(right(p)) - height(left(p)) = 2
  THEN IF height(right(right(p))) > height(left(right(p)))
       THEN double_rotate_with_right(p) ELSE single_rotate_with_right(p)
  ELSE AvlNode(p, left(p), right(p))

RightShrunk(p) ==
  IF height(left(p)) - height(right(p)) = 2
  THEN IF height(left(left(p))) > height(right(left(p)))
       THEN single_rotate_with_left(p) ELSE double_rotate_with_left(p)
  ELSE AvlNode(p, left(p), right(p))

(* Slips: a node with two children is replaced by the root of its right    *)
(* subtree, or takes the value of its successor without the payload.       *)
RECURSIVE avl_delete_payload(_, _)
avl_delete_payload(v, p) ==
  IF p = Null THEN Null
  ELSE IF v < val(p)
    THEN LET l == avl_delete_payload(v, left(p)) IN
         IF l = Wild THEN Wild ELSE LeftShrunk(WithLeft(p, l))
  ELSE IF v > val(p)
    THEN LET r == avl_delete_payload(v, right(p)) IN
         IF r = Wild THEN Wild ELSE RightShrunk(WithRight(p, r))
  ELSE IF left(p) # Null /\ right(p) # Null
    THEN LET s == Leftmost(right(p))
             r == avl_delete_payload(val(s), right(p))
         IN  IF r = Wild THEN Wild ELSE <<val(s), payload(p), p[3], left(p), r>>
  ELSE IF left(p) = Null THEN right(p) ELSE left(p)

RECURSIVE avl_delete_swap(_, _)
avl_delete_swap(v, p) ==
  IF p = Null THEN Null
  ELSE IF v < val(p)
    THEN LET l == avl_delete_swap(v, left(p)) IN
         IF l = Wild THEN Wild ELSE LeftShrunk(WithLeft(p, l))
  ELSE IF v > val(p)
    THEN LET r == avl_delete_swap(v, right(p)) IN
         IF r = Wild THEN Wild ELSE RightShrunk(WithRight(p, r))
  ELSE IF left(p) # Null /\ right(p) # Null
    THEN LET s == right(p)
             r == avl_delete_swap(val(s), right(p))
         IN  IF r = Wild THEN Wild ELSE <<val(s), payload(s), p[3], left(p), r>>
  ELSE IF left(p) = Null THEN right(p) ELSE left(p)

(* A node with two children takes over its successor and keeps its height. *)
RECURSIVE avl_delete(_, _)
avl_delete(v, p) ==
  IF p = Null THEN Null
  ELSE IF v < val(p)
    THEN LET l == avl_delete(v, left(p)) IN
         IF l = Wild THEN Wild ELSE LeftShrunk(WithLeft(p, l))
  ELSE IF v > val(p)
    THEN LET r == avl_delete(v, right(p)) IN
         IF r = Wild THEN Wild ELSE RightShrunk(WithRight(p, r))
  ELSE IF left(p) # Null /\ right(p) # Null
    THEN LET s == Leftmost(right(p))
             r == avl_delete(val(s), right(p))
         IN  IF r = Wild THEN Wild ELSE <<val(s), payload(s), p[3], left(p), r>>
  ELSE IF left(p) = Null THEN right(p) ELSE left(p)

RECURSIVE avl_find(_, _)
avl_find(v, p) ==
  IF p = Null THEN Null
  ELSE IF v > val(p) THEN avl_find(v, right(p))
  ELSE IF v < val(p) THEN avl_find(v, left(p))
  ELSE p

VARIABLES root, content   \* content: what was inserted and not deleted

avlVars == <<root, content>>

AvlInit == root = Null /\ content = {}

Insert(v, d) ==
  /\ root # Wild
  /\ root' = avl_insert(v, d, root)
  /\ content' = IF \E e \in content : e[1] = v THEN content ELSE content \cup {<<v, d>>}

Delete(v) ==
  /\ root # Wild
  /\ root' = avl_delete(v, root)
  /\ content' = {e \in content : e[1] # v}

(* avl_destroy_tree, when the owner of the tree goes. *)
Destroy == root # Wild /\ root' = Null /\ content' = {}

AvlNext ==
  \/ \E v \in Val, d \in Payload : Insert(v, d)
  \/ \E v \in Val : Delete(v)
  \/ Destroy

AvlSpec == AvlInit /\ [][AvlNext]_avlVars
-----------------------------------------------------------------------------
RECURSIVE Nodes(_)
Nodes(p) == IF p = Null THEN {} ELSE {p} \cup Nodes(left(p)) \cup Nodes(right(p))

AvlTypeOK ==
  /\ root = Wild \/ \A p \in Nodes(root) :
       val(p) \in Val /\ payload(p) \in Payload /\ p[3] \in Nat
  /\ content \subseteq Val \X Payload

(* avl_find finds every value that was inserted and not deleted, with its  *)
(* own payload, and nothing else, in every tree that insertions, rotations *)
(* and deletions can build.                                                *)
FindAgrees ==
  root # Wild =>
    \A v \in Val : LET p == avl_find(v, root) IN
      IF p = Null THEN \A e \in content : e[1] # v ELSE <<v, payload(p)>> \in content

(* The search order: left subtrees are smaller, right ones larger, and no  *)
(* value occurs twice.                                                     *)
Ordered ==
  root # Wild =>
    \A p \in Nodes(root) :
      /\ \A q \in Nodes(left(p)) : val(q) < val(p)
      /\ \A q \in Nodes(right(p)) : val(q) > val(p)

RECURSIVE RealHeight(_)
RealHeight(p) ==
  IF p = Null THEN -1
  ELSE LET l == RealHeight(left(p))
           r == RealHeight(right(p))
       IN  IF l > r THEN l + 1 ELSE r + 1

(* The two subtrees of every node differ by at most one in height, and the *)
(* stored height is the real one.                                          *)
BalancedTree ==
  /\ root # Wild
  /\ \A p \in Nodes(root) :
       /\ height(p) = RealHeight(p)
       /\ RealHeight(left(p)) - RealHeight(right(p)) \in -1..1

(* avl_insert takes a balanced tree with true heights to another one, and  *)
(* its rotations follow no NULL pointer, whatever insertions and deletions *)
(* made the tree.  avl_delete does not promise this (see RotationFits, and *)
(* a node with two children, which it leaves with the height it had).      *)
InsertKeepsBalance ==
  [][root' # root /\ BalancedTree /\ (\E v \in Val, d \in Payload : Insert(v, d)) => BalancedTree']_avlVars

(* A double rotation is "for right-left" and "for left-right": the child   *)
(* it turns round exists, so no NULL pointer is followed.                  *)
RotationFits == root # Wild

(* The tree stays a search tree with every value in it once, and avl_find  *)
(* returns what was stored last, after any insertions and deletions.       *)
TreeFinds == AvlTypeOK /\ Ordered /\ FindAgrees
=============================================================================
