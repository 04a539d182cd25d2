-------------------------------- MODULE Radix --------------------------------
(***************************************************************************)
(* The routing table (Kernel/net/radix.c): a tree of internal nodes that   *)
(* each test a bit of the address, with the routes as leaves, routes of    *)
(* the same key chained (rn_dupedkey), and on the internal nodes lists of  *)
(* the masks of routes below (rn_mklist), which a search that ends at the  *)
(* wrong leaf tries on its way back up.                                    *)
(*                                                                         *)
(* A route is its key and the length of its mask; length Width is a host   *)
(* route, which has no mask.  The two radix_nodes of a route are           *)
(* <<key, len, 0>>, the leaf, and <<key, len, 1>>, which may serve as an   *)
(* internal node anywhere in the tree.  Masks are contiguous, and a        *)
(* radix_mask is named by the leaf it was made for.                        *)
(***************************************************************************)
EXTENDS Integers, Sequences, SequencesExt, FiniteSets

CONSTANTS Width,        \* bits of an address
          MaxRouteOps   \* bound on the operations of a behaviour

Addr == 0 .. 2^Width - 1
Bit(v, b) == (v \div 2^(Width - 1 - b)) % 2
Masked(v, len) == v - (v % 2^(Width - len))
FirstDiff(v, w) == CHOOSE b \in 0 .. Width - 1 :
                     Bit(v, b) # Bit(w, b) /\ \A c \in 0 .. b - 1 : Bit(v, c) = Bit(w, c)

Left == <<0, -1, 0>>                   \* the root leaves
Right == <<2^Width - 1, -2, 0>>
Top == <<0, -1, 1>>
None == <<0, -3, 0>>
Key(n) == n[1]
Plen(n) == n[2]
IsRoot(n) == n \in {Left, Right, Top}
HasMask(n) == Plen(n) \in 0 .. Width - 1
Normal(n) == Plen(n) \in 1 .. Width - 1   \* RNF_NORMAL
Inner(n) == <<n[1], n[2], 1>>

VARIABLES node,     \* the nodes in the tree: bit rn_b, rn_p, and rn_l, rn_r, rn_mklist
                    \* or rn_dupedkey and whether rn_mklist holds its own mask
          routeOps

radixVars == <<node, routeOps>>

Leaf(p) == [b |-> -1, p |-> p, dup |-> None, mine |-> FALSE]
Fork(b, p, l, r) == [b |-> b, p |-> p, l |-> l, r |-> r, mk |-> <<>>]

(* rn_inithead *)
RadixInit ==
  /\ node = [n \in {Left, Top, Right} |->
               IF n = Top THEN Fork(0, Top, Left, Right) ELSE Leaf(Top)]
  /\ routeOps = 0
-----------------------------------------------------------------------------
IsFork(T, n) == T[n].b >= 0
Child(T, n, v) == IF Bit(v, T[n].b) = 1 THEN T[n].r ELSE T[n].l

(* rn_search: from n down to a leaf. *)
rn_search(T, v, n) ==
  LET path[d \in 0 .. Width] ==
        IF d = 0 THEN n
        ELSE LET x == path[d - 1] IN IF IsFork(T, x) THEN Child(T, x, v) ELSE x
  IN  path[Width]

(* The leaves of one key. *)
Chain(T, n) ==
  LET ch[d \in 0 .. Width + 1] ==
        IF d = 0 THEN <<n>>
        ELSE LET c == ch[d - 1]
             IN  IF T[Last(c)].dup = None THEN c ELSE Append(c, T[Last(c)].dup)
  IN  ch[Width + 1]

Covers(n, v) == Masked(v, Plen(n)) = Key(n)
Index(s, n) == SelectInSeq(s, LAMBDA o : o = n)
FirstIn(s, P(_)) == LET i == SelectInSeq(s, P) IN IF i = 0 THEN None ELSE s[i]

(* The forks from t's parent up to the top. *)
Ancestors(T, t) ==
  LET up[d \in 0 .. Width] ==
        IF d = 0 THEN <<T[t].p>>
        ELSE LET u == up[d - 1] IN IF Last(u) = Top THEN u ELSE Append(u, T[Last(u)].p)
  IN  up[Width]

(* rn_match.  The masks met on the way up are all taken for rm_mask; for a *)
(* normal mask that field holds a pointer to the leaf, so that no route    *)
(* matches it.                                                             *)
rn_match(T, v) ==
  LET t == rn_search(T, v, Top)
      here == FirstIn(Chain(T, t), LAMBDA n : HasMask(n) /\ Covers(n, v))
      tried == FlattenSeq([i \in DOMAIN Ancestors(T, t) |-> T[Ancestors(T, t)[i]].mk])
  IN  IF Key(t) = v THEN IF IsRoot(t) /\ T[t].dup # None THEN T[t].dup ELSE t
      ELSE IF here # None THEN here
      ELSE FirstIn(tried, LAMBDA n : ~Normal(n))
-----------------------------------------------------------------------------
Rehang(T, p, old, new) ==
  [T EXCEPT ![p] = IF @.r = old THEN [@ EXCEPT !.r = new] ELSE [@ EXCEPT !.l = new]]

(* rn_insert: a new fork for the first bit that differs, below p. *)
rn_insert(T, tt) ==
  LET v == Key(tt)
      b == FirstDiff(v, Key(rn_search(T, v, Top)))
      way[d \in 0 .. Width] ==
        IF d = 0 THEN <<Top, Child(T, Top, v)>>
        ELSE LET w == way[d - 1]
             IN  IF IsFork(T, w[2]) /\ T[w[2]].b < b THEN <<w[2], Child(T, w[2], v)>> ELSE w
      p == way[Width][1]
      x == way[Width][2]
      t == Inner(tt)
      T1 == [n \in DOMAIN T \cup {tt, t} |->
               IF n = tt THEN Leaf(t)
               ELSE IF n = t THEN IF Bit(v, b) = 0 THEN Fork(b, p, tt, x) ELSE Fork(b, p, x, tt)
               ELSE T[n]]
  IN  [Rehang(T1, p, x, t) EXCEPT ![x].p = t]

(* rn_refines, rn_lexobetter: masks are prefixes, the longer refines the   *)
(* shorter.                                                                *)
Finer(m, n) == Plen(n) < Plen(m)

(* A new route of a key that is there: before the first route of a shorter *)
(* mask, or last.                                                          *)
InsertDup(T, tt, head) ==
  LET c == Chain(T, head)
      stop == FirstIn(c, LAMBDA n : HasMask(n) /\ (Plen(tt) = Width \/ Finer(tt, n)))
      before == IF stop = None THEN Last(c) ELSE c[Index(c, stop) - 1]
      T1 == [n \in DOMAIN T \cup {tt} |-> IF n = tt THEN Leaf(None) ELSE T[n]]
      Q == T[head].p
  IN  IF stop = head
      THEN Rehang([T1 EXCEPT ![tt].dup = head, ![tt].p = Q, ![head].p = tt], Q, head, tt)
      ELSE LET T2 == [T1 EXCEPT ![tt].dup = T[before].dup, ![before].dup = tt, ![tt].p = before]
           IN  IF T[before].dup = None THEN T2 ELSE [T2 EXCEPT ![T[before].dup].p = tt]

(* A slip: no mask moves up to the new fork. *)
Promote_not(T, tt) == T

(* The masks of general routes below the new fork move up to it. *)
Promote(T, tt) ==
  LET t == T[tt].p
      x == IF T[t].r = tt THEN T[t].l ELSE T[t].r
      fit == SelectSeq(IF IsFork(T, x) THEN <<>> ELSE Chain(T, x),
                       LAMBDA n : HasMask(n) /\ Plen(n) <= T[t].b /\ ~T[n].mine)
      low == SelectSeq(T[x].mk, LAMBDA n : Plen(n) > T[t].b)
      high == SelectSeq(T[x].mk, LAMBDA n : Plen(n) <= T[t].b)
  IN  IF IsFork(T, x) THEN [T EXCEPT ![t].mk = high, ![x].mk = low]
      ELSE [n \in DOMAIN T |-> IF n = t THEN [T[n] EXCEPT !.mk = fit]
                               ELSE IF n \in ToSet(fit) THEN [T[n] EXCEPT !.mine = TRUE]
                               ELSE T[n]]

(* The highest fork that tests no bit of the mask, from t on. *)
Lifted(T, t, len) ==
  LET up[d \in 0 .. Width] ==
        IF d = 0 THEN t
        ELSE LET x == up[d - 1] IN IF x # Top /\ len <= T[T[x].p].b THEN T[x].p ELSE x
  IN  up[Width]

(* The new route's mask goes on that fork's list, longest mask first; two  *)
(* normal masks of the same length do not go on one list.                  *)
Annotate(T, tt, t) ==
  LET x == Lifted(T, t, Plen(tt))
      longer == SelectSeq(T[x].mk, LAMBDA n : Plen(n) > Plen(tt))
      others == SelectSeq(T[x].mk, LAMBDA n : Plen(n) <= Plen(tt))
  IN  IF ~HasMask(tt) \/ Plen(tt) > T[t].b THEN T
      ELSE IF others # <<>> /\ Plen(Head(others)) = Plen(tt) THEN T
      ELSE [T EXCEPT ![x].mk = longer \o <<tt>> \o others, ![tt].mine = TRUE]

(* rn_addroute *)
rn_addroute(T, tt) ==
  LET head == rn_search(T, Key(tt), Top)
      T1 == InsertDup(T, tt, head)
      T2 == Promote(rn_insert(T, tt), tt)
      first == rn_search(T1, Key(tt), Top)
  IN  IF Key(head) = Key(tt) THEN Annotate(T1, tt, T1[first].p)
      ELSE Annotate(T2, tt, T2[tt].p)

(* The route is there already; a host route also if a root leaf has its key. *)
Known(T, tt) ==
  LET head == rn_search(T, Key(tt), Top)
  IN  /\ Key(head) = Key(tt)
      /\ \E n \in ToSet(Chain(T, head)) : Plen(n) = Plen(tt) \/ (Plen(tt) = Width /\ IsRoot(n))
-----------------------------------------------------------------------------
Prune(T, S) == [n \in DOMAIN T \ S |-> T[n]]

(* The fork x takes the place of the fork t. *)
Adopt(T, t, x) ==
  LET T1 == [T EXCEPT ![T[t].l].p = x, ![T[t].r].p = x]
      T2 == [n \in DOMAIN T1 \cup {x} |-> IF n = x THEN T1[t] ELSE T1[n]]
  IN  Prune(Rehang(T2, T[t].p, t, x), {t})

(* The target's mask leaves the list it is on. *)
Unannotate(T, tt, head) ==
  LET x == Lifted(T, T[head].p, Plen(tt))
  IN  IF ~T[tt].mine \/ Plen(tt) > T[T[head].p].b THEN T
      ELSE [T EXCEPT ![x].mk = SelectSeq(@, LAMBDA n : n # tt)]

(* Out of the chain of its key; the target's own fork, if it serves in the *)
(* tree, is copied to that of the chain's head.                            *)
Unchain(T, tt, head) ==
  LET c == Chain(T, head)
      x == IF tt = head THEN T[head].dup ELSE head
      pred == c[Index(c, tt) - 1]
      T1 == IF tt = head
            THEN Rehang([T EXCEPT ![x].p = T[tt].p], T[tt].p, tt, x)
            ELSE LET T2 == [T EXCEPT ![pred].dup = T[tt].dup]
                 IN  IF T[tt].dup = None THEN T2 ELSE [T2 EXCEPT ![T[tt].dup].p = pred]
  IN  Prune(IF Inner(tt) \in DOMAIN T THEN Adopt(T1, Inner(tt), Inner(x)) ELSE T1, {tt})

(* The fork above goes with the leaf; its masks move down to the sibling,  *)
(* and if the target's own fork serves elsewhere the freed one replaces it.*)
Cut(T, tt) ==
  LET t == T[tt].p
      x == IF T[t].l = tt THEN T[t].r ELSE T[t].l
      T1 == [Rehang(T, T[t].p, t, x) EXCEPT ![x].p = T[t].p]
      T2 == IF IsFork(T, x) THEN [T1 EXCEPT ![x].mk = @ \o T[t].mk]
            ELSE [n \in DOMAIN T1 |-> IF n \in ToSet(Chain(T1, x)) /\ n \in ToSet(T[t].mk)
                                      THEN [T1[n] EXCEPT !.mine = FALSE] ELSE T1[n]]
      T3 == Prune(T2, {tt, t})
  IN  IF t = Inner(tt) THEN T3 ELSE Adopt(T3, Inner(tt), t)

(* rn_delete takes the head of the chain for a host route, whatever it is. *)
Target(T, k, len) ==
  LET c == Chain(T, rn_search(T, k, Top))
  IN  IF Key(Head(c)) # k THEN None
      ELSE IF len = Width THEN Head(c) ELSE FirstIn(c, LAMBDA n : Plen(n) = len)

rn_delete(T, tt) ==
  LET head == rn_search(T, Key(tt), Top)
      T1 == Unannotate(T, tt, head)
  IN  IF T[head].dup # None THEN Unchain(T1, tt, head) ELSE Cut(T1, tt)
-----------------------------------------------------------------------------
AddRoute(k, len) ==
  LET tt == <<Masked(k, len), len, 0>>
  IN  /\ routeOps < MaxRouteOps /\ ~Known(node, tt)
      /\ node' = rn_addroute(node, tt)
      /\ routeOps' = routeOps + 1

DeleteRoute(k, len) ==
  LET tt == Target(node, Masked(k, len), len)
  IN  /\ routeOps < MaxRouteOps /\ tt # None /\ ~IsRoot(tt)
      /\ node' = rn_delete(node, tt)
      /\ routeOps' = routeOps + 1

RadixNext == \E k \in Addr, len \in 0 .. Width : AddRoute(k, len) \/ DeleteRoute(k, len)

RadixSpec == RadixInit /\ [][RadixNext]_radixVars
-----------------------------------------------------------------------------
Routes(T) == {n \in DOMAIN T : n[3] = 0 /\ ~IsRoot(n)}
Best(T, v) ==
  LET fit == {n \in Routes(T) : Covers(n, v)}
  IN  IF fit = {} THEN None ELSE CHOOSE n \in fit : \A o \in fit : Plen(o) <= Plen(n)

(* The match with each mask of the lists used for what it stands for. *)
Reached(T, v) ==
  LET t == rn_search(T, v, Top)
      tried == Chain(T, t) \o FlattenSeq([i \in DOMAIN Ancestors(T, t) |-> T[Ancestors(T, t)[i]].mk])
  IN  FirstIn(tried, LAMBDA n : ~IsRoot(n) /\ Covers(n, v))

(* Whatever routes were added and deleted, the tree leads every address to *)
(* its most specific route by way of its leaf's chain and then the mask    *)
(* lists upward (rn_addroute, rn_delete), and rn_match only returns routes *)
(* that cover the address, host routes and the default route when they are *)
(* the best.  The address of all ones has the root's own leaf and never a  *)
(* route.                                                                  *)
RoutesLead ==
  routeOps > 0 =>
    \A v \in Addr \ {Key(Right)} :
      LET m == rn_match(node, v)
          best == Best(node, v)
      IN  /\ Reached(node, v) = best
          /\ (m # None /\ ~IsRoot(m)) => Covers(m, v)
          /\ (best # None /\ Plen(best) \in {0, Width}) => m = best
=============================================================================
