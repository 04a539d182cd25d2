----------------------------- MODULE MCStructures -----------------------------
(***************************************************************************)
(* The data structures and the library of the kernel, side by side: a      *)
(* behaviour exercises one of them, the one part names.                    *)
(***************************************************************************)
EXTENDS LinkedList, KidMap, Buddy, AvlTree, Heap, Libc

VARIABLE part

libVars == <<strVars, fmtVars, ckVars>>
treeVars == <<kidVars, buddyVars, avlVars, heapVars>>
structVars == <<part, m, treeVars, libVars>>

Init ==
  /\ part \in {"list", "ids", "pages", "avl", "heap", "string", "printf", "cksum"}
  /\ ListsInit /\ KidInit /\ BuddyInit /\ AvlInit /\ HeapInit /\ StrInit /\ FmtInit /\ CkInit
  /\ part # "pages" => skew = 0
  /\ part # "cksum" => pat = CHOOSE p \in Pattern : TRUE

Next ==
  /\ UNCHANGED part
  /\ \/ part = "list" /\ ListsNext /\ UNCHANGED <<treeVars, libVars>>
     \/ part = "ids" /\ KidNext /\ UNCHANGED <<m, buddyVars, avlVars, heapVars, libVars>>
     \/ part = "pages" /\ BuddyNext /\ UNCHANGED <<m, kidVars, avlVars, heapVars, libVars>>
     \/ part = "avl" /\ AvlNext /\ UNCHANGED <<m, kidVars, buddyVars, heapVars, libVars>>
     \/ part = "heap" /\ HeapNext /\ UNCHANGED <<m, kidVars, buddyVars, avlVars, libVars>>
     \/ part = "string" /\ StrNext /\ UNCHANGED <<m, treeVars, fmtVars, ckVars>>
     \/ part = "printf" /\ FmtNext /\ UNCHANGED <<m, treeVars, strVars, ckVars>>
     \/ part = "cksum" /\ CkNext /\ UNCHANGED <<m, treeVars, strVars, fmtVars>>

Spec == Init /\ [][Next]_structVars

Clean == StayClean /\ HeapSound
Symmetry == Permutations(HThread)
-----------------------------------------------------------------------------
(* Bounds: counts round the switch of memcpy from bytes to words, strings  *)
(* of up to three characters, and one or two directives for sprintf.       *)
MCCounts == 0..5 \cup 30..40
MCText == UNION {[1..k -> 1..2] : k \in 0..3}
MCPattern == {<<97, 31>>, <<0, 255>>}

Dir(c, q, fs, w, p, a) ==
  [conv |-> c, qual |-> q, flags |-> fs, width |-> w, prec |-> p, arg |-> a]

Numbers == {<<"d", "", -3>>, <<"d", "", 1042>>, <<"d", "hh", 200>>, <<"u", "h", -3>>,
            <<"x", "", 171>>, <<"X", "", 0>>, <<"o", "", 9>>}
FlagSets == {{}, {"0"}, {"-"}, {"+"}, {" "}, {"#"}, {"0", "+"}, {"#", "0"}}

Extents == {<<0, -1>>, <<4, -1>>, <<0, 3>>, <<4, 0>>}   \* width and precision

MCDirective ==
  {Dir(n[1], n[2], fs, x[1], x[2], n[3]) : n \in Numbers, fs \in FlagSets, x \in Extents}
  \cup {Dir("c", "", fs, w, -1, "q") : fs \in {{}, {"-"}}, w \in {0, 1, 3}}
  \cup {Dir("s", "", fs, x[1], x[2], s) :
          fs \in {{}, {"-"}}, x \in {<<0, -1>>, <<4, -1>>, <<4, 1>>, <<1, 0>>},
          s \in {<<>>, <<"h", "i">>}}
  \cup {Dir("%", "", {}, 0, -1, 0), Dir("*", "", {}, 0, -1, 3)}
-----------------------------------------------------------------------------
(* The entries met from head h by following next, until h comes again. *)
Walk(h) ==
  LET at[k \in 0..(Cardinality(Entry) + 1)] ==
        IF k = 0 THEN h ELSE m.next[at[k-1]]
      n == CHOOSE k \in 0..Cardinality(Entry) :
               at[k+1] = h /\ \A j \in 1..k : at[j] # h
  IN  SubSeq([k \in 1..(Cardinality(Entry) + 1) |-> at[k]], 1, n)

Abstract == INSTANCE ListSpec WITH l <- [h \in ListHead |-> Walk(h)]

(* The pointer code implements the lists of entries the rest of the kernel *)
(* takes them for, operation by operation: list_add puts in front,         *)
(* list_add_tail at the end, and list_del or a move takes the entry out of *)
(* whatever list it is on and disturbs no other entry.                     *)
ImplementsLists ==
  /\ Abstract!Init
  /\ [][part = "list" =>
           \A h \in ListHead, e \in Entry :
             /\ Add(h, e) => Abstract!Add(h, e)
             /\ AddTail(h, e) => Abstract!AddTail(h, e)
             /\ Del(e) => Abstract!Del(e)
             /\ MoveHead(h, e) => Abstract!MoveHead(h, e)
             /\ MoveTail(h, e) => Abstract!MoveTail(h, e)]_m

(* The library does what C says of it: memcpy, memmove and memset write    *)
(* what they should and nothing else (lib/string.c), sprintf prints the    *)
(* text of the standard (vsprintf.c), in_cksum is the Internet checksum    *)
(* however a packet is cut into mbufs (check_sum.c), each within the       *)
(* limits its own property names.                                          *)
LibraryRight == CopiesRight /\ Printed /\ SumRight
=============================================================================
