------------------------------ MODULE KidMap ------------------------------
(***************************************************************************)
(* The id maps of Kernel/pid.c over the bit operations of Kernel/bitops.c: *)
(* a set bit is a free id, and obj->offset is the word get_unused_id       *)
(* searches.  File descriptors, frame ids and thread ids of a process come *)
(* from such maps, whose operations its one thread calls in turn.          *)
(***************************************************************************)
EXTENDS Integers, FiniteSets

CONSTANTS Obj,            \* the kid_objects
          Words,          \* obj->size / 4
          BITS_PER_LONG

ASSUME KidMapAssumption ==
  /\ Words \in Nat \ {0}
  /\ BITS_PER_LONG \in Nat \ {0}

Word == 0..(Words - 1)
Index == 0..(BITS_PER_LONG - 1)
Id == 0..(Words * BITS_PER_LONG - 1)

(* retval = offset * BITS_PER_LONG + index, and back. *)
IdOf(w, b) == w * BITS_PER_LONG + b
WordOf(id) == id \div BITS_PER_LONG
IndexOf(id) == id % BITS_PER_LONG

VARIABLES live,    \* the maps between kernel_id_map_init and _destroy
          kid_map, \* the set bits of a map, as <<word, index>>
          offset,
          held,    \* the ids the owner of the map got and has not put
          wild     \* bsf met a zero word: the id it returned is garbage

kidVars == <<live, kid_map, offset, held, wild>>

KidInit == /\ live = {}
        /\ kid_map = [o \in Obj |-> {}]
        /\ offset = [o \in Obj |-> 0]
        /\ held = [o \in Obj |-> {}]
        /\ wild = {}

kernel_id_map_init(o) ==
  /\ o \notin live
  /\ live' = live \cup {o}
  /\ kid_map' = [kid_map EXCEPT ![o] = Word \X Index]
  /\ offset' = [offset EXCEPT ![o] = 0]
  /\ UNCHANGED <<held, wild>>

kernel_id_map_destroy(o) ==
  /\ o \in live
  /\ live' = live \ {o}
  /\ kid_map' = [kid_map EXCEPT ![o] = {}]
  /\ offset' = [offset EXCEPT ![o] = 0]
  /\ held' = [held EXCEPT ![o] = {}]
  /\ wild' = wild \ {o}

Usable(o) == o \in live \ wild

(* A slip: the search starts at bit 1. *)
find_first_bit_off(map, w, index) ==
  /\ index > 0
  /\ <<w, index>> \in map
  /\ \A b \in Index \ {0} : <<w, b>> \in map => index <= b

(* index is the lowest set bit of word w. *)
find_first_bit(map, w, index) ==
  /\ <<w, index>> \in map
  /\ \A b \in Index : <<w, b>> \in map => index <= b

NextWord(w) == IF w + 1 = Words THEN 0 ELSE w + 1

(* A slip: the hint does not wrap after the last word. *)
Advance_nowrap(o, index) ==
  offset' = [offset EXCEPT ![o] = IF index = BITS_PER_LONG - 1 THEN @ + 1 ELSE @]

Advance(o, index) ==
  offset' = [offset EXCEPT ![o] =
               IF index = BITS_PER_LONG - 1 THEN NextWord(@) ELSE @]

get_unused_id(o) ==
  /\ Usable(o)
  /\ \E index \in Index :
       /\ find_first_bit(kid_map[o], offset[o], index)
       /\ kid_map' = [kid_map EXCEPT ![o] = @ \ {<<offset[o], index>>}]
       /\ held' = [held EXCEPT ![o] = @ \cup {IdOf(offset[o], index)}]
       /\ Advance(o, index)
  /\ UNCHANGED <<live, wild>>

(* The word has no set bit.  bsf then leaves its destination as it was,    *)
(* which is not -1 but whatever the register held: clear_bit and the       *)
(* result use that.                                                        *)
GetWild(o) ==
  /\ Usable(o)
  /\ \A b \in Index : <<offset[o], b>> \notin kid_map[o]
  /\ wild' = wild \cup {o}
  /\ UNCHANGED <<live, kid_map, offset, held>>

(* Slips: the hint is left alone; the bit of another word is set. *)
put_id_nohint(o, id) ==
  /\ Usable(o)
  /\ id \in held[o]
  /\ kid_map' = [kid_map EXCEPT ![o] = @ \cup {<<WordOf(id), IndexOf(id)>>}]
  /\ held' = [held EXCEPT ![o] = @ \ {id}]
  /\ UNCHANGED <<live, wild, offset>>

put_id_word0(o, id) ==
  /\ Usable(o)
  /\ id \in held[o]
  /\ kid_map' = [kid_map EXCEPT ![o] = @ \cup {<<0, IndexOf(id)>>}]
  /\ offset' = [offset EXCEPT ![o] = 0]
  /\ held' = [held EXCEPT ![o] = @ \ {id}]
  /\ UNCHANGED <<live, wild>>

put_id(o, id) ==
  /\ Usable(o)
  /\ id \in held[o]
  /\ kid_map' = [kid_map EXCEPT ![o] = @ \cup {<<WordOf(id), IndexOf(id)>>}]
  /\ offset' = [offset EXCEPT ![o] = IF WordOf(id) < @ THEN WordOf(id) ELSE @]
  /\ held' = [held EXCEPT ![o] = @ \ {id}]
  /\ UNCHANGED <<live, wild>>

(* kdup2 claims the number it was given. *)
resv_id(o, id) ==
  /\ Usable(o)
  /\ kid_map' = [kid_map EXCEPT ![o] = @ \ {<<WordOf(id), IndexOf(id)>>}]
  /\ held' = [held EXCEPT ![o] = @ \cup {id}]
  /\ UNCHANGED <<live, offset, wild>>

(* kcreate_process: the child's fresh fd map becomes a copy of the parent's. *)
kid_dup(d, s) ==
  /\ Usable(d) /\ Usable(s)
  /\ held[d] = {}
  /\ kid_map' = [kid_map EXCEPT ![d] = kid_map[s]]
  /\ offset' = [offset EXCEPT ![d] = offset[s]]
  /\ held' = [held EXCEPT ![d] = held[s]]
  /\ UNCHANGED <<live, wild>>

KidNext ==
  \E o \in Obj :
    \/ kernel_id_map_init(o)
    \/ kernel_id_map_destroy(o)
    \/ get_unused_id(o)
    \/ GetWild(o)
    \/ \E id \in Id : put_id(o, id)
    \/ \E id \in Id : resv_id(o, id)
    \/ \E s \in Obj : kid_dup(o, s)

KidSpec == KidInit /\ [][KidNext]_kidVars
-----------------------------------------------------------------------------
KidTypeOK ==
  /\ live \subseteq Obj
  /\ kid_map \in [Obj -> SUBSET (Word \X Index)]
  /\ offset \in [Obj -> Word]
  /\ held \in [Obj -> SUBSET Id]
  /\ wild \subseteq Obj

(* The hint is sound: no word below obj->offset has a free id, so starting *)
(* the search at the hint misses none.                                     *)
HintSound ==
  \A o \in Obj : \A w \in Word, b \in Index :
    <<w, b>> \in kid_map[o] => w >= offset[o]

(* get_unused_id hands out the lowest free id, what open and dup rely on   *)
(* for file descriptors, and never one that is held.                       *)
LowestGiven ==
  [][\A o \in Obj :
       get_unused_id(o) =>
         /\ held'[o] # held[o]
         /\ \E w \in Word, b \in Index :
              /\ held'[o] = held[o] \cup {IdOf(w, b)}
              /\ \A v \in Word, c \in Index :
                   <<v, c>> \in kid_map[o] => w < v \/ (w = v /\ b <= c)
    ]_kidVars

(* No id is lost and none is given twice: over any sequence of get, put,   *)
(* reserve and dup, the clear bits of a live map are the held ids.         *)
Conserved ==
  \A o \in live : \A w \in Word, b \in Index :
    <<w, b>> \in kid_map[o] <=> IdOf(w, b) \notin held[o]

(* Nobody holds an id of a map that does not exist. *)
NoneHeld == \A o \in Obj \ live : held[o] = {}

(* The inductive invariant of the maps: the clear bits are exactly the ids *)
(* held, across kernel_id_map_init, get_unused_id, put_id and the copy a   *)
(* new process gets, and no word below the search hint has a free id.      *)
KidInv == KidTypeOK /\ HintSound /\ Conserved /\ NoneHeld
=============================================================================
