---------------------------- MODULE Ext2Proofs -----------------------------
(***************************************************************************)
(* Proof that ext2's files never share a block, for any number of          *)
(* processes, names, groups and blocks, and with a crash at any point; and *)
(* that no open file is freed while a process refers to it, for any        *)
(* processes, files and descriptors.                                       *)
(***************************************************************************)
EXTENDS Ext2, Files, NatLemmas, FiniteSetTheorems, WellFoundedInduction, TLAPS

Idx == 0..FileBlocks - 1

(* A process between reading an inode and writing it back; in the course   *)
(* of freeing an inode; and holding an inode no name has yet.              *)
Writing(p) == ext[p].at \in {"map", "balloc", "data", "inode"}
Freeing(p) == ext[p].at \in {"free", "bfree"}
Deletes(p, n) == ext[p].at \in {"free", "bfree", "ifree", "unlink"} /\ ext[p].name = n
Holds(p, i) ==
  /\ \/ ext[p].at = "insert"
     \/ ext[p].at \in {"free", "bfree", "ifree"} /\ ext[p].name = "none"
  /\ ext[p].ino = i

(* The fields of what a process is doing that the argument uses. *)
OpTyped(p) ==
  /\ ext[p].at \in {"idle", "ialloc", "insert", "map", "balloc", "data", "inode",
                    "free", "bfree", "ifree", "unlink"}
  /\ ext[p].at = "idle" => ext[p] = Idle
  /\ ext[p].at \in {"ialloc", "insert"} => ext[p].name \in FileName
  /\ ext[p].at = "ialloc" => ext[p].copy \subseteq InosOf(ext[p].g)
  /\ ext[p].at \in {"insert", "free", "bfree", "ifree"} => ext[p].ino \in Ino
  /\ ext[p].at \in {"free", "bfree", "ifree"} => ext[p].name \in FileName \cup {"none"}
  /\ ext[p].at = "unlink" => ext[p].name \in FileName
  /\ Writing(p) => /\ ext[p].old \in [Idx -> Blk] /\ ext[p].new \in [Idx -> Blk]
                   /\ handle[p] \in Ino
  /\ ext[p].at \in {"map", "balloc", "data"} =>
       ext[p].k \in Idx /\ ext[p].last \in Idx /\ ext[p].k <= ext[p].last
  /\ ext[p].at = "balloc" => /\ ext[p].copy \subseteq InGroup(ext[p].g)
                             /\ ext[p].new[ext[p].k] = 0
  /\ ext[p].at = "data" => ext[p].new[ext[p].k] # 0
  /\ Freeing(p) => ext[p].blks \in [Idx -> Blk] /\ ext[p].k \in Nat
  /\ ext[p].at = "bfree" => ext[p].k \in Idx /\ ext[p].blks[ext[p].k] # 0

DiskTyped ==
  /\ bmap \subseteq Blk /\ 0 \in bmap
  /\ inode \in [Ino -> [Idx -> Blk]]
  /\ dir \in [FileName -> Ino \cup {0}]
  /\ handle \in [ExtProc -> Ino \cup {0}]
  /\ ext = [p \in ExtProc |-> ext[p]]
  /\ \A p \in ExtProc : OpTyped(p)

(* Blocks are claimed by a file that is not being deleted, by a write that *)
(* allocated them and has not written the inode yet, and by a deletion     *)
(* that has not come to them yet.                                          *)
FileHas(n, k, b) ==
  n \in FileName /\ dir[n] # 0 /\ ~Deleting(n) /\ inode[dir[n]][k] = b

FreshAt(p, k, b) ==
  p \in ExtProc /\ Writing(p) /\ ext[p].old[k] = 0 /\ ext[p].new[k] = b

PendingAt(p, k, b) ==
  p \in ExtProc /\ Freeing(p) /\ k >= ext[p].k /\ ext[p].blks[k] = b

Claims == {"file", "fresh", "pending"}

Claim(c, x, k, b) ==
  \/ c = "file" /\ FileHas(x, k, b)
  \/ c = "fresh" /\ FreshAt(x, k, b)
  \/ c = "pending" /\ PendingAt(x, k, b)

(* A claimed block is marked, and claimed once. *)
Marked ==
  \A c \in Claims, x \in FileName \cup ExtProc, k \in Idx, b \in Blk \ {0} :
    Claim(c, x, k, b) => b \in bmap

ClaimedOnce ==
  \A c, d \in Claims, x, y \in FileName \cup ExtProc, k, j \in Idx, b \in Blk \ {0} :
    Claim(c, x, k, b) /\ Claim(d, y, j, b) => c = d /\ x = y /\ k = j

(* What a write read of the inode is still there, and is kept in its copy. *)
OldKept ==
  \A p \in ExtProc, k \in Idx :
    Writing(p) /\ ext[p].old[k] # 0 =>
      /\ inode[handle[p]][k] = ext[p].old[k]
      /\ ext[p].new[k] = ext[p].old[k]

(* An inode has one name, or one process that is about to name it; a name  *)
(* has one process at most that deletes it, and deletes the inode it has.  *)
OneName == \A n, m \in FileName : dir[n] # 0 /\ dir[n] = dir[m] => n = m

HeldUnnamed ==
  \A p \in ExtProc, i \in Ino :
    Holds(p, i) => i \in imap /\ \A n \in FileName : dir[n] # i

OneHolder == \A p, q \in ExtProc, i \in Ino : Holds(p, i) /\ Holds(q, i) => p = q

OneDeleter ==
  \A p, q \in ExtProc, n \in FileName : Deletes(p, n) /\ Deletes(q, n) => p = q

DeletesIts(p) ==
  \A n \in FileName : Deletes(p, n) /\ ext[p].at # "unlink" => dir[n] = ext[p].ino

UndoesNothing(p) ==
  \A k \in Idx : Freeing(p) /\ ext[p].name = "none" => ext[p].blks[k] = 0

InodesNamed ==
  /\ OneName /\ HeldUnnamed /\ OneHolder /\ OneDeleter
  /\ \A p \in ExtProc : DeletesIts(p) /\ UndoesNothing(p)

(***************************************************************************)
(* The inductive invariant, as long as none of the four mishaps NoSharing  *)
(* names has happened.  NoSharing is about the first kind of claim only;   *)
(* it is kept because the blocks on their way into and out of files are    *)
(* claimed as well.                                                        *)
(***************************************************************************)
Strong == DiskTyped /\ Marked /\ ClaimedOnce /\ OldKept /\ InodesNamed

Ext2Inv == DiskSound => Strong
-----------------------------------------------------------------------------
(* A non-empty set of numbers has a least one: what the scans for a clear  *)
(* bit return.                                                             *)
LEMMA LeastThere ==
  ASSUME NEW S, S \subseteq Nat, S # {}
  PROVE  Min(S) \in S
<1> DEFINE Less == {ss \in Nat \X Nat : ss[1] < ss[2]}
<1>1. IsWellFoundedOn(Less, Nat)
  BY NatLessThanWellFounded, Zenon DEF OpToRel
<1>2. \A x, y \in Nat : y < x => <<y, x>> \in Less
  BY Zenon
<1> HIDE DEF Less
<1>3. PICK x \in S : \A y \in S : ~(<<y, x>> \in Less)
  BY <1>1, WFMin, ZenonT(40)
<1>4. \A y \in S : ~(y < x)
  BY <1>2, <1>3, ZenonT(40)
<1>5. \A y \in S : x <= y
  BY <1>4
<1>6. QED
  BY <1>5, ZenonT(40) DEF Min

(* The blocks of a group and the inodes of a group are numbers. *)
LEMMA NumberFacts ==
  /\ Blk \subseteq Nat /\ Ino \subseteq Nat /\ 0 \notin Ino
  /\ \A g : InGroup(g) \subseteq Blk /\ InosOf(g) \subseteq Ino
BY Ext2Assumption DEF Blk, Ino, InGroup, InosOf

(* One process's step leaves what the others do alone. *)
LEMMA StepOf ==
  ASSUME NEW p \in ExtProc, NEW o, ext = [q \in ExtProc |-> ext[q]],
         ext' = [ext EXCEPT ![p] = o]
  PROVE  /\ ext'[p] = o
         /\ \A q \in ExtProc : q # p => ext'[q] = ext[q]
         /\ ext' = [q \in ExtProc |-> ext'[q]]
BY Zenon

(* What is known of a process stays known while it and its handle stay. *)
LEMMA TypedKept ==
  ASSUME NEW q \in ExtProc, OpTyped(q), ext'[q] = ext[q], handle'[q] = handle[q]
  PROVE  OpTyped(q)'
BY Zenon DEF OpTyped, Writing, Freeing

(* Claims that go nowhere stay single: the step makes no new claim, and    *)
(* the blocks still claimed stay marked.                                   *)
LEMMA ClaimsKept ==
  ASSUME Marked, ClaimedOnce,
         \A c \in Claims, x \in FileName \cup ExtProc, k \in Idx, b \in Blk \ {0} :
           Claim(c, x, k, b)' => Claim(c, x, k, b) /\ b \in bmap'
  PROVE  Marked' /\ ClaimedOnce'
<1>1. Marked'
  BY Zenon DEF Marked
<1>2. ClaimedOnce'
  <2>1. SUFFICES ASSUME NEW c \in Claims, NEW d \in Claims,
                        NEW x \in FileName \cup ExtProc, NEW y \in FileName \cup ExtProc,
                        NEW k \in Idx, NEW j \in Idx, NEW b \in Blk \ {0},
                        Claim(c, x, k, b)', Claim(d, y, j, b)'
                 PROVE  c = d /\ x = y /\ k = j
    BY ZenonT(60) DEF ClaimedOnce
  <2>2. Claim(c, x, k, b) /\ Claim(d, y, j, b)
    BY <2>1, Zenon
  <2>3. QED
    BY <2>2, Zenon DEF ClaimedOnce
<1>3. QED
  BY <1>1, <1>2, Zenon

(* A block nobody has marked may be claimed anew. *)
LEMMA ClaimAdded ==
  ASSUME Marked, ClaimedOnce, NEW c0, NEW x0, NEW k0, NEW b0,
         b0 \notin bmap, bmap' = bmap \cup {b0},
         \A c \in Claims, x \in FileName \cup ExtProc, k \in Idx, b \in Blk \ {0} :
           Claim(c, x, k, b)' =>
             \/ Claim(c, x, k, b)
             \/ c = c0 /\ x = x0 /\ k = k0 /\ b = b0
  PROVE  Marked' /\ ClaimedOnce'
<1>1. Marked'
  BY Zenon DEF Marked
<1>2. ClaimedOnce'
  <2>1. SUFFICES ASSUME NEW c \in Claims, NEW d \in Claims,
                        NEW x \in FileName \cup ExtProc, NEW y \in FileName \cup ExtProc,
                        NEW k \in Idx, NEW j \in Idx, NEW b \in Blk \ {0},
                        Claim(c, x, k, b)', Claim(d, y, j, b)'
                 PROVE  c = d /\ x = y /\ k = j
    BY DEF ClaimedOnce
  <2>2. CASE b = b0
    <3>1. ~Claim(c, x, k, b) /\ ~Claim(d, y, j, b)
      BY <2>2, Zenon DEF Marked
    <3>2. QED
      BY <2>1, <3>1, Zenon
  <2>3. CASE b # b0
    <3>1. Claim(c, x, k, b) /\ Claim(d, y, j, b)
      BY <2>1, <2>3, Zenon
    <3>2. QED
      BY <3>1 DEF ClaimedOnce
  <2>4. QED
    BY <2>2, <2>3, Zenon
<1>3. QED
  BY <1>1, <1>2, Zenon

(* All the claims of one owner may pass to another, slot by slot. *)
Pass(c0, x0, c1, x1) ==
  \A c \in Claims, x \in FileName \cup ExtProc, k \in Idx, b \in Blk \ {0} :
    Claim(c, x, k, b)' =>
      \/ Claim(c, x, k, b) /\ ~(c = c0 /\ x = x0)
      \/ c = c1 /\ x = x1 /\ Claim(c0, x0, k, b)

LEMMA ClaimsMoved ==
  ASSUME Marked, ClaimedOnce, bmap' = bmap,
         NEW c0 \in Claims, NEW x0 \in FileName \cup ExtProc,
         NEW c1 \in Claims, NEW x1, Pass(c0, x0, c1, x1)
  PROVE  Marked' /\ ClaimedOnce'
<1>1. Marked'
  BY Zenon DEF Marked, Pass
<1>2. ClaimedOnce'
  <2>1. SUFFICES ASSUME NEW c \in Claims, NEW d \in Claims,
                        NEW x \in FileName \cup ExtProc, NEW y \in FileName \cup ExtProc,
                        NEW k \in Idx, NEW j \in Idx, NEW b \in Blk \ {0},
                        Claim(c, x, k, b)', Claim(d, y, j, b)'
                 PROVE  c = d /\ x = y /\ k = j
    BY DEF ClaimedOnce
  <2>2. \/ Claim(c, x, k, b) /\ ~(c = c0 /\ x = x0)
        \/ c = c1 /\ x = x1 /\ Claim(c0, x0, k, b)
    BY <2>1, Zenon DEF Pass
  <2>3. \/ Claim(d, y, j, b) /\ ~(d = c0 /\ y = x0)
        \/ d = c1 /\ y = x1 /\ Claim(c0, x0, j, b)
    BY <2>1, Zenon DEF Pass
  <2>4. QED
    BY <2>2, <2>3 DEF ClaimedOnce
<1>3. QED
  BY <1>1, <1>2, Zenon

(* A step of one process, as the others see it. *)
Others(p) ==
  /\ \A q \in ExtProc : q # p => ext'[q] = ext[q] /\ handle'[q] = handle[q]
  /\ ext' = [q \in ExtProc |-> ext'[q]]

LEMMA IdleTyped ==
  ASSUME NEW p \in ExtProc, ext'[p] = Idle, ext'[p].at = "idle"
  PROVE  OpTyped(p)'
BY Zenon DEF OpTyped, Writing, Freeing

LEMMA FreeTyped ==
  ASSUME NEW p \in ExtProc, ext'[p].at = "free", ext'[p].ino \in Ino,
         ext'[p].name \in FileName \cup {"none"},
         ext'[p].blks \in [Idx -> Blk], ext'[p].k \in Nat
  PROVE  OpTyped(p)'
BY Zenon DEF OpTyped, Writing, Freeing

LEMMA StepOthers ==
  ASSUME Strong, NEW p \in ExtProc, NEW o, ext' = [ext EXCEPT ![p] = o],
         \A q \in ExtProc : q # p => handle'[q] = handle[q]
  PROVE  Others(p) /\ ext'[p] = o
<1>1. ext = [q \in ExtProc |-> ext[q]]
  BY Zenon DEF Strong, DiskTyped
<1>2. QED
  BY <1>1, StepOf, Zenon DEF Others

LEMMA TypedStep ==
  ASSUME DiskTyped, NEW p \in ExtProc, Others(p), OpTyped(p)',
         bmap' \subseteq Blk, 0 \in bmap',
         inode' \in [Ino -> [Idx -> Blk]],
         dir' \in [FileName -> Ino \cup {0}],
         handle' \in [ExtProc -> Ino \cup {0}]
  PROVE  DiskTyped'
<1>1. \A q \in ExtProc : OpTyped(q)'
  <2>1. SUFFICES ASSUME NEW q \in ExtProc, q # p
                 PROVE  OpTyped(q)'
    BY Zenon
  <2>2. ext'[q] = ext[q] /\ handle'[q] = handle[q] /\ OpTyped(q)
    BY <2>1, Zenon DEF Others, DiskTyped
  <2>3. QED
    BY <2>2, TypedKept, Zenon
<1>2. ext' = [q \in ExtProc |-> ext'[q]]
  BY Zenon DEF Others
<1>3. QED
  BY <1>1, <1>2, Zenon DEF DiskTyped

(* A step that leaves the disk's files alone and claims nothing. *)
LEMMA QuietClaims ==
  ASSUME Marked, ClaimedOnce, NEW p \in ExtProc, Others(p),
         bmap' = bmap, inode' = inode, dir' = dir,
         \A n \in FileName : Deletes(p, n)' <=> Deletes(p, n),
         \A k \in Idx, b \in Blk \ {0} :
           /\ FreshAt(p, k, b)' => FreshAt(p, k, b)
           /\ PendingAt(p, k, b)' => PendingAt(p, k, b)
  PROVE  Marked' /\ ClaimedOnce'
<1>1. SUFFICES ASSUME NEW c \in Claims, NEW x \in FileName \cup ExtProc,
                      NEW k \in Idx, NEW b \in Blk \ {0}, Claim(c, x, k, b)'
               PROVE  Claim(c, x, k, b)
  BY ClaimsKept, Zenon DEF Marked
<1>2. \A n \in FileName : Deleting(n)' <=> Deleting(n)
  BY Zenon DEF Deleting, Deletes, Others
<1>3. CASE c = "file"
  BY <1>1, <1>2, <1>3, Zenon DEF Claim, FileHas
<1>4. CASE c = "fresh"
  BY <1>1, <1>4, ZenonT(60) DEF Claim, FreshAt, Others, Writing
<1>5. CASE c = "pending"
  BY <1>1, <1>5, ZenonT(60) DEF Claim, PendingAt, Others, Freeing
<1>6. QED
  BY <1>3, <1>4, <1>5, Zenon DEF Claims

(* A step that writes no inode leaves the others' copies true. *)
LEMMA QuietOld ==
  ASSUME OldKept, NEW p \in ExtProc, Others(p), inode' = inode,
         \A k \in Idx : (Writing(p) /\ ext[p].old[k] # 0)' =>
           inode[handle'[p]][k] = ext'[p].old[k] /\ ext'[p].new[k] = ext'[p].old[k]
  PROVE  OldKept'
BY DEF OldKept, Others, Writing

(* A step that leaves the directory alone, takes no inode and begins no    *)
(* deletion.                                                               *)
LEMMA QuietNames ==
  ASSUME InodesNamed, NEW p \in ExtProc, Others(p), dir' = dir,
         \A i \in Ino : Holds(p, i)' => Holds(p, i),
         \A q \in ExtProc, i \in Ino : Holds(q, i)' => i \in imap',
         \A n \in FileName : Deletes(p, n)' => Deletes(p, n),
         DeletesIts(p)', UndoesNothing(p)'
  PROVE  InodesNamed'
<1>1. \A q \in ExtProc : q # p => \A i \in Ino : Holds(q, i)' <=> Holds(q, i)
  BY Zenon DEF Others, Holds
<1>2. \A q \in ExtProc : q # p => \A n \in FileName : Deletes(q, n)' <=> Deletes(q, n)
  BY Zenon DEF Others, Deletes
<1>3. OneName'
  BY Zenon DEF InodesNamed, OneName
<1>4. HeldUnnamed'
  BY <1>1, Zenon DEF InodesNamed, HeldUnnamed
<1>5. OneHolder'
  BY <1>1, Zenon DEF InodesNamed, OneHolder
<1>6. OneDeleter'
  BY <1>2, Zenon DEF InodesNamed, OneDeleter
<1>7. \A q \in ExtProc : DeletesIts(q)' /\ UndoesNothing(q)'
  BY <1>2 DEF InodesNamed, DeletesIts, UndoesNothing, Others, Freeing
<1>8. QED
  BY <1>3, <1>4, <1>5, <1>6, <1>7, Zenon DEF InodesNamed

LEMMA QuietStep ==
  ASSUME Strong, NEW p \in ExtProc, Others(p),
         bmap' = bmap, inode' = inode, dir' = dir,
         handle' \in [ExtProc -> Ino \cup {0}], OpTyped(p)',
         \A n \in FileName : Deletes(p, n)' <=> Deletes(p, n),
         \A k \in Idx, b \in Blk \ {0} :
           /\ FreshAt(p, k, b)' => FreshAt(p, k, b)
           /\ PendingAt(p, k, b)' => PendingAt(p, k, b),
         \A k \in Idx : (Writing(p) /\ ext[p].old[k] # 0)' =>
           inode[handle'[p]][k] = ext'[p].old[k] /\ ext'[p].new[k] = ext'[p].old[k],
         \A i \in Ino : Holds(p, i)' => Holds(p, i),
         \A q \in ExtProc, i \in Ino : Holds(q, i)' => i \in imap',
         DeletesIts(p)', UndoesNothing(p)'
  PROVE  Strong'
<1>1. DiskTyped'
  BY TypedStep, Zenon DEF Strong, DiskTyped
<1>2. Marked' /\ ClaimedOnce'
  BY QuietClaims, Zenon DEF Strong
<1>3. OldKept'
  BY QuietOld, Zenon DEF Strong
<1>4. InodesNamed'
  BY QuietNames, Zenon DEF Strong
<1>5. QED
  BY <1>1, <1>2, <1>3, <1>4, Zenon DEF Strong

(* An inode a process holds stays marked while no inode bitmap is written. *)
LEMMA HoldersMarked ==
  ASSUME Strong, NEW p \in ExtProc, Others(p), imap' = imap,
         \A i \in Ino : Holds(p, i)' => Holds(p, i)
  PROVE  \A q \in ExtProc, i \in Ino : Holds(q, i)' => i \in imap'
<1>1. \A q \in ExtProc : q # p => \A i \in Ino : Holds(q, i)' <=> Holds(q, i)
  BY Zenon DEF Others, Holds
<1>2. QED
  BY <1>1, Zenon DEF Strong, InodesNamed, HeldUnnamed

(* The states between operations claim and hold nothing. *)
LEMMA AtRest ==
  ASSUME NEW p \in ExtProc, ext[p].at \in {"idle", "ialloc"}
  PROVE  /\ \A n \in FileName : ~Deletes(p, n)
         /\ \A i \in Ino : ~Holds(p, i)
         /\ \A k \in Idx, b \in Blk \ {0} : ~FreshAt(p, k, b) /\ ~PendingAt(p, k, b)
         /\ ~Writing(p) /\ DeletesIts(p) /\ UndoesNothing(p)
BY Zenon DEF Deletes, Holds, FreshAt, PendingAt, Writing, Freeing, DeletesIts, UndoesNothing

LEMMA AtRestPrimed ==
  ASSUME NEW p \in ExtProc, ext'[p].at \in {"idle", "ialloc"}
  PROVE  /\ \A n \in FileName : ~Deletes(p, n)'
         /\ \A i \in Ino : ~Holds(p, i)'
         /\ \A k \in Idx, b \in Blk \ {0} : ~FreshAt(p, k, b)' /\ ~PendingAt(p, k, b)'
         /\ ~Writing(p)' /\ DeletesIts(p)' /\ UndoesNothing(p)'
BY Zenon DEF Deletes, Holds, FreshAt, PendingAt, Writing, Freeing, DeletesIts, UndoesNothing

(* The states of a write: they delete and hold nothing. *)
LEMMA WritingHolds ==
  ASSUME NEW p \in ExtProc, Writing(p)
  PROVE  /\ \A n \in FileName : ~Deletes(p, n)
         /\ \A i \in Ino : ~Holds(p, i)
         /\ \A k \in Idx, b \in Blk \ {0} : ~PendingAt(p, k, b)
         /\ DeletesIts(p) /\ UndoesNothing(p)
BY Zenon DEF Deletes, Holds, PendingAt, Writing, Freeing, DeletesIts, UndoesNothing

LEMMA WritingHoldsPrimed ==
  ASSUME NEW p \in ExtProc, Writing(p)'
  PROVE  /\ \A n \in FileName : ~Deletes(p, n)'
         /\ \A i \in Ino : ~Holds(p, i)'
         /\ \A k \in Idx, b \in Blk \ {0} : ~PendingAt(p, k, b)'
         /\ DeletesIts(p)' /\ UndoesNothing(p)'
BY Zenon DEF Deletes, Holds, PendingAt, Writing, Freeing, DeletesIts, UndoesNothing
-----------------------------------------------------------------------------
(* The operations, one by one.  Opening and closing move the handle only. *)
LEMMA HandleSteps ==
  ASSUME Strong, NEW p \in ExtProc, Close(p) \/ \E n \in FileName : Open(p, n)
  PROVE  Strong'
<1>1. /\ ext[p] = Idle /\ ext' = ext /\ inode' = inode /\ dir' = dir
      /\ bmap' = bmap /\ imap' = imap
  BY Zenon DEF Open, Close
<1>2. /\ \A q \in ExtProc : q # p => handle'[q] = handle[q]
      /\ handle' \in [ExtProc -> Ino \cup {0}]
  BY Zenon DEF Open, Close, Strong, DiskTyped
<1>3. Others(p)
  BY <1>1, <1>2, Zenon DEF Others, Strong, DiskTyped
<1>4. ext[p].at = "idle" /\ ext'[p].at = "idle"
  BY <1>1 DEF Idle
<1>5. OpTyped(p)'
  BY <1>1, <1>4, Zenon DEF OpTyped, Writing, Freeing
<1>6. \A q \in ExtProc, i \in Ino : Holds(q, i)' => i \in imap'
  BY <1>1, <1>3, <1>4, HoldersMarked, AtRestPrimed, ZenonT(40)
<1>7. QED
  BY <1>1, <1>2, <1>3, <1>4, <1>5, <1>6, AtRest, AtRestPrimed, QuietStep, Zenon

(* ext2_create has found the name free and read an inode bitmap. *)
LEMMA CreateReadStep ==
  ASSUME Strong, NEW p \in ExtProc, NEW n \in FileName, CreateRead(p, n)
  PROVE  Strong'
<1>1. /\ ext[p] = Idle /\ inode' = inode /\ dir' = dir
      /\ bmap' = bmap /\ imap' = imap /\ handle' = handle
      /\ ext' = [ext EXCEPT ![p] = [at |-> "ialloc", name |-> n, g |-> FirstFree(ifree),
                                    copy |-> imap \cap InosOf(FirstFree(ifree))]]
  BY Zenon DEF CreateRead, Begin
<1>2. /\ ext'[p] = [at |-> "ialloc", name |-> n, g |-> FirstFree(ifree),
                    copy |-> imap \cap InosOf(FirstFree(ifree))]
      /\ Others(p)
  BY <1>1, StepOthers, ZenonT(40)
<1>3. ext[p].at = "idle" /\ ext'[p].at = "ialloc"
  BY <1>1, <1>2 DEF Idle
<1>4. OpTyped(p)'
  BY <1>2, <1>3 DEF OpTyped, Writing, Freeing
<1>5. \A q \in ExtProc, i \in Ino : Holds(q, i)' => i \in imap'
  BY <1>1, <1>2, <1>3, HoldersMarked, AtRestPrimed, Zenon
<1>6. handle' \in [ExtProc -> Ino \cup {0}]
  BY <1>1, SMTT(30) DEF Strong, DiskTyped
<1>7. QED
  BY <1>1, <1>2, <1>3, <1>4, <1>5, <1>6, AtRest, AtRestPrimed, QuietStep, Zenon

(* ext2_write and ext2_read have read the inode: a true copy. *)
LEMMA InodeReadStep ==
  ASSUME Strong, NEW p \in ExtProc,
         ReadRead(p) \/ \E k, last \in Idx : WriteRead(p, k, last)
  PROVE  Strong'
<1>1. /\ ext[p] = Idle /\ inode' = inode /\ dir' = dir
      /\ bmap' = bmap /\ imap' = imap /\ handle' = handle /\ handle[p] # 0
  BY Zenon DEF ReadRead, WriteRead, Begin
<1> DEFINE i == inode[handle[p]]
<1>2. \/ ext' = [ext EXCEPT ![p] = [at |-> "inode", old |-> i, new |-> i]]
      \/ \E k, last \in Idx : /\ k <= last
           /\ ext' = [ext EXCEPT ![p] = [at |-> "map", k |-> k, last |-> last,
                                         old |-> i, new |-> i]]
  BY Zenon DEF ReadRead, WriteRead, Begin
<1>3. handle[p] \in Ino /\ handle' \in [ExtProc -> Ino \cup {0}] /\ i \in [Idx -> Blk]
  BY <1>1, Zenon DEF Strong, DiskTyped
<1>4. Others(p)
  BY <1>1, <1>2, StepOthers, Zenon
<1>5. \/ ext'[p] = [at |-> "inode", old |-> i, new |-> i]
      \/ \E k, last \in Idx : /\ k <= last
           /\ ext'[p] = [at |-> "map", k |-> k, last |-> last, old |-> i, new |-> i]
  <2>1. ASSUME NEW r, ext' = [ext EXCEPT ![p] = r] PROVE ext'[p] = r
    BY <1>1, <2>1, StepOthers, ZenonT(40)
  <2>2. QED
    BY <1>2, <2>1, ZenonT(40)
<1> HIDE DEF i
<1>6. /\ ext[p].at = "idle" /\ ext'[p].at \in {"map", "inode"}
      /\ ext'[p].old = i /\ ext'[p].new = i
      /\ ext'[p].at = "map" => /\ ext'[p].k \in Idx /\ ext'[p].last \in Idx
                               /\ ext'[p].k <= ext'[p].last
  <2>1. ext[p].at = "idle"
    BY <1>1 DEF Idle
  <2>2. CASE ext'[p] = [at |-> "inode", old |-> i, new |-> i]
    BY <2>1, <2>2
  <2>3. ASSUME NEW k \in Idx, NEW last \in Idx, k <= last,
               ext'[p] = [at |-> "map", k |-> k, last |-> last, old |-> i, new |-> i]
        PROVE  /\ ext'[p].at = "map" /\ ext'[p].old = i /\ ext'[p].new = i
               /\ ext'[p].k = k /\ ext'[p].last = last
    BY <2>1, <2>3
  <2>4. QED
    BY <1>5, <2>1, <2>2, <2>3, ZenonT(40)
<1>7. OpTyped(p)' /\ Writing(p)'
  BY <1>1, <1>3, <1>6, SMTT(30) DEF OpTyped, Writing, Freeing
<1>8. \A q \in ExtProc, j \in Ino : Holds(q, j)' => j \in imap'
  BY <1>1, <1>4, <1>7, HoldersMarked, WritingHoldsPrimed, Zenon
<1>9. \A k \in Idx, b \in Blk \ {0} : ~FreshAt(p, k, b)'
  BY <1>6, Zenon DEF FreshAt
<1>10. \A k \in Idx : inode[handle'[p]][k] = ext'[p].old[k] /\ ext'[p].new[k] = ext'[p].old[k]
  BY <1>1, <1>6, ZenonT(40) DEF i
<1>11. QED
  BY <1>1, <1>3, <1>4, <1>6, <1>7, <1>8, <1>9, <1>10, AtRest, WritingHoldsPrimed, QuietStep, Zenon

(* A write looks a block up, or goes on to the next: its copies stay. *)
LEMMA WriteGoesOn ==
  ASSUME Strong, NEW p \in ExtProc, WriteMap(p) \/ WriteData(p)
  PROVE  Strong'
<1> DEFINE o == ext[p]
<1>1. /\ Writing(p) /\ inode' = inode /\ dir' = dir
      /\ bmap' = bmap /\ imap' = imap /\ handle' = handle
  BY SMTT(30) DEF WriteMap, WriteData, Writing
<1>2. /\ o.old \in [Idx -> Blk] /\ o.new \in [Idx -> Blk] /\ handle[p] \in Ino
      /\ o.k \in Idx /\ o.last \in Idx /\ o.k <= o.last
  BY <1>1, Zenon DEF Strong, DiskTyped, OpTyped, WriteMap, WriteData
<1>3. handle' \in [ExtProc -> Ino \cup {0}]
  BY <1>1, Zenon DEF Strong, DiskTyped
<1>4. \/ /\ o.new[o.k] # 0
         /\ ext' = [ext EXCEPT ![p] = [at |-> "data", k |-> o.k, last |-> o.last,
                                       old |-> o.old, new |-> o.new]]
      \/ /\ o.new[o.k] = 0
         /\ ext' = [ext EXCEPT ![p] =
               [at |-> "balloc", k |-> o.k, last |-> o.last,
                old |-> o.old, new |-> o.new, g |-> FirstFree(bfree),
                copy |-> bmap \cap InGroup(FirstFree(bfree))]]
      \/ ext' = [ext EXCEPT ![p] = [at |-> "inode", old |-> o.old, new |-> o.new]]
      \/ /\ o.k # o.last
         /\ ext' = [ext EXCEPT ![p] = [at |-> "map", k |-> o.k + 1, last |-> o.last,
                                       old |-> o.old, new |-> o.new]]
  BY Zenon DEF WriteMap, WriteData, Step
<1>5. Others(p)
  BY <1>1, <1>4, StepOthers, Zenon
<1>6. \/ /\ o.new[o.k] # 0
         /\ ext'[p] = [at |-> "data", k |-> o.k, last |-> o.last,
                       old |-> o.old, new |-> o.new]
      \/ /\ o.new[o.k] = 0
         /\ ext'[p] = [at |-> "balloc", k |-> o.k, last |-> o.last,
                       old |-> o.old, new |-> o.new, g |-> FirstFree(bfree),
                       copy |-> bmap \cap InGroup(FirstFree(bfree))]
      \/ ext'[p] = [at |-> "inode", old |-> o.old, new |-> o.new]
      \/ /\ o.k # o.last
         /\ ext'[p] = [at |-> "map", k |-> o.k + 1, last |-> o.last,
                       old |-> o.old, new |-> o.new]
  <2>1. ASSUME NEW r, ext' = [ext EXCEPT ![p] = r] PROVE ext'[p] = r
    BY <1>1, <2>1, StepOthers, ZenonT(40)
  <2>2. QED
    BY <1>4, <2>1, ZenonT(40)
<1>7. o.k # o.last => o.k + 1 \in Idx /\ o.k + 1 <= o.last
  BY <1>2, Ext2Assumption, SMTT(30) DEF Idx
<1>8. Writing(p)' /\ ext'[p].old = ext[p].old /\ ext'[p].new = ext[p].new
  BY <1>6 DEF Writing
<1>9. OpTyped(p)'
  <2>1. /\ ext'[p].old \in [Idx -> Blk] /\ ext'[p].new \in [Idx -> Blk]
        /\ handle'[p] \in Ino
    BY <1>1, <1>2, <1>8, ZenonT(40)
  <2>2. CASE ext'[p].at = "inode"
    BY <2>1, <2>2, SMTT(30) DEF OpTyped, Writing, Freeing
  <2>3. CASE ext'[p].at # "inode"
    <3>1. /\ ext'[p].at \in {"map", "balloc", "data"} /\ ext'[p].last = o.last
          /\ \/ ext'[p].at = "data" /\ ext'[p].k = o.k /\ o.new[o.k] # 0
             \/ /\ ext'[p].at = "balloc" /\ ext'[p].k = o.k /\ o.new[o.k] = 0
                /\ ext'[p].copy = bmap \cap InGroup(ext'[p].g)
             \/ ext'[p].at = "map" /\ ext'[p].k = o.k + 1 /\ o.k # o.last
      <4>1. CASE /\ o.new[o.k] # 0
                 /\ ext'[p] = [at |-> "data", k |-> o.k, last |-> o.last,
                               old |-> o.old, new |-> o.new]
        BY <4>1
      <4>2. CASE /\ o.new[o.k] = 0
                 /\ ext'[p] = [at |-> "balloc", k |-> o.k, last |-> o.last,
                               old |-> o.old, new |-> o.new, g |-> FirstFree(bfree),
                               copy |-> bmap \cap InGroup(FirstFree(bfree))]
        BY <4>2
      <4>3. CASE /\ o.k # o.last
                 /\ ext'[p] = [at |-> "map", k |-> o.k + 1, last |-> o.last,
                               old |-> o.old, new |-> o.new]
        BY <4>3
      <4>4. CASE ext'[p] = [at |-> "inode", old |-> o.old, new |-> o.new]
        BY <2>3, <4>4
      <4>5. QED
        BY <1>6, <4>1, <4>2, <4>3, <4>4, ZenonT(40)
    <3>2. ext'[p].k \in Idx /\ ext'[p].last \in Idx /\ ext'[p].k <= ext'[p].last
      BY <1>2, <1>7, <3>1, Zenon
    <3>3. QED
      BY <1>8, <2>1, <3>1, <3>2, Zenon DEF OpTyped, Writing, Freeing
  <2>4. QED
    BY <2>2, <2>3, Zenon
<1>10. \A q \in ExtProc, j \in Ino : Holds(q, j)' => j \in imap'
  BY <1>1, <1>5, <1>8, HoldersMarked, WritingHoldsPrimed, ZenonT(40)
<1>11. \A k \in Idx, b \in Blk \ {0} : FreshAt(p, k, b)' => FreshAt(p, k, b)
  BY <1>1, <1>8, Zenon DEF FreshAt
<1>12. \A k \in Idx : ext'[p].old[k] # 0 =>
         inode[handle'[p]][k] = ext'[p].old[k] /\ ext'[p].new[k] = ext'[p].old[k]
  BY <1>1, <1>8, Zenon DEF Strong, OldKept
<1>13. QED
  BY <1>1, <1>3, <1>5, <1>8, <1>9, <1>10, <1>11, <1>12, WritingHolds,
     WritingHoldsPrimed, QuietStep, SMTT(30)

(* ext2_alloc_block: the bitmap has not changed since it was read, so the  *)
(* block it gives is one nobody claims.                                    *)
LEMMA BlockAllocStep ==
  ASSUME Strong, NEW p \in ExtProc, BlockAlloc(p), DiskSound'
  PROVE  Strong'
<1> DEFINE o == ext[p]
           b0 == Min(InGroup(o.g) \ o.copy)
<1>1. /\ o.at = "balloc" /\ InGroup(o.g) # o.copy /\ inode' = inode /\ dir' = dir
      /\ imap' = imap /\ handle' = handle
      /\ bmap' = (bmap \ InGroup(o.g)) \cup o.copy \cup {b0}
      /\ ext' = [ext EXCEPT ![p] = [at |-> "data", k |-> o.k, last |-> o.last, old |-> o.old,
                                    new |-> [o.new EXCEPT ![o.k] = b0]]]
  BY Zenon DEF BlockAlloc, Step
<1>2. bmap \cap InGroup(o.g) = o.copy
  BY ZenonT(40) DEF BlockAlloc, DiskSound
<1>3. /\ o.old \in [Idx -> Blk] /\ o.new \in [Idx -> Blk] /\ handle[p] \in Ino
      /\ o.k \in Idx /\ o.last \in Idx /\ o.k <= o.last
      /\ o.copy \subseteq InGroup(o.g) /\ o.new[o.k] = 0
  BY <1>1, Zenon DEF Strong, DiskTyped, OpTyped, Writing
<1>4. b0 \in InGroup(o.g) \ o.copy
  <2>1. InGroup(o.g) \ o.copy # {} /\ InGroup(o.g) \ o.copy \subseteq Nat
    BY <1>1, <1>3, NumberFacts, ZenonT(40)
  <2>2. QED
    BY <2>1, LeastThere, Zenon
<1> HIDE DEF b0
<1>5. b0 \in Blk \ {0} /\ b0 \notin bmap /\ bmap' = bmap \cup {b0}
  BY <1>1, <1>2, <1>4, NumberFacts, Zenon DEF Strong, DiskTyped
<1>6. /\ Others(p)
      /\ ext'[p] = [at |-> "data", k |-> o.k, last |-> o.last, old |-> o.old,
                    new |-> [o.new EXCEPT ![o.k] = b0]]
  BY <1>1, StepOthers, ZenonT(40)
<1>7. /\ ext'[p].at = "data" /\ ext'[p].k = o.k /\ ext'[p].last = o.last
      /\ ext'[p].old = o.old /\ ext'[p].new = [o.new EXCEPT ![o.k] = b0]
  BY <1>6
<1>8. /\ ext'[p].new \in [Idx -> Blk] /\ ext'[p].new[o.k] = b0
      /\ \A k \in Idx \ {o.k} : ext'[p].new[k] = o.new[k]
  BY <1>3, <1>5, <1>7, Zenon
<1>9. OpTyped(p)' /\ Writing(p)' /\ Writing(p)
  BY <1>1, <1>3, <1>5, <1>7, <1>8, Zenon DEF OpTyped, Writing, Freeing
<1>10. DiskTyped'
  <2>1. handle' \in [ExtProc -> Ino \cup {0}] /\ inode' \in [Ino -> [Idx -> Blk]]
        /\ dir' \in [FileName -> Ino \cup {0}] /\ bmap' \subseteq Blk /\ 0 \in bmap'
    BY <1>1, <1>5, Zenon DEF Strong, DiskTyped
  <2>2. QED
    BY <1>6, <1>9, <2>1, TypedStep, Zenon DEF Strong
<1>11. Marked' /\ ClaimedOnce'
  <2>1. \A c \in Claims, x \in FileName \cup ExtProc, k \in Idx, b \in Blk \ {0} :
          Claim(c, x, k, b)' =>
            \/ Claim(c, x, k, b)
            \/ c = "fresh" /\ x = p /\ k = o.k /\ b = b0
    <3>1. SUFFICES ASSUME NEW c \in Claims, NEW x \in FileName \cup ExtProc,
                          NEW k \in Idx, NEW b \in Blk \ {0}, Claim(c, x, k, b)',
                          ~(c = "fresh" /\ x = p /\ k = o.k /\ b = b0)
                   PROVE  Claim(c, x, k, b)
      BY Zenon
    <3>2. \A n \in FileName : Deleting(n)' <=> Deleting(n)
      BY <1>6, <1>9, WritingHolds, WritingHoldsPrimed, Zenon DEF Deleting, Deletes, Others
    <3>3. CASE c = "file"
      BY <1>1, <3>1, <3>2, <3>3, Zenon DEF Claim, FileHas
    <3>4. CASE c = "fresh"
      BY <1>6, <1>7, <1>8, <1>9, <3>1, <3>4, ZenonT(60) DEF Claim, FreshAt, Others, Writing
    <3>5. CASE c = "pending"
      BY <1>6, <1>9, <3>1, <3>5, WritingHoldsPrimed, Zenon DEF Claim, PendingAt, Others, Freeing
    <3>6. QED
      BY <3>3, <3>4, <3>5, Zenon DEF Claims
  <2>2. QED
    BY <1>5, <2>1, ClaimAdded DEF Strong
<1>12. OldKept'
  <2>1. \A k \in Idx : ext'[p].old[k] # 0 =>
          inode[handle'[p]][k] = ext'[p].old[k] /\ ext'[p].new[k] = ext'[p].old[k]
    BY <1>1, <1>3, <1>7, <1>8, <1>9 DEF Strong, OldKept
  <2>2. QED
    BY <1>1, <1>6, <2>1, QuietOld, Zenon DEF Strong
<1>13. InodesNamed'
  BY <1>1, <1>6, <1>9, WritingHoldsPrimed, HoldersMarked, QuietNames, ZenonT(40) DEF Strong
<1>14. QED
  BY <1>10, <1>11, <1>12, <1>13, Zenon DEF Strong

(* A write that fails frees the block: it is one of its own, or it would   *)
(* have been in the inode.                                                 *)
LEMMA WriteFailsStep ==
  ASSUME Strong, NEW p \in ExtProc, WriteFails(p), DiskSound'
  PROVE  Strong'
<1> DEFINE o == ext[p]
           b0 == o.new[o.k]
<1>1. /\ o.at = "data" /\ inode' = inode /\ dir' = dir
      /\ imap' = imap /\ handle' = handle /\ bmap' = bmap \ {b0}
      /\ ext' = [ext EXCEPT ![p] = Idle]
  BY ZenonT(40) DEF WriteFails, Step
<1>2. /\ o.old \in [Idx -> Blk] /\ o.new \in [Idx -> Blk] /\ handle[p] \in Ino
      /\ o.k \in Idx /\ b0 # 0 /\ Writing(p)
  BY <1>1, Zenon DEF Strong, DiskTyped, OpTyped, Writing
<1>3. \A i \in Ino, k \in Idx : inode[i][k] # b0
  BY ZenonT(40) DEF WriteFails, DiskSound, NoBlocks, Idx
<1>4. FreshAt(p, o.k, b0) /\ b0 \in Blk \ {0}
  BY <1>2, <1>3, ZenonT(60) DEF Strong, OldKept, FreshAt
<1>5. Others(p) /\ ext'[p] = Idle
  BY <1>1, StepOthers, ZenonT(40)
<1>6. ext'[p].at = "idle"
  BY <1>5 DEF Idle
<1>7. DiskTyped'
  <2>1. OpTyped(p)'
    BY <1>5, <1>6, IdleTyped, ZenonT(40)
  <2>2. handle' \in [ExtProc -> Ino \cup {0}] /\ inode' \in [Ino -> [Idx -> Blk]]
        /\ dir' \in [FileName -> Ino \cup {0}] /\ bmap' \subseteq Blk /\ 0 \in bmap'
    BY <1>1, <1>2, Zenon DEF Strong, DiskTyped
  <2>3. QED
    BY <1>5, <2>1, <2>2, TypedStep, SMTT(30) DEF Strong
<1>8. Marked' /\ ClaimedOnce'
  <2>1. SUFFICES ASSUME NEW c \in Claims, NEW x \in FileName \cup ExtProc,
                        NEW k \in Idx, NEW b \in Blk \ {0}, Claim(c, x, k, b)'
                 PROVE  Claim(c, x, k, b) /\ b \in bmap'
    BY ClaimsKept, Zenon DEF Strong
  <2>2. \A n \in FileName : Deleting(n)' <=> Deleting(n)
    BY <1>2, <1>5, <1>6, WritingHolds, AtRestPrimed, ZenonT(40) DEF Deleting, Deletes, Others
  <2>3. Claim(c, x, k, b)
    <3>1. CASE c = "file"
      BY <1>1, <2>1, <2>2, <3>1, Zenon DEF Claim, FileHas
    <3>2. CASE c = "fresh"
      BY <1>5, <1>6, <2>1, <3>2, AtRestPrimed, Zenon DEF Claim, FreshAt, Others, Writing
    <3>3. CASE c = "pending"
      BY <1>5, <1>6, <2>1, <3>3, AtRestPrimed, ZenonT(40) DEF Claim, PendingAt, Others, Freeing
    <3>4. QED
      BY <3>1, <3>2, <3>3 DEF Claims
  <2>4. b # b0
    <3>1. ~(c = "fresh" /\ x = p)
      BY <1>6, <2>1, ZenonT(40) DEF Claim, FreshAt, Writing
    <3>2. Claim("fresh", p, o.k, b0) /\ "fresh" \in Claims
      BY <1>4, ZenonT(40) DEF Claim, Claims
    <3>3. QED
      BY <1>2, <1>4, <2>3, <3>1, <3>2 DEF Strong, ClaimedOnce
  <2>5. QED
    BY <1>1, <2>3, <2>4, Zenon DEF Strong, Marked
<1>9. OldKept'
  BY <1>1, <1>5, <1>6, AtRestPrimed, QuietOld, ZenonT(40) DEF Strong
<1>10. InodesNamed'
  BY <1>1, <1>5, <1>6, AtRestPrimed, HoldersMarked, QuietNames, Zenon DEF Strong
<1>11. QED
  BY <1>7, <1>8, <1>9, <1>10 DEF Strong

(* The inode is written over what was read: the new blocks pass from the   *)
(* write to the file, if the inode still has a name.                       *)
LEMMA InodeWriteStep ==
  ASSUME Strong, NEW p \in ExtProc, InodeWrite(p), DiskSound'
  PROVE  Strong'
<1> DEFINE o == ext[p]
           h == handle[p]
<1>1. /\ o.at = "inode" /\ inode' = [inode EXCEPT ![h] = o.new] /\ dir' = dir
      /\ imap' = imap /\ handle' = handle /\ bmap' = bmap
      /\ ext' = [ext EXCEPT ![p] = Idle]
  BY Zenon DEF InodeWrite, Step
<1>2. /\ o.old \in [Idx -> Blk] /\ o.new \in [Idx -> Blk] /\ h \in Ino /\ Writing(p)
  BY <1>1, Zenon DEF Strong, DiskTyped, OpTyped, Writing
<1>3. inode[h] = o.old
  BY ZenonT(40) DEF InodeWrite, DiskSound
<1>4. \A k \in Idx : o.old[k] # 0 => o.new[k] = o.old[k]
  BY <1>2, Zenon DEF Strong, OldKept
<1>5. /\ inode' \in [Ino -> [Idx -> Blk]] /\ inode'[h] = o.new
      /\ \A i \in Ino : i # h => inode'[i] = inode[i]
  BY <1>1, <1>2, Zenon DEF Strong, DiskTyped
<1>6. Others(p) /\ ext'[p] = Idle
  BY <1>1, StepOthers, ZenonT(40)
<1>7. ext'[p].at = "idle"
  BY <1>6 DEF Idle
<1>8. DiskTyped'
  <2>1. OpTyped(p)'
    BY <1>6, <1>7, IdleTyped, ZenonT(40)
  <2>2. handle' \in [ExtProc -> Ino \cup {0}]
        /\ dir' \in [FileName -> Ino \cup {0}] /\ bmap' \subseteq Blk /\ 0 \in bmap'
    BY <1>1, Zenon DEF Strong, DiskTyped
  <2>3. QED
    BY <1>5, <1>6, <2>1, <2>2, TypedStep, Zenon DEF Strong
<1>9. Marked' /\ ClaimedOnce'
  <2>1. PICK x1 : \A n \in FileName : dir[n] = h => n = x1
    BY <1>2, NumberFacts, Zenon DEF Strong, InodesNamed, OneName
  <2>2. \A n \in FileName : Deleting(n)' <=> Deleting(n)
    BY <1>2, <1>6, <1>7, WritingHolds, AtRestPrimed, Zenon DEF Deleting, Deletes, Others
  <2>3. Pass("fresh", p, "file", x1)
    <3>1. SUFFICES ASSUME NEW c \in Claims, NEW x \in FileName \cup ExtProc,
                          NEW k \in Idx, NEW b \in Blk \ {0}, Claim(c, x, k, b)'
                   PROVE  \/ Claim(c, x, k, b) /\ ~(c = "fresh" /\ x = p)
                          \/ c = "file" /\ x = x1 /\ Claim("fresh", p, k, b)
      BY Zenon DEF Pass
    <3>2. CASE c = "file"
      <4>1. x \in FileName /\ dir[x] \in Ino /\ ~Deleting(x) /\ inode'[dir[x]][k] = b
        BY <1>1, <2>2, <3>1, <3>2, Zenon DEF Claim, FileHas, Strong, DiskTyped
      <4>2. CASE dir[x] # h
        BY <1>5, <3>2, <4>1, <4>2, NumberFacts, ZenonT(40) DEF Claim, FileHas
      <4>3. CASE dir[x] = h /\ o.old[k] # 0
        BY <1>3, <1>4, <1>5, <3>2, <4>1, <4>3, NumberFacts, SMTT(30) DEF Claim, FileHas
      <4>4. CASE dir[x] = h /\ o.old[k] = 0
        BY <1>2, <1>5, <2>1, <3>2, <4>1, <4>4, Zenon DEF Claim, FreshAt
      <4>5. QED
        BY <4>2, <4>3, <4>4, Zenon
    <3>3. CASE c = "fresh"
      BY <1>6, <1>7, <3>1, <3>3, AtRestPrimed, Zenon DEF Claim, FreshAt, Others, Writing
    <3>4. CASE c = "pending"
      BY <1>6, <1>7, <3>1, <3>4, AtRestPrimed, Zenon DEF Claim, PendingAt, Others, Freeing
    <3>5. QED
      BY <3>2, <3>3, <3>4, Zenon DEF Claims
  <2>4. "fresh" \in Claims /\ "file" \in Claims
    BY Zenon DEF Claims
  <2>5. Marked /\ ClaimedOnce /\ bmap' = bmap /\ p \in FileName \cup ExtProc
    BY <1>1, Zenon DEF Strong
  <2>6. QED
    BY <2>3, <2>4, <2>5, ClaimsMoved, Zenon
<1>10. OldKept'
  <2>1. SUFFICES ASSUME NEW q \in ExtProc, NEW k \in Idx, (Writing(q) /\ ext[q].old[k] # 0)'
                 PROVE  inode'[handle'[q]][k] = ext'[q].old[k] /\ ext'[q].new[k] = ext'[q].old[k]
    BY Zenon DEF OldKept
  <2>2. q # p /\ ext'[q] = ext[q] /\ handle'[q] = handle[q] /\ Writing(q)
    BY <1>6, <1>7, <2>1, Zenon DEF Others, Writing
  <2>3. inode[handle[q]][k] = ext[q].old[k] /\ ext[q].new[k] = ext[q].old[k]
    BY <2>1, <2>2, ZenonT(40) DEF Strong, OldKept
  <2>4. handle[q] \in Ino
    BY <2>2, Zenon DEF Strong, DiskTyped, OpTyped
  <2>5. QED
    BY <1>3, <1>4, <1>5, <2>1, <2>2, <2>3, <2>4
<1>11. InodesNamed'
  BY <1>1, <1>6, <1>7, AtRestPrimed, HoldersMarked, QuietNames, Zenon DEF Strong
<1>12. QED
  BY <1>8, <1>9, <1>10, <1>11 DEF Strong

(* ext2_alloc_inode: the bitmap has not changed since it was read, so      *)
(* nobody holds the inode it gives.                                        *)
LEMMA InodeAllocStep ==
  ASSUME Strong, NEW p \in ExtProc, InodeAlloc(p), DiskSound'
  PROVE  Strong'
<1> DEFINE o == ext[p]
           i0 == Min(InosOf(o.g) \ o.copy)
<1>1. /\ o.at = "ialloc" /\ InosOf(o.g) # o.copy /\ inode' = inode /\ dir' = dir
      /\ bmap' = bmap /\ handle' = handle
      /\ imap' = (imap \ InosOf(o.g)) \cup o.copy \cup {i0}
      /\ ext' = [ext EXCEPT ![p] = [at |-> "insert", name |-> o.name, ino |-> i0]]
  BY Zenon DEF InodeAlloc, Step
<1>2. /\ imap \cap InosOf(o.g) = o.copy
      /\ \A n \in FileName : dir[n] # i0
  BY ZenonT(40) DEF InodeAlloc, DiskSound
<1>3. o.copy \subseteq InosOf(o.g) /\ o.name \in FileName
  BY <1>1, Zenon DEF Strong, DiskTyped, OpTyped
<1>4. i0 \in InosOf(o.g) \ o.copy
  <2>1. InosOf(o.g) \ o.copy # {} /\ InosOf(o.g) \ o.copy \subseteq Nat
    BY <1>1, <1>3, NumberFacts, ZenonT(40)
  <2>2. QED
    BY <2>1, LeastThere
<1> HIDE DEF i0
<1>5. i0 \in Ino /\ i0 \notin imap /\ imap' = imap \cup {i0}
  BY <1>1, <1>2, <1>4, NumberFacts, Zenon
<1>6. Others(p) /\ ext'[p] = [at |-> "insert", name |-> o.name, ino |-> i0]
  BY <1>1, StepOthers, ZenonT(40)
<1>7. ext'[p].at = "insert" /\ ext'[p].name = o.name /\ ext'[p].ino = i0
  BY <1>6
<1>8. /\ \A n \in FileName : ~Deletes(p, n)'
      /\ \A i \in Ino : Holds(p, i)' <=> i = i0
      /\ \A k \in Idx, b \in Blk \ {0} : ~FreshAt(p, k, b)' /\ ~PendingAt(p, k, b)'
      /\ ~Writing(p)' /\ DeletesIts(p)' /\ UndoesNothing(p)'
  BY <1>7, ZenonT(40) DEF Deletes, Holds, FreshAt, PendingAt, Writing, Freeing, DeletesIts,
              UndoesNothing
<1>9. DiskTyped'
  <2>1. OpTyped(p)'
    BY <1>3, <1>5, <1>7, Zenon DEF OpTyped, Writing, Freeing
  <2>2. handle' \in [ExtProc -> Ino \cup {0}] /\ inode' \in [Ino -> [Idx -> Blk]]
        /\ dir' \in [FileName -> Ino \cup {0}] /\ bmap' \subseteq Blk /\ 0 \in bmap'
    BY <1>1, Zenon DEF Strong, DiskTyped
  <2>3. QED
    BY <1>6, <2>1, <2>2, TypedStep, ZenonT(40) DEF Strong
<1>10. Marked' /\ ClaimedOnce'
  BY <1>1, <1>6, <1>8, AtRest, QuietClaims, Zenon DEF Strong
<1>11. OldKept'
  BY <1>1, <1>6, <1>8, QuietOld, Zenon DEF Strong
<1>12. InodesNamed'
  <2>1. \A q \in ExtProc : q # p => \A i \in Ino : Holds(q, i)' <=> Holds(q, i)
    BY <1>6, Zenon DEF Others, Holds
  <2>2. \A q \in ExtProc : q # p => \A n \in FileName : Deletes(q, n)' <=> Deletes(q, n)
    BY <1>6, Zenon DEF Others, Deletes
  <2>3. OneName'
    BY <1>1, Zenon DEF Strong, InodesNamed, OneName
  <2>4. HeldUnnamed'
    BY <1>1, <1>2, <1>5, <1>8, <2>1, Zenon DEF Strong, InodesNamed, HeldUnnamed
  <2>5. OneHolder'
    BY <1>5, <1>8, <2>1, Zenon DEF Strong, InodesNamed, HeldUnnamed, OneHolder
  <2>6. OneDeleter'
    BY <1>8, <2>2, Zenon DEF Strong, InodesNamed, OneDeleter
  <2>7. \A q \in ExtProc : DeletesIts(q)' /\ UndoesNothing(q)'
    BY <1>1, <1>6, <1>8, <2>2, ZenonT(60) DEF Strong, InodesNamed, DeletesIts, UndoesNothing, Others, Freeing
  <2>8. QED
    BY <2>3, <2>4, <2>5, <2>6, <2>7, Zenon DEF InodesNamed
<1>13. QED
  BY <1>9, <1>10, <1>11, <1>12 DEF Strong

(* The new name is entered: its inode points at no blocks. *)
LEMMA CreateEntered ==
  ASSUME Strong, NEW p \in ExtProc, CreateEnd(p), dir[ext[p].name] = 0, DiskSound'
  PROVE  Strong'
<1> DEFINE o == ext[p]
<1>1. /\ o.at = "insert" /\ inode' = inode /\ dir' = [dir EXCEPT ![o.name] = o.ino]
      /\ bmap' = bmap /\ imap' = imap /\ handle' = [handle EXCEPT ![p] = o.ino]
      /\ ext' = [ext EXCEPT ![p] = Idle] /\ inode[o.ino] = NoBlocks
  BY ZenonT(40) DEF CreateEnd, Step, DiskSound
<1>2. o.name \in FileName /\ o.ino \in Ino /\ Holds(p, o.ino)
  BY <1>1, Zenon DEF Strong, DiskTyped, OpTyped, Holds
<1>3. \A k \in Idx : inode[o.ino][k] = 0
  BY <1>1, Zenon DEF NoBlocks, Idx
<1>4. /\ dir' \in [FileName -> Ino \cup {0}] /\ handle' \in [ExtProc -> Ino \cup {0}]
      /\ dir'[o.name] = o.ino /\ \A n \in FileName : n # o.name => dir'[n] = dir[n]
      /\ \A q \in ExtProc : q # p => handle'[q] = handle[q]
  BY <1>1, <1>2, Zenon DEF Strong, DiskTyped
<1>5. Others(p) /\ ext'[p] = Idle
  BY <1>1, <1>4, StepOthers, ZenonT(40)
<1>6. ext'[p].at = "idle"
  BY <1>5 DEF Idle
<1>7. DiskTyped'
  <2>1. OpTyped(p)'
    BY <1>5, <1>6, IdleTyped, ZenonT(40)
  <2>2. inode' \in [Ino -> [Idx -> Blk]] /\ bmap' \subseteq Blk /\ 0 \in bmap'
    BY <1>1, Zenon DEF Strong, DiskTyped
  <2>3. QED
    BY <1>4, <1>5, <2>1, <2>2, TypedStep, ZenonT(40) DEF Strong
<1>8. Marked' /\ ClaimedOnce'
  <2>1. SUFFICES ASSUME NEW c \in Claims, NEW x \in FileName \cup ExtProc,
                        NEW k \in Idx, NEW b \in Blk \ {0}, Claim(c, x, k, b)'
                 PROVE  Claim(c, x, k, b)
    BY <1>1, ClaimsKept, Zenon DEF Strong, Marked
  <2>2. \A n \in FileName : Deleting(n)' <=> Deleting(n)
    BY <1>1, <1>5, <1>6, ZenonT(40) DEF Deleting, Others
  <2>3. CASE c = "file"
    BY <1>1, <1>3, <1>4, <2>1, <2>2, <2>3, Zenon DEF Claim, FileHas
  <2>4. CASE c = "fresh"
    BY <1>5, <1>6, <2>1, <2>4, AtRestPrimed, Zenon DEF Claim, FreshAt, Others, Writing
  <2>5. CASE c = "pending"
    BY <1>5, <1>6, <2>1, <2>5, AtRestPrimed, ZenonT(40) DEF Claim, PendingAt, Others, Freeing
  <2>6. QED
    BY <2>3, <2>4, <2>5, Zenon DEF Claims
<1>9. OldKept'
  BY <1>1, <1>5, <1>6, AtRestPrimed, QuietOld, ZenonT(40) DEF Strong
<1>10. InodesNamed'
  <2>1. \A q \in ExtProc : q # p => \A i \in Ino : Holds(q, i)' <=> Holds(q, i)
    BY <1>5, Zenon DEF Others, Holds
  <2>2. \A q \in ExtProc : q # p => \A n \in FileName : Deletes(q, n)' <=> Deletes(q, n)
    BY <1>5, Zenon DEF Others, Deletes
  <2>3. OneName'
    BY <1>2, <1>4 DEF Strong, InodesNamed, OneName, HeldUnnamed
  <2>4. HeldUnnamed'
    <3>1. SUFFICES ASSUME NEW q \in ExtProc, NEW i \in Ino, Holds(q, i)'
                   PROVE  i \in imap' /\ \A n \in FileName : dir'[n] # i
      BY ZenonT(40) DEF HeldUnnamed
    <3>2. q # p
      BY <1>6, <3>1, AtRestPrimed, ZenonT(40)
    <3>3. Holds(q, i)
      BY <2>1, <3>1, <3>2, ZenonT(40)
    <3>4. i # o.ino
      BY <1>2, <3>2, <3>3, ZenonT(40) DEF Strong, InodesNamed, OneHolder
    <3>5. i \in imap /\ \A n \in FileName : dir[n] # i
      BY <3>3, ZenonT(40) DEF Strong, InodesNamed, HeldUnnamed
    <3>6. QED
      BY <1>1, <1>4, <3>4, <3>5, Zenon
  <2>5. OneHolder'
    BY <1>6, <2>1, AtRestPrimed, ZenonT(40) DEF Strong, InodesNamed, OneHolder
  <2>6. OneDeleter'
    BY <1>6, <2>2, AtRestPrimed, Zenon DEF Strong, InodesNamed, OneDeleter
  <2>7. ASSUME NEW q \in ExtProc
        PROVE  DeletesIts(q)' /\ UndoesNothing(q)'
    <3>1. CASE q = p
      BY <1>6, <3>1, AtRestPrimed, Zenon
    <3>2. CASE q # p
      <4>1. ext'[q] = ext[q] /\ DeletesIts(q) /\ UndoesNothing(q) /\ OpTyped(q)
        BY <1>5, <3>2, ZenonT(40) DEF Others, Strong, InodesNamed, DiskTyped
      <4>2. ~(Deletes(q, o.name) /\ ext[q].at # "unlink")
        BY <1>2, <4>1, NumberFacts, ZenonT(40) DEF DeletesIts, OpTyped, Deletes
      <4>3. DeletesIts(q)'
        BY <1>4, <2>2, <3>2, <4>1, <4>2, ZenonT(40) DEF DeletesIts
      <4>4. QED
        BY <4>1, <4>3, Zenon DEF UndoesNothing, Freeing
    <3>3. QED
      BY <3>1, <3>2, ZenonT(40)
  <2>8. QED
    BY <2>3, <2>4, <2>5, <2>6, <2>7, Zenon DEF InodesNamed
<1>11. QED
  BY <1>7, <1>8, <1>9, <1>10, Zenon DEF Strong

(* The name has come up in between: the inode goes back, with no blocks. *)
LEMMA CreateUndone ==
  ASSUME Strong, NEW p \in ExtProc, CreateEnd(p), dir[ext[p].name] # 0, DiskSound'
  PROVE  Strong'
<1> DEFINE o == ext[p]
<1>1. /\ o.at = "insert" /\ inode' = inode /\ dir' = dir
      /\ bmap' = bmap /\ imap' = imap /\ handle' = handle
      /\ ext' = [ext EXCEPT ![p] = [at |-> "free", name |-> "none", ino |-> o.ino,
                                    blks |-> inode[o.ino], k |-> 0]]
      /\ inode[o.ino] = NoBlocks
  BY ZenonT(40) DEF CreateEnd, Step, DiskSound
<1>2. o.ino \in Ino
  BY <1>1, Zenon DEF Strong, DiskTyped, OpTyped
<1>3. inode[o.ino] \in [Idx -> Blk] /\ \A k \in Idx : inode[o.ino][k] = 0
  BY <1>1, <1>2, Zenon DEF NoBlocks, Idx, Strong, DiskTyped
<1>4. /\ Others(p)
      /\ ext'[p] = [at |-> "free", name |-> "none", ino |-> o.ino,
                    blks |-> inode[o.ino], k |-> 0]
  BY <1>1, StepOthers, ZenonT(40)
<1>5. /\ ext'[p].at = "free" /\ ext'[p].name = "none" /\ ext'[p].ino = o.ino
      /\ ext'[p].blks = inode[o.ino] /\ ext'[p].k = 0
  BY <1>4
<1>6. /\ \A n \in FileName : ~Deletes(p, n)' /\ ~Deletes(p, n)
      /\ \A i \in Ino : Holds(p, i)' <=> Holds(p, i)
      /\ \A k \in Idx, b \in Blk \ {0} : ~FreshAt(p, k, b)' /\ ~PendingAt(p, k, b)'
      /\ ~Writing(p)' /\ DeletesIts(p)' /\ UndoesNothing(p)'
  BY <1>1, <1>3, <1>5, Ext2Assumption, ZenonT(40)
  DEF Deletes, Holds, FreshAt, PendingAt, Writing, Freeing, DeletesIts, UndoesNothing
<1>7. OpTyped(p)'
  BY <1>2, <1>3, <1>5 DEF OpTyped, Writing, Freeing
<1>8. \A q \in ExtProc, i \in Ino : Holds(q, i)' => i \in imap'
  BY <1>1, <1>4, <1>6, HoldersMarked, Zenon
<1>9. handle' \in [ExtProc -> Ino \cup {0}]
  BY <1>1, Zenon DEF Strong, DiskTyped
<1>10. QED
  BY <1>1, <1>4, <1>6, <1>7, <1>8, <1>9, QuietStep, Zenon

(* ext2_delete has read the inode: the file's blocks pass to the deletion. *)
LEMMA UnlinkReadStep ==
  ASSUME Strong, NEW p \in ExtProc, NEW n \in FileName, UnlinkRead(p, n), DiskSound'
  PROVE  Strong'
<1>1. /\ ext[p] = Idle /\ dir[n] # 0 /\ inode' = inode /\ dir' = dir
      /\ bmap' = bmap /\ imap' = imap /\ handle' = handle
      /\ ext' = [ext EXCEPT ![p] = [at |-> "free", name |-> n, ino |-> dir[n],
                                    blks |-> inode[dir[n]], k |-> 0]]
  BY Zenon DEF UnlinkRead, Begin
<1>2. ~Deleting(n)
  BY ZenonT(40) DEF UnlinkRead, DiskSound
<1>3. dir[n] \in Ino /\ inode[dir[n]] \in [Idx -> Blk]
  BY <1>1, Zenon DEF Strong, DiskTyped
<1>4. /\ Others(p)
      /\ ext'[p] = [at |-> "free", name |-> n, ino |-> dir[n],
                    blks |-> inode[dir[n]], k |-> 0]
  BY <1>1, StepOthers, ZenonT(40)
<1>5. /\ ext'[p].at = "free" /\ ext'[p].name = n /\ ext'[p].ino = dir[n]
      /\ ext'[p].blks = inode[dir[n]] /\ ext'[p].k = 0 /\ n # "none"
      /\ ext[p].at = "idle"
  <2>1. /\ ext'[p].at = "free" /\ ext'[p].name = n /\ ext'[p].ino = dir[n]
        /\ ext'[p].blks = inode[dir[n]] /\ ext'[p].k = 0
    <3> DEFINE r == ext'[p]
    <3>1. r = [at |-> "free", name |-> n, ino |-> dir[n], blks |-> inode[dir[n]], k |-> 0]
      BY <1>4, ZenonT(40)
    <3> HIDE DEF r
    <3>2. /\ r.at = "free" /\ r.name = n /\ r.ino = dir[n]
          /\ r.blks = inode[dir[n]] /\ r.k = 0
      BY <3>1, Zenon
    <3>3. QED
      BY <3>2, ZenonT(40) DEF r
  <2>2. ext[p].at = "idle"
    BY <1>1 DEF Idle
  <2>3. n # "none"
    BY Ext2Assumption, Zenon
  <2>4. QED
    BY <2>1, <2>2, <2>3, Zenon
<1>6. /\ \A m \in FileName : Deletes(p, m)' <=> m = n
      /\ \A i \in Ino : ~Holds(p, i)'
      /\ \A k \in Idx, b \in Blk \ {0} :
           ~FreshAt(p, k, b)' /\ (PendingAt(p, k, b)' => inode[dir[n]][k] = b)
      /\ ~Writing(p)' /\ DeletesIts(p)' /\ UndoesNothing(p)'
  BY <1>1, <1>5, ZenonT(40)
  DEF Deletes, Holds, FreshAt, PendingAt, Writing, Freeing, DeletesIts, UndoesNothing
<1>7. DiskTyped'
  <2>1. OpTyped(p)'
    BY <1>3, <1>5, FreeTyped
  <2>2. handle' \in [ExtProc -> Ino \cup {0}] /\ inode' \in [Ino -> [Idx -> Blk]]
        /\ dir' \in [FileName -> Ino \cup {0}] /\ bmap' \subseteq Blk /\ 0 \in bmap'
    BY <1>1, Zenon DEF Strong, DiskTyped
  <2>3. QED
    BY <1>4, <2>1, <2>2, TypedStep, ZenonT(40) DEF Strong
<1>8. Marked' /\ ClaimedOnce'
  <2>1. Deleting(n)' /\ \A m \in FileName : m # n => (Deleting(m)' <=> Deleting(m))
    BY <1>4, <1>5, Zenon DEF Deleting, Others
  <2>2. Pass("file", n, "pending", p)
    <3>1. SUFFICES ASSUME NEW c \in Claims, NEW x \in FileName \cup ExtProc,
                          NEW k \in Idx, NEW b \in Blk \ {0}, Claim(c, x, k, b)'
                   PROVE  \/ Claim(c, x, k, b) /\ ~(c = "file" /\ x = n)
                          \/ c = "pending" /\ x = p /\ Claim("file", n, k, b)
      BY ZenonT(40) DEF Pass
    <3>2. CASE c = "file"
      BY <1>1, <2>1, <3>1, <3>2, Zenon DEF Claim, FileHas
    <3>3. CASE c = "fresh"
      BY <1>4, <1>6, <3>1, <3>3, Zenon DEF Claim, FreshAt, Others, Writing
    <3>4. CASE c = "pending" /\ x # p
      BY <1>4, <3>1, <3>4, ZenonT(40) DEF Claim, PendingAt, Others, Freeing
    <3>5. CASE c = "pending" /\ x = p
      BY <1>1, <1>2, <1>6, <3>1, <3>5, ZenonT(40) DEF Claim, FileHas
    <3>6. QED
      BY <3>2, <3>3, <3>4, <3>5, Zenon DEF Claims
  <2>3. "file" \in Claims /\ "pending" \in Claims
    BY ZenonT(40) DEF Claims
  <2>4. QED
    BY <1>1, <2>2, <2>3, ClaimsMoved, Zenon DEF Strong
<1>9. OldKept'
  BY <1>1, <1>4, <1>6, QuietOld, ZenonT(40) DEF Strong
<1>10. InodesNamed'
  <2>1. \A q \in ExtProc : q # p => \A i \in Ino : Holds(q, i)' <=> Holds(q, i)
    BY <1>4, Zenon DEF Others, Holds
  <2>2. \A q \in ExtProc : q # p => \A m \in FileName : Deletes(q, m)' <=> Deletes(q, m)
    BY <1>4, Zenon DEF Others, Deletes
  <2>3. OneName'
    BY <1>1, ZenonT(40) DEF Strong, InodesNamed, OneName
  <2>4. HeldUnnamed'
    BY <1>1, <1>6, <2>1, ZenonT(40) DEF Strong, InodesNamed, HeldUnnamed
  <2>5. OneHolder'
    BY <1>6, <2>1, ZenonT(40) DEF Strong, InodesNamed, OneHolder
  <2>6. OneDeleter'
    <3>1. \A q \in ExtProc : ~Deletes(q, n)
      BY <1>2, ZenonT(40) DEF Deleting, Deletes
    <3>2. QED
      BY <1>6, <2>2, <3>1, ZenonT(40) DEF Strong, InodesNamed, OneDeleter
  <2>7. \A q \in ExtProc : DeletesIts(q)' /\ UndoesNothing(q)'
    BY <1>1, <1>4, <1>6, <2>2, ZenonT(40) DEF Strong, InodesNamed, DeletesIts, UndoesNothing, Others, Freeing
  <2>8. QED
    BY <2>3, <2>4, <2>5, <2>6, <2>7, Zenon DEF InodesNamed
<1>11. QED
  BY <1>7, <1>8, <1>9, <1>10, Zenon DEF Strong

(* ext2_free_inode goes on to a block or to the inode itself. *)
LEMMA FreeReadStep ==
  ASSUME Strong, NEW p \in ExtProc, FreeRead(p)
  PROVE  Strong'
<1> DEFINE o == ext[p]
<1>1. /\ o.at = "free" /\ inode' = inode /\ dir' = dir
      /\ bmap' = bmap /\ imap' = imap /\ handle' = handle
  BY Zenon DEF FreeRead
<1>2. /\ o.ino \in Ino /\ o.name \in FileName \cup {"none"}
      /\ o.blks \in [Idx -> Blk] /\ o.k \in Nat
  BY <1>1, ZenonT(40) DEF Strong, DiskTyped, OpTyped, Freeing
<1> DEFINE r1 == [at |-> "bfree", name |-> o.name, ino |-> o.ino, blks |-> o.blks,
                  k |-> o.k, copy |-> bmap \cap InGroup(BlkGroup(o.blks[o.k]))]
           r2 == [at |-> "ifree", name |-> o.name, ino |-> o.ino,
                  copy |-> imap \cap InosOf(InoGroup(o.ino))]
<1>3. \/ o.k < FileBlocks /\ o.blks[o.k] # 0 /\ ext' = [ext EXCEPT ![p] = r1]
      \/ ext' = [ext EXCEPT ![p] = r2]
  BY ZenonT(40) DEF FreeRead, Step
<1>4. /\ Others(p)
      /\ \/ o.k < FileBlocks /\ o.blks[o.k] # 0 /\ ext'[p] = r1
         \/ ext'[p] = r2
  BY <1>1, <1>3, StepOthers, ZenonT(40)
<1>5. /\ ext'[p].name = o.name /\ ext'[p].ino = o.ino
      /\ \/ /\ ext'[p].at = "bfree" /\ ext'[p].k = o.k /\ ext'[p].blks = o.blks
            /\ o.k \in Idx /\ o.blks[o.k] # 0
         \/ ext'[p].at = "ifree"
  <2>1. CASE o.k < FileBlocks /\ o.blks[o.k] # 0 /\ ext'[p] = r1
    <3>1. o.k \in Idx
      BY <1>2, <2>1, Ext2Assumption, SMTT(30) DEF Idx
    <3>2. QED
      BY <2>1, <3>1
  <2>2. CASE ext'[p] = r2
    BY <2>2
  <2>3. QED
    BY <1>4, <2>1, <2>2, ZenonT(40)
<1>6. /\ \A n \in FileName : Deletes(p, n)' <=> Deletes(p, n)
      /\ \A i \in Ino : Holds(p, i)' <=> Holds(p, i)
      /\ \A k \in Idx, b \in Blk \ {0} :
           ~FreshAt(p, k, b)' /\ (PendingAt(p, k, b)' => PendingAt(p, k, b))
      /\ ~Writing(p)'
  BY <1>1, <1>5, ZenonT(40) DEF Deletes, Holds, FreshAt, PendingAt, Writing, Freeing
<1>7. DeletesIts(p)' /\ UndoesNothing(p)'
  <2>1. DeletesIts(p) /\ UndoesNothing(p)
    BY ZenonT(40) DEF Strong, InodesNamed
  <2>2. QED
    BY <1>1, <1>5, <1>6, <2>1, ZenonT(40) DEF DeletesIts, UndoesNothing, Freeing
<1>8. OpTyped(p)'
  BY <1>2, <1>5, ZenonT(40) DEF OpTyped, Writing, Freeing
<1>9. \A q \in ExtProc, i \in Ino : Holds(q, i)' => i \in imap'
  BY <1>1, <1>4, <1>6, HoldersMarked, ZenonT(40)
<1>10. handle' \in [ExtProc -> Ino \cup {0}]
  BY <1>1, ZenonT(40) DEF Strong, DiskTyped
<1>11. QED
  BY <1>1, <1>4, <1>6, <1>7, <1>8, <1>9, <1>10, QuietStep, ZenonT(40)

(* ext2_free_block: the deletion gives the block up as its bit is cleared. *)
LEMMA BlockFreeStep ==
  ASSUME Strong, NEW p \in ExtProc, BlockFree(p), DiskSound'
  PROVE  Strong'
<1> DEFINE o == ext[p]
           b0 == o.blks[o.k]
           g0 == BlkGroup(b0)
<1>1. /\ o.at = "bfree" /\ inode' = inode /\ dir' = dir
      /\ imap' = imap /\ handle' = handle
      /\ bmap' = (bmap \ InGroup(g0)) \cup (o.copy \ {b0})
      /\ ext' = [ext EXCEPT ![p] = [at |-> "free", name |-> o.name, ino |-> o.ino,
                                    blks |-> o.blks, k |-> o.k + 1]]
  BY ZenonT(40) DEF BlockFree, Step
<1>2. bmap \cap InGroup(g0) = o.copy
  BY ZenonT(40) DEF BlockFree, DiskSound
<1>3. /\ o.ino \in Ino /\ o.name \in FileName \cup {"none"}
      /\ o.blks \in [Idx -> Blk] /\ o.k \in Idx /\ o.k \in Nat /\ b0 # 0 /\ b0 \in Blk
  BY <1>1, Zenon DEF Strong, DiskTyped, OpTyped, Freeing
<1>4. bmap' = bmap \ {b0}
  <2>1. b0 \in InGroup(g0)
    BY <1>3, Zenon DEF InGroup
  <2>2. QED
    BY <1>1, <1>2, <2>1, SMTT(30)
<1>5. PendingAt(p, o.k, b0)
  BY <1>1, <1>3 DEF PendingAt, Freeing
<1>6. /\ Others(p)
      /\ ext'[p] = [at |-> "free", name |-> o.name, ino |-> o.ino,
                    blks |-> o.blks, k |-> o.k + 1]
  BY <1>1, StepOthers, ZenonT(40)
<1>7. /\ ext'[p].at = "free" /\ ext'[p].name = o.name /\ ext'[p].ino = o.ino
      /\ ext'[p].blks = o.blks /\ ext'[p].k = o.k + 1
  <2> DEFINE r == ext'[p]
             k1 == o.k + 1
  <2>1. r = [at |-> "free", name |-> o.name, ino |-> o.ino, blks |-> o.blks, k |-> k1]
    BY <1>6, ZenonT(40)
  <2> HIDE DEF r, k1
  <2>2. r.at = "free" /\ r.name = o.name /\ r.ino = o.ino /\ r.blks = o.blks /\ r.k = k1
    BY <2>1, Zenon
  <2>3. QED
    BY <2>2, ZenonT(40) DEF r, k1
<1>8. /\ \A n \in FileName : Deletes(p, n)' <=> Deletes(p, n)
      /\ \A i \in Ino : Holds(p, i)' <=> Holds(p, i)
      /\ ~Writing(p)'
  BY <1>1, <1>7, Zenon DEF Deletes, Holds, Writing
<1>9. \A k \in Idx, b \in Blk \ {0} :
        ~FreshAt(p, k, b)' /\ (PendingAt(p, k, b)' => PendingAt(p, k, b) /\ k # o.k)
  BY <1>1, <1>3, <1>7 DEF FreshAt, PendingAt, Writing, Freeing, Idx
<1>10. DeletesIts(p)' /\ UndoesNothing(p)'
  <2>1. DeletesIts(p) /\ UndoesNothing(p)
    BY ZenonT(40) DEF Strong, InodesNamed
  <2>2. QED
    BY <1>1, <1>7, <1>8, <2>1, Zenon DEF DeletesIts, UndoesNothing, Freeing
<1>11. DiskTyped'
  <2>1. OpTyped(p)'
    <3>1. ext'[p].k \in Nat
      BY <1>3, <1>7
    <3>2. QED
      BY <1>3, <1>7, <3>1, FreeTyped, ZenonT(40)
  <2>2. handle' \in [ExtProc -> Ino \cup {0}] /\ inode' \in [Ino -> [Idx -> Blk]]
        /\ dir' \in [FileName -> Ino \cup {0}] /\ bmap' \subseteq Blk /\ 0 \in bmap'
    BY <1>1, <1>3, <1>4, Zenon DEF Strong, DiskTyped
  <2>3. QED
    BY <1>6, <2>1, <2>2, TypedStep, ZenonT(40) DEF Strong
<1>12. Marked' /\ ClaimedOnce'
  <2>1. SUFFICES ASSUME NEW c \in Claims, NEW x \in FileName \cup ExtProc,
                        NEW k \in Idx, NEW b \in Blk \ {0}, Claim(c, x, k, b)'
                 PROVE  Claim(c, x, k, b) /\ b \in bmap'
    BY ClaimsKept DEF Strong
  <2>2. \A n \in FileName : Deleting(n)' <=> Deleting(n)
    BY <1>6, <1>8, Zenon DEF Deleting, Deletes, Others
  <2>3. Claim(c, x, k, b) /\ ~(c = "pending" /\ x = p /\ k = o.k)
    <3>1. CASE c = "file"
      BY <1>1, <2>1, <2>2, <3>1, Zenon DEF Claim, FileHas
    <3>2. CASE c = "fresh"
      BY <1>6, <1>9, <2>1, <3>2 DEF Claim, FreshAt, Others, Writing
    <3>3. CASE c = "pending" /\ x # p
      BY <1>6, <2>1, <3>3, Zenon DEF Claim, PendingAt, Others, Freeing
    <3>4. CASE c = "pending" /\ x = p
      BY <1>9, <2>1, <3>4, ZenonT(40) DEF Claim
    <3>5. QED
      BY <3>1, <3>2, <3>3, <3>4, Zenon DEF Claims
  <2>4. b # b0
    <3>1. Claim("pending", p, o.k, b0) /\ "pending" \in Claims
      BY <1>5, Zenon DEF Claim, Claims
    <3>2. QED
      BY <1>3, <2>3, <3>1 DEF Strong, ClaimedOnce
  <2>5. QED
    BY <1>4, <2>3, <2>4, Zenon DEF Strong, Marked
<1>13. OldKept'
  BY <1>1, <1>6, <1>8, QuietOld, Zenon DEF Strong
<1>14. InodesNamed'
  BY <1>1, <1>6, <1>8, <1>10, HoldersMarked, QuietNames, ZenonT(40) DEF Strong
<1>15. QED
  BY <1>11, <1>12, <1>13, <1>14 DEF Strong

(* The inode's bit is cleared: no other process holds that inode. *)
LEMMA InodeFreeStep ==
  ASSUME Strong, NEW p \in ExtProc, InodeFree(p), DiskSound'
  PROVE  Strong'
<1> DEFINE o == ext[p]
           g0 == InoGroup(o.ino)
           r1 == [at |-> "unlink", name |-> o.name]
<1>1. /\ o.at = "ifree" /\ inode' = inode /\ dir' = dir
      /\ bmap' = bmap /\ handle' = handle
      /\ imap' = (imap \ InosOf(g0)) \cup (o.copy \ {o.ino})
  BY ZenonT(40) DEF InodeFree
<1>2. imap \cap InosOf(g0) = o.copy
  BY ZenonT(40) DEF InodeFree, DiskSound
<1>3. o.ino \in Ino /\ o.name \in FileName \cup {"none"}
  BY <1>1, Zenon DEF Strong, DiskTyped, OpTyped
<1>4. \/ o.name = "none" /\ ext' = [ext EXCEPT ![p] = Idle]
      \/ o.name # "none" /\ ext' = [ext EXCEPT ![p] = r1]
  BY ZenonT(40) DEF InodeFree, Step
<1>5. /\ Others(p)
      /\ \/ o.name = "none" /\ ext'[p] = Idle
         \/ o.name # "none" /\ ext'[p] = r1
  BY <1>1, <1>4, StepOthers, SMTT(30)
<1>6. \/ o.name = "none" /\ ext'[p] = Idle /\ ext'[p].at = "idle"
      \/ o.name \in FileName /\ ext'[p].at = "unlink" /\ ext'[p].name = o.name
  <2>1. CASE ext'[p] = Idle /\ o.name = "none"
    BY <2>1 DEF Idle
  <2>2. CASE ext'[p] = r1 /\ o.name # "none"
    BY <1>3, <2>2
  <2>3. QED
    BY <1>5, <2>1, <2>2, ZenonT(40)
<1>7. /\ \A n \in FileName : Deletes(p, n)' <=> Deletes(p, n)
      /\ \A i \in Ino : ~Holds(p, i)'
      /\ \A k \in Idx, b \in Blk \ {0} : ~FreshAt(p, k, b)' /\ ~PendingAt(p, k, b)'
      /\ ~Writing(p)' /\ DeletesIts(p)' /\ UndoesNothing(p)'
  BY <1>1, <1>6, Ext2Assumption, ZenonT(40)
  DEF Deletes, Holds, FreshAt, PendingAt, Writing, Freeing, DeletesIts, UndoesNothing
<1>8. OpTyped(p)'
  BY <1>3, <1>6, ZenonT(40) DEF OpTyped, Writing, Freeing
<1>9. ASSUME NEW q \in ExtProc, NEW i \in Ino, Holds(q, i)'
      PROVE  i \in imap'
  <2>1. q # p /\ Holds(q, i)
    BY <1>5, <1>7, <1>9, Zenon DEF Others, Holds
  <2>2. i # o.ino
    <3>1. CASE o.name = "none"
      <4>1. Holds(p, o.ino)
        BY <1>1, <3>1, ZenonT(40) DEF Holds
      <4>2. QED
        BY <2>1, <4>1, Zenon DEF Strong, InodesNamed, OneHolder
    <3>2. CASE o.name \in FileName
      <4>1. dir[o.name] = o.ino
        BY <1>1, <3>2, Zenon DEF Strong, InodesNamed, DeletesIts, Deletes
      <4>2. QED
        BY <2>1, <3>2, <4>1, Zenon DEF Strong, InodesNamed, HeldUnnamed
    <3>3. QED
      BY <1>3, <3>1, <3>2, Zenon
  <2>3. i \in imap
    BY <2>1, Zenon DEF Strong, InodesNamed, HeldUnnamed
  <2>4. QED
    BY <1>1, <1>2, <2>2, <2>3, Zenon
<1>10. handle' \in [ExtProc -> Ino \cup {0}]
  BY <1>1, Zenon DEF Strong, DiskTyped
<1>11. QED
  BY <1>1, <1>5, <1>7, <1>8, <1>9, <1>10, QuietStep, ZenonT(40)

(* The entry goes last: nothing of the file is left to claim. *)
LEMMA UnlinkEndStep ==
  ASSUME Strong, NEW p \in ExtProc, UnlinkEnd(p)
  PROVE  Strong'
<1> DEFINE o == ext[p]
<1>1. /\ o.at = "unlink" /\ inode' = inode /\ dir' = [dir EXCEPT ![o.name] = 0]
      /\ bmap' = bmap /\ imap' = imap /\ handle' = handle
      /\ ext' = [ext EXCEPT ![p] = Idle]
  BY SMTT(30) DEF UnlinkEnd, Step
<1>2. o.name \in FileName /\ Deletes(p, o.name)
  BY <1>1, Zenon DEF Strong, DiskTyped, OpTyped, Deletes
<1>3. /\ dir' \in [FileName -> Ino \cup {0}] /\ dir'[o.name] = 0
      /\ \A n \in FileName : n # o.name => dir'[n] = dir[n]
  BY <1>1, <1>2, Zenon DEF Strong, DiskTyped
<1>4. Others(p) /\ ext'[p] = Idle
  BY <1>1, StepOthers, ZenonT(40)
<1>5. ext'[p].at = "idle"
  BY <1>4 DEF Idle
<1>6. DiskTyped'
  <2>1. OpTyped(p)'
    BY <1>4, <1>5, IdleTyped, ZenonT(40)
  <2>2. handle' \in [ExtProc -> Ino \cup {0}] /\ inode' \in [Ino -> [Idx -> Blk]]
        /\ bmap' \subseteq Blk /\ 0 \in bmap'
    BY <1>1, Zenon DEF Strong, DiskTyped
  <2>3. QED
    BY <1>3, <1>4, <2>1, <2>2, TypedStep, SMTT(30) DEF Strong
<1>7. Marked' /\ ClaimedOnce'
  <2>1. SUFFICES ASSUME NEW c \in Claims, NEW x \in FileName \cup ExtProc,
                        NEW k \in Idx, NEW b \in Blk \ {0}, Claim(c, x, k, b)'
                 PROVE  Claim(c, x, k, b)
    BY <1>1, ClaimsKept, Zenon DEF Strong, Marked
  <2>2. \A n \in FileName : n # o.name => (Deleting(n)' <=> Deleting(n))
    BY <1>1, <1>4, <1>5, ZenonT(40) DEF Deleting, Others
  <2>3. CASE c = "file"
    BY <1>1, <1>3, <2>1, <2>2, <2>3, Zenon DEF Claim, FileHas
  <2>4. CASE c = "fresh"
    BY <1>4, <1>5, <2>1, <2>4, AtRestPrimed, Zenon DEF Claim, FreshAt, Others, Writing
  <2>5. CASE c = "pending"
    BY <1>4, <1>5, <2>1, <2>5, AtRestPrimed, ZenonT(40) DEF Claim, PendingAt, Others, Freeing
  <2>6. QED
    BY <2>3, <2>4, <2>5, Zenon DEF Claims
<1>8. OldKept'
  BY <1>1, <1>4, <1>5, AtRestPrimed, QuietOld, ZenonT(40) DEF Strong
<1>9. InodesNamed'
  <2>1. \A q \in ExtProc : q # p => \A i \in Ino : Holds(q, i)' <=> Holds(q, i)
    BY <1>4, Zenon DEF Others, Holds
  <2>2. \A q \in ExtProc : q # p => \A n \in FileName : Deletes(q, n)' <=> Deletes(q, n)
    BY <1>4, Zenon DEF Others, Deletes
  <2>3. OneName'
    BY <1>2, <1>3, Zenon DEF Strong, InodesNamed, OneName
  <2>4. HeldUnnamed'
    BY <1>1, <1>2, <1>3, <1>5, <2>1, AtRestPrimed, NumberFacts, ZenonT(40)
    DEF Strong, InodesNamed, HeldUnnamed
  <2>5. OneHolder'
    BY <1>5, <2>1, AtRestPrimed, ZenonT(40) DEF Strong, InodesNamed, OneHolder
  <2>6. OneDeleter'
    BY <1>5, <2>2, AtRestPrimed, ZenonT(40) DEF Strong, InodesNamed, OneDeleter
  <2>7. ASSUME NEW q \in ExtProc
        PROVE  DeletesIts(q)' /\ UndoesNothing(q)'
    <3>1. CASE q = p
      BY <1>5, <3>1, AtRestPrimed, Zenon
    <3>2. CASE q # p
      <4>1. ext'[q] = ext[q] /\ DeletesIts(q) /\ UndoesNothing(q)
        BY <1>4, <3>2, Zenon DEF Others, Strong, InodesNamed
      <4>2. ~Deletes(q, o.name)
        BY <1>2, <3>2, ZenonT(40) DEF Strong, InodesNamed, OneDeleter
      <4>3. DeletesIts(q)'
        BY <1>3, <2>2, <3>2, <4>1, <4>2, Zenon DEF DeletesIts
      <4>4. QED
        BY <4>1, <4>3, Zenon DEF UndoesNothing, Freeing
    <3>3. QED
      BY <3>1, <3>2, Zenon
  <2>8. QED
    BY <2>3, <2>4, <2>5, <2>6, <2>7, Zenon DEF InodesNamed
<1>10. QED
  BY <1>6, <1>7, <1>8, <1>9, Zenon DEF Strong

(* A crash outside a deletion leaves the files as they are on the disk. *)
LEMMA CrashStep ==
  ASSUME Strong, Crash, DiskSound'
  PROVE  Strong'
<1>1. /\ inode' = inode /\ dir' = dir /\ bmap' = bmap /\ imap' = imap
      /\ handle' = [p \in ExtProc |-> 0] /\ ext' = [p \in ExtProc |-> Idle]
  BY Zenon DEF Crash
<1>2. \A n \in FileName : ~Deleting(n)
  BY ZenonT(40) DEF Crash, DiskSound
<1>3. \A p \in ExtProc : ext'[p] = Idle /\ ext'[p].at = "idle"
  BY <1>1, Zenon DEF Idle
<1>4. DiskTyped'
  <2>1. \A p \in ExtProc : OpTyped(p)'
    BY <1>3, Zenon DEF OpTyped, Writing, Freeing
  <2>2. ext' = [p \in ExtProc |-> ext'[p]] /\ handle' \in [ExtProc -> Ino \cup {0}]
    BY <1>1, ZenonT(40)
  <2>3. QED
    BY <1>1, <2>1, <2>2, SMTT(30) DEF Strong, DiskTyped
<1>5. Marked' /\ ClaimedOnce'
  <2>1. SUFFICES ASSUME NEW c \in Claims, NEW x \in FileName \cup ExtProc,
                        NEW k \in Idx, NEW b \in Blk \ {0}, Claim(c, x, k, b)'
                 PROVE  Claim(c, x, k, b)
    BY <1>1, ClaimsKept, ZenonT(40) DEF Strong, Marked
  <2>2. c = "file"
    BY <1>3, <2>1, Zenon DEF Claim, FreshAt, PendingAt, Writing, Freeing
  <2>3. QED
    BY <1>1, <1>2, <2>1, <2>2, ZenonT(40) DEF Claim, FileHas
<1>6. OldKept'
  BY <1>3, ZenonT(40) DEF OldKept, Writing
<1>7. InodesNamed'
  <2>1. OneName'
    BY <1>1, Zenon DEF Strong, InodesNamed, OneName
  <2>2. QED
    BY <1>3, <2>1, AtRestPrimed, Zenon
    DEF InodesNamed, HeldUnnamed, OneHolder, OneDeleter
<1>8. QED
  BY <1>4, <1>5, <1>6, <1>7, Zenon DEF Strong
-----------------------------------------------------------------------------
LEMMA Ext2InvInit ==
  ASSUME Ext2Init
  PROVE  Ext2Inv
<1>1. \A p \in ExtProc : ext[p] = Idle /\ ext[p].at = "idle"
  BY Zenon DEF Ext2Init, Idle
<1>2. DiskTyped
  <2>1. \A p \in ExtProc : OpTyped(p)
    BY <1>1, Zenon DEF OpTyped, Writing, Freeing
  <2>2. 0 \in Blk
    BY Ext2Assumption DEF Blk
  <2>3. NoBlocks \in [Idx -> Blk]
    BY <2>2, Zenon DEF NoBlocks, Idx
  <2>4. QED
    BY <2>1, <2>2, <2>3, ZenonT(40) DEF Ext2Init, DiskTyped
<1>3. Marked /\ ClaimedOnce
  <2>1. \A c \in Claims, x \in FileName \cup ExtProc, k \in Idx, b \in Blk \ {0} :
          ~Claim(c, x, k, b)
    BY <1>1, ZenonT(60) DEF Claim, FileHas, FreshAt, PendingAt, Writing, Freeing, Ext2Init
  <2>2. QED
    BY <2>1, Zenon DEF Marked, ClaimedOnce
<1>4. OldKept
  BY <1>1, Zenon DEF OldKept, Writing
<1>5. InodesNamed
  BY <1>1, AtRest, Zenon DEF InodesNamed, OneName, HeldUnnamed, OneHolder, OneDeleter, Ext2Init
<1>6. QED
  BY <1>2, <1>3, <1>4, <1>5, Zenon DEF Ext2Inv, Strong

(* What has once gone wrong stays on record. *)
LEMMA SoundBefore ==
  ASSUME [Ext2Next]_extVars, DiskSound'
  PROVE  DiskSound
<1>1. CASE UNCHANGED extVars
  BY <1>1, Zenon DEF extVars, DiskSound
<1>2. CASE Crash
  BY <1>2, ZenonT(40) DEF Crash, DiskSound
<1>3. ASSUME NEW p \in ExtProc,
             \E n \in FileName : CreateRead(p, n) \/ Open(p, n)
      PROVE  DiskSound
  BY <1>3 DEF CreateRead, Open, DiskSound
<1>4. ASSUME NEW p \in ExtProc, NEW n \in FileName, UnlinkRead(p, n)
      PROVE  DiskSound
  BY <1>4, ZenonT(40) DEF UnlinkRead, DiskSound
<1>5. ASSUME NEW p \in ExtProc,
             \E k, last \in 0..FileBlocks - 1 : WriteRead(p, k, last)
      PROVE  DiskSound
  BY <1>5 DEF WriteRead, DiskSound
<1>6. ASSUME NEW p \in ExtProc,
             InodeAlloc(p)
      PROVE  DiskSound
  BY <1>6, ZenonT(40) DEF InodeAlloc, DiskSound
<1>7. ASSUME NEW p \in ExtProc,
             CreateEnd(p)
      PROVE  DiskSound
  BY <1>7, ZenonT(40) DEF CreateEnd, DiskSound
<1>8. ASSUME NEW p \in ExtProc,
             Close(p) \/ ReadRead(p) \/ WriteMap(p) \/ WriteData(p) \/ FreeRead(p) \/ UnlinkEnd(p)
      PROVE  DiskSound
  <2>1. raced' = raced /\ inherited' = inherited /\ aborted' = aborted /\ cut' = cut
    BY <1>8, ZenonT(40) DEF Close, ReadRead, WriteMap, WriteData, FreeRead, UnlinkEnd
  <2>2. QED
    BY <2>1, SMTT(30) DEF DiskSound
<1>9. ASSUME NEW p \in ExtProc,
             BlockAlloc(p)
      PROVE  DiskSound
  BY <1>9, ZenonT(40) DEF BlockAlloc, DiskSound
<1>10. ASSUME NEW p \in ExtProc,
             WriteFails(p)
      PROVE  DiskSound
  BY <1>10, ZenonT(40) DEF WriteFails, DiskSound
<1>11. ASSUME NEW p \in ExtProc,
             InodeWrite(p)
      PROVE  DiskSound
  BY <1>11, ZenonT(40) DEF InodeWrite, DiskSound
<1>12. ASSUME NEW p \in ExtProc,
             BlockFree(p)
      PROVE  DiskSound
  BY <1>12, ZenonT(40) DEF BlockFree, DiskSound
<1>13. ASSUME NEW p \in ExtProc,
             InodeFree(p)
      PROVE  DiskSound
  BY <1>13, ZenonT(40) DEF InodeFree, DiskSound
<1>14. QED
  BY <1>1, <1>2, <1>3, <1>4, <1>5, <1>6, <1>7, <1>8, <1>9, <1>10, <1>11, <1>12, <1>13, Zenon DEF Ext2Next

LEMMA Ext2InvStep ==
  ASSUME Ext2Inv, [Ext2Next]_extVars
  PROVE  Ext2Inv'
<1>1. SUFFICES ASSUME DiskSound' PROVE Strong'
  BY Zenon DEF Ext2Inv
<1>2. Strong
  BY <1>1, SoundBefore, Zenon DEF Ext2Inv
<1>3. CASE UNCHANGED extVars
  <2>1. /\ bmap' = bmap /\ imap' = imap /\ inode' = inode /\ dir' = dir
        /\ handle' = handle /\ ext' = ext
    BY <1>3, Zenon DEF extVars
  <2>2. DiskTyped'
    BY <1>2, <2>1, TypedKept, ZenonT(40) DEF Strong, DiskTyped
  <2>3. Marked' /\ ClaimedOnce'
    <3>1. \A c, x, k, b : Claim(c, x, k, b)' => Claim(c, x, k, b)
      BY <2>1 DEF Claim, FileHas, FreshAt, PendingAt, Writing, Freeing, Deleting
    <3>2. QED
      BY <1>2, <2>1, <3>1, ClaimsKept, Zenon DEF Strong, Marked
  <2>4. OldKept'
    BY <1>2, <2>1, ZenonT(40) DEF Strong, OldKept, Writing
  <2>5. InodesNamed'
    BY <1>2, <2>1, ZenonT(40) DEF Strong, InodesNamed, OneName, HeldUnnamed, OneHolder, OneDeleter,
       DeletesIts, UndoesNothing, Freeing, Deletes, Holds
  <2>6. QED
    BY <2>2, <2>3, <2>4, <2>5, Zenon DEF Strong
<1>4. CASE Crash
  BY <1>1, <1>2, <1>4, CrashStep, Zenon
<1>5. ASSUME NEW p \in ExtProc, NEW n \in FileName,
             CreateRead(p, n) \/ Open(p, n) \/ UnlinkRead(p, n)
      PROVE  Strong'
  BY <1>1, <1>2, <1>5, CreateReadStep, HandleSteps, UnlinkReadStep, Zenon
<1>6. ASSUME NEW p \in ExtProc, NEW k \in Idx, NEW last \in Idx, WriteRead(p, k, last)
      PROVE  Strong'
  BY <1>2, <1>6, InodeReadStep, ZenonT(40)
<1>7. ASSUME NEW p \in ExtProc,
             InodeAlloc(p) \/ CreateEnd(p) \/ Close(p) \/ ReadRead(p) \/ WriteMap(p)
      PROVE  Strong'
  BY <1>1, <1>2, <1>7, InodeAllocStep, CreateEntered, CreateUndone, HandleSteps,
     InodeReadStep, WriteGoesOn, ZenonT(40)
<1>8. ASSUME NEW p \in ExtProc,
             BlockAlloc(p) \/ WriteData(p) \/ WriteFails(p) \/ InodeWrite(p)
      PROVE  Strong'
  BY <1>1, <1>2, <1>8, BlockAllocStep, WriteGoesOn, WriteFailsStep, InodeWriteStep, Zenon
<1>9. ASSUME NEW p \in ExtProc,
             FreeRead(p) \/ BlockFree(p) \/ InodeFree(p) \/ UnlinkEnd(p)
      PROVE  Strong'
  BY <1>1, <1>2, <1>9, FreeReadStep, BlockFreeStep, InodeFreeStep, UnlinkEndStep, Zenon
<1>10. QED
  BY <1>3, <1>4, <1>5, <1>6, <1>7, <1>8, <1>9, Zenon DEF Ext2Next, Idx

(* NoSharing is what the invariant says of the files' own claims. *)
LEMMA Ext2InvIsEnough ==
  ASSUME Ext2Inv
  PROVE  NoSharing
<1>1. SUFFICES ASSUME DiskSound,
                      NEW n \in FileName, dir[n] # 0, ~Deleting(n)
               PROVE  /\ Used(n) \subseteq bmap
                      /\ \A m \in FileName : dir[m] # 0 /\ ~Deleting(m) /\ dir[m] # dir[n] =>
                           Used(n) \cap Used(m) = {}
  BY Zenon DEF NoSharing, DiskSound
<1>2. Strong
  BY <1>1, Zenon DEF Ext2Inv
<1>3. \A m \in FileName : \A b : dir[m] # 0 /\ b \in Used(m) =>
        b \in Blk \ {0} /\ \E k \in Idx : inode[dir[m]][k] = b
  <2>1. DOMAIN NoBlocks = Idx
    BY Zenon DEF NoBlocks, Idx
  <2>2. \A m \in FileName : dir[m] # 0 => inode[dir[m]] \in [Idx -> Blk]
    BY <1>2, Zenon DEF Strong, DiskTyped
  <2>3. QED
    BY <2>1, <2>2 DEF Used
<1>4. \A m \in FileName, k \in Idx : \A b : dir[m] # 0 /\ ~Deleting(m) /\ inode[dir[m]][k] = b =>
        Claim("file", m, k, b)
  BY Zenon DEF Claim, FileHas
<1>5. "file" \in Claims
  BY Zenon DEF Claims
<1>6. Used(n) \subseteq bmap
  BY <1>1, <1>2, <1>3, <1>4, <1>5, Zenon DEF Strong, Marked
<1>7. ASSUME NEW m \in FileName, dir[m] # 0, ~Deleting(m), dir[m] # dir[n],
             NEW b \in Used(n) \cap Used(m)
      PROVE  FALSE
  <2>1. PICK k \in Idx : inode[dir[n]][k] = b
    BY <1>1, <1>3, <1>7, Zenon
  <2>2. PICK j \in Idx : inode[dir[m]][j] = b
    BY <1>3, <1>7, ZenonT(40)
  <2>3. Claim("file", n, k, b) /\ Claim("file", m, j, b) /\ b \in Blk \ {0}
    BY <1>1, <1>3, <1>4, <1>7, <2>1, <2>2, Zenon
  <2>4. n = m
    BY <1>2, <1>5, <2>3, Zenon DEF Strong, ClaimedOnce
  <2>5. QED
    BY <1>7, <2>4, Zenon
<1>8. QED
  BY <1>6, <1>7, Zenon

(* For any processes, names and disk: until one of the four mishaps, no    *)
(* block is in two files of ext2.c and every block of a file is marked.    *)
THEOREM FilesApart == Ext2Spec => []NoSharing
<1>1. Ext2Init => Ext2Inv
  BY Ext2InvInit, Zenon
<1>2. Ext2Inv /\ [Ext2Next]_extVars => Ext2Inv'
  BY Ext2InvStep, Zenon
<1>3. Ext2Inv => NoSharing
  BY Ext2InvIsEnough, Zenon
<1>4. QED
  BY <1>1, <1>2, <1>3, PTL DEF Ext2Spec
-----------------------------------------------------------------------------
(* Files: references and their counts (Kernel/vfs.c, proc.c). *)

(* What a step needs of the state, while every reference is counted. *)
FTypes ==
  /\ fdt \in [FProc -> [Fd -> File \cup {NoFile}]]
  /\ nopen \in [FProc -> Int]
  /\ ids \in [FProc -> SUBSET Fd]
  /\ cwd \in [FProc -> File \cup {NoFile}]
  /\ oldcwd \in [FProc -> File \cup {NoFile}]
  /\ running \subseteq FProc

(* The counts r cover n references to each file. *)
Enough(r, n) ==
  /\ r \in [File -> Nat \cup {Dead}]
  /\ n \in [File -> Nat]
  /\ \A f \in File : n[f] > 0 => r[f] # Dead /\ r[f] >= n[f]

Held == [f \in File |-> Refs(f)]

FilesInv == ~uncounted /\ ~stray => FTypes /\ Enough(refcnt, Held)

(* The three kinds of references. *)
Desc(f) == {r \in running \X Fd : fdt[r[1]][r[2]] = f}
Cwds(f) == {p \in running : cwd[p] = f}
Olds(f) == {p \in running : oldcwd[p] = f}

(* Counts that cover references cover fewer of them. *)
LEMMA FewerHeld ==
  ASSUME NEW r, NEW n, Enough(r, n), NEW k \in [File -> Nat], \A f \in File : k[f] <= n[f]
  PROVE  Enough(r, k)
<1> USE DEF Enough
<1>1. ASSUME NEW f \in File, k[f] > 0 PROVE r[f] # Dead /\ r[f] >= k[f]
  <2>1. k[f] \in Nat /\ n[f] \in Nat /\ k[f] <= n[f] /\ r[f] \in Nat \cup {Dead}
    BY Zenon
  <2>2. n[f] > 0
    BY <1>1, <2>1
  <2>3. r[f] # Dead /\ r[f] >= n[f]
    BY <2>2, Zenon
  <2> QED BY <2>1, <2>3
<1> QED BY <1>1, Zenon

(* vfs_close of a file of which one reference goes: never the count that a *)
(* reference that stays relies on.                                         *)
LEMMA CloseOne ==
  ASSUME NEW r, NEW n, Enough(r, n), NEW k \in [File -> Nat], \A f \in File : k[f] <= n[f],
         NEW g \in File \cup {NoFile}, g \in File => k[g] + 1 <= n[g]
  PROVE  Enough(Closed(r, g), k)
<1>1. Enough(r, k)
  BY FewerHeld, Zenon
<1>2. CASE g = NoFile \/ r[g] = Dead
  BY <1>1, <1>2, Zenon DEF Closed
<1>3. CASE ~(g = NoFile \/ r[g] = Dead)
  <2> DEFINE v == IF r[g] = 1 THEN Dead ELSE IF r[g] = 0 THEN Huge ELSE r[g] - 1
  <2>1. g \in File /\ k[g] + 1 <= n[g] /\ k[g] \in Nat /\ n[g] \in Nat
    BY <1>3, Zenon DEF Enough
  <2>2. n[g] > 0
    BY <2>1
  <2>3. r[g] # Dead /\ r[g] >= n[g] /\ r[g] \in Nat \cup {Dead}
    BY <2>1, <2>2, Zenon DEF Enough
  <2>4. v \in Nat \cup {Dead} /\ (k[g] > 0 => v # Dead /\ v >= k[g])
    BY <2>1, <2>2, <2>3 DEF Dead
  <2>5. Closed(r, g) = [r EXCEPT ![g] = v]
    BY <1>3, Zenon DEF Closed
  <2> HIDE DEF v
  <2>6. r \in [File -> Nat \cup {Dead}] /\ \A f \in File : k[f] > 0 => r[f] # Dead /\ r[f] >= k[f]
    BY <1>1, Zenon DEF Enough
  <2>7. [r EXCEPT ![g] = v] \in [File -> Nat \cup {Dead}]
    BY <2>1, <2>4, <2>6, Zenon
  <2>8. \A f \in File : k[f] > 0 => [r EXCEPT ![g] = v][f] # Dead /\ [r EXCEPT ![g] = v][f] >= k[f]
    BY <2>1, <2>4, <2>6, Zenon
  <2> QED BY <2>5, <2>7, <2>8, Zenon DEF Enough
<1> QED BY <1>2, <1>3, Zenon

(* A file object that is new to its one reference. *)
LEMMA Opened ==
  ASSUME NEW r, NEW n, Enough(r, n), NEW k \in [File -> Nat], NEW g \in File,
         \A f \in File : f # g => k[f] <= n[f], k[g] <= 1
  PROVE  Enough([r EXCEPT ![g] = 1], k)
<1>1. r \in [File -> Nat \cup {Dead}] /\ n \in [File -> Nat]
  BY Zenon DEF Enough
<1>2. [r EXCEPT ![g] = 1] \in [File -> Nat \cup {Dead}]
  BY <1>1, Zenon
<1>3. ASSUME NEW f \in File, k[f] > 0
      PROVE  [r EXCEPT ![g] = 1][f] # Dead /\ [r EXCEPT ![g] = 1][f] >= k[f]
  <2>1. k[f] \in Nat /\ n[f] \in Nat /\ r[f] \in Nat \cup {Dead}
    BY <1>1, Zenon
  <2>2. CASE f = g
    <3>1. [r EXCEPT ![g] = 1][f] = 1
      BY <2>2, <1>1, Zenon
    <3> QED BY <3>1, <2>1, <2>2 DEF Dead
  <2>3. CASE f # g
    <3>1. [r EXCEPT ![g] = 1][f] = r[f] /\ k[f] <= n[f]
      BY <2>3, <1>1, Zenon
    <3>2. n[f] > 0
      BY <3>1, <2>1, <1>3
    <3>3. r[f] # Dead /\ r[f] >= n[f]
      BY <3>2, Zenon DEF Enough
    <3> QED BY <3>1, <3>3, <2>1
  <2> QED BY <2>2, <2>3, Zenon
<1> QED BY <1>2, <1>3, Zenon DEF Enough

(* References are finitely many. *)
LEMMA FiniteRefs ==
  ASSUME FTypes, NEW f
  PROVE  /\ IsFiniteSet(Desc(f)) /\ Cardinality(Desc(f)) \in Nat
         /\ IsFiniteSet(Cwds(f)) /\ Cardinality(Cwds(f)) \in Nat
         /\ IsFiniteSet(Olds(f)) /\ Cardinality(Olds(f)) \in Nat
         /\ Refs(f) = Cardinality(Desc(f)) + Cardinality(Cwds(f)) + Cardinality(Olds(f))
         /\ Refs(f) \in Nat
<1>1. IsFiniteSet(running)
  BY FilesAssumption, FS_Subset, Zenon DEF FTypes
<1>2. IsFiniteSet(Fd)
  BY FilesAssumption, FS_Interval DEF Fd
<1>3. IsFiniteSet(running \X Fd)
  BY <1>1, <1>2, FS_Product, Zenon
<1>4. Desc(f) \in SUBSET (running \X Fd) /\ Cwds(f) \in SUBSET running /\ Olds(f) \in SUBSET running
  BY Zenon DEF Desc, Cwds, Olds
<1>5. IsFiniteSet(Desc(f)) /\ IsFiniteSet(Cwds(f)) /\ IsFiniteSet(Olds(f))
  BY <1>1, <1>3, <1>4, FS_Subset, Zenon
<1>6. Cardinality(Desc(f)) \in Nat /\ Cardinality(Cwds(f)) \in Nat /\ Cardinality(Olds(f)) \in Nat
  BY <1>5, FS_CardinalityType, Zenon
<1>7. Refs(f) = Cardinality(Desc(f)) + Cardinality(Cwds(f)) + Cardinality(Olds(f))
  BY Zenon DEF Refs, Desc, Cwds, Olds
<1>8. Refs(f) \in Nat
  BY <1>6, <1>7
<1> QED BY <1>5, <1>6, <1>7, <1>8, Zenon

(* The same after a step. *)
LEMMA FiniteRefsNext ==
  ASSUME FTypes', NEW f
  PROVE  /\ IsFiniteSet(Desc(f)') /\ Cardinality(Desc(f)') \in Nat
         /\ IsFiniteSet(Cwds(f)') /\ Cardinality(Cwds(f)') \in Nat
         /\ IsFiniteSet(Olds(f)') /\ Cardinality(Olds(f)') \in Nat
         /\ Refs(f)' = Cardinality(Desc(f)') + Cardinality(Cwds(f)') + Cardinality(Olds(f)')
         /\ Refs(f)' \in Nat
<1>1. IsFiniteSet(running')
  BY FilesAssumption, FS_Subset, Zenon DEF FTypes
<1>2. IsFiniteSet(Fd)
  BY FilesAssumption, FS_Interval DEF Fd
<1>3. IsFiniteSet(running' \X Fd)
  BY <1>1, <1>2, FS_Product, Zenon
<1>4. Desc(f)' \in SUBSET (running' \X Fd) /\ Cwds(f)' \in SUBSET running' /\ Olds(f)' \in SUBSET running'
  BY Zenon DEF Desc, Cwds, Olds
<1>5. IsFiniteSet(Desc(f)') /\ IsFiniteSet(Cwds(f)') /\ IsFiniteSet(Olds(f)')
  BY <1>1, <1>3, <1>4, FS_Subset, Zenon
<1>6. Cardinality(Desc(f)') \in Nat /\ Cardinality(Cwds(f)') \in Nat /\ Cardinality(Olds(f)') \in Nat
  BY <1>5, FS_CardinalityType, Zenon
<1>7. Refs(f)' = Cardinality(Desc(f)') + Cardinality(Cwds(f)') + Cardinality(Olds(f)')
  BY Zenon DEF Refs, Desc, Cwds, Olds
<1>8. Refs(f)' \in Nat
  BY <1>6, <1>7
<1> QED BY <1>5, <1>6, <1>7, <1>8, Zenon

(* How a set of references may change. *)
LEMMA NoMore ==
  ASSUME NEW S, IsFiniteSet(S), NEW T, T \subseteq S
  PROVE  Cardinality(T) <= Cardinality(S)
  BY FS_Subset, Zenon

(* One more reference counts one more at most. *)
LEMMA OneMore ==
  ASSUME NEW S, IsFiniteSet(S), NEW x, NEW T, T \subseteq S \cup {x}
  PROVE  Cardinality(T) <= Cardinality(S) + 1
<1>1. IsFiniteSet(S \cup {x}) /\ Cardinality(S) \in Nat
  BY FS_AddElement, FS_CardinalityType, Zenon
<1>2. Cardinality(S \cup {x}) <= Cardinality(S) + 1
  BY <1>1, FS_AddElement
<1>3. Cardinality(T) <= Cardinality(S \cup {x}) /\ IsFiniteSet(T)
  BY <1>1, FS_Subset, Zenon
<1>4. Cardinality(T) \in Nat /\ Cardinality(S \cup {x}) \in Nat
  BY <1>1, <1>3, FS_CardinalityType, Zenon
<1> QED BY <1>1, <1>2, <1>3, <1>4

(* One reference less is counted. *)
LEMMA OneLess ==
  ASSUME NEW S, IsFiniteSet(S), NEW x \in S, NEW T, T \subseteq S \ {x}
  PROVE  Cardinality(T) + 1 <= Cardinality(S)
<1>1. IsFiniteSet(S \ {x}) /\ Cardinality(S) \in Nat /\ Cardinality(S \ {x}) = Cardinality(S) - 1
  BY FS_RemoveElement, FS_CardinalityType, Zenon
<1>2. Cardinality(T) <= Cardinality(S \ {x}) /\ IsFiniteSet(T)
  BY <1>1, FS_Subset, Zenon
<1>3. Cardinality(T) \in Nat
  BY <1>2, FS_CardinalityType, Zenon
<1> QED BY <1>1, <1>2, <1>3

(* Writing one entry of a table. *)
LEMMA EntryWritten ==
  ASSUME FTypes, NEW p \in running, NEW fd \in Fd, NEW g \in File \cup {NoFile},
         fdt' = [fdt EXCEPT ![p][fd] = g], FTypes',
         running' = running, cwd' = cwd, oldcwd' = oldcwd, NEW f \in File
  PROVE  /\ f = g => Refs(f)' <= Refs(f) + 1
         /\ f # g => Refs(f)' <= Refs(f)
         /\ f # g /\ fdt[p][fd] = f => Refs(f)' + 1 <= Refs(f)
<1>1. \A r \in running \X Fd : /\ r[1] \in FProc /\ r[2] \in Fd /\ r = <<r[1], r[2]>>
  BY DEF FTypes
<1>2. \A q \in FProc, x \in Fd : fdt'[q][x] = IF q = p /\ x = fd THEN g ELSE fdt[q][x]
  BY Zenon DEF FTypes
<1>3. Cwds(f)' = Cwds(f) /\ Olds(f)' = Olds(f)
  BY Zenon DEF Cwds, Olds
<1>4. Desc(f)' \subseteq Desc(f) \cup {<<p, fd>>}
  BY <1>1, <1>2 DEF Desc
<1>5. f # g => Desc(f)' \subseteq Desc(f) \ {<<p, fd>>}
  BY <1>1, <1>2 DEF Desc
<1>6. fdt[p][fd] = f => <<p, fd>> \in Desc(f)
  BY Zenon DEF Desc
<1> DEFINE a == Cardinality(Desc(f))
           b == Cardinality(Desc(f)')
<1>7. b <= a + 1 /\ (f # g => b <= a) /\ (f # g /\ fdt[p][fd] = f => b + 1 <= a)
  <2>1. IsFiniteSet(Desc(f))
    BY FiniteRefs, Zenon
  <2>2. b <= a + 1
    BY <2>1, <1>4, OneMore, Zenon
  <2>3. f # g => b <= a
    <3>1. f # g => Desc(f)' \subseteq Desc(f)
      BY <1>5, Zenon
    <3> QED BY <2>1, <3>1, NoMore, Zenon
  <2>4. f # g /\ fdt[p][fd] = f => b + 1 <= a
    BY <2>1, <1>5, <1>6, OneLess, Zenon
  <2> QED BY <2>2, <2>3, <2>4, Zenon
<1>8. a \in Nat /\ b \in Nat /\ Cardinality(Cwds(f)) \in Nat /\ Cardinality(Olds(f)) \in Nat
  BY FiniteRefs, FiniteRefsNext, Zenon
<1>9. /\ Refs(f) = a + Cardinality(Cwds(f)) + Cardinality(Olds(f))
      /\ Refs(f)' = b + Cardinality(Cwds(f)) + Cardinality(Olds(f))
  BY <1>3, FiniteRefs, FiniteRefsNext, Zenon
<1> HIDE DEF a, b
<1> QED BY <1>7, <1>8, <1>9

(* The lowest free descriptor is a descriptor. *)
LEMMA FreeFd ==
  ASSUME NEW S \in SUBSET Fd, S # Fd
  PROVE  Min(Fd \ S) \in Fd
<1>1. Fd \subseteq Nat
  BY DEF Fd
<1> DEFINE G == Fd \ S
<1>2. G \subseteq Nat /\ G # {}
  BY <1>1, Zenon
<1> HIDE DEF G
<1>3. \E n \in G : \A y \in G : n <= y
  BY <1>2, Least, Zenon
<1>4. Min(G) \in G
  BY <1>3, Zenon DEF Min
<1> QED BY <1>4, Zenon DEF G

(* While nothing is uncounted, a file that is referred to has a count. *)
LEMMA Counts ==
  ASSUME FilesInv, ~uncounted, ~stray
  PROVE  /\ FTypes /\ Enough(refcnt, Held) /\ refcnt \in [File -> Nat \cup {Dead}]
         /\ \A f \in File : Held[f] = Refs(f) /\ Refs(f) \in Nat /\ (Refs(f) > 0 => refcnt[f] # Dead)
<1>1. FTypes /\ Enough(refcnt, Held)
  BY Zenon DEF FilesInv
<1>2. \A f \in File : Held[f] = Refs(f)
  BY Zenon DEF Held
<1>3. \A f \in File : Refs(f) \in Nat
  BY <1>1, FiniteRefs, Zenon
<1>4. \A f \in File : Refs(f) > 0 => refcnt[f] # Dead
  BY <1>1, <1>2, Zenon DEF Enough
<1> QED BY <1>1, <1>2, <1>3, <1>4, Zenon DEF Enough

(* The references after a step are counted in numbers. *)
LEMMA HeldNext ==
  ASSUME FTypes'
  PROVE  Held' \in [File -> Nat] /\ \A f \in File : Held'[f] = Refs(f)'
<1>1. \A f \in File : Refs(f)' \in Nat
  BY FiniteRefsNext, Zenon
<1> QED BY <1>1, Zenon DEF Held

(* The files of kopen and of F_DUPFD. *)
LEMMA ByKopen ==
  ASSUME FilesInv, NEW p \in FProc, NEW mode \in Access, NEW create \in BOOLEAN, Kopen(p, mode, create)
  PROVE  FilesInv'
<1> SUFFICES ASSUME ~uncounted', ~stray' PROVE FTypes' /\ Enough(refcnt', Held')
  BY Zenon DEF FilesInv, Enough
<1>1. /\ ~uncounted /\ ~stray /\ p \in running /\ ids[p] # Fd
      /\ cwd' = cwd /\ oldcwd' = oldcwd /\ running' = running
      /\ nopen' = [nopen EXCEPT ![p] = @ + 1]
  BY Zenon DEF Kopen, Attach
<1>2. /\ FTypes /\ Enough(refcnt, Held) /\ refcnt \in [File -> Nat \cup {Dead}]
      /\ \A f \in File : Held[f] = Refs(f) /\ Refs(f) \in Nat /\ (Refs(f) > 0 => refcnt[f] # Dead)
  BY <1>1, Counts, Zenon
<1>3. PICK g \in File : /\ refcnt[g] = Dead
                        /\ fdt' = [fdt EXCEPT ![p][Min(Fd \ ids[p])] = g]
                        /\ ids' = [ids EXCEPT ![p] = @ \cup {Min(Fd \ ids[p])}]
                        /\ refcnt' = [refcnt EXCEPT ![g] = 1]
  BY Zenon DEF Kopen, Attach, Live
<1>4. ids[p] \in SUBSET Fd
  BY <1>2, Zenon DEF FTypes
<1>5. PICK fd \in Fd : fd = Min(Fd \ ids[p])
  BY <1>1, <1>4, FreeFd, Zenon
<1>6. FTypes'
  <2>1. /\ p \in FProc /\ nopen \in [FProc -> Int] /\ ids \in [FProc -> SUBSET Fd]
        /\ fdt \in [FProc -> [Fd -> File \cup {NoFile}]]
    BY <1>1, <1>2, Zenon DEF FTypes
  <2>2. nopen' \in [FProc -> Int]
    BY <1>1, <2>1
  <2>3. ids' \in [FProc -> SUBSET Fd]
    BY <1>3, <1>5, <2>1, Zenon
  <2>4. fdt' \in [FProc -> [Fd -> File \cup {NoFile}]]
    <3>1. fdt' = [fdt EXCEPT ![p][fd] = g]
      BY <1>3, <1>5, Zenon
    <3> QED BY <2>1, <3>1, Zenon
  <2> QED BY <1>1, <1>2, <2>2, <2>3, <2>4, Zenon DEF FTypes
<1>7. ASSUME NEW f \in File
      PROVE  (f = g => Refs(f)' <= Refs(f) + 1) /\ (f # g => Refs(f)' <= Refs(f))
  BY <1>1, <1>2, <1>3, <1>5, <1>6, EntryWritten, Zenon
<1>8. Held' \in [File -> Nat] /\ \A f \in File : Held'[f] = Refs(f)'
  BY <1>6, HeldNext, Zenon
<1>9. Refs(g) = 0
  BY <1>2, <1>3
<1>10. (\A f \in File : f # g => Held'[f] <= Held[f]) /\ Held'[g] <= 1
  BY <1>2, <1>7, <1>8, <1>9
<1>11. Enough(refcnt', Held')
  BY <1>2, <1>3, <1>8, <1>10, Opened, Zenon
<1> QED BY <1>6, <1>11, Zenon

(* kfcntl, F_DUPFD: the copy is counted before it can be used. *)
LEMMA ByDupFd ==
  ASSUME FilesInv, NEW p \in FProc, NEW old \in Fd, DupFd(p, old)
  PROVE  FilesInv'
<1> SUFFICES ASSUME ~uncounted', ~stray' PROVE FTypes' /\ Enough(refcnt', Held')
  BY Zenon DEF FilesInv, Enough
<1>1. /\ ~uncounted /\ ~stray /\ p \in running /\ ids[p] # Fd /\ fdt[p][old] # NoFile
      /\ cwd' = cwd /\ oldcwd' = oldcwd /\ running' = running /\ nopen' = nopen
      /\ fdt' = [fdt EXCEPT ![p][Min(Fd \ ids[p])] = fdt[p][old]]
      /\ ids' = [ids EXCEPT ![p] = @ \cup {Min(Fd \ ids[p])}]
      /\ refcnt' = [refcnt EXCEPT ![fdt[p][old]] = IF @ = Dead THEN Dead ELSE @ + 1]
  BY Zenon DEF DupFd
<1>2. /\ FTypes /\ Enough(refcnt, Held) /\ refcnt \in [File -> Nat \cup {Dead}]
      /\ \A f \in File : Held[f] = Refs(f) /\ Refs(f) \in Nat /\ (Refs(f) > 0 => refcnt[f] # Dead)
  BY <1>1, Counts, Zenon
<1>3. PICK g \in File : g = fdt[p][old]
  BY <1>1, <1>2 DEF FTypes
<1>4. ids[p] \in SUBSET Fd
  BY <1>2, Zenon DEF FTypes
<1>5. PICK fd \in Fd : fd = Min(Fd \ ids[p])
  BY <1>1, <1>4, FreeFd, Zenon
<1>6. FTypes'
  BY <1>1, <1>2, <1>3, <1>5, Zenon DEF FTypes
<1>7. ASSUME NEW f \in File
      PROVE  (f = g => Refs(f)' <= Refs(f) + 1) /\ (f # g => Refs(f)' <= Refs(f))
  BY <1>1, <1>2, <1>3, <1>5, <1>6, EntryWritten, Zenon
<1>8. Held' \in [File -> Nat] /\ \A f \in File : Held'[f] = Refs(f)'
  BY <1>6, HeldNext, Zenon
<1>9. Refs(g) > 0
  <2>1. <<p, old>> \in Desc(g)
    BY <1>1, <1>3, Zenon DEF Desc
  <2>2. IsFiniteSet(Desc(g)) /\ Cardinality(Desc(g)) \in Nat
    BY <1>2, FiniteRefs, Zenon
  <2>3. Cardinality(Desc(g)) # 0
    BY <2>1, <2>2, FS_EmptySet, Zenon
  <2>4. /\ Refs(g) = Cardinality(Desc(g)) + Cardinality(Cwds(g)) + Cardinality(Olds(g))
        /\ Cardinality(Cwds(g)) \in Nat /\ Cardinality(Olds(g)) \in Nat
    BY <1>2, FiniteRefs, Zenon
  <2> QED BY <2>2, <2>3, <2>4
<1>10. refcnt[g] # Dead /\ refcnt[g] \in Nat /\ refcnt' = [refcnt EXCEPT ![g] = refcnt[g] + 1]
  BY <1>1, <1>2, <1>3, <1>9, Zenon
<1>11. refcnt' \in [File -> Nat \cup {Dead}]
  BY <1>2, <1>10
<1>12. ASSUME NEW f \in File, Held'[f] > 0 PROVE refcnt'[f] # Dead /\ refcnt'[f] >= Held'[f]
  <2>1. Held'[f] \in Nat /\ Refs(f) \in Nat /\ Held[f] = Refs(f) /\ Held'[f] = Refs(f)'
    BY <1>2, <1>8, Zenon
  <2>2. CASE f = g
    <3>1. refcnt'[f] = refcnt[g] + 1 /\ Held'[f] <= Held[f] + 1
      BY <2>2, <2>1, <1>2, <1>10, <1>7, Zenon
    <3>2. refcnt[g] >= Held[f]
      BY <2>1, <2>2, <1>2, <1>9, Zenon DEF Enough
    <3> QED BY <3>1, <3>2, <2>1, <1>10 DEF Dead
  <2>3. CASE f # g
    <3>1. refcnt'[f] = refcnt[f] /\ Held'[f] <= Held[f] /\ refcnt[f] \in Nat \cup {Dead}
      BY <2>1, <2>3, <1>2, <1>10, <1>7, Zenon
    <3>2. Held[f] > 0
      BY <3>1, <2>1, <1>12
    <3>3. refcnt[f] # Dead /\ refcnt[f] >= Held[f]
      BY <3>2, <1>2, Zenon DEF Enough
    <3> QED BY <3>1, <3>3, <2>1
  <2> QED BY <2>2, <2>3, Zenon
<1> QED BY <1>6, <1>8, <1>11, <1>12, Zenon DEF Enough

(* kclose gives back one reference with one entry. *)
LEMMA ByKclose ==
  ASSUME FilesInv, NEW p \in FProc, NEW fd \in Fd, Kclose(p, fd)
  PROVE  FilesInv'
<1> SUFFICES ASSUME ~uncounted', ~stray' PROVE FTypes' /\ Enough(refcnt', Held')
  BY Zenon DEF FilesInv, Enough
<1>1. /\ ~uncounted /\ ~stray /\ p \in running /\ fdt[p][fd] # NoFile
      /\ cwd' = cwd /\ oldcwd' = oldcwd /\ running' = running
      /\ nopen' = [nopen EXCEPT ![p] = @ - 1]
      /\ fdt' = [fdt EXCEPT ![p][fd] = NoFile]
      /\ ids' = [ids EXCEPT ![p] = @ \ {fd}]
      /\ refcnt' = Closed(refcnt, fdt[p][fd])
  BY Zenon DEF Kclose
<1>2. /\ FTypes /\ Enough(refcnt, Held)
      /\ \A f \in File : Held[f] = Refs(f) /\ Refs(f) \in Nat
  BY <1>1, Counts, Zenon
<1>3. PICK g \in File : g = fdt[p][fd]
  BY <1>1, <1>2 DEF FTypes
<1>4. FTypes'
  BY <1>1, <1>2 DEF FTypes
<1>5. NoFile \in File \cup {NoFile} /\ \A f \in File : f # NoFile
  BY FilesAssumption, Zenon
<1>6. ASSUME NEW f \in File
      PROVE  Refs(f)' <= Refs(f) /\ (f = g => Refs(f)' + 1 <= Refs(f))
  BY <1>1, <1>2, <1>3, <1>4, <1>5, EntryWritten, Zenon
<1>7. Held' \in [File -> Nat] /\ \A f \in File : Held'[f] = Refs(f)'
  BY <1>4, HeldNext, Zenon
<1>8. (\A f \in File : Held'[f] <= Held[f]) /\ Held'[g] + 1 <= Held[g]
  BY <1>2, <1>6, <1>7, Zenon
<1>9. Enough(Closed(refcnt, g), Held')
  BY <1>2, <1>7, <1>8, CloseOne, Zenon
<1> QED BY <1>1, <1>3, <1>4, <1>9, Zenon

(* kchdir: the old directory stays open until it is replaced as oldcwd. *)
LEMMA ByKchdir ==
  ASSUME FilesInv, NEW p \in FProc, Kchdir(p)
  PROVE  FilesInv'
<1> SUFFICES ASSUME ~uncounted', ~stray' PROVE FTypes' /\ Enough(refcnt', Held')
  BY Zenon DEF FilesInv, Enough
<1>1. /\ ~uncounted /\ ~stray /\ p \in running
      /\ oldcwd' = [oldcwd EXCEPT ![p] = cwd[p]]
      /\ fdt' = fdt /\ nopen' = nopen /\ ids' = ids /\ running' = running
  BY Zenon DEF Kchdir
<1>2. /\ FTypes /\ Enough(refcnt, Held) /\ refcnt \in [File -> Nat \cup {Dead}]
      /\ \A f \in File : Held[f] = Refs(f) /\ Refs(f) \in Nat /\ (Refs(f) > 0 => refcnt[f] # Dead)
  BY <1>1, Counts, Zenon
<1>3. PICK g \in File : /\ refcnt[g] = Dead
                        /\ refcnt' = [Closed(refcnt, oldcwd[p]) EXCEPT ![g] = 1]
                        /\ cwd' = [cwd EXCEPT ![p] = g]
  BY Zenon DEF Kchdir, Live
<1>4. FTypes'
  BY <1>1, <1>2, <1>3, Zenon DEF FTypes
<1>5. Held' \in [File -> Nat] /\ \A f \in File : Held'[f] = Refs(f)'
  BY <1>4, HeldNext, Zenon
<1>6. \A q \in running : /\ cwd'[q] = IF q = p THEN g ELSE cwd[q]
                         /\ oldcwd'[q] = IF q = p THEN cwd[p] ELSE oldcwd[q]
  BY <1>1, <1>2, <1>3, Zenon DEF FTypes
<1>7. ASSUME NEW f \in File
      PROVE  /\ f = g => Refs(f)' <= Refs(f) + 1
             /\ f # g => Refs(f)' <= Refs(f)
             /\ f # g /\ oldcwd[p] = f => Refs(f)' + 1 <= Refs(f)
  <2>1. Desc(f)' = Desc(f)
    BY <1>1, Zenon DEF Desc
  <2> DEFINE c == Cardinality(Cwds(f))
             d == Cardinality(Cwds(f)')
             a == Cardinality(Olds(f))
             b == Cardinality(Olds(f)')
             e == Cardinality(Desc(f))
  <2>2. /\ c \in Nat /\ d \in Nat /\ a \in Nat /\ b \in Nat /\ e \in Nat
        /\ Refs(f) = e + c + a /\ Refs(f)' = e + d + b
    BY <2>1, <1>2, <1>4, FiniteRefs, FiniteRefsNext, Zenon
  <2>3. IsFiniteSet(Cwds(f)) /\ IsFiniteSet(Olds(f))
    BY <1>2, FiniteRefs, Zenon
  <2>4. /\ f = g => Cwds(f)' \subseteq Cwds(f) \cup {p}
        /\ f # g => Cwds(f)' \subseteq Cwds(f)
        /\ f # g /\ cwd[p] = f => p \in Cwds(f) /\ Cwds(f)' \subseteq Cwds(f) \ {p}
    BY <1>1, <1>6, Zenon DEF Cwds
  <2>5. /\ cwd[p] = f => Olds(f)' \subseteq Olds(f) \cup {p}
        /\ cwd[p] = f /\ oldcwd[p] = f => Olds(f)' \subseteq Olds(f)
        /\ cwd[p] # f => Olds(f)' \subseteq Olds(f)
        /\ cwd[p] # f /\ oldcwd[p] = f => p \in Olds(f) /\ Olds(f)' \subseteq Olds(f) \ {p}
    BY <1>1, <1>6, Zenon DEF Olds
  <2>6. /\ f = g => d <= c + 1
        /\ f # g => d <= c
        /\ f # g /\ cwd[p] = f => d + 1 <= c
    BY <2>3, <2>4, NoMore, OneMore, OneLess, Zenon
  <2>7. /\ cwd[p] = f => b <= a + 1
        /\ cwd[p] = f /\ oldcwd[p] = f => b <= a
        /\ cwd[p] # f => b <= a
        /\ cwd[p] # f /\ oldcwd[p] = f => b + 1 <= a
    BY <2>3, <2>5, NoMore, OneMore, OneLess, Zenon
  <2>8. f = g => cwd[p] # f
    <3>1. f = g => Refs(f) = 0
      BY <1>2, <1>3
    <3>2. f = g => c = 0
      BY <3>1, <2>2
    <3>3. f = g => Cwds(f) = {}
      BY <3>2, <2>3, FS_EmptySet, Zenon
    <3>4. cwd[p] = f => p \in Cwds(f)
      BY <1>1, Zenon DEF Cwds
    <3> QED BY <3>3, <3>4, Zenon
  <2> HIDE DEF a, b, c, d, e
  <2> QED BY <2>2, <2>6, <2>7, <2>8
<1> DEFINE k == [f \in File |-> IF f = g THEN 0 ELSE Refs(f)']
<1>8. k \in [File -> Nat] /\ \A f \in File : k[f] = IF f = g THEN 0 ELSE Refs(f)'
  BY <1>5, Zenon
<1> HIDE DEF k
<1>9. Refs(g) = 0
  BY <1>2, <1>3
<1>10. \A f \in File : k[f] <= Held[f]
  BY <1>2, <1>7, <1>8, <1>9
<1>11. oldcwd[p] \in File \cup {NoFile}
  BY <1>2, Zenon DEF FTypes
<1>12. oldcwd[p] # g
  <2>1. oldcwd[p] = g => p \in Olds(g)
    BY <1>1, Zenon DEF Olds
  <2>2. /\ Refs(g) = Cardinality(Desc(g)) + Cardinality(Cwds(g)) + Cardinality(Olds(g))
        /\ Cardinality(Desc(g)) \in Nat /\ Cardinality(Cwds(g)) \in Nat /\ Cardinality(Olds(g)) \in Nat
        /\ IsFiniteSet(Olds(g))
    BY <1>2, FiniteRefs, Zenon
  <2>3. Cardinality(Olds(g)) = 0
    BY <2>2, <1>9
  <2>4. Olds(g) = {}
    BY <2>2, <2>3, FS_EmptySet, Zenon
  <2> QED BY <2>1, <2>4, Zenon
<1>13. oldcwd[p] \in File => k[oldcwd[p]] + 1 <= Held[oldcwd[p]]
  <2> SUFFICES ASSUME NEW f \in File, f = oldcwd[p] PROVE k[f] + 1 <= Held[f]
    BY Zenon
  <2>1. k[f] = Refs(f)' /\ Held[f] = Refs(f) /\ Refs(f)' + 1 <= Refs(f)
    BY <1>2, <1>7, <1>8, <1>12, Zenon
  <2> QED BY <2>1, Zenon
<1>14. Enough(Closed(refcnt, oldcwd[p]), k)
  BY <1>2, <1>8, <1>10, <1>11, <1>13, CloseOne, Zenon
<1>15. (\A f \in File : f # g => Held'[f] <= k[f]) /\ Held'[g] <= 1
  BY <1>5, <1>7, <1>8, <1>9
<1>16. Enough(refcnt', Held')
  BY <1>3, <1>5, <1>14, <1>15, Opened, Zenon
<1> QED BY <1>4, <1>16, Zenon

(* What kcreate_process counts covers what the child is given. *)
Given(p, f) == {fd \in Fd : fd < nopen[p] /\ fdt[p][fd] = f}

(* The counts that kcreate_process adds cover the tables it copies. *)
LEMMA InheritCovers ==
  ASSUME FilesInv, ~uncounted, ~stray, NEW p \in running, Inherit(p), NEW k \in [File -> Nat],
         \A f \in File : k[f] <= Refs(f) + Cardinality(Given(p, f)) + (IF f = cwd[p] THEN 1 ELSE 0)
  PROVE  Enough(refcnt', k)
<1>1. /\ FTypes /\ Enough(refcnt, Held) /\ refcnt \in [File -> Nat \cup {Dead}]
      /\ \A f \in File : Held[f] = Refs(f) /\ Refs(f) \in Nat /\ (Refs(f) > 0 => refcnt[f] # Dead)
  BY Counts, Zenon
<1> DEFINE T(f) == {fd \in 0..nopen[p] - 1 : fdt[p][fd] = f}
<1>2. refcnt' = [f \in File |->
                   IF refcnt[f] = Dead THEN Dead
                   ELSE refcnt[f] + Cardinality(T(f)) + IF f = cwd[p] THEN 1 ELSE 0]
  BY Zenon DEF Inherit, Live
<1>3. nopen[p] \in Int
  BY <1>1, Zenon DEF FTypes
<1>4. ASSUME NEW f \in File
      PROVE  /\ Cardinality(T(f)) \in Nat /\ Cardinality(Given(p, f)) \in Nat
             /\ Cardinality(Given(p, f)) <= Cardinality(T(f))
  <2>1. 0 \in Int /\ nopen[p] - 1 \in Int
    BY <1>3
  <2>2. IsFiniteSet(0..nopen[p] - 1)
    BY <2>1, FS_Interval, Zenon
  <2>3. T(f) \in SUBSET (0..nopen[p] - 1)
    BY Zenon
  <2>4. Given(p, f) \in SUBSET T(f)
    BY <1>3 DEF Given, Fd
  <2> HIDE DEF T
  <2>5. IsFiniteSet(T(f))
    BY <2>2, <2>3, FS_Subset, Zenon
  <2>6. IsFiniteSet(Given(p, f)) /\ Cardinality(Given(p, f)) <= Cardinality(T(f))
    BY <2>4, <2>5, FS_Subset, Zenon
  <2> QED BY <2>5, <2>6, FS_CardinalityType, Zenon
<1> HIDE DEF T
<1>5. ASSUME NEW f \in File, refcnt[f] = Dead PROVE k[f] = 0
  <2>1. Refs(f) = 0
    BY <1>1, <1>5
  <2>2. /\ Refs(f) = Cardinality(Desc(f)) + Cardinality(Cwds(f)) + Cardinality(Olds(f))
        /\ Cardinality(Desc(f)) \in Nat /\ Cardinality(Cwds(f)) \in Nat /\ Cardinality(Olds(f)) \in Nat
        /\ IsFiniteSet(Desc(f)) /\ IsFiniteSet(Cwds(f))
    BY <1>1, FiniteRefs, Zenon
  <2>3. Cardinality(Desc(f)) = 0 /\ Cardinality(Cwds(f)) = 0
    BY <2>1, <2>2
  <2>4. Desc(f) = {} /\ Cwds(f) = {}
    BY <2>2, <2>3, FS_EmptySet, Zenon
  <2>5. f # cwd[p]
    BY <2>4, Zenon DEF Cwds
  <2>6. Given(p, f) = {}
    <3>1. \A fd \in Fd : fdt[p][fd] = f => <<p, fd>> \in Desc(f)
      BY Zenon DEF Desc
    <3> QED BY <3>1, <2>4, Zenon DEF Given
  <2>7. Cardinality(Given(p, f)) = 0
    BY <2>6, FS_EmptySet, Zenon
  <2> QED BY <2>1, <2>5, <2>7
<1>6. refcnt' \in [File -> Nat \cup {Dead}]
  BY <1>1, <1>2, <1>4
<1>7. ASSUME NEW f \in File, k[f] > 0 PROVE refcnt'[f] # Dead /\ refcnt'[f] >= k[f]
  <2>1. refcnt[f] # Dead /\ refcnt[f] \in Nat /\ Refs(f) \in Nat /\ k[f] \in Nat
    BY <1>1, <1>5, <1>7
  <2>2. refcnt[f] >= Refs(f)
    <3>1. Refs(f) > 0 => refcnt[f] >= Refs(f)
      BY <1>1, Zenon DEF Enough
    <3> QED BY <3>1, <2>1
  <2>3. refcnt'[f] = refcnt[f] + Cardinality(T(f)) + IF f = cwd[p] THEN 1 ELSE 0
    BY <1>2, <2>1, Zenon
  <2> QED BY <2>1, <2>2, <2>3, <1>4 DEF Dead
<1> QED BY <1>6, <1>7, Zenon DEF Enough

(* A creation that fails after it counted only leaves counts too high. *)
LEMMA ByCreateFails ==
  ASSUME FilesInv, NEW p \in FProc, CreateFails(p)
  PROVE  FilesInv'
<1> SUFFICES ASSUME ~uncounted', ~stray' PROVE FTypes' /\ Enough(refcnt', Held')
  BY Zenon DEF FilesInv, Enough
<1>1. /\ ~uncounted /\ ~stray /\ p \in running /\ Inherit(p)
      /\ cwd' = cwd /\ oldcwd' = oldcwd /\ fdt' = fdt /\ nopen' = nopen /\ ids' = ids /\ running' = running
  BY Zenon DEF CreateFails, Inherit
<1>2. /\ FTypes
      /\ \A f \in File : Held[f] = Refs(f) /\ Refs(f) \in Nat
  BY <1>1, Counts, Zenon
<1>3. FTypes'
  BY <1>1, <1>2, Zenon DEF FTypes
<1>4. Held' = Held
  BY <1>1, Zenon DEF Held, Refs
<1>5. Held \in [File -> Nat]
  BY <1>2, Zenon DEF Held
<1>6. \A f \in File : Held[f] <= Refs(f) + Cardinality(Given(p, f)) + (IF f = cwd[p] THEN 1 ELSE 0)
  <2> SUFFICES ASSUME NEW f \in File
               PROVE  Held[f] <= Refs(f) + Cardinality(Given(p, f)) + (IF f = cwd[p] THEN 1 ELSE 0)
    BY Zenon
  <2>1. IsFiniteSet(Fd) /\ Given(p, f) \in SUBSET Fd
    BY FilesAssumption, FS_Interval DEF Fd, Given
  <2>2. Cardinality(Given(p, f)) \in Nat
    BY <2>1, FS_Subset, FS_CardinalityType, Zenon
  <2> QED BY <2>2, <1>2
<1> QED BY <1>1, <1>3, <1>4, <1>5, <1>6, InheritCovers, Zenon

(* kcreate_process: the child refers to what was counted for it. *)
LEMMA BySpawn ==
  ASSUME FilesInv, NEW p \in FProc, NEW c \in FProc, Spawn(p, c)
  PROVE  FilesInv'
<1> SUFFICES ASSUME ~uncounted', ~stray' PROVE FTypes' /\ Enough(refcnt', Held')
  BY Zenon DEF FilesInv, Enough
<1>1. /\ ~uncounted /\ ~stray /\ p \in running /\ c \notin running /\ Inherit(p)
      /\ fdt' = [fdt EXCEPT ![c] = [fd \in Fd |-> IF fd < nopen[p] THEN fdt[p][fd] ELSE NoFile]]
      /\ ids' = [ids EXCEPT ![c] = ids[p]]
      /\ nopen' = [nopen EXCEPT ![c] = nopen[p]]
      /\ cwd' = [cwd EXCEPT ![c] = cwd[p]]
      /\ oldcwd' = [oldcwd EXCEPT ![c] = NoFile]
      /\ running' = running \cup {c}
  BY Zenon DEF Spawn, Inherit
<1>2. /\ FTypes
      /\ \A f \in File : Held[f] = Refs(f) /\ Refs(f) \in Nat
  BY <1>1, Counts, Zenon
<1>3. FTypes'
  BY <1>1, <1>2 DEF FTypes
<1>4. Held' \in [File -> Nat] /\ \A f \in File : Held'[f] = Refs(f)'
  BY <1>3, HeldNext, Zenon
<1>5. ASSUME NEW f \in File
      PROVE  Held'[f] <= Refs(f) + Cardinality(Given(p, f)) + (IF f = cwd[p] THEN 1 ELSE 0)
  <2> DEFINE G == Given(p, f)
             D == {c} \X G
  <2>1. f # NoFile
    BY FilesAssumption, Zenon
  <2>2. /\ \A q \in running : fdt'[q] = fdt[q] /\ cwd'[q] = cwd[q] /\ oldcwd'[q] = oldcwd[q]
        /\ \A fd \in Fd : fdt'[c][fd] = IF fd < nopen[p] THEN fdt[p][fd] ELSE NoFile
        /\ cwd'[c] = cwd[p] /\ oldcwd'[c] = NoFile
    BY <1>1, <1>2, Zenon DEF FTypes
  <2>3. Desc(f)' \subseteq Desc(f) \cup D
    <3> SUFFICES ASSUME NEW r \in Desc(f)' PROVE r \in Desc(f) \cup D
      BY Zenon
    <3>1. r \in (running \cup {c}) \X Fd /\ fdt'[r[1]][r[2]] = f
      BY <1>1, Zenon DEF Desc
    <3>2. PICK q \in running \cup {c}, x \in Fd : r = <<q, x>>
      BY <3>1
    <3>3. fdt'[q][x] = f
      BY <3>1, <3>2, Zenon
    <3>4. CASE q = c
      <4>1. x \in G
        BY <3>3, <3>4, <2>1, <2>2, Zenon DEF Given
      <4> QED BY <4>1, <3>2, <3>4, Zenon
    <3>5. CASE q # c
      <4>1. q \in running /\ fdt[q][x] = f
        BY <3>2, <3>3, <3>5, <2>2, Zenon
      <4> QED BY <4>1, <3>2, Zenon DEF Desc
    <3> QED BY <3>4, <3>5, Zenon
  <2>4. Cwds(f)' \subseteq Cwds(f) \cup {c} /\ (f # cwd[p] => Cwds(f)' \subseteq Cwds(f))
    BY <1>1, <2>2, Zenon DEF Cwds
  <2>5. Olds(f)' \subseteq Olds(f)
    BY <1>1, <2>1, <2>2, Zenon DEF Olds
  <2>6. IsFiniteSet(Desc(f)) /\ IsFiniteSet(Cwds(f)) /\ IsFiniteSet(Olds(f))
    BY <1>2, FiniteRefs, Zenon
  <2>7. IsFiniteSet(G) /\ Cardinality(G) \in Nat
    <3>1. IsFiniteSet(Fd) /\ G \in SUBSET Fd
      BY FilesAssumption, FS_Interval DEF Fd, Given
    <3> QED BY <3>1, FS_Subset, FS_CardinalityType, Zenon
  <2> HIDE DEF G
  <2>8. IsFiniteSet(D) /\ Cardinality(D) = Cardinality(G)
    <3>1. IsFiniteSet({c}) /\ Cardinality({c}) = 1
      BY FS_Singleton, Zenon
    <3>2. IsFiniteSet(D) /\ Cardinality(D) = 1 * Cardinality(G)
      BY <3>1, <2>7, FS_Product, Zenon
    <3> QED BY <3>2, <2>7
  <2> HIDE DEF D
  <2>9. Cardinality(Desc(f)') <= Cardinality(Desc(f)) + Cardinality(D)
    <3>1. /\ IsFiniteSet(Desc(f) \cup D)
          /\ Cardinality(Desc(f) \cup D) = Cardinality(Desc(f)) + Cardinality(D) - Cardinality(Desc(f) \cap D)
      BY <2>6, <2>8, FS_Union, Zenon
    <3>2. IsFiniteSet(Desc(f) \cap D)
      BY <2>6, FS_Intersection, Zenon
    <3>3. Cardinality(Desc(f)') <= Cardinality(Desc(f) \cup D)
      BY <3>1, <2>3, NoMore, Zenon
    <3>4. /\ Cardinality(Desc(f)) \in Nat /\ Cardinality(D) \in Nat /\ Cardinality(Desc(f) \cap D) \in Nat
          /\ Cardinality(Desc(f)') \in Nat
      BY <2>6, <2>8, <3>2, <1>3, FiniteRefsNext, FS_CardinalityType, Zenon
    <3> QED BY <3>1, <3>3, <3>4
  <2>10. /\ Cardinality(Cwds(f)') <= Cardinality(Cwds(f)) + 1
         /\ f # cwd[p] => Cardinality(Cwds(f)') <= Cardinality(Cwds(f))
    BY <2>4, <2>6, OneMore, NoMore, Zenon
  <2>11. Cardinality(Olds(f)') <= Cardinality(Olds(f))
    BY <2>5, <2>6, NoMore, Zenon
  <2> DEFINE d == Cardinality(Desc(f))
             d1 == Cardinality(Desc(f)')
             w == Cardinality(Cwds(f))
             w1 == Cardinality(Cwds(f)')
             o == Cardinality(Olds(f))
             o1 == Cardinality(Olds(f)')
  <2>12. /\ d \in Nat /\ d1 \in Nat /\ w \in Nat /\ w1 \in Nat /\ o \in Nat /\ o1 \in Nat
         /\ Refs(f) = d + w + o /\ Held'[f] = d1 + w1 + o1
    BY <1>2, <1>3, <1>4, FiniteRefs, FiniteRefsNext, Zenon
  <2>13. d1 <= d + Cardinality(G) /\ w1 <= w + 1 /\ (f # cwd[p] => w1 <= w) /\ o1 <= o
    BY <2>8, <2>9, <2>10, <2>11, Zenon
  <2> HIDE DEF d, d1, w, w1, o, o1
  <2>14. Held'[f] <= Refs(f) + Cardinality(G) + (IF f = cwd[p] THEN 1 ELSE 0)
    BY <2>7, <2>12, <2>13
  <2> QED BY <2>14, Zenon DEF G
<1> QED BY <1>1, <1>3, <1>4, <1>5, InheritCovers, Zenon

(* kclose_proc closes the entries of the table one after the other; each   *)
(* has its reference until its turn comes.                                 *)
Counts0 == [File -> Nat \cup {Dead}]

(* vfs_close leaves a count or frees. *)
LEMMA ClosedTyped ==
  ASSUME NEW r \in Counts0, NEW g \in File \cup {NoFile}
  PROVE  Closed(r, g) \in Counts0
<1> DEFINE v == IF r[g] = 1 THEN Dead ELSE IF r[g] = 0 THEN Huge ELSE r[g] - 1
<1>1. CASE g = NoFile \/ r[g] = Dead
  BY <1>1, Zenon DEF Closed
<1>2. CASE ~(g = NoFile \/ r[g] = Dead)
  <2>1. g \in File /\ r[g] \in Nat
    BY <1>2, Zenon DEF Counts0
  <2>2. v \in Nat \cup {Dead}
    BY <2>1 DEF Huge
  <2>3. Closed(r, g) = [r EXCEPT ![g] = v]
    BY <1>2, Zenon DEF Closed
  <2> HIDE DEF v
  <2> QED BY <2>1, <2>2, <2>3, Zenon DEF Counts0
<1> QED BY <1>1, <1>2, Zenon

(* kclose_proc closes the files of a process one after the other. *)
LEMMA ByExit ==
  ASSUME FilesInv, NEW p \in FProc, Exit(p)
  PROVE  FilesInv'
<1> SUFFICES ASSUME ~uncounted', ~stray' PROVE FTypes' /\ Enough(refcnt', Held')
  BY Zenon DEF FilesInv, Enough
<1> DEFINE done[k \in 0..MaxFd + 1] ==
             IF k = 0 THEN refcnt
             ELSE IF k <= nopen[p] THEN Closed(done[k - 1], fdt[p][k - 1])
             ELSE done[k - 1]
           G == [x \in Nat \X Counts0 |->
                   IF x[1] <= nopen[p] /\ x[1] - 1 \in Fd THEN Closed(x[2], fdt[p][x[1] - 1]) ELSE x[2]]
<1>1. /\ ~uncounted /\ ~stray /\ p \in running
      /\ running' = running \ {p}
      /\ fdt' = [fdt EXCEPT ![p] = Empty]
      /\ nopen' = [nopen EXCEPT ![p] = 0]
      /\ ids' = [ids EXCEPT ![p] = {}]
      /\ cwd' = [cwd EXCEPT ![p] = NoFile]
      /\ oldcwd' = [oldcwd EXCEPT ![p] = NoFile]
      /\ refcnt' = Closed(done[MaxFd + 1], cwd[p])
  BY Zenon DEF Exit
<1>2. /\ FTypes /\ Enough(refcnt, Held) /\ refcnt \in Counts0
      /\ \A f \in File : Held[f] = Refs(f) /\ Refs(f) \in Nat
  BY <1>1, Counts, Zenon DEF Counts0
<1>3. \A k \in Nat, r \in Counts0 :
        /\ G[<<k, r>>] = IF k <= nopen[p] /\ k - 1 \in Fd THEN Closed(r, fdt[p][k - 1]) ELSE r
        /\ k - 1 \in Fd => fdt[p][k - 1] \in File \cup {NoFile}
  BY <1>2, Zenon DEF FTypes
<1>4. G \in [Nat \X Counts0 -> Counts0]
  <2>1. ASSUME NEW x \in Nat \X Counts0
        PROVE  (IF x[1] <= nopen[p] /\ x[1] - 1 \in Fd THEN Closed(x[2], fdt[p][x[1] - 1]) ELSE x[2]) \in Counts0
    <3>1. x[1] \in Nat /\ x[2] \in Counts0
      BY <2>1, Zenon
    <3> QED BY <3>1, <1>3, ClosedTyped, Zenon
  <2> QED BY <2>1, Zenon
<1>5. MaxFd + 1 \in Nat /\ MaxFd \in Nat
  BY FilesAssumption
<1>6. PICK f \in [0..MaxFd + 1 -> Counts0] : Follows(f, MaxFd + 1, refcnt, G)
  <2> HIDE DEF G, done
  <2> QED BY <1>2, <1>4, <1>5, Iterates, Zenon
<1>7. f = [k \in 0..MaxFd + 1 |->
             IF k = 0 THEN refcnt
             ELSE IF k <= nopen[p] THEN Closed(f[k - 1], fdt[p][k - 1])
             ELSE f[k - 1]]
  <2> HIDE DEF G, done
  <2>1. \A k \in 0..MaxFd + 1 : k # 0 => k - 1 \in 0..MaxFd + 1 /\ k \in Nat /\ k \in 1..MaxFd + 1 /\ k - 1 \in Fd
    BY <1>5 DEF Fd
  <2>2. \A k \in 0..MaxFd + 1 : k # 0 =>
          G[<<k, f[k - 1]>>] = IF k <= nopen[p] THEN Closed(f[k - 1], fdt[p][k - 1]) ELSE f[k - 1]
    BY <2>1, <1>3, Zenon
  <2>3. \A k \in 0..MaxFd + 1 :
          f[k] = IF k = 0 THEN refcnt
                 ELSE IF k <= nopen[p] THEN Closed(f[k - 1], fdt[p][k - 1])
                 ELSE f[k - 1]
    BY <1>6, <2>1, <2>2, Zenon DEF Follows
  <2>4. DOMAIN f = 0..MaxFd + 1
    BY Zenon
  <2> QED BY <2>3, <2>4, Zenon
<1>8. done = [k \in 0..MaxFd + 1 |->
                IF k = 0 THEN refcnt
                ELSE IF k <= nopen[p] THEN Closed(done[k - 1], fdt[p][k - 1])
                ELSE done[k - 1]]
  <2> HIDE DEF G
  <2> QED BY <1>7, Zenon
<1> HIDE DEF done, G
<1> DEFINE Left(k, h) == {x \in Desc(h) : ~(x[1] = p /\ x[2] < k)}
           Rest(k) == [h \in File |-> Cardinality(Left(k, h)) + Cardinality(Cwds(h)) + Cardinality(Olds(h))]
           S == {k \in Nat : Enough(done[k], Rest(k))}
<1>9. ASSUME NEW h \in File
      PROVE  /\ IsFiniteSet(Desc(h))
             /\ Cardinality(Desc(h)) \in Nat /\ Cardinality(Cwds(h)) \in Nat /\ Cardinality(Olds(h)) \in Nat
             /\ Refs(h) = Cardinality(Desc(h)) + Cardinality(Cwds(h)) + Cardinality(Olds(h))
  BY <1>2, FiniteRefs, Zenon
<1>10. ASSUME NEW k, NEW h \in File
       PROVE  IsFiniteSet(Left(k, h)) /\ Cardinality(Left(k, h)) \in Nat
  <2>1. Left(k, h) \in SUBSET Desc(h)
    BY Zenon
  <2> HIDE DEF Left
  <2> QED BY <2>1, <1>9, FS_Subset, FS_CardinalityType, Zenon
<1>11. ASSUME NEW k
       PROVE  /\ Rest(k) \in [File -> Nat]
              /\ \A h \in File : Rest(k)[h] = Cardinality(Left(k, h)) + Cardinality(Cwds(h)) + Cardinality(Olds(h))
  <2> HIDE DEF Left
  <2>1. \A h \in File : Cardinality(Left(k, h)) + Cardinality(Cwds(h)) + Cardinality(Olds(h)) \in Nat
    BY <1>9, <1>10
  <2> QED BY <2>1, Zenon
<1>12. 0 \in S
  <2>1. done[0] = refcnt
    BY <1>5, <1>8
  <2>2. \A h \in File : Left(0, h) \subseteq Desc(h)
    BY Zenon
  <2>3. \A h \in File : Rest(0)[h] <= Held[h]
    <3> SUFFICES ASSUME NEW h \in File PROVE Rest(0)[h] <= Held[h]
      BY Zenon
    <3>1. Cardinality(Left(0, h)) <= Cardinality(Desc(h))
      BY <2>2, <1>9, NoMore, Zenon
    <3> HIDE DEF Left, Rest
    <3> QED BY <3>1, <1>2, <1>9, <1>10, <1>11
  <2>4. Rest(0) \in [File -> Nat]
    BY <1>11, Zenon
  <2> HIDE DEF Rest
  <2>5. Enough(refcnt, Rest(0))
    BY <2>3, <2>4, <1>2, FewerHeld, Zenon
  <2> QED BY <2>1, <2>5, Zenon
<1>13. ASSUME NEW k \in Nat, k \in S, k < MaxFd + 1 PROVE k + 1 \in S
  <2>1. k + 1 \in 0..MaxFd + 1 /\ k + 1 # 0 /\ (k + 1) - 1 = k /\ k + 1 \in Nat /\ k \in Fd
    BY <1>13, <1>5 DEF Fd
  <2>2. done[k + 1] = IF k + 1 <= nopen[p] THEN Closed(done[k], fdt[p][k]) ELSE done[k]
    BY <1>8, <2>1, Zenon
  <2>3. Enough(done[k], Rest(k))
    BY <1>13, Zenon
  <2>4. ASSUME NEW h \in File
        PROVE  /\ Rest(k + 1)[h] <= Rest(k)[h]
               /\ h = fdt[p][k] => Rest(k + 1)[h] + 1 <= Rest(k)[h]
    <3>1. \A x \in Desc(h) : x[1] \in running /\ x[2] \in Nat /\ x = <<x[1], x[2]>>
      BY DEF Desc, Fd
    <3>2. Left(k + 1, h) \subseteq Left(k, h) \ {<<p, k>>}
      BY <3>1, <2>1
    <3>3. h = fdt[p][k] => <<p, k>> \in Left(k, h)
      BY <2>1, <1>1 DEF Desc
    <3> HIDE DEF Left
    <3>4. Left(k + 1, h) \subseteq Left(k, h)
      BY <3>2, Zenon
    <3>5. Cardinality(Left(k + 1, h)) <= Cardinality(Left(k, h))
      BY <3>4, <1>10, NoMore, Zenon
    <3>6. h = fdt[p][k] => Cardinality(Left(k + 1, h)) + 1 <= Cardinality(Left(k, h))
      BY <3>2, <3>3, <1>10, OneLess, Zenon
    <3> HIDE DEF Rest
    <3> QED BY <3>5, <3>6, <1>9, <1>10, <1>11
  <2>5. Rest(k + 1) \in [File -> Nat]
    BY <1>11, Zenon
  <2> HIDE DEF Rest
  <2>6. fdt[p][k] \in File \cup {NoFile}
    BY <2>1, <1>2 DEF FTypes
  <2>7. Enough(Closed(done[k], fdt[p][k]), Rest(k + 1))
    BY <2>3, <2>4, <2>5, <2>6, CloseOne, Zenon
  <2>8. Enough(done[k], Rest(k + 1))
    BY <2>3, <2>4, <2>5, FewerHeld, Zenon
  <2> QED BY <2>1, <2>2, <2>7, <2>8, Zenon
<1>14. Enough(done[MaxFd + 1], Rest(MaxFd + 1))
  <2>1. MaxFd + 1 \in S
    <3> HIDE DEF S
    <3>1. \A k \in 0..MaxFd + 1 : k \in S
      BY <1>5, <1>12, <1>13, InductTo, Zenon
    <3> QED BY <3>1, <1>5
  <2> QED BY <2>1, Zenon
<1> HIDE DEF S
<1>15. FTypes'
  BY <1>1, <1>2 DEF FTypes, Empty
<1>16. Held' \in [File -> Nat] /\ \A h \in File : Held'[h] = Refs(h)'
  BY <1>15, HeldNext, Zenon
<1>17. ASSUME NEW h \in File
       PROVE  /\ Held'[h] <= Rest(MaxFd + 1)[h]
              /\ h = cwd[p] => Held'[h] + 1 <= Rest(MaxFd + 1)[h]
  <2>1. \A q \in running' : q \in running /\ q # p /\ fdt'[q] = fdt[q] /\ cwd'[q] = cwd[q] /\ oldcwd'[q] = oldcwd[q]
    BY <1>1, <1>2, Zenon DEF FTypes
  <2>2. Desc(h)' \subseteq Left(MaxFd + 1, h)
    BY <2>1, Zenon DEF Desc
  <2>3. Cwds(h)' \subseteq Cwds(h) /\ (h = cwd[p] => p \in Cwds(h) /\ Cwds(h)' \subseteq Cwds(h) \ {p})
    BY <2>1, <1>1, Zenon DEF Cwds
  <2>4. Olds(h)' \subseteq Olds(h)
    BY <2>1, Zenon DEF Olds
  <2> HIDE DEF Left
  <2>5. IsFiniteSet(Left(MaxFd + 1, h)) /\ IsFiniteSet(Cwds(h)) /\ IsFiniteSet(Olds(h))
    BY <1>2, <1>10, FiniteRefs, Zenon
  <2> DEFINE d == Cardinality(Left(MaxFd + 1, h))
             d1 == Cardinality(Desc(h)')
             w == Cardinality(Cwds(h))
             w1 == Cardinality(Cwds(h)')
             o == Cardinality(Olds(h))
             o1 == Cardinality(Olds(h)')
  <2>6. d1 <= d /\ w1 <= w /\ (h = cwd[p] => w1 + 1 <= w) /\ o1 <= o
    BY <2>2, <2>3, <2>4, <2>5, NoMore, OneLess, Zenon
  <2> HIDE DEF Rest
  <2>7. /\ d \in Nat /\ d1 \in Nat /\ w \in Nat /\ w1 \in Nat /\ o \in Nat /\ o1 \in Nat
        /\ Rest(MaxFd + 1)[h] = d + w + o /\ Held'[h] = d1 + w1 + o1
    BY <1>9, <1>10, <1>11, <1>15, <1>16, FiniteRefsNext, Zenon
  <2> HIDE DEF d, d1, w, w1, o, o1
  <2> QED BY <2>6, <2>7
<1> HIDE DEF Rest
<1>18. cwd[p] \in File \cup {NoFile}
  BY <1>2, Zenon DEF FTypes
<1>19. Enough(refcnt', Held')
  BY <1>1, <1>14, <1>16, <1>17, <1>18, CloseOne, Zenon
<1> QED BY <1>15, <1>19, Zenon

(* The invariant of the descriptors. *)
LEMMA FilesStart == FilesInit => FilesInv
<1> SUFFICES ASSUME FilesInit PROVE FTypes /\ Enough(refcnt, Held)
  BY Zenon DEF FilesInv
<1>1. PICK root \in File :
        /\ fdt = [p \in FProc |-> Empty]
        /\ nopen = [p \in FProc |-> 0]
        /\ ids = [p \in FProc |-> {}]
        /\ cwd = [p \in FProc |-> IF p = Shell THEN root ELSE NoFile]
        /\ oldcwd = [p \in FProc |-> NoFile]
        /\ running = {Shell}
        /\ refcnt = [f \in File |-> IF f = root THEN 1 ELSE Dead]
  BY Zenon DEF FilesInit
<1>2. FTypes
  BY <1>1, FilesAssumption DEF FTypes, Empty
<1>3. ASSUME NEW f \in File PROVE Refs(f) \in Nat /\ Refs(f) <= IF f = root THEN 1 ELSE 0
  <2>1. f # NoFile
    BY FilesAssumption, Zenon
  <2>2. Desc(f) = {}
    BY <2>1, <1>1, FilesAssumption, Zenon DEF Desc, Empty
  <2>3. Olds(f) = {}
    BY <2>1, <1>1, FilesAssumption, Zenon DEF Olds
  <2>4. Cwds(f) \subseteq {Shell} /\ (f # root => Cwds(f) = {})
    BY <2>1, <1>1, FilesAssumption, Zenon DEF Cwds
  <2>5. Cardinality({}) = 0 /\ Cardinality({Shell}) = 1 /\ IsFiniteSet({Shell})
    BY FS_EmptySet, FS_Singleton, Zenon
  <2>6. Cardinality(Cwds(f)) <= 1
    BY <2>4, <2>5, NoMore, Zenon
  <2>7. /\ Refs(f) = Cardinality(Desc(f)) + Cardinality(Cwds(f)) + Cardinality(Olds(f))
        /\ Cardinality(Cwds(f)) \in Nat
    BY <1>2, FiniteRefs, Zenon
  <2>8. /\ Cardinality(Desc(f)) = 0 /\ Cardinality(Olds(f)) = 0
        /\ f # root => Cardinality(Cwds(f)) = 0
    BY <2>2, <2>3, <2>4, <2>5, Zenon
  <2>9. Refs(f) = 0 + Cardinality(Cwds(f)) + 0
    BY <2>7, <2>8, Zenon
  <2> QED BY <2>6, <2>7, <2>8, <2>9
<1>4. Held \in [File -> Nat] /\ \A f \in File : Held[f] = Refs(f)
  BY <1>3, Zenon DEF Held
<1>5. refcnt \in [File -> Nat \cup {Dead}]
  BY <1>1, Zenon
<1>6. \A f \in File : Held[f] > 0 => refcnt[f] # Dead /\ refcnt[f] >= Held[f]
  BY <1>1, <1>3, <1>4 DEF Dead
<1> QED BY <1>2, <1>4, <1>5, <1>6, Zenon DEF Enough

(* Every step keeps the counts. *)
LEMMA FilesKeep == FilesInv /\ [FilesNext]_fileVars => FilesInv'
<1> SUFFICES ASSUME FilesInv, [FilesNext]_fileVars PROVE FilesInv'
  BY Zenon
<1>1. CASE UNCHANGED fileVars
  BY <1>1, Zenon DEF fileVars, FilesInv, FTypes, Enough, Held, Refs
<1>2. CASE FilesNext
  <2>1. ASSUME NEW p \in FProc, NEW f \in File, KopenFails(p, f) PROVE FilesInv'
    BY <2>1, Zenon DEF KopenFails, FilesInv
  <2>2. ASSUME NEW p \in FProc, NEW fd \in Fd, Kfchdir(p, fd) PROVE FilesInv'
    BY <2>2, Zenon DEF Kfchdir, FilesInv
  <2>3. ASSUME NEW p \in FProc, NEW old \in Fd, NEW new \in Fd, Kdup2(p, old, new) PROVE FilesInv'
    BY <2>3, Zenon DEF Kdup2, FilesInv
  <2>4. ASSUME NEW p \in FProc, Kaccept(p) PROVE FilesInv'
    BY <2>4, Zenon DEF Kaccept, FilesInv
  <2> QED BY <1>2, <2>1, <2>2, <2>3, <2>4, ByKopen, ByKclose, ByDupFd, BySpawn, ByCreateFails,
             ByKchdir, ByExit, Zenon DEF FilesNext
<1> QED BY <1>1, <1>2, Zenon

(* For any number of processes, files and descriptors: while no reference  *)
(* is made without counting it, f_refcnt is at least the number of         *)
(* descriptors and working directories that lead to the file, and a file   *)
(* that one of them leads to is not freed (vfs_close, kopen, kfcntl,       *)
(* kchdir, kcreate_process, kclose_proc).                                  *)
THEOREM AlwaysCounted == FilesSpec => []Counted
<1>1. FilesInit => FilesInv
  BY FilesStart, Zenon
<1>2. FilesInv /\ [FilesNext]_fileVars => FilesInv'
  BY FilesKeep, Zenon
<1>3. FilesInv => Counted
  BY Zenon DEF FilesInv, Enough, Held, Counted, Live
<1> QED BY <1>1, <1>2, <1>3, PTL DEF FilesSpec
=============================================================================
